------------------------ MODULE AlertDelivery_proofs ------------------------
(***************************************************************************)
(* Proofs about AlertDelivery for every set of alerts and routes, every    *)
(* finite set of workers and every bound: a message goes out at most once  *)
(* per claim, and an alert is settled once and honestly, whichever of the  *)
(* alerts cannot be read.                                                  *)
(*                                                                         *)
(* The argument counts: for every route, the messages taken, the passes    *)
(* that may still send one and the claim that may still be made, or made   *)
(* again after one that threw, are never more than one and the claims that *)
(* got too old after a pass was handed them (CountInv).                    *)
(***************************************************************************)
EXTENDS AlertDelivery, FiniteSetTheorems, TLAPS

TypeInv ==
    /\ status \in [Alerts -> {"none", "pending_notification", "delivering", "notified", "failed"}]
    /\ stale \in [Alerts -> BOOLEAN]
    /\ todo \in [Workers -> SUBSET Alerts] /\ cur \in [Workers -> Alerts \cup {NoAlert}]
    /\ left \in [Workers -> SUBSET Channels] /\ group \in [Workers -> SUBSET Alerts]
    /\ ok \in [Workers -> SUBSET Alerts]
    /\ place \in [Workers -> {"idle", "alerts", "digest"}]
    /\ accepted \in [Routes -> Nat] /\ lapses \in [Alerts -> Nat]
    /\ dropped \in SUBSET Alerts

\* What a pass holds at each of its places.
PassInv ==
    \A w \in Workers :
        /\ place[w] = "idle" => todo[w] = {} /\ group[w] = {} /\ ok[w] = {}
        /\ place[w] # "alerts" => cur[w] = NoAlert /\ todo[w] = {}
        /\ cur[w] \notin todo[w]
        /\ \A c \in left[w] : <<cur[w], c>> \in Immediate

Taken(a) == \E p \in Routes : p[1] = a /\ accepted[p] > 0

\* A delivered receipt, and a row that says notified, have their message.
ReceiptInv ==
    /\ \A w \in Workers : \A a \in ok[w] : Taken(a)
    /\ \A a \in Alerts : status[a] = "notified" => Taken(a)

\* Passes that may still send over the route p.
Pending(p) ==
    {w \in Workers :
        \/ p[1] \in todo[w]
        \/ p[2] = "digest" /\ place[w] = "alerts" /\ p[1] \in {cur[w]} \cup group[w]
        \/ p[2] # "digest" /\ cur[w] = p[1] /\ p[2] \in left[w]}

\* A claim may still be made, or the last one reached no pass.
Avail(a) ==
    IF status[a] = "none" \/ Claimable(a) \/ (status[a] = "delivering" /\ a \in dropped)
    THEN 1 ELSE 0

CountInv ==
    \A p \in Routes :
        /\ accepted[p] + Cardinality(Pending(p)) + Avail(p[1]) <= 1 + lapses[p[1]]
        /\ p \in Barred => accepted[p] = 0

IInv == TypeInv /\ PassInv /\ ReceiptInv /\ CountInv

\* Routes are pairs of an alert and a channel; the digest is not sent at once.
LEMMA RouteFacts ==
    /\ \A p \in Routes : p = <<p[1], p[2]>> /\ p[1] \in Alerts
    /\ \A a \in Alerts : <<a, "digest">> \in Routes
    /\ \A p \in Immediate : p \in Routes /\ p[2] # "digest" /\ p[2] \in Channels
BY ConstantsAssumption DEF Routes, Channels

\* What handing a message to an adapter does: nothing, or one message more on
\* every route that is not barred, with a receipt only for a message taken.
Delivered(w, routes, members) ==
    /\ accepted' \in [Routes -> Nat] /\ ok' \in [Workers -> SUBSET Alerts]
    /\ \A p \in Routes : \/ accepted'[p] = accepted[p]
                         \/ p \in routes /\ p \notin Barred /\ accepted'[p] = accepted[p] + 1
    /\ \/ ok' = ok
       \/ /\ ok' = [ok EXCEPT ![w] = ok[w] \cup members]
          /\ \A p \in routes : accepted'[p] > 0

\* deliverOne and deliverDigest do no more than Delivered says.
LEMMA DeliverFacts ==
    ASSUME TypeInv, NEW w \in Workers, NEW routes \in SUBSET Routes,
           NEW members \in SUBSET Alerts, Deliver(w, routes, members)
    PROVE  Delivered(w, routes, members)
<1>1. CASE routes \cap Barred # {}
  BY <1>1 DEF Deliver, Delivered, TypeInv
<1>2. CASE routes \cap Barred = {}
  <2>1. PICK taken \in BOOLEAN, told \in BOOLEAN :
            /\ told => taken
            /\ accepted' = [p \in Routes |-> IF p \in routes /\ taken THEN accepted[p] + 1 ELSE accepted[p]]
            /\ ok' = IF told THEN [ok EXCEPT ![w] = @ \cup members] ELSE ok
    BY <1>2 DEF Deliver
  <2>2. accepted' \in [Routes -> Nat] /\ ok' \in [Workers -> SUBSET Alerts]
    BY <2>1 DEF TypeInv
  <2>3. \A p \in Routes : accepted[p] \in Nat
    BY DEF TypeInv
  <2> QED
    BY <1>2, <2>1, <2>2, <2>3 DEF Delivered
<1> QED
  BY <1>1, <1>2

\* The same of the two places that hand messages over.
LEMMA SendFacts ==
    ASSUME TypeInv, PassInv, NEW w \in Workers, NEW c \in Channels, Send(w, c)
    PROVE  /\ <<cur[w], c>> \in Immediate /\ cur[w] \in Alerts
           /\ {<<cur[w], c>>} \in SUBSET Routes
           /\ Delivered(w, {<<cur[w], c>>}, {cur[w]})
           /\ place[w] = "alerts"
<1>1. /\ <<cur[w], c>> \in Immediate /\ cur[w] \in Alerts
      /\ {<<cur[w], c>>} \in SUBSET Routes
      /\ Deliver(w, {<<cur[w], c>>}, {cur[w]}) /\ {cur[w]} \in SUBSET Alerts
      /\ place[w] = "alerts"
  BY ConstantsAssumption, RouteFacts DEF Send, TypeInv, PassInv
<1> QED
  BY <1>1, DeliverFacts

\* The digest goes over routes of this agent's alerts.
LEMMA DigestFacts ==
    ASSUME TypeInv, NEW w \in Workers, Digest(w)
    PROVE  /\ group[w] \X {"digest"} \in SUBSET Routes
           /\ Delivered(w, group[w] \X {"digest"}, group[w])
<1>1. group[w] \in SUBSET Alerts
  BY DEF TypeInv
<1>2. group[w] \X {"digest"} \in SUBSET Routes
  BY <1>1 DEF Routes
<1>3. Deliver(w, group[w] \X {"digest"}, group[w])
  BY DEF Digest
<1> QED
  BY <1>1, <1>2, <1>3, DeliverFacts

\* Every action keeps the types.
LEMMA TypeStep ==
    ASSUME TypeInv, PassInv, [Next]_vars
    PROVE  TypeInv'
<1> USE ConstantsAssumption, RouteFacts DEF rows, pass
<1>1. ASSUME NEW a \in Alerts, Fire(a)
      PROVE  TypeInv'
  BY <1>1 DEF Fire, TypeInv
<1>2. ASSUME NEW w \in Workers, NEW B \in SUBSET Alerts, Claim(w, B) \/ ClaimThrows(w, B)
      PROVE  TypeInv'
  <2>1. /\ status' \in [Alerts -> {"none", "pending_notification", "delivering", "notified", "failed"}]
        /\ UNCHANGED <<cur, left, group, ok, accepted, lapses>>
    BY <1>2 DEF Claim, ClaimThrows, ClaimRows, TypeInv
  <2>2. stale' \in [Alerts -> BOOLEAN]
    <3>1. stale' = [a \in Alerts |-> stale[a] /\ a \notin B]
      BY <1>2 DEF Claim, ClaimThrows, ClaimRows
    <3>2. \A a \in Alerts : (stale[a] /\ a \notin B) \in BOOLEAN
      BY DEF TypeInv
    <3> QED
      BY <3>1, <3>2
  <2>3. /\ todo' \in [Workers -> SUBSET Alerts] /\ place' \in [Workers -> {"idle", "alerts", "digest"}]
        /\ dropped' \in SUBSET Alerts
    BY <1>2 DEF Claim, ClaimThrows, TypeInv
  <2> QED
    BY <2>1, <2>2, <2>3 DEF TypeInv
<1>3. ASSUME NEW w \in Workers, NEW a \in Alerts, Take(w, a)
      PROVE  TypeInv'
  BY <1>3 DEF Take, TypeInv
<1>4. ASSUME NEW w \in Workers, NEW c \in Channels, Send(w, c)
      PROVE  TypeInv'
  <2>1. accepted' \in [Routes -> Nat] /\ ok' \in [Workers -> SUBSET Alerts]
    BY <1>4, SendFacts DEF Delivered
  <2> QED
    BY <1>4, <2>1 DEF Send, TypeInv
<1>5. ASSUME NEW w \in Workers, Digest(w)
      PROVE  TypeInv'
  <2>1. accepted' \in [Routes -> Nat] /\ ok' \in [Workers -> SUBSET Alerts]
    BY <1>5, DigestFacts DEF Delivered
  <2> QED
    BY <1>5, <2>1 DEF Digest, TypeInv
<1>6. ASSUME NEW w \in Workers, Finish(w)
      PROVE  TypeInv'
  <2>1. cur' \in [Workers -> Alerts \cup {NoAlert}] /\ cur[w] \in Alerts
    BY <1>6 DEF Finish, TypeInv
  <2>2. CASE cur[w] \in Digested
    BY <1>6, <2>1, <2>2 DEF Finish, TypeInv
  <2>3. CASE cur[w] \notin Digested
    <3>1. status' \in [Alerts -> {"none", "pending_notification", "delivering", "notified", "failed"}]
      BY <1>6, <2>1, <2>3 DEF Finish, Update, TypeInv
    <3>2. stale' \in [Alerts -> BOOLEAN]
      <4>1. stale' = IF StillDelivering(cur[w]) THEN [stale EXCEPT ![cur[w]] = FALSE] ELSE stale
        BY <1>6, <2>3 DEF Finish, Update
      <4> QED
        BY <2>1, <4>1 DEF TypeInv
    <3> QED
      BY <1>6, <2>1, <2>3, <3>1, <3>2 DEF Finish, TypeInv
  <2> QED
    BY <2>2, <2>3
<1>7. ASSUME NEW w \in Workers, NEW a \in Alerts, FinishDigest(w, a)
      PROVE  TypeInv'
  BY <1>7 DEF FinishDigest, Update, StillDelivering, TypeInv
<1>8. ASSUME NEW w \in Workers, Return(w) \/ Crash(w)
      PROVE  TypeInv'
  BY <1>8 DEF Return, Crash, Forget, TypeInv
<1>9. ASSUME NEW a \in Alerts, Lapse(a)
      PROVE  TypeInv'
  BY <1>9 DEF Lapse, TypeInv
<1>10. CASE UNCHANGED vars
  BY <1>10 DEF vars, TypeInv
<1> QED
  BY <1>1, <1>2, <1>3, <1>4, <1>5, <1>6, <1>7, <1>8, <1>9, <1>10 DEF Next, Claims, Step

\* A pass goes from its alerts to the digest and forgets both at its end.
LEMMA PassStep ==
    ASSUME TypeInv, PassInv, [Next]_vars
    PROVE  PassInv'
<1> USE ConstantsAssumption, RouteFacts DEF rows, pass
<1>1. ASSUME NEW a \in Alerts, Fire(a)
      PROVE  PassInv'
  BY <1>1 DEF Fire, TypeInv, PassInv
<1>2. ASSUME NEW w \in Workers, NEW B \in SUBSET Alerts, Claim(w, B) \/ ClaimThrows(w, B)
      PROVE  PassInv'
  BY <1>2 DEF Claim, ClaimThrows, ClaimRows, TypeInv, PassInv
<1>3. ASSUME NEW w \in Workers, NEW a \in Alerts, Take(w, a)
      PROVE  PassInv'
  BY <1>3 DEF Take, TypeInv, PassInv
<1>4. ASSUME NEW w \in Workers, NEW c \in Channels, Send(w, c)
      PROVE  PassInv'
  <2>1. \A v \in Workers : v # w => ok'[v] = ok[v]
    <3>1. Delivered(w, {<<cur[w], c>>}, {cur[w]})
      BY <1>4, SendFacts
    <3> QED
      BY <3>1 DEF Delivered, TypeInv
  <2>2. place[w] = "alerts" /\ cur[w] \in Alerts
    BY <1>4, SendFacts DEF Delivered
  <2> QED
    BY <1>4, <2>1, <2>2 DEF Send, TypeInv, PassInv
<1>5. ASSUME NEW w \in Workers, Digest(w)
      PROVE  PassInv'
  BY <1>5 DEF Digest, Deliver, TypeInv, PassInv
<1>6. ASSUME NEW w \in Workers, Finish(w)
      PROVE  PassInv'
  BY <1>6 DEF Finish, Update, StillDelivering, TypeInv, PassInv
<1>7. ASSUME NEW w \in Workers, NEW a \in Alerts, FinishDigest(w, a)
      PROVE  PassInv'
  BY <1>7 DEF FinishDigest, Update, StillDelivering, TypeInv, PassInv
<1>8. ASSUME NEW w \in Workers, Return(w) \/ Crash(w)
      PROVE  PassInv'
  BY <1>8 DEF Return, Crash, Forget, TypeInv, PassInv
<1>9. ASSUME NEW a \in Alerts, Lapse(a)
      PROVE  PassInv'
  BY <1>9 DEF Lapse, TypeInv, PassInv
<1>10. CASE UNCHANGED vars
  BY <1>10 DEF vars, TypeInv, PassInv
<1> QED
  BY <1>1, <1>2, <1>3, <1>4, <1>5, <1>6, <1>7, <1>8, <1>9, <1>10 DEF Next, Claims, Step

\* Receipts and rows never say more than the providers took.
LEMMA ReceiptStep ==
    ASSUME TypeInv, PassInv, ReceiptInv, [Next]_vars
    PROVE  ReceiptInv'
<1> USE ConstantsAssumption, RouteFacts DEF rows, pass
<1>1. ASSUME NEW a \in Alerts, Fire(a)
      PROVE  ReceiptInv'
  BY <1>1 DEF Fire, TypeInv, ReceiptInv, Taken
<1>2. ASSUME NEW w \in Workers, NEW B \in SUBSET Alerts, Claim(w, B) \/ ClaimThrows(w, B)
      PROVE  ReceiptInv'
  BY <1>2 DEF Claim, ClaimThrows, ClaimRows, TypeInv, ReceiptInv, Taken
<1>3. ASSUME NEW w \in Workers, NEW a \in Alerts, Take(w, a)
      PROVE  ReceiptInv'
  BY <1>3 DEF Take, TypeInv, ReceiptInv, Taken
<1>4. ASSUME NEW w \in Workers, NEW c \in Channels, Send(w, c)
      PROVE  ReceiptInv'
  <2> DEFINE p == <<cur[w], c>>
  <2>1. Delivered(w, {p}, {cur[w]}) /\ p \in Routes /\ cur[w] \in Alerts
    BY <1>4, SendFacts
  <2>2. \A b \in Alerts : Taken(b) => Taken(b)'
    BY <2>1 DEF Delivered, Taken, TypeInv
  <2>3. ok' = ok \/ (ok' = [ok EXCEPT ![w] = ok[w] \cup {cur[w]}] /\ accepted'[p] > 0)
    BY <2>1 DEF Delivered
  <2>4. ASSUME NEW b \in Alerts, b = cur[w], accepted'[p] > 0
        PROVE  Taken(b)'
    BY <2>1, <2>4 DEF Taken
  <2> HIDE DEF p
  <2>5. status' = status
    BY <1>4 DEF Send
  <2> QED
    BY <2>1, <2>2, <2>3, <2>4, <2>5 DEF TypeInv, ReceiptInv
<1>5. ASSUME NEW w \in Workers, Digest(w)
      PROVE  ReceiptInv'
  <2>1. Delivered(w, group[w] \X {"digest"}, group[w]) /\ group[w] \in SUBSET Alerts
    BY <1>5, DigestFacts DEF TypeInv
  <2>2. \A b \in Alerts : Taken(b) => Taken(b)'
    BY <2>1 DEF Delivered, Taken, TypeInv
  <2>3. ASSUME NEW b \in group[w], ok' # ok
        PROVE  Taken(b)'
    <3>1. <<b, "digest">> \in Routes /\ <<b, "digest">> \in group[w] \X {"digest"}
      BY <2>1
    <3>2. accepted'[<<b, "digest">>] > 0
      BY <2>1, <2>3, <3>1 DEF Delivered
    <3> QED
      BY <3>1, <3>2 DEF Taken
  <2>4. ok' = ok \/ ok' = [ok EXCEPT ![w] = ok[w] \cup group[w]]
    BY <2>1 DEF Delivered
  <2>5. status' = status
    BY <1>5 DEF Digest
  <2> QED
    BY <2>1, <2>2, <2>3, <2>4, <2>5 DEF TypeInv, ReceiptInv
<1>6. ASSUME NEW w \in Workers, Finish(w)
      PROVE  ReceiptInv'
  BY <1>6 DEF Finish, Update, StillDelivering, TypeInv, ReceiptInv, Taken
<1>7. ASSUME NEW w \in Workers, NEW a \in Alerts, FinishDigest(w, a)
      PROVE  ReceiptInv'
  BY <1>7 DEF FinishDigest, Update, StillDelivering, TypeInv, ReceiptInv, Taken
<1>8. ASSUME NEW w \in Workers, Return(w) \/ Crash(w)
      PROVE  ReceiptInv'
  BY <1>8 DEF Return, Crash, Forget, TypeInv, ReceiptInv, Taken
<1>9. ASSUME NEW a \in Alerts, Lapse(a)
      PROVE  ReceiptInv'
  BY <1>9 DEF Lapse, TypeInv, ReceiptInv, Taken
<1>10. CASE UNCHANGED vars
  BY <1>10 DEF vars, TypeInv, ReceiptInv, Taken
<1> QED
  BY <1>1, <1>2, <1>3, <1>4, <1>5, <1>6, <1>7, <1>8, <1>9, <1>10 DEF Next, Claims, Step

\* The passes that may still send over a route can be counted.
LEMMA PendingFinite ==
    \A p : IsFiniteSet(Pending(p)) /\ Cardinality(Pending(p)) \in Nat
<1>1. \A p : Pending(p) \subseteq Workers
  BY DEF Pending
<1>2. \A p : IsFiniteSet(Pending(p))
  BY <1>1, FS_Subset, ConstantsAssumption
<1> QED
  BY <1>2, FS_CardinalityType

\* Counting a subset, a set with one element more and one with one less.
LEMMA Counting ==
    ASSUME NEW S, NEW R, IsFiniteSet(S), IsFiniteSet(R)
    PROVE  /\ Cardinality(S) \in Nat /\ Cardinality(R) \in Nat
           /\ S \subseteq R => Cardinality(S) <= Cardinality(R)
           /\ \A w : S \subseteq R \cup {w} => Cardinality(S) <= Cardinality(R) + 1
           /\ \A w \in R : S \subseteq R \ {w} => Cardinality(S) + 1 <= Cardinality(R)
<1>1. Cardinality(S) \in Nat /\ Cardinality(R) \in Nat
  BY FS_CardinalityType
<1>2. S \subseteq R => Cardinality(S) <= Cardinality(R)
  BY FS_Subset
<1>3. ASSUME NEW w, S \subseteq R \cup {w}
      PROVE  Cardinality(S) <= Cardinality(R) + 1
  <2>1. IsFiniteSet(R \cup {w}) /\ Cardinality(R \cup {w}) <= Cardinality(R) + 1
    BY <1>1, FS_AddElement
  <2>2. Cardinality(S) <= Cardinality(R \cup {w})
    BY <1>3, <2>1, FS_Subset
  <2> QED
    BY <1>1, <2>1, <2>2, FS_CardinalityType
<1>4. ASSUME NEW w \in R, S \subseteq R \ {w}
      PROVE  Cardinality(S) + 1 <= Cardinality(R)
  <2>1. IsFiniteSet(R \ {w}) /\ Cardinality(R \ {w}) = Cardinality(R) - 1
    BY FS_RemoveElement
  <2>2. Cardinality(S) <= Cardinality(R \ {w})
    BY <1>4, <2>1, FS_Subset
  <2> QED
    BY <1>1, <2>1, <2>2
<1> QED
  BY <1>1, <1>2, <1>3, <1>4

\* A step that sends nothing and adds neither a sender nor a claim.
LEMMA NoMore ==
    ASSUME TypeInv, CountInv, accepted' = accepted,
           \A p \in Routes : Pending(p)' \subseteq Pending(p),
           \A b \in Alerts : Avail(b)' <= Avail(b) /\ lapses'[b] = lapses[b]
    PROVE  CountInv'
<1>1. ASSUME NEW p \in Routes
      PROVE  /\ accepted'[p] + Cardinality(Pending(p)') + Avail(p[1])' <= 1 + lapses'[p[1]]
             /\ p \in Barred => accepted'[p] = 0
  <2>1. p[1] \in Alerts
    BY RouteFacts
  <2>2. Cardinality(Pending(p)') <= Cardinality(Pending(p)) /\ Cardinality(Pending(p)) \in Nat
        /\ Cardinality(Pending(p)') \in Nat
    BY PendingFinite, Counting, FS_Subset
  <2>3. Avail(p[1]) \in {0, 1} /\ Avail(p[1])' \in {0, 1}
    BY DEF Avail
  <2>4. accepted[p] \in Nat /\ lapses[p[1]] \in Nat
    BY <2>1 DEF TypeInv
  <2>5. accepted[p] + Cardinality(Pending(p)) + Avail(p[1]) <= 1 + lapses[p[1]]
    BY DEF CountInv
  <2>6. p \in Barred => accepted[p] = 0
    BY DEF CountInv
  <2> QED
    BY <2>1, <2>2, <2>3, <2>4, <2>5, <2>6
<1> QED
  BY <1>1 DEF CountInv

\* A step in which the pass w uses up what it could send over some routes.
LEMMA OneLess ==
    ASSUME TypeInv, CountInv, NEW w \in Workers, NEW routes \in SUBSET Routes,
           accepted' \in [Routes -> Nat], lapses' = lapses,
           \A p \in Routes : \/ accepted'[p] = accepted[p]
                             \/ p \in routes /\ p \notin Barred /\ accepted'[p] = accepted[p] + 1,
           \A p \in Routes : Pending(p)' \subseteq Pending(p),
           \A p \in routes : w \in Pending(p) /\ w \notin Pending(p)',
           \A b \in Alerts : Avail(b)' = Avail(b)
    PROVE  CountInv'
<1>1. ASSUME NEW p \in Routes
      PROVE  /\ accepted'[p] + Cardinality(Pending(p)') + Avail(p[1])' <= 1 + lapses'[p[1]]
             /\ p \in Barred => accepted'[p] = 0
  <2>1. p[1] \in Alerts /\ accepted[p] \in Nat /\ accepted'[p] \in Nat /\ lapses[p[1]] \in Nat
    BY RouteFacts DEF TypeInv
  <2>2. IsFiniteSet(Pending(p)) /\ IsFiniteSet(Pending(p)')
    BY PendingFinite, FS_Subset
  <2>3. /\ Cardinality(Pending(p)) \in Nat /\ Cardinality(Pending(p)') \in Nat
        /\ Cardinality(Pending(p)') <= Cardinality(Pending(p))
        /\ p \in routes => Cardinality(Pending(p)') + 1 <= Cardinality(Pending(p))
    <3>1. p \in routes => Pending(p)' \subseteq Pending(p) \ {w} /\ w \in Pending(p)
      OBVIOUS
    <3> QED
      BY <2>2, <3>1, Counting
  <2>4. Avail(p[1]) \in {0, 1}
    BY DEF Avail
  <2>5. /\ accepted[p] + Cardinality(Pending(p)) + Avail(p[1]) <= 1 + lapses[p[1]]
        /\ p \in Barred => accepted[p] = 0
    BY DEF CountInv
  <2>6. \/ accepted'[p] = accepted[p]
        \/ p \in routes /\ p \notin Barred /\ accepted'[p] = accepted[p] + 1
    OBVIOUS
  <2>7. Avail(p[1])' = Avail(p[1]) /\ lapses'[p[1]] = lapses[p[1]]
    BY <2>1
  <2> QED
    BY <2>1, <2>3, <2>4, <2>5, <2>6, <2>7
<1> QED
  BY <1>1 DEF CountInv

\* No step makes more messages possible than the claims allow.
LEMMA CountStep ==
    ASSUME TypeInv, PassInv, CountInv, [Next]_vars
    PROVE  CountInv'
<1> USE ConstantsAssumption, RouteFacts, PendingFinite DEF rows, pass
<1>1. ASSUME NEW a \in Alerts, Fire(a)
      PROVE  CountInv'
  <2>1. ASSUME NEW p \in Routes
        PROVE  Pending(p)' \subseteq Pending(p)
    BY <1>1 DEF Fire, Pending, TypeInv, PassInv
  <2>2. ASSUME NEW b \in Alerts
        PROVE  Avail(b)' <= Avail(b) /\ lapses'[b] = lapses[b]
    BY <1>1 DEF Fire, Avail, Claimable, TypeInv
  <2>3. accepted' = accepted
    BY <1>1 DEF Fire
  <2> QED
    BY <2>1, <2>2, <2>3, NoMore
<1>2. ASSUME NEW w \in Workers, NEW B \in SUBSET Alerts, Claim(w, B)
      PROVE  CountInv'
  <2>1. ASSUME NEW p \in Routes
        PROVE  /\ Pending(p)' \subseteq Pending(p) \cup {w}
               /\ p[1] \notin B => Pending(p)' \subseteq Pending(p)
    BY <1>2 DEF Claim, ClaimRows, Pending, TypeInv, PassInv
  <2>2. ASSUME NEW b \in Alerts
        PROVE  /\ b \in B => Avail(b) = 1 /\ Avail(b)' = 0
               /\ b \notin B => Avail(b)' = Avail(b)
    BY <1>2 DEF Claim, ClaimRows, Avail, Claimable, TypeInv
  <2>3. accepted' = accepted /\ lapses' = lapses
    BY <1>2 DEF Claim, ClaimRows
  <2>4. ASSUME NEW p \in Routes
        PROVE  /\ accepted'[p] + Cardinality(Pending(p)') + Avail(p[1])' <= 1 + lapses'[p[1]]
               /\ p \in Barred => accepted'[p] = 0
    <3>1. p[1] \in Alerts /\ accepted[p] \in Nat /\ lapses[p[1]] \in Nat
      BY DEF TypeInv
    <3>2. Avail(p[1]) \in {0, 1}
      BY DEF Avail
    <3>3. IsFiniteSet(Pending(p)) /\ IsFiniteSet(Pending(p) \cup {w}) /\ IsFiniteSet(Pending(p)')
      BY <2>1, FS_AddElement, FS_Subset
    <3>4. /\ Cardinality(Pending(p)) \in Nat /\ Cardinality(Pending(p)') \in Nat
          /\ Cardinality(Pending(p)') <= Cardinality(Pending(p)) + 1
          /\ p[1] \notin B => Cardinality(Pending(p)') <= Cardinality(Pending(p))
      BY <2>1, <3>3, Counting
    <3>5. /\ accepted[p] + Cardinality(Pending(p)) + Avail(p[1]) <= 1 + lapses[p[1]]
          /\ p \in Barred => accepted[p] = 0
      BY DEF CountInv
    <3> QED
      BY <2>2, <2>3, <3>1, <3>2, <3>4, <3>5
  <2> QED
    BY <2>4 DEF CountInv
<1>3. ASSUME NEW w \in Workers, NEW a \in Alerts, Take(w, a)
      PROVE  CountInv'
  <2>1. ASSUME NEW p \in Routes
        PROVE  Pending(p)' \subseteq Pending(p)
    BY <1>3 DEF Take, Pending, TypeInv, PassInv
  <2>2. ASSUME NEW b \in Alerts
        PROVE  Avail(b)' <= Avail(b) /\ lapses'[b] = lapses[b]
    BY <1>3 DEF Take, Avail, Claimable, TypeInv
  <2>3. accepted' = accepted
    BY <1>3 DEF Take
  <2> QED
    BY <2>1, <2>2, <2>3, NoMore
<1>4. ASSUME NEW w \in Workers, NEW c \in Channels, Send(w, c)
      PROVE  CountInv'
  <2> DEFINE routes == {<<cur[w], c>>}
  <2>1. /\ accepted' \in [Routes -> Nat] /\ routes \in SUBSET Routes
        /\ \A p \in Routes : \/ accepted'[p] = accepted[p]
                             \/ p \in routes /\ p \notin Barred /\ accepted'[p] = accepted[p] + 1
    BY <1>4, SendFacts DEF Delivered
  <2>2. /\ left' = [left EXCEPT ![w] = left[w] \ {c}] /\ c \in left[w]
        /\ lapses' = lapses /\ UNCHANGED <<todo, cur, group, place, status, stale, dropped>>
    BY <1>4 DEF Send
  <2>3. \A p \in Routes : Pending(p)' \subseteq Pending(p)
    BY <2>2 DEF Pending, TypeInv
  <2>4. c # "digest" /\ cur[w] \notin todo[w]
    BY <1>4, SendFacts DEF Delivered, PassInv
  <2>5. ASSUME NEW p \in routes
        PROVE  w \in Pending(p) /\ w \notin Pending(p)'
    <3>1. p[1] = cur[w] /\ p[2] = c
      OBVIOUS
    <3>2. c \notin left'[w] /\ todo'[w] = todo[w] /\ cur'[w] = cur[w]
      BY <2>2 DEF TypeInv
    <3> QED
      BY <2>2, <2>4, <3>1, <3>2 DEF Pending
  <2>6. \A b \in Alerts : Avail(b)' = Avail(b)
    BY <2>2 DEF Avail, Claimable
  <2> HIDE DEF routes
  <2> QED
    BY <2>1, <2>2, <2>3, <2>5, <2>6, OneLess
<1>5. ASSUME NEW w \in Workers, Digest(w)
      PROVE  CountInv'
  <2> DEFINE routes == group[w] \X {"digest"}
  <2>1. /\ accepted' \in [Routes -> Nat] /\ routes \in SUBSET Routes
        /\ \A p \in Routes : \/ accepted'[p] = accepted[p]
                             \/ p \in routes /\ p \notin Barred /\ accepted'[p] = accepted[p] + 1
    BY <1>5, DigestFacts DEF Delivered
  <2>2. /\ place' = [place EXCEPT ![w] = "digest"] /\ place[w] = "alerts" /\ todo[w] = {}
        /\ lapses' = lapses /\ UNCHANGED <<todo, cur, left, group, status, stale, dropped>>
    BY <1>5 DEF Digest
  <2>3. \A p \in Routes : Pending(p)' \subseteq Pending(p)
    BY <2>2 DEF Pending, TypeInv
  <2>4. ASSUME NEW p \in routes
        PROVE  w \in Pending(p) /\ w \notin Pending(p)'
    <3>1. p[1] \in group[w] /\ p[2] = "digest"
      OBVIOUS
    <3>2. place'[w] = "digest"
      BY <2>2 DEF TypeInv
    <3> QED
      BY <2>2, <3>1, <3>2 DEF Pending
  <2>5. \A b \in Alerts : Avail(b)' = Avail(b)
    BY <2>2 DEF Avail, Claimable
  <2> HIDE DEF routes
  <2> QED
    BY <2>1, <2>2, <2>3, <2>4, <2>5, OneLess
<1>6. ASSUME NEW w \in Workers, Finish(w)
      PROVE  CountInv'
  <2>1. ASSUME NEW p \in Routes
        PROVE  Pending(p)' \subseteq Pending(p)
    BY <1>6 DEF Finish, Update, StillDelivering, Pending, TypeInv, PassInv
  <2>2. ASSUME NEW b \in Alerts
        PROVE  Avail(b)' <= Avail(b) /\ lapses'[b] = lapses[b]
    BY <1>6 DEF Finish, Update, StillDelivering, Avail, Claimable, TypeInv
  <2>3. accepted' = accepted
    BY <1>6 DEF Finish, Update, StillDelivering
  <2> QED
    BY <2>1, <2>2, <2>3, NoMore
<1>7. ASSUME NEW w \in Workers, NEW a \in Alerts, FinishDigest(w, a)
      PROVE  CountInv'
  <2>1. ASSUME NEW p \in Routes
        PROVE  Pending(p)' \subseteq Pending(p)
    BY <1>7 DEF FinishDigest, Update, StillDelivering, Pending, TypeInv, PassInv
  <2>2. ASSUME NEW b \in Alerts
        PROVE  Avail(b)' <= Avail(b) /\ lapses'[b] = lapses[b]
    BY <1>7 DEF FinishDigest, Update, StillDelivering, Avail, Claimable, TypeInv
  <2>3. accepted' = accepted
    BY <1>7 DEF FinishDigest, Update, StillDelivering
  <2> QED
    BY <2>1, <2>2, <2>3, NoMore
<1>8. ASSUME NEW w \in Workers, Return(w) \/ Crash(w)
      PROVE  CountInv'
  <2>1. ASSUME NEW p \in Routes
        PROVE  Pending(p)' \subseteq Pending(p)
    BY <1>8 DEF Return, Crash, Forget, Pending, TypeInv, PassInv
  <2>2. ASSUME NEW b \in Alerts
        PROVE  Avail(b)' <= Avail(b) /\ lapses'[b] = lapses[b]
    BY <1>8 DEF Return, Crash, Forget, Avail, Claimable, TypeInv
  <2>3. accepted' = accepted
    BY <1>8 DEF Return, Crash, Forget
  <2> QED
    BY <2>1, <2>2, <2>3, NoMore
<1>9. ASSUME NEW a \in Alerts, Lapse(a)
      PROVE  CountInv'
  <2>1. ASSUME NEW p \in Routes
        PROVE  Pending(p)' = Pending(p)
    BY <1>9 DEF Lapse, Pending
  <2>2. ASSUME NEW b \in Alerts
        PROVE  \/ Avail(b)' = Avail(b) /\ lapses'[b] = lapses[b]
               \/ Avail(b)' = 1 /\ Avail(b) = 0 /\ lapses'[b] = lapses[b] + 1
    BY <1>9 DEF Lapse, Avail, Claimable, TypeInv
  <2>3. ASSUME NEW p \in Routes
        PROVE  /\ accepted'[p] + Cardinality(Pending(p)') + Avail(p[1])' <= 1 + lapses'[p[1]]
               /\ p \in Barred => accepted'[p] = 0
    <3>1. p[1] \in Alerts /\ accepted[p] \in Nat /\ lapses[p[1]] \in Nat /\ accepted' = accepted
      BY <1>9 DEF Lapse, TypeInv
    <3>2. Avail(p[1]) \in {0, 1} /\ Cardinality(Pending(p)) \in Nat
      BY DEF Avail
    <3>3. /\ accepted[p] + Cardinality(Pending(p)) + Avail(p[1]) <= 1 + lapses[p[1]]
          /\ p \in Barred => accepted[p] = 0
      BY DEF CountInv
    <3> QED
      BY <2>1, <2>2, <3>1, <3>2, <3>3
  <2> QED
    BY <2>3 DEF CountInv
<1>10. CASE UNCHANGED vars
  <2>1. ASSUME NEW p \in Routes
        PROVE  Pending(p)' \subseteq Pending(p)
    BY <1>10 DEF vars, Pending, TypeInv, PassInv
  <2>2. ASSUME NEW b \in Alerts
        PROVE  Avail(b)' <= Avail(b) /\ lapses'[b] = lapses[b]
    BY <1>10 DEF vars, Avail, Claimable, TypeInv
  <2>3. accepted' = accepted
    BY <1>10 DEF vars
  <2> QED
    BY <2>1, <2>2, <2>3, NoMore
<1>11. ASSUME NEW w \in Workers, NEW B \in SUBSET Alerts, ClaimThrows(w, B)
       PROVE  CountInv'
  <2>1. ASSUME NEW p \in Routes
        PROVE  Pending(p)' \subseteq Pending(p)
    BY <1>11 DEF ClaimThrows, ClaimRows, Pending
  <2>2. ASSUME NEW b \in Alerts
        PROVE  Avail(b)' <= Avail(b) /\ lapses'[b] = lapses[b]
    BY <1>11 DEF ClaimThrows, ClaimRows, Avail, Claimable, TypeInv
  <2>3. accepted' = accepted
    BY <1>11 DEF ClaimThrows, ClaimRows
  <2> QED
    BY <2>1, <2>2, <2>3, NoMore
<1> QED
  BY <1>1, <1>2, <1>3, <1>4, <1>5, <1>6, <1>7, <1>8, <1>9, <1>10, <1>11 DEF Next, Claims, Step

\* The four parts together are inductive.
LEMMA IInvariance == FairSpec => []IInv
<1>1. Init => IInv
  <2>1. Init => TypeInv /\ PassInv /\ ReceiptInv
    BY ConstantsAssumption DEF Init, TypeInv, PassInv, ReceiptInv, Taken
  <2>2. ASSUME Init, NEW p \in Routes
        PROVE  accepted[p] + Cardinality(Pending(p)) + Avail(p[1]) <= 1 + lapses[p[1]]
    <3>1. p[1] \in Alerts
      BY RouteFacts
    <3>2. Pending(p) = {}
      BY <2>2, <3>1, ConstantsAssumption DEF Init, Pending
    <3>3. Cardinality(Pending(p)) = 0
      BY <3>2, FS_EmptySet
    <3>4. Avail(p[1]) \in {0, 1} /\ accepted[p] = 0 /\ lapses[p[1]] = 0
      BY <2>2, <3>1 DEF Init, Avail
    <3> QED
      BY <3>3, <3>4
  <2>3. Init => \A p \in Routes : accepted[p] = 0
    BY DEF Init
  <2> QED
    BY <2>1, <2>2, <2>3 DEF IInv, CountInv
<1>2. IInv /\ [Next]_vars => IInv'
  BY TypeStep, PassStep, ReceiptStep, CountStep DEF IInv
<1> QED
  BY <1>1, <1>2, PTL DEF FairSpec

\* A provider takes an alert at most once per channel and per claim that a pass
\* was handed, and never over a channel that a fact it cites is barred from.
THEOREM OncePerClaim == FairSpec => []SentPerClaim
<1>1. ASSUME IInv, NEW p \in Routes
      PROVE  accepted[p] <= 1 + lapses[p[1]]
  <2>1. Cardinality(Pending(p)) \in Nat /\ Avail(p[1]) \in {0, 1} /\ p[1] \in Alerts
    BY PendingFinite, RouteFacts DEF Avail
  <2>2. accepted[p] \in Nat /\ lapses[p[1]] \in Nat
    BY <1>1, <2>1 DEF IInv, TypeInv
  <2> QED
    BY <1>1, <2>1, <2>2 DEF IInv, CountInv
<1>2. IInv => SentPerClaim
  BY <1>1 DEF IInv, CountInv, SentPerClaim
<1> QED
  BY <1>2, IInvariance, PTL

\* The first end of an alert stands, and it says notified only if a provider
\* took the alert.
THEOREM EndsKept == FairSpec => SettledOnce
<1>1. ASSUME IInv, [Next]_vars, NEW a \in Alerts
      PROVE  /\ Settled(a) => status'[a] = status[a]
             /\ status'[a] = "notified" => Taken(a)
  <2> USE <1>1 DEF rows, pass
  <2>1. CASE status' = status
    BY <2>1 DEF IInv, ReceiptInv
  <2>2. ASSUME NEW b \in Alerts, Fire(b)
        PROVE  /\ Settled(a) => status'[a] = status[a]
               /\ status'[a] = "notified" => Taken(a)
    BY <2>2 DEF Fire, Settled, IInv, TypeInv, ReceiptInv
  <2>3. ASSUME NEW w \in Workers, NEW B \in SUBSET Alerts, Claim(w, B) \/ ClaimThrows(w, B)
        PROVE  /\ Settled(a) => status'[a] = status[a]
               /\ status'[a] = "notified" => Taken(a)
    BY <2>3 DEF Claim, ClaimThrows, ClaimRows, Claimable, Settled, IInv, TypeInv, ReceiptInv
  <2>4. ASSUME NEW w \in Workers, NEW b \in Alerts, Update(w, b)
        PROVE  /\ Settled(a) => status'[a] = status[a]
               /\ status'[a] = "notified" => Taken(a)
    BY <2>4 DEF Update, StillDelivering, Settled, IInv, TypeInv, ReceiptInv
  <2>5. ASSUME NEW w \in Workers, Finish(w)
        PROVE  status' = status \/ \E b \in Alerts : Update(w, b)
    BY <2>5 DEF Finish, IInv, TypeInv
  <2>6. ASSUME NEW w \in Workers, NEW b \in Alerts, FinishDigest(w, b)
        PROVE  Update(w, b)
    BY <2>6 DEF FinishDigest
  <2>7. ASSUME NEW w \in Workers, Digest(w) \/ Return(w) \/ Crash(w)
        PROVE  status' = status
    BY <2>7 DEF Digest, Return, Crash
  <2>8. ASSUME NEW w \in Workers, NEW c \in Channels, Send(w, c)
        PROVE  status' = status
    BY <2>8 DEF Send
  <2>9. ASSUME NEW b \in Alerts, Lapse(b)
         PROVE  status' = status
    BY <2>9 DEF Lapse
  <2>10. ASSUME NEW w \in Workers, NEW b \in Alerts, Take(w, b)
         PROVE  status' = status
    BY <2>10 DEF Take
  <2>11. CASE UNCHANGED vars
    BY <2>11, <2>1 DEF vars
  <2> QED
    BY <2>1, <2>2, <2>3, <2>4, <2>5, <2>6, <2>7, <2>8, <2>9, <2>10, <2>11 DEF Next, Claims, Step
<1>2. IInv /\ [Next]_vars =>
        [\A a \in Alerts :
            /\ Settled(a) => status'[a] = status[a]
            /\ status'[a] = "notified" => \E p \in Routes : p[1] = a /\ accepted[p] > 0]_vars
  BY <1>1 DEF Taken
<1> QED
  BY <1>2, IInvariance, PTL DEF FairSpec, SettledOnce
=============================================================================
