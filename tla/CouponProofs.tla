---------------------------- MODULE CouponProofs ----------------------------
(***************************************************************************)
(* The coupon machine sells and dispenses as it should, for any phones,    *)
(* ids and stock and any number of loads, requests and failures.           *)
(***************************************************************************)
EXTENDS Coupon, FiniteSetTheorems, TLAPS

-----------------------------------------------------------------------------
(* The inductive invariant.                                                 *)

Underway == {"get", "set", "charge", "reply"}

\* Requests and payments are for loads that were shown, which have an id.
Shown ==
    /\ \A l \in 1 .. loads : idOf[l] \in Ids
    /\ page # "off" => loads > 0
    /\ paid \subseteq 1 .. loads
    /\ \A p \in Phones : target[p] <= loads /\ (pc[p] \in Underway => target[p] > 0)

\* Redis holds exactly the ids of the loads that were paid for.
Recorded == redis = {idOf[l] : l \in paid}

\* Ids do not repeat, and an answer "1" is about the load that is shown.
Distinct == \A l, m \in 1 .. loads : idOf[l] = idOf[m] => l = m
Answered == page = "answered" /\ data = "1" => loads \in paid

\* A request that passed the lookup has not set its key yet, and was there when
\* somebody else first did.
LookedUp ==
    /\ \A i \in Ids \ redis : \A p \in Phones : sold[p][i] = 0
    /\ \A p \in Phones : pc[p] = "set" =>
          sold[p][Key(p)] = 0 /\ (Key(p) \in redis => p \in early[Key(p)])

\* What a phone was told, and what is still to be charged, was sold.
Receipts ==
    \A p \in Phones : /\ result[p] = "OK" => target[p] \in paid
                      /\ pc[p] = "charge" => sold[p][Key(p)] > 0

Charging == {p \in Phones : pc[p] = "charge"}
Sales    == {s \in Phones \X Ids : sold[s[1]][s[2]] > 0}
Accounts == Stock - weight + Cardinality(Charging) <= Cardinality(Sales)

\* A phone that is the only one to buy sees a list that is up to date.
Only(p)  == \A q \in Phones \ {p} : \A i \in Ids : sold[q][i] = 0
OneBuyer ==
    \A p \in Phones :
        /\ pc[p] \in Underway => p \notin listed
        /\ Only(p) => weight >= 0
        /\ Only(p) /\ (p \in listed \/ pc[p] \in {"get", "set", "charge"}) => weight > 0

BaseInv == TypeOK /\ Shown /\ Recorded
SaleInv == BaseInv /\ LookedUp /\ SoldTwiceOnlyByOverlap
CashInv == SaleInv /\ Receipts /\ Accounts /\ OneBuyer
PayInv  == BaseInv /\ Distinct /\ Answered /\ PaidDispense

-----------------------------------------------------------------------------
(* The machine's page and the phones take turns.                            *)

\* Every step is one of the actions.
LEMMA Steps ==
    ASSUME [Next]_vars
    PROVE  \/ Load \/ Check \/ CheckFails \/ PollLost \/ Dispense \/ NotYet \/ Timer
           \/ \E p \in Phones : \/ Get(p) \/ Set(p) \/ RedisFails(p) \/ Charge(p) \/ Reply(p)
                                \/ Browse(p) \/ \E l \in Loads : Swipe(p, l)
           \/ UNCHANGED vars
BY DEF Next, Poll, Request

\* The states and answers of every reachable state are ones the code knows, and
\* Redis knows what was paid for.
LEMMA BaseInit == Init => BaseInv
<1> SUFFICES ASSUME Init PROVE BaseInv OBVIOUS
<1>1. TypeOK
  BY CouponAssumption DEF Init, TypeOK, Loads
<1>2. Shown /\ Recorded
  BY CouponAssumption DEF Init, Shown, Recorded, Underway
<1> QED BY <1>1, <1>2 DEF BaseInv

\* Every step keeps types, what phones were shown and what is recorded.
LEMMA BaseStep ==
    ASSUME BaseInv, [Next]_vars
    PROVE  BaseInv'
<1> USE CouponAssumption DEF BaseInv, Shown, Recorded, TypeOK, Loads, Underway, store, machine, phone, ghost
<1>1. CASE Load
  <2>1. TypeOK'
    BY <1>1 DEF Load, Draw
  <2>2. Shown'
    BY <1>1 DEF Load, Draw
  <2>3. Recorded'
    BY <1>1 DEF Load, Draw
  <2> QED BY <2>1, <2>2, <2>3
<1>2. CASE Check
  <2>1. TypeOK'
    BY <1>2 DEF Check, Lookup
  <2>2. Shown'
    BY <1>2 DEF Check, Lookup
  <2>3. Recorded'
    BY <1>2 DEF Check, Lookup
  <2> QED BY <2>1, <2>2, <2>3
<1>3. CASE CheckFails
  <2>1. TypeOK'
    BY <1>3 DEF CheckFails
  <2>2. Shown'
    BY <1>3 DEF CheckFails
  <2>3. Recorded'
    BY <1>3 DEF CheckFails
  <2> QED BY <2>1, <2>2, <2>3
<1>4. CASE PollLost
  <2>1. TypeOK'
    BY <1>4 DEF PollLost
  <2>2. Shown'
    BY <1>4 DEF PollLost
  <2>3. Recorded'
    BY <1>4 DEF PollLost
  <2> QED BY <2>1, <2>2, <2>3
<1>5. CASE Dispense
  <2>1. TypeOK'
    BY <1>5 DEF Dispense
  <2>2. Shown'
    BY <1>5 DEF Dispense
  <2>3. Recorded'
    BY <1>5 DEF Dispense
  <2> QED BY <2>1, <2>2, <2>3
<1>6. CASE NotYet
  <2>1. TypeOK'
    BY <1>6 DEF NotYet, Again
  <2>2. Shown'
    BY <1>6 DEF NotYet, Again
  <2>3. Recorded'
    BY <1>6 DEF NotYet, Again
  <2> QED BY <2>1, <2>2, <2>3
<1>7. CASE Timer
  <2>1. TypeOK'
    BY <1>7 DEF Timer
  <2>2. Shown'
    BY <1>7 DEF Timer
  <2>3. Recorded'
    BY <1>7 DEF Timer
  <2> QED BY <2>1, <2>2, <2>3
<1>8. ASSUME NEW p \in Phones, Get(p) PROVE BaseInv'
  <2>1. TypeOK'
    BY <1>8 DEF Get, Key
  <2>2. Shown'
    BY <1>8 DEF Get, Key
  <2>3. Recorded'
    BY <1>8 DEF Get, Key
  <2> QED BY <2>1, <2>2, <2>3
<1>9. ASSUME NEW p \in Phones, Set(p) PROVE BaseInv'
  <2>1. TypeOK'
    BY <1>9, SMTT(20) DEF Set, Store, Key
  <2>2. Shown'
    BY <1>9 DEF Set, Store, Key
  <2>3. Recorded'
    BY <1>9 DEF Set, Store, Key
  <2> QED BY <2>1, <2>2, <2>3
<1>10. ASSUME NEW p \in Phones, RedisFails(p) PROVE BaseInv'
  <2> USE <1>10 DEF RedisFails
  <2>1. CASE UNCHANGED <<redis, ghost>>
    <3>1. TypeOK'
      BY <2>1
    <3>2. Shown' /\ Recorded'
      BY <2>1
    <3> QED BY <3>1, <3>2
  <2>2. CASE pc[p] = "set" /\ Store(p)
    <3>1. TypeOK'
      <4>1. /\ redis' \subseteq Ids /\ paid' \subseteq Loads
            /\ sold' \in [Phones -> [Ids -> Nat]] /\ early' \in [Ids -> SUBSET Phones]
        BY <2>2, SMTT(20) DEF Store, Key
      <4>2. pc' \in [Phones -> {"idle", "get", "set", "charge", "reply", "success"}] /\ faults' \in 0 .. MaxFaults
        OBVIOUS
      <4> QED BY <4>1, <4>2
    <3>2. Shown'
      BY <2>2 DEF Store
    <3>3. Recorded'
      BY <2>2 DEF Store, Key
    <3> QED BY <3>1, <3>2, <3>3
  <2> QED BY <2>1, <2>2
<1>11. ASSUME NEW p \in Phones, Charge(p) PROVE BaseInv'
  <2>1. TypeOK'
    BY <1>11 DEF Charge, OneUnit, Key
  <2>2. Shown'
    BY <1>11 DEF Charge, OneUnit, Key
  <2>3. Recorded'
    BY <1>11 DEF Charge, OneUnit, Key
  <2> QED BY <2>1, <2>2, <2>3
<1>12. ASSUME NEW p \in Phones, Reply(p) PROVE BaseInv'
  <2>1. TypeOK'
    BY <1>12 DEF Reply, Key
  <2>2. Shown'
    BY <1>12 DEF Reply, Key
  <2>3. Recorded'
    BY <1>12 DEF Reply, Key
  <2> QED BY <2>1, <2>2, <2>3
<1>13. ASSUME NEW p \in Phones, Browse(p) PROVE BaseInv'
  <2>1. TypeOK'
    BY <1>13 DEF Browse, Key
  <2>2. Shown'
    BY <1>13 DEF Browse, Key
  <2>3. Recorded'
    BY <1>13 DEF Browse, Key
  <2> QED BY <2>1, <2>2, <2>3
<1>14. ASSUME NEW p \in Phones, NEW l \in Loads, Swipe(p, l) PROVE BaseInv'
  <2>1. TypeOK'
    BY <1>14, SMTT(20) DEF Swipe
  <2>2. Shown'
    BY <1>14 DEF Swipe
  <2>3. Recorded'
    BY <1>14 DEF Swipe
  <2> QED BY <2>1, <2>2, <2>3
<1>15. CASE UNCHANGED vars
  BY <1>15 DEF vars
<1> HIDE DEF BaseInv
<1> QED BY Steps, <1>1, <1>2, <1>3, <1>4, <1>5, <1>6, <1>7, <1>8, <1>9, <1>10, <1>11, <1>12, <1>13, <1>14, <1>15

-----------------------------------------------------------------------------
(* Dispensing.                                                              *)

\* A phone's request leaves the machine alone and takes no payment back.
LEMMA PhoneStep ==
    ASSUME NEW p \in Phones,
           \/ Get(p) \/ Set(p) \/ RedisFails(p) \/ Charge(p) \/ Reply(p) \/ Browse(p)
           \/ \E l \in Loads : Swipe(p, l)
    PROVE  UNCHANGED machine /\ paid \subseteq paid'
<1>1. CASE Get(p) \/ Charge(p) \/ Reply(p) \/ Browse(p) \/ \E l \in Loads : Swipe(p, l)
  BY <1>1 DEF Get, Charge, Reply, Browse, Swipe, ghost
<1>2. CASE Set(p)
  BY <1>2 DEF Set, Store
<1>3. CASE RedisFails(p)
  BY <1>3 DEF RedisFails, Store, ghost
<1> QED BY <1>1, <1>2, <1>3

\* If ids never repeat, every step keeps keys, payments and pages in step.
LEMMA PayStep ==
    ASSUME Unique, PayInv, [Next]_vars
    PROVE  PayInv'
<1>0. BaseInv'
  BY BaseStep DEF PayInv
<1> USE <1>0, CouponAssumption DEF PayInv, Distinct, Answered, PaidDispense, store, machine, phone, ghost
<1>1. CASE Load
  <2>1. PICK i \in Ids \ ShownIds : idOf' = [idOf EXCEPT ![loads + 1] = i]
    BY <1>1 DEF Load, Draw
  <2>2. loads' = loads + 1 /\ loads' \in Loads /\ loads \in Nat /\ UNCHANGED <<out, paid>> /\ page' = "ask"
    BY <1>1 DEF Load, Loads, BaseInv, TypeOK
  <2>3. \A l \in 1 .. loads : idOf'[l] = idOf[l] /\ idOf[l] # i
    BY <2>1, <2>2 DEF BaseInv, TypeOK, Loads, ShownIds
  <2>4. idOf'[loads + 1] = i
    BY <2>1, <2>2 DEF BaseInv, TypeOK
  <2>5. Distinct'
    BY <2>2, <2>3, <2>4
  <2> QED BY <2>2, <2>5
<1>2. CASE Check
  <2>1. data' = "1" => \E l \in paid : idOf[l] = idOf[loads]
    BY <1>2 DEF Check, Lookup, BaseInv, Recorded
  <2>2. data' = "1" => loads \in paid
    BY <1>2, <2>1 DEF Check, BaseInv, Shown, TypeOK
  <2> QED BY <1>2, <2>2 DEF Check
<1>3. CASE CheckFails
  BY <1>3 DEF CheckFails
<1>4. CASE PollLost \/ NotYet \/ Timer
  BY <1>4 DEF PollLost, NotYet, Timer, Again
<1>5. CASE Dispense
  BY <1>5 DEF Dispense
<1>6. ASSUME NEW p \in Phones,
             \/ Get(p) \/ Set(p) \/ RedisFails(p) \/ Charge(p) \/ Reply(p) \/ Browse(p)
             \/ \E l \in Loads : Swipe(p, l)
      PROVE  PayInv'
  BY <1>6, PhoneStep
<1>7. CASE UNCHANGED vars
  BY <1>7 DEF vars
<1> HIDE DEF PayInv
<1> QED BY Steps, <1>1, <1>2, <1>3, <1>4, <1>5, <1>6, <1>7

\* Goods leave the machine only for a load of its page that somebody paid for,
\* whatever the phones, polls and failures of Redis do meanwhile, provided that
\* no two loads draw the same mechine_id (efan.html lines 15 and 36).
THEOREM OnlyPaidIsDispensed ==
    ASSUME Unique
    PROVE  Spec => []PaidDispense
<1>1. Init => PayInv
  <2> SUFFICES ASSUME Init PROVE PayInv OBVIOUS
  <2>1. Distinct /\ Answered /\ PaidDispense
    BY DEF Init, Distinct, Answered, PaidDispense
  <2> QED BY <2>1, BaseInit DEF PayInv
<1>2. PayInv /\ [Next]_vars => PayInv'
  BY PayStep
<1>3. PayInv => PaidDispense
  BY DEF PayInv
<1> QED BY <1>1, <1>2, <1>3, PTL DEF Spec

-----------------------------------------------------------------------------
(* Selling.                                                                 *)

\* Storing a key sells one product to one phone, which had not bought it.
LEMMA StoreSells ==
    ASSUME SaleInv, NEW p \in Phones, pc[p] = "set", Store(p), pc'[p] # "set",
           \A q \in Phones \ {p} : pc'[q] = pc[q], UNCHANGED <<machine, target>>
    PROVE  /\ LookedUp' /\ SoldTwiceOnlyByOverlap'
           /\ sold[p][Key(p)] = 0 /\ sold'[p][Key(p)] = 1
           /\ \A q \in Phones, i \in Ids : <<q, i>> # <<p, Key(p)>> => sold'[q][i] = sold[q][i]
<1> DEFINE k == Key(p)
<1>1. k \in Ids
  BY DEF SaleInv, BaseInv, Shown, TypeOK, Underway, Key
<1>2. sold \in [Phones -> [Ids -> Nat]] /\ early \in [Ids -> SUBSET Phones]
  BY DEF SaleInv, BaseInv, TypeOK
<1>3. sold[p][k] = 0 /\ (k \in redis => p \in early[k])
  BY DEF SaleInv, LookedUp
<1>4. redis' = redis \cup {k} /\ sold' = [sold EXCEPT ![p][k] = @ + 1]
  BY DEF Store
<1>5. /\ sold'[p][k] = 1
      /\ \A q \in Phones, i \in Ids : <<q, i>> # <<p, k>> => sold'[q][i] = sold[q][i]
  BY <1>1, <1>2, <1>3, <1>4
<1>6. \A q \in Phones : Key(q)' = Key(q)
  BY DEF Key, machine
<1>7. \A i \in Ids : i # k \/ k \in redis => early'[i] = early[i]
  BY <1>1, <1>2 DEF Store
<1>8. k \notin redis => \A q \in Phones : pc[q] = "set" /\ Key(q) = k => q \in early'[k]
  BY <1>1, <1>2 DEF Store
<1> HIDE DEF k
<1>9. LookedUp'
  <2>1. ASSUME NEW i \in Ids \ redis', NEW q \in Phones PROVE sold'[q][i] = 0
    BY <1>4, <1>5, <2>1 DEF SaleInv, LookedUp
  <2>2. ASSUME NEW q \in Phones, pc'[q] = "set"
        PROVE  sold'[q][Key(q)] = 0 /\ (Key(q) \in redis' => q \in early'[Key(q)])
    <3>1. q # p /\ pc[q] = "set"
      BY <2>2
    <3>2. Key(q) \in Ids
      BY <3>1 DEF SaleInv, BaseInv, Shown, TypeOK, Underway, Key
    <3>3. sold'[q][Key(q)] = 0
      BY <1>5, <3>1, <3>2 DEF SaleInv, LookedUp
    <3>4. CASE Key(q) = k /\ k \notin redis
      BY <1>8, <3>1, <3>3, <3>4
    <3>5. CASE ~(Key(q) = k /\ k \notin redis)
      BY <1>4, <1>7, <3>1, <3>2, <3>3, <3>5 DEF SaleInv, LookedUp
    <3> QED BY <3>4, <3>5
  <2> QED BY <1>6, <2>1, <2>2 DEF LookedUp
<1>10. SoldTwiceOnlyByOverlap'
  <2> SUFFICES ASSUME NEW q \in Phones, NEW i \in Ids
               PROVE  sold'[q][i] <= 1 /\ (sold'[q][i] > 0 => q \in early'[i])
    BY DEF SoldTwiceOnlyByOverlap
  <2>1. CASE q = p /\ i = k
    BY <1>3, <1>5, <1>7, <1>8, <2>1, <1>1 DEF k
  <2>2. CASE i = k /\ k \notin redis /\ q # p
    BY <1>2, <1>5, <2>2 DEF SaleInv, LookedUp
  <2>3. CASE ~(q = p /\ i = k) /\ (i = k => k \in redis)
    BY <1>5, <1>7, <2>3 DEF SaleInv, SoldTwiceOnlyByOverlap
  <2> QED BY <2>1, <2>2, <2>3
<1> QED BY <1>3, <1>5, <1>9, <1>10 DEF k

\* The steps of the machine's page, which sell nothing.
LEMMA MachineStep ==
    ASSUME BaseInv, Load \/ Check \/ CheckFails \/ PollLost \/ Dispense \/ NotYet \/ Timer
    PROVE  /\ UNCHANGED <<redis, weight, phone, ghost>>
           /\ \A p \in Phones : pc[p] \in Underway => Key(p) \in Ids /\ Key(p)' = Key(p)
<1>1. UNCHANGED <<redis, weight, phone, ghost>>
  BY DEF Load, Check, CheckFails, PollLost, Dispense, NotYet, Timer, store, phone, ghost
<1>2. UNCHANGED idOf \/ \E i : loads < MaxLoads /\ idOf' = [idOf EXCEPT ![loads + 1] = i]
  BY DEF Load, Check, CheckFails, PollLost, Dispense, NotYet, Timer
<1>3. ASSUME NEW p \in Phones, pc[p] \in Underway PROVE Key(p) \in Ids /\ Key(p)' = Key(p)
  <2>1. target[p] \in 1 .. loads /\ loads \in 0 .. MaxLoads /\ target' = target
    BY <1>1, <1>3 DEF BaseInv, Shown, TypeOK, phone
  <2>2. idOf'[target[p]] = idOf[target[p]]
    BY <1>2, <2>1, CouponAssumption DEF BaseInv, TypeOK, Loads
  <2> QED BY <2>1, <2>2 DEF Key, BaseInv, Shown
<1> QED BY <1>1, <1>3

\* Every step keeps what has been sold in step with the keys in Redis.
LEMMA SaleStep ==
    ASSUME SaleInv, [Next]_vars
    PROVE  SaleInv'
<1>0. BaseInv'
  BY BaseStep DEF SaleInv
<1> USE <1>0 DEF SaleInv, LookedUp, SoldTwiceOnlyByOverlap, store, machine, phone, ghost
<1>1. CASE Load \/ Check \/ CheckFails \/ PollLost \/ Dispense \/ NotYet \/ Timer
  BY <1>1, MachineStep DEF Underway
<1>2. ASSUME NEW p \in Phones, Get(p) PROVE SaleInv'
  BY <1>2 DEF Get, Bought, Key, BaseInv, TypeOK, Shown, Underway
<1>3. ASSUME NEW p \in Phones, Charge(p) \/ Reply(p) \/ Browse(p) PROVE SaleInv'
  <2>1. UNCHANGED <<redis, machine, target, ghost>> /\ \A q \in Phones : pc'[q] = "set" => pc[q] = "set"
    BY <1>3 DEF Charge, Reply, Browse, BaseInv, TypeOK
  <2> QED BY <2>1 DEF Key
<1>4. ASSUME NEW p \in Phones, NEW l \in Loads, Swipe(p, l) PROVE SaleInv'
  BY <1>4 DEF Swipe, Key, BaseInv, TypeOK
<1> HIDE DEF LookedUp, SoldTwiceOnlyByOverlap
<1>5. ASSUME NEW p \in Phones, Set(p) PROVE SaleInv'
  BY <1>5, StoreSells DEF Set, BaseInv, TypeOK
<1>6. ASSUME NEW p \in Phones, RedisFails(p) PROVE SaleInv'
  <2>1. pc' = [pc EXCEPT ![p] = "reply"] /\ UNCHANGED <<machine, target>>
    BY <1>6 DEF RedisFails
  <2>2. CASE UNCHANGED <<redis, ghost>>
    BY <2>1, <2>2 DEF LookedUp, SoldTwiceOnlyByOverlap, Key, BaseInv, TypeOK
  <2>3. CASE pc[p] = "set" /\ Store(p)
    BY <2>1, <2>3, StoreSells DEF BaseInv, TypeOK
  <2> QED BY <1>6, <2>2, <2>3 DEF RedisFails
<1>7. CASE UNCHANGED vars
  BY <1>7 DEF vars, LookedUp, SoldTwiceOnlyByOverlap, Key
<1> HIDE DEF SaleInv
<1> QED BY Steps, <1>1, <1>2, <1>3, <1>4, <1>5, <1>6, <1>7

\* Nobody is sold the same product twice, and two phones are sold it only if
\* both had looked it up before the first of them set it: for any number of
\* phones, retries and failures, though get and set are two commands and
\* nothing locks (CouponRedisSet lines 36-40).
THEOREM NeverSoldTwice == Spec => []SoldTwiceOnlyByOverlap
<1>1. Init => SaleInv
  <2> SUFFICES ASSUME Init PROVE SaleInv OBVIOUS
  <2>1. LookedUp /\ SoldTwiceOnlyByOverlap
    BY DEF Init, LookedUp, SoldTwiceOnlyByOverlap
  <2> QED BY <2>1, BaseInit DEF SaleInv
<1>2. SaleInv /\ [Next]_vars => SaleInv'
  BY SaleStep
<1>3. SaleInv => SoldTwiceOnlyByOverlap
  BY DEF SaleInv
<1> QED BY <1>1, <1>2, <1>3, PTL DEF Spec

-----------------------------------------------------------------------------
(* Charging.                                                                *)

\* The two sets that are counted are finite.
LEMMA Countable ==
    /\ IsFiniteSet(Charging) /\ Cardinality(Charging) \in Nat
    /\ IsFiniteSet(Sales) /\ Cardinality(Sales) \in Nat
<1>1. IsFiniteSet(Phones) /\ IsFiniteSet(Ids)
  BY CouponAssumption
<1>2. IsFiniteSet(Charging)
  BY <1>1, FS_Subset DEF Charging
<1>3. IsFiniteSet(Phones \X Ids)
  BY <1>1, FS_Product
<1>4. IsFiniteSet(Sales)
  BY <1>3, FS_Subset DEF Sales
<1> QED BY <1>2, <1>4, FS_CardinalityType

\* A sale adds one to them.
LEMMA OneMoreSale ==
    ASSUME NEW p \in Phones, Key(p) \in Ids, sold[p][Key(p)] = 0, sold'[p][Key(p)] = 1,
           \A q \in Phones, i \in Ids : <<q, i>> # <<p, Key(p)>> => sold'[q][i] = sold[q][i]
    PROVE  Cardinality(Sales') = Cardinality(Sales) + 1
<1>1. Sales' = Sales \cup {<<p, Key(p)>>} /\ <<p, Key(p)>> \notin Sales
  BY DEF Sales
<1> QED BY <1>1, Countable, FS_AddElement

\* A phone that moves on adds one to those being charged if it moves there.
LEMMA ChargingAfter ==
    ASSUME NEW p \in Phones, NEW to, TypeOK, pc' = [pc EXCEPT ![p] = to]
    PROVE  Cardinality(Charging') = Cardinality(Charging) + (IF to = "charge" THEN 1 ELSE 0)
                                                          - (IF pc[p] = "charge" THEN 1 ELSE 0)
<1>1. CASE to = "charge"
  <2>1. Charging' = Charging \cup {p}
    BY <1>1 DEF Charging, TypeOK
  <2>2. p \in Charging <=> pc[p] = "charge"
    BY DEF Charging
  <2>3. Cardinality(Charging \cup {p}) = IF p \in Charging THEN Cardinality(Charging) ELSE Cardinality(Charging) + 1
    BY Countable, FS_AddElement
  <2> QED BY <1>1, <2>1, <2>2, <2>3, Countable
<1>2. CASE to # "charge"
  <2>1. Charging' = Charging \ {p}
    BY <1>2 DEF Charging, TypeOK
  <2>2. p \in Charging <=> pc[p] = "charge"
    BY DEF Charging
  <2>3. Cardinality(Charging \ {p}) = IF p \in Charging THEN Cardinality(Charging) - 1 ELSE Cardinality(Charging)
    BY Countable, FS_RemoveElement
  <2> QED BY <1>2, <2>1, <2>2, <2>3, Countable
<1> QED BY <1>1, <1>2

\* What the bookkeeping says of a request that stores its key.
LEMMA StoreCounts ==
    ASSUME CashInv, NEW p \in Phones, NEW to \in {"charge", "reply"}, pc[p] = "set", Store(p),
           pc' = [pc EXCEPT ![p] = to], UNCHANGED <<weight, machine, target, listed>>,
           \A q \in Phones \ {p} : result'[q] = result[q]
    PROVE  Receipts' /\ Accounts' /\ OneBuyer'
<1>1. TypeOK /\ pc = [q \in Phones |-> pc[q]] /\ sold \in [Phones -> [Ids -> Nat]] /\ weight \in Int /\ Stock \in Nat
  BY CouponAssumption DEF CashInv, SaleInv, BaseInv, TypeOK
<1>2. Key(p) \in Ids
  BY DEF CashInv, SaleInv, BaseInv, Shown, TypeOK, Underway, Key
<1>3. /\ sold[p][Key(p)] = 0 /\ sold'[p][Key(p)] = 1
      /\ \A q \in Phones, i \in Ids : <<q, i>> # <<p, Key(p)>> => sold'[q][i] = sold[q][i]
  BY <1>1, StoreSells DEF CashInv
<1>4. \A q \in Phones : Key(q)' = Key(q)
  BY DEF Key, machine
<1>5. Receipts'
  <2>1. paid' = paid \cup {target[p]}
    BY DEF Store
  <2>2. ASSUME NEW q \in Phones, pc'[q] = "charge" PROVE sold'[q][Key(q)] > 0
    <3>1. CASE q = p
      BY <1>3, <3>1
    <3>2. CASE q # p
      <4>1. pc[q] = "charge" /\ sold[q][Key(q)] > 0
        BY <1>1, <2>2, <3>2 DEF CashInv, Receipts
      <4>2. Key(q) \in Ids
        BY <4>1 DEF CashInv, SaleInv, BaseInv, Shown, TypeOK, Underway, Key
      <4> QED BY <1>3, <3>2, <4>1, <4>2
    <3> QED BY <3>1, <3>2
  <2>3. ASSUME NEW q \in Phones, result'[q] = "OK" PROVE target'[q] \in paid'
    BY <2>1, <2>3 DEF CashInv, Receipts
  <2> QED BY <1>4, <2>2, <2>3 DEF Receipts
<1>6. Accounts'
  <2>1. Cardinality(Sales') = Cardinality(Sales) + 1
    BY <1>2, <1>3, OneMoreSale
  <2>2. Cardinality(Charging') = Cardinality(Charging) + (IF to = "charge" THEN 1 ELSE 0) - 0
    BY <1>1, ChargingAfter
  <2> QED BY <1>1, <2>1, <2>2, Countable DEF CashInv, Accounts
<1>7. OneBuyer'
  <2>1. ASSUME NEW q \in Phones PROVE Only(q)' => Only(q)
    BY <1>3 DEF Only
  <2>2. \A q \in Phones : pc'[q] \in Underway => pc[q] \in Underway
    BY <1>1 DEF Underway
  <2>3. \A q \in Phones : pc'[q] \in {"get", "set", "charge"} => pc[q] \in {"get", "set", "charge"}
    BY <1>1
  <2> QED BY <2>1, <2>2, <2>3 DEF CashInv, OneBuyer
<1> QED BY <1>5, <1>6, <1>7

\* Every step keeps charges, answers and sales in step.
LEMMA CashStep ==
    ASSUME CashInv, [Next]_vars
    PROVE  CashInv'
<1>0. SaleInv'
  BY SaleStep DEF CashInv
<1>a. /\ TypeOK /\ pc = [q \in Phones |-> pc[q]] /\ sold \in [Phones -> [Ids -> Nat]]
      /\ weight \in Int /\ Stock \in Nat /\ BaseInv
  BY CouponAssumption DEF CashInv, SaleInv, BaseInv, TypeOK
<1>b. Cardinality(Charging) \in Nat /\ Cardinality(Sales) \in Nat
  BY Countable
<1>1. CASE Load \/ Check \/ CheckFails \/ PollLost \/ Dispense \/ NotYet \/ Timer
  <2>1. /\ UNCHANGED <<weight, phone, ghost>>
        /\ \A p \in Phones : pc[p] \in Underway => Key(p)' = Key(p)
    BY <1>1, <1>a, MachineStep
  <2>2. Charging' = Charging /\ Sales' = Sales
    BY <2>1 DEF Charging, Sales, phone, ghost
  <2>3. Receipts'
    BY <2>1 DEF CashInv, Receipts, phone, ghost, Underway
  <2>4. OneBuyer'
    BY <2>1 DEF CashInv, OneBuyer, Only, phone, ghost
  <2> QED BY <1>0, <2>1, <2>2, <2>3, <2>4 DEF CashInv, Accounts
<1>2. ASSUME NEW p \in Phones, Get(p) PROVE CashInv'
  <2>1. /\ pc[p] = "get" /\ pc' = [pc EXCEPT ![p] = IF Bought(p) THEN "reply" ELSE "set"]
        /\ result'[p] # "OK" /\ \A q \in Phones \ {p} : result'[q] = result[q]
        /\ UNCHANGED <<weight, idOf, target, listed, sold, paid>>
    BY <1>2, <1>a DEF Get, store, machine, ghost, TypeOK
  <2>2. Cardinality(Charging') = Cardinality(Charging) + 0 - 0
    BY <1>a, <2>1, ChargingAfter
  <2>3. Sales' = Sales
    BY <2>1 DEF Sales
  <2>4. Receipts'
    BY <1>a, <2>1 DEF CashInv, Receipts, Key
  <2>5. OneBuyer'
    BY <1>a, <2>1 DEF CashInv, OneBuyer, Only, Underway
  <2> QED BY <1>0, <1>a, <1>b, <2>1, <2>2, <2>3, <2>4, <2>5 DEF CashInv, Accounts
<1>3. ASSUME NEW p \in Phones, Set(p) PROVE CashInv'
  <2>1. /\ pc[p] = "set" /\ pc' = [pc EXCEPT ![p] = "charge"] /\ Store(p)
        /\ \A q \in Phones \ {p} : result'[q] = result[q]
        /\ UNCHANGED <<weight, machine, target, listed>>
    BY <1>3, <1>a DEF Set, TypeOK
  <2> QED BY <1>0, <2>1, StoreCounts DEF CashInv
<1>4. ASSUME NEW p \in Phones, RedisFails(p) PROVE CashInv'
  <2>1. /\ pc[p] \in {"get", "set"} /\ pc' = [pc EXCEPT ![p] = "reply"]
        /\ UNCHANGED <<weight, machine, target, result, listed>>
    BY <1>4 DEF RedisFails
  <2>2. CASE pc[p] = "set" /\ Store(p)
    BY <1>0, <2>1, <2>2, StoreCounts DEF CashInv
  <2>3. CASE UNCHANGED <<redis, ghost>>
    <3>1. Cardinality(Charging') = Cardinality(Charging) + 0 - 0
      BY <1>a, <2>1, ChargingAfter
    <3>2. Sales' = Sales
      BY <2>3 DEF Sales, ghost
    <3>3. Receipts'
      BY <1>a, <2>1, <2>3 DEF CashInv, Receipts, Key, machine, ghost
    <3>4. OneBuyer'
      BY <1>a, <2>1, <2>3 DEF CashInv, OneBuyer, Only, Underway, ghost
    <3> QED BY <1>0, <1>a, <1>b, <2>1, <3>1, <3>2, <3>3, <3>4 DEF CashInv, Accounts
  <2> QED BY <1>4, <2>2, <2>3 DEF RedisFails
<1>5. ASSUME NEW p \in Phones, Charge(p) PROVE CashInv'
  <2>1. /\ pc[p] = "charge" /\ pc' = [pc EXCEPT ![p] = "reply"]
        /\ weight' \in {weight - 1, weight}
        /\ UNCHANGED <<idOf, target, result, listed, sold, paid>>
    BY <1>5 DEF Charge, OneUnit, machine, ghost
  <2>2. Cardinality(Charging') = Cardinality(Charging) + 0 - 1
    BY <1>a, <2>1, ChargingAfter
  <2>3. Sales' = Sales
    BY <2>1 DEF Sales
  <2>4. Receipts'
    BY <1>a, <2>1 DEF CashInv, Receipts, Key
  <2>5. OneBuyer'
    <3>1. Key(p) \in Ids /\ sold[p][Key(p)] > 0
      BY <1>a, <2>1 DEF CashInv, Receipts, BaseInv, Shown, TypeOK, Underway, Key
    <3>2. ASSUME NEW q \in Phones, Only(q)' PROVE q = p /\ Only(q)
      BY <1>a, <2>1, <3>1, <3>2 DEF Only
    <3>3. p \notin listed /\ pc'[p] = "reply"
      BY <1>a, <2>1 DEF CashInv, OneBuyer, Underway
    <3>4. \A q \in Phones : pc'[q] \in Underway => pc[q] \in Underway
      BY <1>a, <2>1 DEF Underway
    <3>5. Only(p) => weight > 0
      BY <2>1 DEF CashInv, OneBuyer
    <3>6. ASSUME NEW q \in Phones
          PROVE  /\ pc'[q] \in Underway => q \notin listed'
                 /\ Only(q)' => weight' >= 0
                 /\ Only(q)' /\ (q \in listed' \/ pc'[q] \in {"get", "set", "charge"}) => weight' > 0
      BY <1>a, <2>1, <3>2, <3>3, <3>4, <3>5 DEF CashInv, OneBuyer
    <3> QED BY <3>6 DEF OneBuyer
  <2> QED BY <1>0, <1>a, <1>b, <2>1, <2>2, <2>3, <2>4, <2>5 DEF CashInv, Accounts
<1>6. ASSUME NEW p \in Phones, Reply(p) PROVE CashInv'
  <2>1. /\ pc[p] = "reply" /\ pc' = [pc EXCEPT ![p] = IF result[p] = "OK" THEN "success" ELSE "idle"]
        /\ UNCHANGED <<weight, idOf, target, result, listed, sold, paid>>
    BY <1>6 DEF Reply, store, machine, ghost
  <2>2. Cardinality(Charging') = Cardinality(Charging) + 0 - 0
    BY <1>a, <2>1, ChargingAfter
  <2>3. Sales' = Sales
    BY <2>1 DEF Sales
  <2>4. Receipts'
    BY <1>a, <2>1 DEF CashInv, Receipts, Key
  <2>5. OneBuyer'
    BY <1>a, <2>1 DEF CashInv, OneBuyer, Only, Underway
  <2> QED BY <1>0, <1>a, <1>b, <2>1, <2>2, <2>3, <2>4, <2>5 DEF CashInv, Accounts
<1>7. ASSUME NEW p \in Phones, Browse(p) PROVE CashInv'
  <2>1. /\ pc[p] \in {"idle", "success"} /\ pc' = [pc EXCEPT ![p] = "idle"]
        /\ result'[p] # "OK" /\ \A q \in Phones \ {p} : result'[q] = result[q]
        /\ listed' = IF weight # 0 THEN listed \cup {p} ELSE listed \ {p}
        /\ UNCHANGED <<weight, idOf, target, sold, paid>>
    BY <1>7, <1>a DEF Browse, CountIsNotZero, store, machine, ghost, TypeOK
  <2>2. Cardinality(Charging') = Cardinality(Charging) + 0 - 0
    BY <1>a, <2>1, ChargingAfter
  <2>3. Sales' = Sales
    BY <2>1 DEF Sales
  <2>4. Receipts'
    BY <1>a, <2>1 DEF CashInv, Receipts, Key
  <2>5. OneBuyer'
    BY <1>a, <2>1 DEF CashInv, OneBuyer, Only, Underway
  <2> QED BY <1>0, <1>a, <1>b, <2>1, <2>2, <2>3, <2>4, <2>5 DEF CashInv, Accounts
<1>8. ASSUME NEW p \in Phones, NEW l \in Loads, Swipe(p, l) PROVE CashInv'
  <2>1. /\ pc[p] = "idle" /\ pc' = [pc EXCEPT ![p] = "get"]
        /\ p \in listed /\ listed' = listed \ {p} /\ target' = [target EXCEPT ![p] = l]
        /\ result'[p] # "OK" /\ \A q \in Phones \ {p} : result'[q] = result[q]
        /\ UNCHANGED <<weight, idOf, sold, paid>>
    BY <1>8, <1>a DEF Swipe, store, machine, ghost, TypeOK
  <2>2. Cardinality(Charging') = Cardinality(Charging) + 0 - 0
    BY <1>a, <2>1, ChargingAfter
  <2>3. Sales' = Sales
    BY <2>1 DEF Sales
  <2>4. Receipts'
    BY <1>a, <2>1 DEF CashInv, Receipts, Key, TypeOK
  <2>5. OneBuyer'
    BY <1>a, <2>1 DEF CashInv, OneBuyer, Only, Underway
  <2> QED BY <1>0, <1>a, <1>b, <2>1, <2>2, <2>3, <2>4, <2>5 DEF CashInv, Accounts
<1>9. CASE UNCHANGED vars
  <2>1. UNCHANGED <<weight, idOf, phone, ghost>>
    BY <1>9 DEF vars, store, machine
  <2>2. Charging' = Charging /\ Sales' = Sales
    BY <2>1 DEF Charging, Sales, phone, ghost
  <2>3. Receipts' /\ OneBuyer'
    BY <2>1 DEF CashInv, Receipts, OneBuyer, Only, Key, phone, ghost
  <2> QED BY <1>0, <2>1, <2>2, <2>3 DEF CashInv, Accounts
<1> QED BY Steps, <1>1, <1>2, <1>3, <1>4, <1>5, <1>6, <1>7, <1>8, <1>9

\* What the sales say of the weight.
LEMMA CashImplies == CashInv => ChargedForSale
<1> SUFFICES ASSUME CashInv PROVE ChargedForSale OBVIOUS
<1>1. weight \in Int /\ Stock \in Nat /\ sold \in [Phones -> [Ids -> Nat]]
  BY CouponAssumption DEF CashInv, SaleInv, BaseInv, TypeOK
<1>2. Stock - weight <= Cardinality(Sales)
  BY <1>1, Countable DEF CashInv, Accounts
<1>3. ASSUME weight < 0
      PROVE  \E p, q \in Phones : p # q /\ \E i, j \in Ids : sold[p][i] > 0 /\ sold[q][j] > 0
  <2>1. Sales # {}
    BY <1>1, <1>2, <1>3, FS_EmptySet, Countable
  <2>2. PICK p \in Phones, i \in Ids : sold[p][i] > 0
    BY <2>1 DEF Sales
  <2>3. ~Only(p)
    BY <1>1, <1>3 DEF CashInv, OneBuyer
  <2>4. PICK q \in Phones \ {p}, j \in Ids : sold[q][j] # 0
    BY <2>3 DEF Only
  <2> QED BY <1>1, <2>2, <2>4
<1> QED BY <1>2, <1>3 DEF ChargedForSale, Sales, CashInv, Receipts

\* The coupon never loses more than one for every product sold, a phone that is
\* told OK did pay, and app_weight goes below zero only if two phones bought
\* from lists that were both built before: for any stock and number of phones
\* (CouponRedisSet line 63, swip.jsp line 39).
THEOREM ChargesAreSales == Spec => []ChargedForSale
<1>1. Init => CashInv
  <2> SUFFICES ASSUME Init PROVE CashInv OBVIOUS
  <2>1. LookedUp /\ SoldTwiceOnlyByOverlap
    BY DEF Init, LookedUp, SoldTwiceOnlyByOverlap
  <2>2. Receipts /\ OneBuyer
    BY CouponAssumption DEF Init, Receipts, OneBuyer, Underway
  <2>3. Charging = {}
    BY DEF Init, Charging
  <2>4. Accounts
    BY <2>3, CouponAssumption, Countable, FS_EmptySet DEF Init, Accounts
  <2> QED BY <2>1, <2>2, <2>4, BaseInit DEF CashInv, SaleInv
<1>2. CashInv /\ [Next]_vars => CashInv'
  BY CashStep
<1> QED BY <1>1, <1>2, CashImplies, PTL DEF Spec
=============================================================================
