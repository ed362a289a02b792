------------------------------- MODULE Coupon -------------------------------
(***************************************************************************)
(* The coupon machine of src/websocket/project/Test.  The page of the      *)
(* machine (qrcode/examples/efan.html) shows a random id as a QR code and  *)
(* polls /coupon/check (CouponRedis) until the id is paid for.  A phone    *)
(* that scanned it (jm/demos/swipe-list/swip.jsp) posts /coupon/checkset   *)
(* (CouponRedisSet), which looks the id up in Redis, sets it to "1" and    *)
(* takes one from the coupon's app_weight in the database.  Redis and the  *)
(* database are external; each call to them is a step that may fail.       *)
(* Requests are served in parallel, and nothing locks.                     *)
(***************************************************************************)
EXTENDS Integers, FiniteSets

CONSTANTS Phones,     \* phones, each with at most one request under way
          Ids,        \* values of mechine_id
          Stock,      \* app_weight of the coupon at the beginning
          MaxLoads,   \* bound: how often the machine's page is loaded
          MaxSwipes,  \* bound: requests of one phone
          MaxFaults,  \* bound: failures of Redis
          Unique      \* no two loads draw the same mechine_id

ASSUME CouponAssumption ==
    /\ IsFiniteSet(Phones) /\ IsFiniteSet(Ids) /\ Stock \in Nat
    /\ MaxLoads \in Nat /\ MaxSwipes \in Nat /\ MaxFaults \in Nat
    /\ Unique \in BOOLEAN

Loads == 1 .. MaxLoads

VARIABLES
    redis,     \* ids whose value is "1"
    weight,    \* app_weight of the coupon's row
    faults,    \* failures of Redis so far
    loads,     \* loads of the machine's page so far; the last one is shown
    idOf,      \* the mechine_id of each load
    page,      \* what the page is doing
    data,      \* the answer to its poll
    out,       \* loads that went on to success.html: the goods are dispensed
    pc,        \* where each phone's checkset request is
    target,    \* the load whose QR code the phone scanned
    result,    \* String result of doGet, "empty" for an exception
    swipes,    \* requests of each phone so far
    listed,    \* phones whose list shows the coupon
    paid,      \* ghost: loads some request has set the key of
    sold,      \* ghost: how often each phone's request set each id
    early      \* ghost: who had passed the lookup when an id was first set

store   == <<redis, weight, faults>>
machine == <<loads, idOf, page, data, out>>
phone   == <<pc, target, result, swipes, listed>>
ghost   == <<paid, sold, early>>
vars    == <<store, machine, phone, ghost>>

Key(p) == idOf[target[p]]

Init ==
    /\ redis = {} /\ weight = Stock /\ faults = 0
    /\ loads = 0 /\ idOf \in [Loads -> {0}] /\ page = "off" /\ data = "empty" /\ out = {}
    /\ pc = [p \in Phones |-> "idle"] /\ target = [p \in Phones |-> 0]
    /\ result = [p \in Phones |-> "empty"] /\ swipes = [p \in Phones |-> 0]
    /\ listed = {}
    /\ paid = {} /\ sold = [p \in Phones |-> [i \in Ids |-> 0]]
    /\ early = [i \in Ids |-> {}]

-----------------------------------------------------------------------------
(* The machine's page.                                                      *)

ShownIds == {idOf[l] : l \in 1 .. loads}
Draw     == IF Unique THEN Ids \ ShownIds ELSE Ids

\* Loading (or reloading) the page draws an id and calls checkpay().
Load ==
    /\ loads < MaxLoads /\ loads' = loads + 1
    /\ \E i \in Draw : idOf' = [idOf EXCEPT ![loads + 1] = i]
    /\ page' = "ask" /\ data' = "empty"
    /\ UNCHANGED <<store, out, phone, ghost>>

\* CouponRedis.doGet: the id's value, "0" when there is none.  (Its mutant:
\* the value is that of any key.)
AnyKey == IF redis # {} THEN "1" ELSE "0"
Lookup == IF idOf[loads] \in redis THEN "1" ELSE "0"

Check ==
    /\ page = "ask" /\ page' = "answered" /\ data' = Lookup
    /\ UNCHANGED <<store, loads, idOf, out, phone, ghost>>

\* Redis throws: the exception is printed and the answer is empty.
CheckFails ==
    /\ page = "ask" /\ faults < MaxFaults /\ faults' = faults + 1
    /\ page' = "answered" /\ data' = "empty"
    /\ UNCHANGED <<redis, weight, loads, idOf, out, phone, ghost>>

\* $.post has no error handler: a poll that is lost ends the polling.
PollLost ==
    /\ page \in {"ask", "answered"} /\ page' = "silent"
    /\ UNCHANGED <<store, loads, idOf, data, out, phone, ghost>>

Dispense ==
    /\ page = "answered" /\ data = "1"
    /\ page' = "success" /\ out' = out \cup {loads}
    /\ UNCHANGED <<store, loads, idOf, data, phone, ghost>>

NotAgain == "off"      \* mutant of Again: the timer is not armed
Again    == "wait"

\* Anything but 1 arms the timer of two seconds.
NotYet ==
    /\ page = "answered" /\ data # "1" /\ page' = Again
    /\ UNCHANGED <<store, loads, idOf, data, out, phone, ghost>>

Timer ==
    /\ page = "wait" /\ page' = "ask"
    /\ UNCHANGED <<store, loads, idOf, data, out, phone, ghost>>

-----------------------------------------------------------------------------
(* A phone's request, CouponRedisSet.doGet.                                 *)

AlwaysListed   == TRUE      \* mutant: the list is not filtered
CountIsNotZero == weight # 0

\* The list of coupons is built from the database when swip.jsp is loaded.
Browse(p) ==
    /\ pc[p] \in {"idle", "success"} /\ swipes[p] < MaxSwipes
    /\ pc' = [pc EXCEPT ![p] = "idle"] /\ result' = [result EXCEPT ![p] = "empty"]
    /\ listed' = IF CountIsNotZero THEN listed \cup {p} ELSE listed \ {p}
    /\ UNCHANGED <<store, machine, target, swipes, ghost>>

\* The coupon is swiped away, which removes it from the list, and confirmed.
\* A QR code stays usable after the page has gone on.
Swipe(p, l) ==
    /\ pc[p] = "idle" /\ p \in listed /\ swipes[p] < MaxSwipes /\ l <= loads
    /\ listed' = listed \ {p} /\ swipes' = [swipes EXCEPT ![p] = @ + 1]
    /\ target' = [target EXCEPT ![p] = l]
    /\ pc' = [pc EXCEPT ![p] = "get"] /\ result' = [result EXCEPT ![p] = "empty"]
    /\ UNCHANGED <<store, machine, ghost>>

NeverBought(p) == FALSE     \* mutant of Bought: the lookup is not tested
Bought(p)      == Key(p) \in redis

\* jedis.get: "1" means already bought.
Get(p) ==
    /\ pc[p] = "get"
    /\ pc' = [pc EXCEPT ![p] = IF Bought(p) THEN "reply" ELSE "set"]
    /\ result' = [result EXCEPT ![p] = IF Bought(p) THEN "-2" ELSE "empty"]
    /\ UNCHANGED <<store, machine, target, swipes, listed, ghost>>

\* Redis takes the key.
Store(p) ==
    /\ redis' = redis \cup {Key(p)}
    /\ paid' = paid \cup {target[p]}
    /\ sold' = [sold EXCEPT ![p][Key(p)] = @ + 1]
    /\ early' = IF Key(p) \in redis THEN early
                ELSE [early EXCEPT ![Key(p)] =
                        {q \in Phones : pc[q] = "set" /\ Key(q) = Key(p)}]

\* jedis.set(machine_product_id, "1") answers OK.
Set(p) ==
    /\ pc[p] = "set" /\ pc' = [pc EXCEPT ![p] = "charge"]
    /\ result' = [result EXCEPT ![p] = "OK"]
    /\ Store(p)
    /\ UNCHANGED <<weight, faults, machine, target, swipes, listed>>

\* get or set throws, set perhaps after Redis has taken the key.
RedisFails(p) ==
    /\ pc[p] \in {"get", "set"} /\ faults < MaxFaults /\ faults' = faults + 1
    /\ pc' = [pc EXCEPT ![p] = "reply"]
    /\ \/ UNCHANGED <<redis, ghost>>
       \/ pc[p] = "set" /\ Store(p)
    /\ UNCHANGED <<weight, machine, target, result, swipes, listed>>

TwoUnits == 2               \* mutant of OneUnit
OneUnit  == 1

\* setCoupon: the update runs or its exception is swallowed; the answer is
\* "OK" either way.
Charge(p) ==
    /\ pc[p] = "charge" /\ pc' = [pc EXCEPT ![p] = "reply"]
    /\ weight' \in {weight - OneUnit, weight}
    /\ UNCHANGED <<redis, faults, machine, target, result, swipes, listed, ghost>>

\* OK sends the phone to success.html; -2 and an empty answer (or none) show
\* an alert, and the user may swipe again.
Reply(p) ==
    /\ pc[p] = "reply"
    /\ pc' = [pc EXCEPT ![p] = IF result[p] = "OK" THEN "success" ELSE "idle"]
    /\ UNCHANGED <<store, machine, target, result, swipes, listed, ghost>>

-----------------------------------------------------------------------------
Poll == Check \/ CheckFails \/ Dispense \/ NotYet \/ Timer

Request(p) == Get(p) \/ Set(p) \/ RedisFails(p) \/ Charge(p) \/ Reply(p)

Next ==
    \/ Load \/ Poll \/ PollLost
    \/ \E p \in Phones : Request(p) \/ Browse(p) \/ \E l \in Loads : Swipe(p, l)

Spec == Init /\ [][Next]_vars

\* The page's timer fires and the servlets answer.
FairSpec == Spec /\ WF_vars(Poll) /\ \A p \in Phones : WF_vars(Request(p))

-----------------------------------------------------------------------------
(* Properties.                                                              *)

\* The type invariant: the coupon's weight never grows, and the answer to a
\* poll is one the page understands.
TypeOK ==
    /\ redis \subseteq Ids /\ faults \in 0 .. MaxFaults
    /\ weight \in Int /\ weight <= Stock
    /\ loads \in 0 .. MaxLoads /\ idOf \in [Loads -> Ids \cup {0}]
    /\ page \in {"off", "ask", "answered", "wait", "silent", "success"}
    /\ data \in {"empty", "0", "1"} /\ out \subseteq Loads
    /\ pc \in [Phones -> {"idle", "get", "set", "charge", "reply", "success"}]
    /\ target \in [Phones -> 0 .. MaxLoads]
    /\ result \in [Phones -> {"empty", "-2", "OK"}]
    /\ swipes \in [Phones -> 0 .. MaxSwipes] /\ listed \subseteq Phones
    /\ paid \subseteq Loads /\ sold \in [Phones -> [Ids -> Nat]]
    /\ early \in [Ids -> SUBSET Phones]

\* Goods leave the machine only for a load of its page that somebody paid
\* for (efan.html line 36): true if ids never repeat, as line 15 promises.
PaidDispense == out \subseteq paid

\* A user who swipes again after an error, or after an answer got lost, is
\* never sold the same product a second time (CouponRedisSet lines 36-38), and
\* different users are only if all of them had looked it up before the first
\* one set it (lines 36 and 40 are two commands).
SoldTwiceOnlyByOverlap ==
    \A p \in Phones, i \in Ids :
        sold[p][i] <= 1 /\ (sold[p][i] > 0 => p \in early[i])

\* The coupon never loses more than one for every key set (line 63), a phone
\* that is told OK did set the key of the product it scanned, and app_weight
\* goes below zero (after which swip.jsp line 39 lists the coupon for ever)
\* only if two requests used lists that were both built before.
ChargedForSale ==
    /\ Stock - weight <= Cardinality({s \in Phones \X Ids : sold[s[1]][s[2]] > 0})
    /\ \A p \in Phones : result[p] = "OK" => target[p] \in paid
    /\ weight < 0 => \E p, q \in Phones :
           p # q /\ \E i, j \in Ids : sold[p][i] > 0 /\ sold[q][j] > 0

\* A product somebody paid for is dispensed unless the machine's page was
\* loaded again or the network lost a poll: failures of Redis only delay it.
PaidIsDispensed ==
    \A l \in Loads : (l \in paid) ~> (l \in out \/ loads > l \/ page = "silent")
=============================================================================
