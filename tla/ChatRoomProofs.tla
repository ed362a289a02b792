--------------------------- MODULE ChatRoomProofs ---------------------------
(***************************************************************************)
(* What holds of the unlocked HashMap of the chat servlets and of the      *)
(* broadcasts over it, for any number of connections and milliseconds.     *)
(***************************************************************************)
EXTENDS ChatRoom, TLAPS

-----------------------------------------------------------------------------
(* The inductive invariant.                                                 *)

\* Every entry of a table is a registered connection, under its own key.
Placed(m) == \A k \in Key : m[k] # None => mykey[m[k]] = k /\ pc[m[k]] \notin {"new", "put"}

\* That holds of the map, of what updates have read and of every iterator.
Keyed ==
    /\ \A c \in Conns : mykey[c] = 0 <=> pc[c] = "new"
    /\ Placed(mmiList)
    /\ \A c \in Conns : Placed(snap[c].table) /\ Placed(view[c])

\* As long as no update was lost, an open connection that has a millisecond for
\* itself is in the map and a closed one is not.
Shared(c) == \E d \in Conns \ {c} : mykey[d] = mykey[c]
Listed ==
    raced \/ /\ \A k \in Key : mmiList[k] # None => pc[mmiList[k]] # "closed"
             /\ \A c \in Conns : pc[c] \in {"idle", "cast", "failed"} /\ ~Shared(c) => mmiList[mykey[c]] = c

\* Nobody got a message twice; whoever has a key that the iterator has yet to
\* return did not get it, nor did a connection that was not opened.
Once ==
    /\ \A m, c \in Conns : sent[m][c] <= 1
    /\ \A m, c \in Conns : pc[m] = "cast" /\ mykey[c] \in left[m] => sent[m][c] = 0
    /\ \A m, c \in Conns : pc[c] = "new" => sent[m][c] = 0

\* As long as no update was lost, who was in the map, still is and was passed by
\* the iterator has the message.
Passed ==
    raced \/ \A c \in Conns, k \in Key :
                pc[c] = "cast" /\ view[c][k] # None /\ view[c][k] = mmiList[k] /\ k \notin left[c]
                    => sent[c][mmiList[k]] = 1

Broken(c) == pc[c] \in {"failed", "remove", "closed"}
Calm == \A x \in Conns : ~gone[x] /\ ~Broken(x)
AllIn(c) == \A x \in Conns : pc[x] # "new" => x \in Members(view[c])

\* While nobody leaves, an iterator that has met everybody is not disturbed.
Quiet == \A c \in Conns : pc[c] = "cast" /\ Calm /\ AllIn(c) => modCount = expected[c]

\* The second part of CastsDoNoHarm.
Unharmed == (\E c \in Conns : Broken(c)) => \/ \E x \in Conns : gone[x]
                                            \/ \E c \in Conns : Broken(c) /\ ~AllIn(c)

ChatInv == TypeOK /\ Keyed /\ Listed /\ Once /\ Passed /\ Quiet /\ Unharmed

-----------------------------------------------------------------------------
(* The operators of the model.                                              *)

\* Membership in a table.
LEMMA MemberDef ==
    ASSUME NEW m \in Table, NEW x \in Conns
    PROVE  x \in Members(m) <=> \E k \in Key : m[k] = x
BY ChatAssumption DEF Members, Keys

\* What the type invariant says of a single connection or key.
LEMMA Types ==
    ASSUME TypeOK
    PROVE  /\ clock \in Key /\ modCount \in Nat /\ raced \in BOOLEAN /\ mmiList \in Table
           /\ \A c \in Conns : /\ mykey[c] \in 0 .. clock /\ view[c] \in Table /\ expected[c] \in Nat
                                /\ snap[c].table \in Table /\ snap[c].mods \in Nat
                                /\ left[c] \subseteq Key /\ gone[c] \in BOOLEAN
                                /\ \A x \in Conns : sent[c][x] \in Nat
BY DEF TypeOK

\* What put and remove leave in the table, entry by entry: what was there, unless
\* the update rests on a stale read and another one is lost.
LEMMA UpdateWrites ==
    ASSUME TypeOK, NEW c \in Conns, NEW k \in Key, NEW v \in Conns \cup {None}, Update(c, k, v)
    PROVE  /\ mmiList' \in Table /\ modCount' \in Nat /\ raced' \in BOOLEAN
           /\ mmiList'[k] = v
           /\ \A j \in Key : j # k => mmiList'[j] \in {mmiList[j], snap[c].table[j]}
           /\ ~raced' => ~raced /\ \A j \in Key : j # k => mmiList'[j] = mmiList[j]
<1>1. PICK base \in Bases(c), n \in {modCount, snap[c].mods} :
         /\ mmiList' = [base EXCEPT ![k] = v]
         /\ modCount' = IF Structural(base, k, v) THEN n + 1 ELSE modCount
         /\ raced' = (raced \/ base # mmiList)
  BY DEF Update, NewTable
<1>2. modCount \in Nat /\ snap[c].mods \in Nat /\ raced \in BOOLEAN
  BY Types
<1>3. base \in Table /\ \A j \in Key : base[j] \in {mmiList[j], snap[c].table[j]}
  BY DEF Bases
<1>4. mmiList' \in Table
  BY <1>1, <1>3 DEF Table
<1>5. modCount' \in Nat
  BY <1>1, <1>2
<1>6. \A j \in Key : mmiList'[j] = IF j = k THEN v ELSE base[j]
  BY <1>1, <1>3 DEF Table
<1>7. raced' \in BOOLEAN /\ (~raced' => ~raced /\ base = mmiList)
  BY <1>1, <1>2
<1> QED BY <1>3, <1>4, <1>5, <1>6, <1>7

-----------------------------------------------------------------------------
(* Steps that do not touch what a part of the invariant is about.           *)

\* A registered connection stays registered and keeps its key.
Grown == \A x \in Conns : pc[x] \notin {"new", "put"} => mykey'[x] = mykey[x] /\ pc'[x] \notin {"new", "put"}

\* A table that is kept, or copied from the map, stays sound.
LEMMA PlacedStays ==
    ASSUME NEW m \in Table, Placed(m), Grown
    PROVE  \A k \in Key : m[k] # None => mykey'[m[k]] = k /\ pc'[m[k]] \notin {"new", "put"}
BY DEF Placed, Grown, Table

\* Keyed rests on where tables come from.
LEMMA KeyedStays ==
    ASSUME TypeOK, Keyed, Grown,
           \A c \in Conns : mykey'[c] = 0 <=> pc'[c] = "new",
           Placed(mmiList)',
           \A c \in Conns : view'[c] \in {view[c], mmiList} /\ snap'[c].table \in {snap[c].table, mmiList}
    PROVE  Keyed'
<1>1. ASSUME NEW c \in Conns
      PROVE  Placed(snap[c].table)' /\ Placed(view[c])'
  <2>1. /\ view[c] \in Table /\ snap[c].table \in Table /\ mmiList \in Table
        /\ Placed(view[c]) /\ Placed(snap[c].table) /\ Placed(mmiList)
    BY Types DEF Keyed
  <2>2. Placed(view[c])'
    <3>1. CASE view'[c] = view[c]
      BY <2>1, <3>1, PlacedStays DEF Placed
    <3>2. CASE view'[c] = mmiList
      BY <2>1, <3>2, PlacedStays DEF Placed
    <3> QED BY <3>1, <3>2
  <2>3. Placed(snap[c].table)'
    <3>1. CASE snap'[c].table = snap[c].table
      BY <2>1, <3>1, PlacedStays DEF Placed
    <3>2. CASE snap'[c].table = mmiList
      BY <2>1, <3>2, PlacedStays DEF Placed
    <3> QED BY <3>1, <3>2
  <2> QED BY <2>2, <2>3
<1> QED BY <1>1 DEF Keyed

\* A step that breaks no connection while every browser is there.
LEMMA UnharmedStays ==
    ASSUME Unharmed, \A x \in Conns : gone[x] => gone'[x],
           \A x \in Conns : Broken(x) => Broken(x)' /\ view'[x] = view[x],
           \A x \in Conns : pc[x] # "new" => pc'[x] # "new",
           \A x \in Conns : Broken(x)' => Broken(x) \/ gone'[x]
    PROVE  Unharmed'
<1>1. ASSUME NEW c \in Conns, Broken(c), ~AllIn(c)
      PROVE  Broken(c)' /\ ~AllIn(c)'
  BY <1>1 DEF AllIn
<1> QED BY <1>1 DEF Unharmed

\* Steps of the clock, of the browsers and of a callback that ends.
Mild ==
    /\ UNCHANGED <<mykey, mmiList, modCount, raced, view, left, expected, sent>>
    /\ \A x \in Conns : gone[x] => gone'[x]
    /\ \A x \in Conns : \/ pc'[x] = pc[x]
                        \/ pc[x] \in {"idle", "failed"} /\ pc'[x] = "remove"
                        \/ pc[x] = "cast" /\ pc'[x] \in {"idle", "failed"}
    /\ \A x \in Conns : snap'[x].table \in {snap[x].table, mmiList}

\* They leave everything but the sender's fate alone.
LEMMA MildStep ==
    ASSUME ChatInv, TypeOK', Mild
    PROVE  Keyed' /\ Listed' /\ Once' /\ Passed' /\ Quiet'
<1> USE DEF ChatInv, Mild
<1>1. UNCHANGED <<mykey, mmiList, modCount, raced, view, left, expected, sent>>
  OBVIOUS
<1>2. Keyed'
  <2>1. Grown
    BY <1>1 DEF Grown
  <2>2. \A c \in Conns : mykey'[c] = 0 <=> pc'[c] = "new"
    BY <1>1 DEF Keyed
  <2>3. Placed(mmiList)'
    BY <1>1, <2>1, Types, PlacedStays DEF Keyed, Placed
  <2> QED BY <1>1, <2>1, <2>2, <2>3, KeyedStays
<1>3. Listed'
  <2>1. \A x \in Conns : /\ pc'[x] = "closed" => pc[x] = "closed"
                         /\ pc'[x] \in {"idle", "cast", "failed"} => pc[x] \in {"idle", "cast", "failed"}
    OBVIOUS
  <2>2. \A k \in Key : mmiList[k] # None => mmiList[k] \in Conns
    BY Types DEF Table
  <2>3. \A c \in Conns : Shared(c)' <=> Shared(c)
    BY <1>1 DEF Shared
  <2> QED BY <1>1, <2>1, <2>2, <2>3 DEF Listed
<1>4. \A x \in Conns : /\ pc'[x] = "cast" => pc[x] = "cast"
                       /\ pc'[x] = "new" <=> pc[x] = "new"
                       /\ Broken(x) => Broken(x)'
  BY DEF Broken
<1>5. Once' /\ Passed'
  BY <1>1, <1>4 DEF Once, Passed
<1>6. Quiet'
  <2>1. Calm' => Calm
    BY <1>4 DEF Calm
  <2>2. \A c \in Conns : AllIn(c)' => AllIn(c)
    BY <1>1, <1>4 DEF AllIn
  <2> QED BY <1>1, <1>4, <2>1, <2>2 DEF Quiet
<1> QED BY <1>2, <1>3, <1>5, <1>6

-----------------------------------------------------------------------------
(* The actions.                                                             *)

\* Nobody has connected and the map is empty.
LEMMA ChatInit == Init => ChatInv
<1> SUFFICES ASSUME Init PROVE ChatInv OBVIOUS
<1> USE ChatAssumption DEF Init
<1>1. Empty \in Table /\ \A k \in Key : Empty[k] = None
  BY DEF Empty, Table
<1>2. 1 \in Key
  BY DEF Key
<1>3. TypeOK
  <2>1. snap \in [Conns -> [table : Table, mods : Nat]] /\ view \in [Conns -> Table]
    BY <1>1
  <2>2. mykey \in [Conns -> 0 .. clock] /\ toUser \in [Conns -> 0 .. MaxClock]
    BY <1>2
  <2>3. sent \in [Conns -> [Conns -> Nat]]
    OBVIOUS
  <2> QED BY <1>1, <1>2, <2>1, <2>2, <2>3 DEF TypeOK
<1>4. Keyed
  BY <1>1 DEF Keyed, Placed
<1>5. Listed /\ Passed
  BY <1>1 DEF Listed, Passed
<1>6. Once /\ Quiet /\ Unharmed
  BY DEF Once, Quiet, Unharmed, Broken
<1> QED BY <1>3, <1>4, <1>5, <1>6 DEF ChatInv

\* A millisecond passes.
LEMMA TickKeeps ==
    ASSUME ChatInv, Tick
    PROVE  ChatInv'
<1>1. UNCHANGED <<pc, mykey, map, snap, gone, cast, sent>> /\ clock' = clock + 1 /\ clock < MaxClock
  BY DEF Tick
<1>2. UNCHANGED <<pc, mykey, mmiList, modCount, raced, snap, gone, toUser, view, left, expected, sent>>
  BY <1>1 DEF map, cast
<1>3. TypeOK'
  <2>1. clock \in 1 .. MaxClock /\ mykey \in [Conns -> 0 .. clock]
    BY DEF ChatInv, TypeOK, Key
  <2>2. clock' \in Key /\ 0 .. clock \subseteq 0 .. clock'
    BY <1>1, <2>1, ChatAssumption DEF Key
  <2>3. mykey' \in [Conns -> 0 .. clock']
    BY <1>2, <2>1, <2>2
  <2> QED BY <1>2, <2>2, <2>3 DEF ChatInv, TypeOK
<1>4. Keyed' /\ Listed' /\ Once' /\ Passed' /\ Quiet'
  <2>1. \A x \in Conns : gone[x] => gone'[x]
    BY <1>2
  <2>2. \A x \in Conns : \/ pc'[x] = pc[x]
                         \/ pc[x] \in {"idle", "failed"} /\ pc'[x] = "remove"
                         \/ pc[x] = "cast" /\ pc'[x] \in {"idle", "failed"}
    BY <1>2
  <2>3. \A x \in Conns : snap'[x].table \in {snap[x].table, mmiList}
    BY <1>2
  <2>4. Mild
    BY <1>2, <2>1, <2>2, <2>3 DEF Mild
  <2> QED BY <1>3, <2>4, MildStep
<1>5. Unharmed'
  BY <1>2, UnharmedStays DEF ChatInv, Broken
<1> QED BY <1>3, <1>4, <1>5 DEF ChatInv

\* A browser leaves.
LEMMA VanishKeeps ==
    ASSUME ChatInv, NEW c \in Conns, Vanish(c)
    PROVE  ChatInv'
<1>1. UNCHANGED <<clock, pc, mykey, map, snap, cast, sent>> /\ gone' = [gone EXCEPT ![c] = TRUE]
  BY DEF Vanish
<1>2. UNCHANGED <<clock, pc, mykey, mmiList, modCount, raced, snap, toUser, view, left, expected, sent>>
  BY <1>1 DEF map, cast
<1>3. TypeOK'
  BY <1>1, <1>2 DEF ChatInv, TypeOK
<1>4. \A x \in Conns : gone[x] => gone'[x]
  BY <1>1 DEF ChatInv, TypeOK
<1>5. Keyed' /\ Listed' /\ Once' /\ Passed' /\ Quiet'
  <2>1. \A x \in Conns : gone[x] => gone'[x]
    BY <1>4
  <2>2. \A x \in Conns : \/ pc'[x] = pc[x]
                         \/ pc[x] \in {"idle", "failed"} /\ pc'[x] = "remove"
                         \/ pc[x] = "cast" /\ pc'[x] \in {"idle", "failed"}
    BY <1>2
  <2>3. \A x \in Conns : snap'[x].table \in {snap[x].table, mmiList}
    BY <1>2
  <2>4. Mild
    BY <1>2, <2>1, <2>2, <2>3 DEF Mild
  <2> QED BY <1>3, <2>4, MildStep
<1>6. Unharmed'
  BY <1>2, <1>4, UnharmedStays DEF ChatInv, Broken
<1> QED BY <1>3, <1>5, <1>6 DEF ChatInv

\* onClose looks at the map.
LEMMA OnCloseKeeps ==
    ASSUME ChatInv, NEW c \in Conns, OnClose(c)
    PROVE  ChatInv'
<1>1. /\ UNCHANGED <<clock, mykey, map, gone, cast, sent>>
      /\ pc[c] = "failed" \/ (pc[c] = "idle" /\ gone[c])
      /\ pc' = [pc EXCEPT ![c] = "remove"]
      /\ snap' = [snap EXCEPT ![c] = [table |-> mmiList, mods |-> modCount]]
  BY DEF OnClose, Look, Goto, At
<1>2. UNCHANGED <<clock, mykey, mmiList, modCount, raced, gone, toUser, view, left, expected, sent>>
  BY <1>1 DEF map, cast
<1>3. \A x \in Conns : /\ pc'[x] = IF x = c THEN "remove" ELSE pc[x]
                       /\ snap'[x].table = IF x = c THEN mmiList ELSE snap[x].table
  BY <1>1 DEF ChatInv, TypeOK
<1>4. TypeOK'
  BY <1>1, <1>2 DEF ChatInv, TypeOK
<1>5. Keyed' /\ Listed' /\ Once' /\ Passed' /\ Quiet'
  <2>1. \A x \in Conns : gone[x] => gone'[x]
    BY <1>2
  <2>2. \A x \in Conns : \/ pc'[x] = pc[x]
                         \/ pc[x] \in {"idle", "failed"} /\ pc'[x] = "remove"
                         \/ pc[x] = "cast" /\ pc'[x] \in {"idle", "failed"}
    BY <1>1, <1>3
  <2>3. \A x \in Conns : snap'[x].table \in {snap[x].table, mmiList}
    BY <1>3
  <2>4. Mild
    BY <1>2, <2>1, <2>2, <2>3 DEF Mild
  <2> QED BY <1>4, <2>4, MildStep
<1>6. Unharmed'
  BY <1>1, <1>2, <1>3, UnharmedStays DEF ChatInv, Broken
<1> QED BY <1>4, <1>5, <1>6 DEF ChatInv

\* The iterator is at its end.
LEMMA CastDoneKeeps ==
    ASSUME ChatInv, NEW c \in Conns, CastDone(c)
    PROVE  ChatInv'
<1>1. /\ UNCHANGED <<clock, mykey, map, snap, gone, cast, sent>>
      /\ pc[c] = "cast" /\ pc' = [pc EXCEPT ![c] = "idle"]
  BY DEF CastDone, Goto, At
<1>2. UNCHANGED <<clock, mykey, mmiList, modCount, raced, snap, gone, toUser, view, left, expected, sent>>
  BY <1>1 DEF map, cast
<1>3. \A x \in Conns : pc'[x] = IF x = c THEN "idle" ELSE pc[x]
  BY <1>1 DEF ChatInv, TypeOK
<1>4. TypeOK'
  BY <1>1, <1>2 DEF ChatInv, TypeOK
<1>5. Keyed' /\ Listed' /\ Once' /\ Passed' /\ Quiet'
  <2>1. \A x \in Conns : gone[x] => gone'[x]
    BY <1>2
  <2>2. \A x \in Conns : \/ pc'[x] = pc[x]
                         \/ pc[x] \in {"idle", "failed"} /\ pc'[x] = "remove"
                         \/ pc[x] = "cast" /\ pc'[x] \in {"idle", "failed"}
    BY <1>1, <1>3
  <2>3. \A x \in Conns : snap'[x].table \in {snap[x].table, mmiList}
    BY <1>2
  <2>4. Mild
    BY <1>2, <2>1, <2>2, <2>3 DEF Mild
  <2> QED BY <1>4, <2>4, MildStep
<1>6. Unharmed'
  BY <1>1, <1>2, <1>3, UnharmedStays DEF ChatInv, Broken
<1> QED BY <1>4, <1>5, <1>6 DEF ChatInv

\* A broadcast fails only at a dead connection or at an entry it has not met.
LEMMA CastFailsKeeps ==
    ASSUME ChatInv, NEW c \in Conns, CastFails(c)
    PROVE  ChatInv'
<1>1. /\ UNCHANGED <<clock, mykey, map, snap, gone, cast, sent>>
      /\ pc[c] = "cast" /\ pc' = [pc EXCEPT ![c] = "failed"]
  BY DEF CastFails, Goto, At
<1>2. UNCHANGED <<clock, mykey, mmiList, modCount, raced, snap, gone, toUser, view, left, expected, sent>>
  BY <1>1 DEF map, cast
<1>3. \A x \in Conns : pc'[x] = IF x = c THEN "failed" ELSE pc[x]
  BY <1>1 DEF ChatInv, TypeOK
<1>4. TypeOK'
  BY <1>1, <1>2 DEF ChatInv, TypeOK
<1>5. Keyed' /\ Listed' /\ Once' /\ Passed' /\ Quiet'
  <2>1. \A x \in Conns : gone[x] => gone'[x]
    BY <1>2
  <2>2. \A x \in Conns : \/ pc'[x] = pc[x]
                         \/ pc[x] \in {"idle", "failed"} /\ pc'[x] = "remove"
                         \/ pc[x] = "cast" /\ pc'[x] \in {"idle", "failed"}
    BY <1>1, <1>3
  <2>3. \A x \in Conns : snap'[x].table \in {snap[x].table, mmiList}
    BY <1>2
  <2>4. Mild
    BY <1>2, <2>1, <2>2, <2>3 DEF Mild
  <2> QED BY <1>4, <2>4, MildStep
<1>6. Unharmed'
  <2>1. CASE Calm
    <3>1. modCount # expected[c]
      <4>1. PICK k \in left[c] : FailFast(c) \/ \E x \in Targets(c, k) : Unwritable(x)
        BY DEF CastFails
      <4>2. k \in Key /\ mmiList \in Table /\ view[c] \in Table
        BY Types DEF ChatInv
      <4>3. Targets(c, k) \subseteq Conns
        BY <4>2 DEF Targets, Table
      <4>4. \A x \in Conns : ~Unwritable(x)
        BY <2>1 DEF Calm, Unwritable, Broken
      <4> QED BY <4>1, <4>3, <4>4 DEF FailFast
    <3>2. ~AllIn(c)
      BY <1>1, <2>1, <3>1 DEF ChatInv, Quiet
    <3>3. ~AllIn(c)' /\ Broken(c)'
      BY <1>1, <1>2, <1>3, <3>2 DEF AllIn, Broken
    <3> QED BY <3>3 DEF Unharmed
  <2>2. CASE ~Calm
    <3>1. (\E x \in Conns : gone[x]) \/ \E x \in Conns : Broken(x) /\ ~AllIn(x)
      BY <2>2 DEF Calm, ChatInv, Unharmed
    <3>2. \A x \in Conns : Broken(x) /\ ~AllIn(x) => Broken(x)' /\ ~AllIn(x)'
      BY <1>1, <1>2, <1>3 DEF AllIn, Broken
    <3> QED BY <1>2, <3>1, <3>2 DEF Unharmed
  <2> QED BY <2>1, <2>2
<1> QED BY <1>4, <1>5, <1>6 DEF ChatInv

\* onOpen takes the millisecond as its key and looks at the map.
LEMMA OnOpenKeeps ==
    ASSUME ChatInv, NEW c \in Conns, OnOpen(c)
    PROVE  ChatInv'
<1>1. /\ UNCHANGED <<clock, map, gone, cast, sent>>
      /\ pc[c] = "new" /\ pc' = [pc EXCEPT ![c] = "put"]
      /\ mykey' = [mykey EXCEPT ![c] = clock]
      /\ snap' = [snap EXCEPT ![c] = [table |-> mmiList, mods |-> modCount]]
  BY DEF OnOpen, Look, Goto, At, CurrentKey
<1>2. UNCHANGED <<clock, mmiList, modCount, raced, gone, toUser, view, left, expected, sent>>
  BY <1>1 DEF map, cast
<1>3. \A x \in Conns : /\ pc'[x] = IF x = c THEN "put" ELSE pc[x]
                       /\ mykey'[x] = IF x = c THEN clock ELSE mykey[x]
                       /\ snap'[x].table = IF x = c THEN mmiList ELSE snap[x].table
  BY <1>1 DEF ChatInv, TypeOK
<1>4. clock \in Nat /\ clock > 0 /\ clock \in 0 .. clock
  BY ChatAssumption DEF ChatInv, TypeOK, Key
<1>5. TypeOK'
  <2>1. mykey' \in [Conns -> 0 .. clock]
    BY <1>1, <1>4 DEF ChatInv, TypeOK
  <2> QED BY <1>1, <1>2, <2>1 DEF ChatInv, TypeOK
<1>6. Keyed'
  <2>1. Grown
    BY <1>1, <1>3 DEF Grown
  <2>2. \A x \in Conns : mykey'[x] = 0 <=> pc'[x] = "new"
    BY <1>3, <1>4 DEF ChatInv, Keyed
  <2>3. Placed(mmiList)'
    BY <1>2, <2>1, Types, PlacedStays DEF ChatInv, Keyed, Placed
  <2> QED BY <1>2, <1>3, <2>1, <2>2, <2>3, KeyedStays DEF ChatInv
<1>7. Listed'
  <2>1. \A k \in Key : mmiList[k] # None => mmiList[k] \in Conns
    BY Types DEF ChatInv, Table
  <2>2. \A x \in Conns : x # c /\ pc[x] # "new" /\ Shared(x) => Shared(x)'
    <3> SUFFICES ASSUME NEW x \in Conns, x # c, pc[x] # "new", NEW d \in Conns \ {x}, mykey[d] = mykey[x]
                 PROVE  mykey'[d] = mykey'[x]
      BY DEF Shared
    <3>1. mykey[x] # 0 /\ mykey[c] = 0
      BY <1>1 DEF ChatInv, Keyed
    <3> QED BY <1>3, <3>1
  <2> QED BY <1>2, <1>3, <2>1, <2>2 DEF ChatInv, Listed
<1>8. Once'
  <2>1. \A m \in Conns : sent[m][c] = 0
    BY <1>1 DEF ChatInv, Once
  <2> QED BY <1>2, <1>3, <2>1 DEF ChatInv, Once
<1>9. Passed'
  BY <1>2, <1>3 DEF ChatInv, Passed
<1>10. Quiet'
  <2>1. \A d \in Conns : ~AllIn(d)'
    <3> SUFFICES ASSUME NEW d \in Conns, c \in Members(view[d]) PROVE FALSE
      BY <1>2, <1>3 DEF AllIn
    <3>1. view[d] \in Table /\ Placed(view[d])
      BY Types DEF ChatInv, Keyed
    <3> QED BY <1>1, <3>1, MemberDef, ChatAssumption DEF Placed
  <2> QED BY <2>1 DEF Quiet
<1>11. Unharmed'
  BY <1>1, <1>2, <1>3, UnharmedStays DEF ChatInv, Broken
<1> QED BY <1>5, <1>6, <1>7, <1>8, <1>9, <1>10, <1>11 DEF ChatInv

\* The second half of put or remove: nothing that a broadcast has met comes back.
LEMMA UpdateKeeps ==
    ASSUME ChatInv, NEW c \in Conns, NEW v \in Conns \cup {None}, Update(c, mykey[c], v),
           \/ v = c /\ pc[c] = "put" /\ pc' = [pc EXCEPT ![c] = "idle"]
           \/ v = None /\ pc[c] = "remove" /\ pc' = [pc EXCEPT ![c] = "closed"],
           UNCHANGED <<clock, mykey, snap, gone, cast, sent>>
    PROVE  ChatInv'
<1> DEFINE k == mykey[c]
<1>1. UNCHANGED <<clock, mykey, snap, gone, toUser, view, left, expected, sent>>
  BY DEF cast
<1>2. \A x \in Conns : pc[x] # "new" => mykey[x] \in Key
  <2>1. \A x \in Conns : pc[x] # "new" => mykey[x] # 0
    BY DEF ChatInv, Keyed
  <2>2. clock \in 1 .. MaxClock /\ \A x \in Conns : mykey[x] \in 0 .. clock
    BY DEF ChatInv, TypeOK, Key
  <2> QED BY <2>1, <2>2, ChatAssumption DEF Key
<1>3. k \in Key /\ c # None /\ pc \in [Conns -> {"new", "put", "idle", "cast", "failed", "remove", "closed"}]
  BY <1>2, ChatAssumption DEF ChatInv, TypeOK
<1>4. \A x \in Conns : x # c => pc'[x] = pc[x]
  BY <1>3
<1>5. \/ v = c /\ pc[c] = "put" /\ pc'[c] = "idle"
      \/ v = None /\ pc[c] = "remove" /\ pc'[c] = "closed"
  BY <1>3
<1>6. /\ mmiList' \in Table /\ modCount' \in Nat /\ raced' \in BOOLEAN
      /\ mmiList'[k] = v
      /\ \A j \in Key : j # k => mmiList'[j] \in {mmiList[j], snap[c].table[j]}
      /\ ~raced' => ~raced /\ \A j \in Key : j # k => mmiList'[j] = mmiList[j]
  BY <1>3, UpdateWrites DEF ChatInv
<1> HIDE DEF k
<1>7. TypeOK'
  <2>1. pc' \in [Conns -> {"new", "put", "idle", "cast", "failed", "remove", "closed"}]
    BY <1>3
  <2> QED BY <1>1, <1>6, <2>1 DEF ChatInv, TypeOK
<1>8. k = mykey[c] /\ \A x \in Conns : /\ Placed(view[x]) /\ view[x] \in Table
                                       /\ Placed(snap[x].table) /\ snap[x].table \in Table
      /\ Placed(mmiList) /\ mmiList \in Table
  BY Types DEF ChatInv, Keyed, k
<1>9. \A d \in Conns : pc[c] = "put" => c \notin Members(view[d])
  BY <1>3, <1>8, MemberDef DEF Placed
<1>10. Keyed'
  <2>1. Grown
    BY <1>1, <1>4, <1>5 DEF Grown
  <2>2. \A x \in Conns : mykey'[x] = 0 <=> pc'[x] = "new"
    BY <1>1, <1>4, <1>5 DEF ChatInv, Keyed
  <2>3. Placed(mmiList)'
    <3> SUFFICES ASSUME NEW j \in Key, mmiList'[j] # None
                 PROVE  mykey'[mmiList'[j]] = j /\ pc'[mmiList'[j]] \notin {"new", "put"}
      BY DEF Placed
    <3>1. CASE j = k
      BY <1>1, <1>5, <1>6, <1>8, <3>1
    <3>2. CASE j # k /\ mmiList'[j] = mmiList[j]
      BY <1>8, <2>1, <3>2, PlacedStays
    <3>3. CASE j # k /\ mmiList'[j] = snap[c].table[j]
      BY <1>8, <2>1, <3>3, PlacedStays
    <3> QED BY <1>6, <3>1, <3>2, <3>3
  <2> QED BY <1>1, <2>1, <2>2, <2>3, KeyedStays DEF ChatInv
<1>11. Listed'
  <2> SUFFICES ASSUME ~raced' PROVE Listed' BY DEF Listed
  <2>1. ~raced /\ \A j \in Key : j # k => mmiList'[j] = mmiList[j]
    BY <1>6
  <2>2. ASSUME NEW j \in Key, mmiList'[j] # None
        PROVE  pc'[mmiList'[j]] # "closed"
    <3>1. CASE j = k
      BY <1>5, <1>6, <2>2, <3>1
    <3>2. CASE j # k
      <4>1. mmiList'[j] = mmiList[j] /\ mmiList[j] \in Conns /\ mykey[mmiList[j]] = j
        BY <1>8, <2>1, <2>2, <3>2 DEF Placed, Table
      <4>2. pc[mmiList[j]] # "closed"
        BY <2>1, <2>2, <4>1 DEF ChatInv, Listed
      <4> QED BY <1>4, <1>8, <3>2, <4>1, <4>2
    <3> QED BY <3>1, <3>2
  <2>3. ASSUME NEW d \in Conns, pc'[d] \in {"idle", "cast", "failed"}, ~Shared(d)'
        PROVE  mmiList'[mykey'[d]] = d
    <3>1. CASE d = c
      BY <1>1, <1>5, <1>6, <1>8, <2>3, <3>1
    <3>2. CASE d # c
      <4>1. ~Shared(d) /\ mykey[d] # k
        BY <1>1, <1>8, <2>3, <3>2 DEF Shared
      <4>2. pc[d] \in {"idle", "cast", "failed"} /\ mykey[d] \in Key
        BY <1>2, <1>4, <2>3, <3>2
      <4>3. mmiList[mykey[d]] = d
        BY <2>1, <4>1, <4>2 DEF ChatInv, Listed
      <4> QED BY <1>1, <2>1, <4>1, <4>2, <4>3
    <3> QED BY <3>1, <3>2
  <2> QED BY <2>2, <2>3 DEF Listed
<1>12. \A x \in Conns : /\ pc'[x] = "cast" => pc[x] = "cast"
                        /\ pc'[x] = "new" <=> pc[x] = "new"
                        /\ Broken(x) <=> Broken(x)'
  BY <1>4, <1>5 DEF Broken
<1>13. Once'
  BY <1>1, <1>12 DEF ChatInv, Once
<1>14. Passed'
  <2> SUFFICES ASSUME ~raced', NEW d \in Conns, NEW j \in Key, pc'[d] = "cast", view[d][j] # None,
                      view[d][j] = mmiList'[j], j \notin left[d]
               PROVE  sent[d][mmiList'[j]] = 1
    BY <1>1 DEF Passed
  <2>1. CASE j # k
    BY <1>6, <1>12, <2>1 DEF ChatInv, Passed
  <2>2. CASE j = k
    <3>1. v = c /\ view[d][k] = c /\ pc[c] = "put"
      BY <1>5, <1>6, <2>2
    <3> QED BY <1>3, <1>8, <3>1 DEF Placed
  <2> QED BY <2>1, <2>2
<1>15. Quiet'
  <2>1. ASSUME NEW d \in Conns, Calm', AllIn(d)'
        PROVE  FALSE
    <3>1. CASE pc'[c] = "closed"
      BY <2>1, <3>1 DEF Calm, Broken
    <3>2. CASE pc[c] = "put" /\ pc'[c] = "idle"
      BY <1>1, <1>9, <2>1, <3>2 DEF AllIn
    <3> QED BY <1>5, <3>1, <3>2
  <2> QED BY <2>1 DEF Quiet
<1>16. Unharmed'
  BY <1>1, <1>12, UnharmedStays DEF ChatInv
<1> QED BY <1>7, <1>10, <1>11, <1>13, <1>14, <1>15, <1>16 DEF ChatInv

\* put ends.
LEMMA RegisteredKeeps ==
    ASSUME ChatInv, NEW c \in Conns, Registered(c)
    PROVE  ChatInv'
<1>1. /\ Update(c, mykey[c], c) /\ pc[c] = "put" /\ pc' = [pc EXCEPT ![c] = "idle"]
      /\ UNCHANGED <<clock, mykey, snap, gone, cast, sent>>
  BY DEF Registered, At, Goto
<1> QED BY <1>1, UpdateKeeps

\* remove ends.
LEMMA RemovedKeeps ==
    ASSUME ChatInv, NEW c \in Conns, Removed(c)
    PROVE  ChatInv'
<1>1. /\ Update(c, mykey[c], None) /\ pc[c] = "remove" /\ pc' = [pc EXCEPT ![c] = "closed"]
      /\ UNCHANGED <<clock, mykey, snap, gone, cast, sent>>
  BY DEF Removed, At, Goto, Cleared
<1> QED BY <1>1, UpdateKeeps

\* onTextMessage makes the iterator.
LEMMA OnTextMessageKeeps ==
    ASSUME ChatInv, NEW c \in Conns, NEW t \in {0} \cup Key, OnTextMessage(c, t)
    PROVE  ChatInv'
<1>1. /\ pc[c] = "idle" /\ pc' = [pc EXCEPT ![c] = "cast"] /\ \A x \in Conns : sent[c][x] = 0
      /\ toUser' = [toUser EXCEPT ![c] = t] /\ left' = [left EXCEPT ![c] = Keys(mmiList)]
      /\ view' = [view EXCEPT ![c] = mmiList] /\ expected' = [expected EXCEPT ![c] = modCount]
      /\ UNCHANGED <<clock, mykey, map, snap, gone, sent>>
  BY DEF OnTextMessage, At, Goto, Recipients, ExpectedCount
<1>2. UNCHANGED <<clock, mykey, mmiList, modCount, raced, snap, gone, sent>>
  BY <1>1 DEF map
<1>3. \A x \in Conns : /\ pc'[x] = IF x = c THEN "cast" ELSE pc[x]
                       /\ left'[x] = IF x = c THEN Keys(mmiList) ELSE left[x]
                       /\ view'[x] = IF x = c THEN mmiList ELSE view[x]
                       /\ expected'[x] = IF x = c THEN modCount ELSE expected[x]
  BY <1>1 DEF ChatInv, TypeOK
<1>4. TypeOK'
  <2>1. Keys(mmiList) \subseteq Key /\ t \in 0 .. MaxClock
    BY ChatAssumption DEF Keys, Key
  <2>2. toUser' \in [Conns -> 0 .. MaxClock] /\ left' \in [Conns -> SUBSET Key]
    BY <1>1, <2>1 DEF ChatInv, TypeOK
  <2> QED BY <1>1, <1>2, <2>2 DEF ChatInv, TypeOK
<1>5. Keyed'
  <2>1. Grown
    BY <1>1, <1>2, <1>3 DEF Grown
  <2>2. \A x \in Conns : mykey'[x] = 0 <=> pc'[x] = "new"
    BY <1>1, <1>2, <1>3 DEF ChatInv, Keyed
  <2>3. Placed(mmiList)'
    BY <1>2, <2>1, Types, PlacedStays DEF ChatInv, Keyed, Placed
  <2> QED BY <1>2, <1>3, <2>1, <2>2, <2>3, KeyedStays DEF ChatInv
<1>6. Listed'
  <2>1. \A k \in Key : mmiList[k] # None => mmiList[k] \in Conns
    BY Types DEF ChatInv, Table
  <2>2. \A x \in Conns : Shared(x)' <=> Shared(x)
    BY <1>2 DEF Shared
  <2>3. \A x \in Conns : /\ pc'[x] = "closed" => pc[x] = "closed"
                         /\ pc'[x] \in {"idle", "cast", "failed"} => pc[x] \in {"idle", "cast", "failed"}
    BY <1>1, <1>3
  <2> QED BY <1>2, <2>1, <2>2, <2>3 DEF ChatInv, Listed
<1>7. Once'
  BY <1>1, <1>2, <1>3 DEF ChatInv, Once
<1>8. Passed'
  <2> SUFFICES ASSUME ~raced, NEW d \in Conns, NEW k \in Key, pc'[d] = "cast", view'[d][k] # None,
                      view'[d][k] = mmiList[k], k \notin left'[d]
               PROVE  sent[d][mmiList[k]] = 1
    BY <1>2 DEF Passed
  <2>1. CASE d = c
    BY <1>3, <2>1 DEF Keys
  <2>2. CASE d # c
    BY <1>3, <2>2 DEF ChatInv, Passed
  <2> QED BY <2>1, <2>2
<1>9. Quiet'
  <2> SUFFICES ASSUME NEW d \in Conns, pc'[d] = "cast", Calm', AllIn(d)'
               PROVE  modCount = expected'[d]
    BY <1>2 DEF Quiet
  <2>1. CASE d = c
    BY <1>3, <2>1
  <2>2. CASE d # c
    <3>1. Calm
      BY <1>1, <1>2, <1>3 DEF Calm, Broken
    <3>2. AllIn(d)
      BY <1>3, <2>2 DEF AllIn
    <3> QED BY <1>3, <2>2, <3>1, <3>2 DEF ChatInv, Quiet
  <2> QED BY <2>1, <2>2
<1>10. Unharmed'
  BY <1>1, <1>2, <1>3, UnharmedStays DEF ChatInv, Broken
<1> QED BY <1>4, <1>5, <1>6, <1>7, <1>8, <1>9, <1>10 DEF ChatInv

\* One entry of the broadcast is served.
LEMMA DeliverKeeps ==
    ASSUME ChatInv, NEW c \in Conns, NEW k \in Key, Deliver(c, k)
    PROVE  ChatInv'
<1>1. UNCHANGED <<clock, pc, mykey, mmiList, modCount, raced, snap, gone, toUser, view, expected>>
  BY DEF Deliver, map
<1>2. pc[c] = "cast" /\ k \in left[c] /\ left' = [left EXCEPT ![c] = left[c] \ {k}]
  BY DEF Deliver, At, Advance
<1>3. PICK x \in Targets(c, k) : sent' = [sent EXCEPT ![c][x] = @ + 1]
  BY DEF Deliver
<1>4. x \in Conns /\ x \in {mmiList[k], view[c][k]} /\ mykey[x] = k /\ pc[x] \notin {"new", "put"}
  <2>1. /\ mmiList \in Table /\ view[c] \in Table /\ Placed(mmiList) /\ Placed(view[c])
    BY Types DEF ChatInv, Keyed
  <2>2. x # None /\ x \in {mmiList[k], view[c][k]}
    BY DEF Targets
  <2> QED BY <2>1, <2>2 DEF Placed, Table
<1>5. sent[c][x] = 0
  BY <1>2, <1>4 DEF ChatInv, Once
<1>6. sent \in [Conns -> [Conns -> Nat]] /\ left \in [Conns -> SUBSET Key]
  BY DEF ChatInv, TypeOK
<1>7. \A m, y \in Conns : sent'[m][y] = IF m = c /\ y = x THEN 1 ELSE sent[m][y]
  BY <1>3, <1>4, <1>5, <1>6
<1>8. \A m \in Conns : left'[m] = IF m = c THEN left[c] \ {k} ELSE left[m]
  BY <1>2, <1>6
<1>9. TypeOK'
  <2>1. sent' \in [Conns -> [Conns -> Nat]] /\ left' \in [Conns -> SUBSET Key]
    BY <1>2, <1>3, <1>4, <1>6
  <2> QED BY <1>1, <2>1 DEF ChatInv, TypeOK
<1>10. Keyed' /\ Listed'
  BY <1>1 DEF ChatInv, Keyed, Listed, Placed, Shared
<1>11. Once'
  BY <1>1, <1>4, <1>7, <1>8 DEF ChatInv, Once
<1>12. Passed'
  <2> SUFFICES ASSUME ~raced, NEW d \in Conns, NEW j \in Key, pc[d] = "cast", view[d][j] # None,
                      view[d][j] = mmiList[j], j \notin left'[d]
               PROVE  sent'[d][mmiList[j]] = 1
    BY <1>1 DEF Passed
  <2>1. mmiList[j] \in Conns
    BY Types DEF ChatInv, Table
  <2>2. CASE d = c /\ j = k
    BY <1>4, <1>7, <2>1, <2>2
  <2>3. CASE d # c \/ j # k
    <3>1. sent[d][mmiList[j]] = 1
      BY <1>8, <2>3 DEF ChatInv, Passed
    <3> QED BY <1>7, <2>1, <3>1
  <2> QED BY <2>2, <2>3
<1>13. Quiet' /\ Unharmed'
  BY <1>1 DEF ChatInv, Quiet, Unharmed, Calm, AllIn, Broken
<1> QED BY <1>9, <1>10, <1>11, <1>12, <1>13 DEF ChatInv

\* A step of somebody else.
LEMMA StutterKeeps ==
    ASSUME ChatInv, UNCHANGED vars
    PROVE  ChatInv'
<1>1. UNCHANGED <<clock, pc, mykey, mmiList, modCount, raced, snap, gone, toUser, view, left, expected, sent>>
  BY DEF vars, map, cast
<1>2. TypeOK' /\ Keyed' /\ Listed'
  BY <1>1 DEF ChatInv, TypeOK, Keyed, Listed, Placed, Shared
<1>3. Once' /\ Passed'
  BY <1>1 DEF ChatInv, Once, Passed
<1>4. Quiet' /\ Unharmed'
  BY <1>1 DEF ChatInv, Quiet, Unharmed, Calm, AllIn, Broken
<1> QED BY <1>2, <1>3, <1>4 DEF ChatInv

-----------------------------------------------------------------------------
(* The theorems.                                                            *)

\* ChatInv is inductive.
LEMMA ChatStep == ChatInv /\ [Next]_vars => ChatInv'
<1> SUFFICES ASSUME ChatInv, [Next]_vars PROVE ChatInv' OBVIOUS
<1>1. CASE Tick
  BY <1>1, TickKeeps
<1>2. CASE UNCHANGED vars
  BY <1>2, StutterKeeps
<1>3. ASSUME NEW c \in Conns, \/ Vanish(c) \/ OnOpen(c) \/ Registered(c) \/ OnClose(c) \/ Removed(c)
                              \/ CastFails(c) \/ CastDone(c)
      PROVE  ChatInv'
  BY <1>3, VanishKeeps, OnOpenKeeps, RegisteredKeeps, OnCloseKeeps, RemovedKeeps, CastFailsKeeps, CastDoneKeeps
<1>4. ASSUME NEW c \in Conns, NEW t \in {0} \cup Key, OnTextMessage(c, t)
      PROVE  ChatInv'
  BY <1>4, OnTextMessageKeeps
<1>5. ASSUME NEW c \in Conns, NEW k \in Key, Deliver(c, k)
      PROVE  ChatInv'
  BY <1>5, DeliverKeeps
<1> QED BY <1>1, <1>2, <1>3, <1>4, <1>5 DEF Next

\* What holds in every state the servlets reach.
LEMMA ChatInvariant == Spec => []ChatInv
BY ChatInit, ChatStep, PTL DEF Spec

\* However the unlocked put and remove of mmiList interleave, it misses an open
\* connection or keeps a closed one only after a lost update, or after two
\* connections took the same millisecond as their key.
THEOREM MapFollowsConnections == Spec => []ListedWhileOpen
<1>1. ChatInv => ListedWhileOpen
  <2> SUFFICES ASSUME ChatInv, ~raced, NEW c \in Conns
               PROVE  /\ pc[c] \in {"idle", "cast", "failed"} /\ c \notin Members(mmiList) => Shared(c)
                      /\ pc[c] = "closed" => c \notin Members(mmiList)
    BY DEF ListedWhileOpen, At, Shared
  <2>1. mmiList \in Table /\ clock \in 1 .. MaxClock /\ mykey[c] \in 0 .. clock
    BY Types DEF ChatInv, Key
  <2>2. pc[c] \in {"idle", "cast", "failed"} => mykey[c] \in Key
    BY <2>1, ChatAssumption DEF ChatInv, Keyed, Key
  <2>3. pc[c] \in {"idle", "cast", "failed"} /\ ~Shared(c) => c \in Members(mmiList)
    BY <2>1, <2>2, MemberDef DEF ChatInv, Listed
  <2>4. pc[c] = "closed" => c \notin Members(mmiList)
    BY <2>1, MemberDef, ChatAssumption DEF ChatInv, Listed
  <2> QED BY <2>3, <2>4
<1> QED BY <1>1, ChatInvariant, PTL

\* Nobody gets a message twice, however many broadcasts and updates overlap; and
\* a sender's connection fails only after a browser has left or if its iterator
\* had not met a connection that was opened.
THEOREM BroadcastsAreHarmless == Spec => []CastsDoNoHarm
<1>1. ChatInv => CastsDoNoHarm
  <2> SUFFICES ASSUME ChatInv PROVE CastsDoNoHarm OBVIOUS
  <2>1. \A m, c \in Conns : sent[m][c] <= 1
    BY DEF ChatInv, Once
  <2>2. ASSUME NEW b \in Conns, pc[b] \in {"failed", "remove", "closed"}
        PROVE  \/ \E x \in Conns : gone[x]
               \/ \E c \in {d \in Conns : pc[d] \in {"failed", "remove", "closed"}}, x \in Conns :
                      pc[x] # "new" /\ x \notin Members(view[c])
    BY <2>2 DEF ChatInv, Unharmed, Broken, AllIn
  <2> QED BY <2>1, <2>2 DEF CastsDoNoHarm, At
<1> QED BY <1>1, ChatInvariant, PTL

\* A broadcast that ends without an exception has reached, exactly once, everybody
\* who was in the map from its first step to its last, unless an update was lost.
THEOREM BroadcastsAreComplete == Spec => CastComplete
<1>1. ASSUME ChatInv, [Next]_vars, NEW c \in Conns, pc[c] = "cast", pc'[c] = "idle", ~raced,
             NEW x \in Members(view[c]) \cap Members(mmiList)
      PROVE  sent[c][x] = 1
  <2>1. left[c] = {}
    <3>1. pc \in [Conns -> {"new", "put", "idle", "cast", "failed", "remove", "closed"}]
      BY <1>1 DEF ChatInv, TypeOK
    <3>2. CASE Tick \/ UNCHANGED vars
      BY <1>1, <3>2 DEF Tick, vars
    <3>3. ASSUME NEW d \in Conns, Vanish(d) \/ OnOpen(d) \/ Registered(d) \/ OnClose(d) \/ Removed(d)
          PROVE  FALSE
      BY <1>1, <3>1, <3>3 DEF Vanish, OnOpen, Registered, OnClose, Removed, Goto, At
    <3>4. ASSUME NEW d \in Conns, NEW t \in {0} \cup Key, OnTextMessage(d, t)
          PROVE  FALSE
      BY <1>1, <3>1, <3>4 DEF OnTextMessage, Goto, At
    <3>5. ASSUME NEW d \in Conns, NEW k \in Key, Deliver(d, k)
          PROVE  FALSE
      BY <1>1, <3>5 DEF Deliver
    <3>6. ASSUME NEW d \in Conns, CastFails(d)
          PROVE  FALSE
      BY <1>1, <3>1, <3>6 DEF CastFails, Goto, At
    <3>7. ASSUME NEW d \in Conns, CastDone(d)
          PROVE  left[c] = {}
      BY <1>1, <3>1, <3>7 DEF CastDone, Goto, At
    <3> QED BY <1>1, <3>2, <3>3, <3>4, <3>5, <3>6, <3>7 DEF Next
  <2>2. PICK k \in Key : view[c][k] # None /\ x = view[c][k]
    BY DEF Members, Keys
  <2>3. PICK j \in Key : mmiList[j] # None /\ x = mmiList[j]
    BY DEF Members, Keys
  <2>4. j = k
    <3>1. Placed(view[c]) /\ Placed(mmiList)
      BY <1>1 DEF ChatInv, Keyed
    <3>2. mykey[view[c][k]] = k
      BY <2>2, <3>1 DEF Placed
    <3>3. mykey[mmiList[j]] = j
      BY <2>3, <3>1 DEF Placed
    <3> QED BY <2>2, <2>3, <3>2, <3>3
  <2> QED BY <1>1, <2>1, <2>2, <2>3, <2>4 DEF ChatInv, Passed
<1>2. ChatInv /\ [Next]_vars =>
         [\A c \in Conns : At(c, "cast") /\ pc'[c] = "idle" =>
             raced \/ \A x \in Members(view[c]) \cap Members(mmiList) : sent[c][x] = 1]_vars
  BY <1>1 DEF At
<1> QED BY <1>2, ChatInvariant, PTL DEF Spec, CastComplete
=============================================================================
