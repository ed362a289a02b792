------------------------------ MODULE ChatRoom ------------------------------
(***************************************************************************)
(* The chat servlets of src/websocket/project/Test: every connection is a  *)
(* MyMessageInbound, registered in the static HashMap mmiList under the    *)
(* millisecond in which it was opened.  Tomcat runs the callbacks of one   *)
(* connection one after the other and those of different connections in    *)
(* parallel; nothing locks mmiList.                                        *)
(*                                                                         *)
(* The data race on the HashMap is a choice: put and remove read the table *)
(* and modCount in one step and write them in another, and what they write *)
(* rests, entry by entry, on what is there or on what they read.  `raced`  *)
(* remembers that an update was lost so.  Iterators are fail-fast: next()  *)
(* throws when modCount is not what it was when the iterator was made.     *)
(***************************************************************************)
EXTENDS Naturals, FiniteSets

CONSTANTS Conns,      \* connections
          MaxClock,   \* bound: milliseconds that pass
          None        \* no connection

ASSUME ChatAssumption == None \notin Conns /\ MaxClock \in Nat \ {0}

Key   == 1 .. MaxClock
Table == [Key -> Conns \cup {None}]

VARIABLES
    clock,     \* System.currentTimeMillis()
    pc,        \* the callback each connection's thread is in
    mykey,     \* MyMessageInbound.mykey, 0 for null
    mmiList,   \* the map, None where there is no entry
    modCount,  \* its count of structural changes
    snap,      \* the table and modCount an update in progress has read
    raced,     \* an update was lost
    gone,      \* the browser's end is gone
    toUser,    \* the addressee in a connection's message, 0 for everybody
    view,      \* the table when the iterator of a broadcast was made
    left,      \* keys that iterator has yet to return
    expected,  \* its expectedModCount
    sent       \* how often each connection's message was written to each

map  == <<mmiList, modCount, raced>>
cast == <<toUser, view, left, expected>>
vars == <<clock, pc, mykey, map, snap, gone, cast, sent>>

Keys(m)    == {k \in Key : m[k] # None}
Members(m) == {m[k] : k \in Keys(m)}
Empty      == [k \in Key |-> None]

Init ==
    /\ clock = 1 /\ pc = [c \in Conns |-> "new"] /\ mykey = [c \in Conns |-> 0]
    /\ mmiList = Empty /\ modCount = 0 /\ raced = FALSE
    /\ snap = [c \in Conns |-> [table |-> Empty, mods |-> 0]]
    /\ gone = [c \in Conns |-> FALSE] /\ toUser = [c \in Conns |-> 0]
    /\ view = [c \in Conns |-> Empty]
    /\ left = [c \in Conns |-> {}] /\ expected = [c \in Conns |-> 0]
    /\ sent = [m \in Conns |-> [c \in Conns |-> 0]]

-----------------------------------------------------------------------------
At(c, p)   == pc[c] = p
Goto(c, p) == pc' = [pc EXCEPT ![c] = p]

Tick == /\ clock < MaxClock /\ clock' = clock + 1
        /\ UNCHANGED <<pc, mykey, map, snap, gone, cast, sent>>

\* The browser leaves or its network does.
Vanish(c) ==
    /\ ~At(c, "new") /\ ~gone[c] /\ gone' = [gone EXCEPT ![c] = TRUE]
    /\ UNCHANGED <<clock, pc, mykey, map, snap, cast, sent>>

\* What an update writes, on top of a table that may be partly stale.
Bases(c) == {b \in Table : \A k \in Key : b[k] \in {mmiList[k], snap[c].table[k]}}
Structural(base, k, v) == (base[k] = None) # (v = None)

FreshTable(base, k, v) == [Empty EXCEPT ![k] = v]  \* mutant: a new map each time
NewTable(base, k, v)   == [base EXCEPT ![k] = v]

Update(c, k, v) ==
    \E base \in Bases(c), n \in {modCount, snap[c].mods} :
        /\ mmiList' = NewTable(base, k, v)
        /\ modCount' = IF Structural(base, k, v) THEN n + 1 ELSE modCount
        /\ raced' = (raced \/ base # mmiList)
    
Look(c) == snap' = [snap EXCEPT ![c] = [table |-> mmiList, mods |-> modCount]]

CurrentKey(c) == clock

\* onOpen: take the key and start mmiList.put(mykey, this).
OnOpen(c) ==
    /\ At(c, "new") /\ Goto(c, "put")
    /\ mykey' = [mykey EXCEPT ![c] = CurrentKey(c)]
    /\ Look(c)
    /\ UNCHANGED <<clock, map, gone, cast, sent>>

\* The entry is linked in; writing "open <key>" may fail, which is caught.
Registered(c) ==
    /\ At(c, "put") /\ Goto(c, "idle")
    /\ Update(c, mykey[c], c)
    /\ UNCHANGED <<clock, mykey, snap, gone, cast, sent>>

\* onClose: mmiList.remove(mykey).  Tomcat calls it at most once, after a
\* failed handler or when the browser is gone.
OnClose(c) ==
    /\ At(c, "failed") \/ (At(c, "idle") /\ gone[c])
    /\ Goto(c, "remove") /\ Look(c)
    /\ UNCHANGED <<clock, mykey, map, gone, cast, sent>>

KeepEntry(c) == mmiList[mykey[c]]  \* mutant of Cleared: remove finds nothing
Cleared(c)   == None

Removed(c) ==
    /\ At(c, "remove") /\ Goto(c, "closed")
    /\ Update(c, mykey[c], Cleared(c))
    /\ UNCHANGED <<clock, mykey, snap, gone, cast, sent>>

\* onTextMessage("username,toUser,text"): the addressee is split off and not
\* looked at, and an iterator over all entries is made.  Each connection
\* sends one message.
OthersOnly(c, t) == Keys(mmiList) \ {mykey[c]}  \* mutant: the sender is skipped
Recipients(c, t) == Keys(mmiList)
StaleCount(c)    == snap[c].mods  \* mutant: the iterator of an earlier call
ExpectedCount(c) == modCount

OnTextMessage(c, t) ==
    /\ At(c, "idle") /\ \A x \in Conns : sent[c][x] = 0
    /\ Goto(c, "cast")
    /\ toUser' = [toUser EXCEPT ![c] = t]
    /\ left' = [left EXCEPT ![c] = Recipients(c, t)]
    /\ view' = [view EXCEPT ![c] = mmiList]
    /\ expected' = [expected EXCEPT ![c] = ExpectedCount(c)]
    /\ UNCHANGED <<clock, mykey, map, snap, gone, sent>>

\* The entry next() returns: the one linked now, or the one it met before.
Targets(c, k) == {mmiList[k], view[c][k]} \ {None}
FailFast(c) == modCount # expected[c]
\* A write to a dead connection fails, unless the kernel still takes it.
Unwritable(x) == gone[x] \/ pc[x] \in {"failed", "remove", "closed"}
Writable(x)   == pc[x] # "closed"

\* The keys the iterator has yet to return once k was served.
NoAdvance(c, k) == left[c]  \* mutant of Advance
Advance(c, k)   == left[c] \ {k}

Deliver(c, k) ==
    /\ At(c, "cast") /\ k \in left[c] /\ ~FailFast(c)
    /\ \E x \in Targets(c, k) : /\ Writable(x)
                                /\ sent' = [sent EXCEPT ![c][x] = @ + 1]
    /\ left' = [left EXCEPT ![c] = Advance(c, k)]
    /\ UNCHANGED <<clock, pc, mykey, map, snap, gone, toUser, view, expected>>

\* ConcurrentModificationException, or the write's IOException: the rest of
\* the broadcast is dropped and the SENDER's connection fails.
CastFails(c) ==
    /\ At(c, "cast")
    /\ \E k \in left[c] : FailFast(c) \/ \E x \in Targets(c, k) : Unwritable(x)
    /\ Goto(c, "failed")
    /\ UNCHANGED <<clock, mykey, map, snap, gone, cast, sent>>

CastDone(c) ==
    /\ At(c, "cast") /\ left[c] = {} /\ Goto(c, "idle")
    /\ UNCHANGED <<clock, mykey, map, snap, gone, cast, sent>>

Next ==
    \/ Tick
    \/ \E c \in Conns :
          \/ Vanish(c) \/ OnOpen(c) \/ Registered(c) \/ OnClose(c) \/ Removed(c)
          \/ \E t \in {0} \cup Key : OnTextMessage(c, t)
          \/ \E k \in Key : Deliver(c, k)
          \/ CastFails(c) \/ CastDone(c)

Spec == Init /\ [][Next]_vars

-----------------------------------------------------------------------------
(* Properties.                                                              *)

\* The type invariant: keys are milliseconds that have passed, and a
\* broadcast only has keys left that the map can hold.
TypeOK ==
    /\ clock \in Key /\ modCount \in Nat /\ raced \in BOOLEAN
    /\ pc \in [Conns -> {"new", "put", "idle", "cast", "failed", "remove", "closed"}]
    /\ mykey \in [Conns -> 0 .. clock] /\ toUser \in [Conns -> 0 .. MaxClock]
    /\ mmiList \in Table /\ view \in [Conns -> Table]
    /\ snap \in [Conns -> [table : Table, mods : Nat]]
    /\ gone \in [Conns -> BOOLEAN]
    /\ left \in [Conns -> SUBSET Key] /\ expected \in [Conns -> Nat]
    /\ sent \in [Conns -> [Conns -> Nat]]

\* Unless an unlocked update of mmiList was lost, an open connection is missing
\* from it only if it shares its millisecond with another one (whose put
\* replaced it or whose onClose removed the common key, lines 40-41 and 53),
\* and one whose onClose has run is not left in it, to fail every broadcast.
ListedWhileOpen ==
    \A c \in Conns :
        /\ pc[c] \in {"idle", "cast", "failed"} /\ c \notin Members(mmiList) =>
               raced \/ \E d \in Conns \ {c} : mykey[d] = mykey[c]
        /\ At(c, "closed") /\ c \in Members(mmiList) => raced

\* A broadcast that ends without an exception was written once to everybody
\* who was in the map when it began and still is, its sender included,
\* unless updates of the map were lost.
CastComplete ==
    [][\A c \in Conns : At(c, "cast") /\ pc'[c] = "idle" =>
          raced \/ \A x \in Members(view[c]) \cap Members(mmiList) : sent[c][x] = 1]_vars

\* Broadcasts do not hurt one another, however they overlap with registrations
\* and removals (lines 86-93): nobody gets the same message twice, and no sender
\* loses its connection to its own message while every browser is there and
\* every connection was registered when the broadcasts began.
CastsDoNoHarm ==
    LET Broken == {c \in Conns : pc[c] \in {"failed", "remove", "closed"}} IN
    /\ \A m, c \in Conns : sent[m][c] <= 1
    /\ Broken # {} =>
        \/ \E x \in Conns : gone[x]
        \/ \E c \in Broken, x \in Conns : ~At(x, "new") /\ x \notin Members(view[c])

\* What the page says of the field toUser: only an empty one means everybody
\* (index.html line 110); onTextMessage writes to all entries (line 86).
AddresseeOnly ==
    \A m, c \in Conns :
        sent[m][c] > 0 /\ toUser[m] # 0 => mykey[c] = toUser[m]
=============================================================================
