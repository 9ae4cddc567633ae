----------------------------- MODULE RoomsProofs -----------------------------
(***************************************************************************)
(* Proofs about Rooms, for any number of goroutines, rooms, users and      *)
(* connections.                                                            *)
(*                                                                         *)
(* Everything rests on the mutexes: who is at a place that holds one is    *)
(* the holder (Held), so what it has read under the mutex still stands     *)
(* (Dropping, SendsToMembers), and a room object is stored once (Once).    *)
(***************************************************************************)
EXTENDS Rooms, TLAPS

\* What the local variables are at each place.
LocalOK(t, place, m) ==
    /\ place \in Places /\ m \in Local
    /\ IF t = CheckRoom
       THEN /\ place \in {"idle", "rooms", "peers", "out", "drop", "drop room", "close", "erase"}
            /\ place \notin {"idle", "rooms"} => m.rid \in Rids /\ m.room \in Objects /\ m.then = "peers"
       ELSE /\ place \notin {"rooms", "peers", "drop room", "close", "erase"}
            /\ m.then \in {"idle", "in"}
            /\ place # "idle" => m.room \in Objects
            /\ place \in {"new", "store", "in", "put"} => m.rid \in Rids
            /\ m.then = "in" => m.rid \in Rids
            /\ place \in {"in", "put"} => m.then = "in"
    /\ place \in {"out", "drop", "in", "put"} => m.uid \in Uids
    /\ m.then = "in" => m.peer \in Peers /\ Uid(m.peer) = m.uid

\* The places under a room's mutex, and under the mutex of the rooms.
ROOM == {"drop", "put", "send"}
MAP == {"store", "close", "erase"}

Locals == \A t \in Threads : LocalOK(t, pc[t], my[t])

\* Who is at a place under a mutex holds it, and nobody else does.
RoomHeld ==
    /\ \A t \in Threads : pc[t] \in ROOM => peersMutex[my[t].room] = t
    /\ \A o \in Objects : peersMutex[o] # NoOne =>
        /\ my[peersMutex[o]].room = o
        /\ pc[peersMutex[o]] \in ROOM

MapHeld ==
    /\ \A t \in Threads : pc[t] \in MAP => mutex = t
    /\ mutex # NoOne => pc[mutex] \in MAP

Held == up => RoomHeld /\ MapHeld

\* The room that DelRoom closes is in the map.
Closing == up /\ pc[CheckRoom] \in {"close", "erase"} => roomMap[my[CheckRoom].rid] # NoRoom

\* A peer stands under its own user.
Placed == \A o \in Objects, u \in Uids : peers[o][u] # NoPeer => Uid(peers[o][u]) = u

\* What DelPeer deletes is the peer it closed.
Dropping == up => \A t \in Threads : pc[t] = "drop" => peers[my[t].room][my[t].uid] \in closed

\* NewRoom makes a new object each time, which is in the map once at most; one that was
\* closed is in it only until DelRoom has erased it.
Once ==
    /\ shut \subseteq made /\ \A r \in Rids : roomMap[r] \in made \cup {NoRoom}
    /\ \A r, s \in Rids : roomMap[r] = roomMap[s] /\ roomMap[r] # NoRoom => r = s
    /\ \A t \in Threads : pc[t] \in {"new", "store"} =>
        /\ my[t].room \in made \ shut
        /\ \A r \in Rids : roomMap[r] # my[t].room
        /\ \A s \in Threads : pc[s] \in {"new", "store"} /\ my[s].room = my[t].room => s = t
    /\ up => \A r \in Rids : roomMap[r] \in shut => pc[CheckRoom] = "erase" /\ my[CheckRoom].rid = r

IInv ==
    /\ TypeOK /\ Locals /\ Held /\ Closing /\ Placed /\ Dropping /\ Once
    /\ SendsToMembers /\ AddedIsKept

-----------------------------------------------------------------------------
(* The moves of one goroutine: what the properties need of each action.      *)

shared == <<roomMap, peers, made, mutex, peersMutex, up, closed, shut, added, lost>>

Others(t) ==
    /\ pc' = [s \in Threads |-> pc'[s]] /\ my' = [s \in Threads |-> my'[s]]
    /\ \A s \in Threads : s # t => pc'[s] = pc[s] /\ my'[s] = my[s]

\* Places at which a goroutine holds a mutex or a room that is not stored yet.
Holding == {"new", "store", "drop", "put", "send", "close", "erase"}

\* A goroutine goes on, holding nothing before and after.
Quiet(t) ==
    /\ up /\ UNCHANGED shared /\ Others(t)
    /\ pc[t] \notin Holding /\ pc'[t] \notin Holding
    /\ LocalOK(t, pc'[t], my'[t])

\* A goroutine goes from one place to another.
Goes(t, from, to) ==
    /\ up /\ Others(t)
    /\ pc[t] = from /\ pc'[t] = to /\ LocalOK(t, to, my'[t])

LEMMA Local1 == Nothing \in Local
    BY DEF Nothing, Local

LEMMA Moved ==
    ASSUME TypeOK, NEW t \in Threads, NEW place, NEW m,
           Goto(t, place), my' = [my EXCEPT ![t] = m]
    PROVE  pc'[t] = place /\ my'[t] = m /\ Others(t)
    BY DEF TypeOK, Goto, Others

LEMMA Went ==
    ASSUME TypeOK, NEW t \in Threads, NEW place, Goto(t, place), UNCHANGED my
    PROVE  pc'[t] = place /\ my'[t] = my[t] /\ Others(t)
    BY DEF TypeOK, Goto, Others

\* Calls begin, and DelPeer of a user who is not there returns, quietly.
LEMMA LeaveQuiet ==
    ASSUME TypeOK, Locals, NEW t \in Callers, NEW r \in Rids, NEW u \in Uids, Leave(t, r, u)
    PROVE  Quiet(t)
<1> USE ThreadsAssumption, RoomsAssumption, UidAssumption, Local1 DEF Leave, At, GetRoom, Threads
<1>1. PICK o \in Objects : my' = [my EXCEPT ![t] = [Nothing EXCEPT !.room = o, !.uid = u]]
    OBVIOUS
<1>2. pc'[t] = "out" /\ my'[t] = [Nothing EXCEPT !.room = o, !.uid = u] /\ Others(t)
    BY <1>1, Moved
<1>3. LocalOK(t, "out", [Nothing EXCEPT !.room = o, !.uid = u])
    BY DEF LocalOK, Local, Nothing, Places
<1> QED
    BY <1>2, <1>3 DEF Quiet, Holding, shared, maps, locks

LEMMA NotifyWithoutUidQuiet ==
    ASSUME TypeOK, Locals, NEW t \in Callers, NEW r \in Rids, NEW u \in Uids \cup {NoId}, NotifyWithoutUid(t, r, u)
    PROVE  Quiet(t)
<1> USE ThreadsAssumption, RoomsAssumption, UidAssumption, Local1 DEF NotifyWithoutUid, At, GetRoom, Threads
<1>1. PICK o \in Objects : my' = [my EXCEPT ![t] = [Nothing EXCEPT !.room = o, !.uid = u]]
    OBVIOUS
<1>2. pc'[t] = "tell" /\ my'[t] = [Nothing EXCEPT !.room = o, !.uid = u] /\ Others(t)
    BY <1>1, Moved
<1>3. LocalOK(t, "tell", [Nothing EXCEPT !.room = o, !.uid = u])
    BY DEF LocalOK, Local, Nothing, Places
<1> QED
    BY <1>2, <1>3 DEF Quiet, Holding, shared, maps, locks

LEMMA AddPeerQuiet ==
    ASSUME TypeOK, Locals, NEW t \in Callers, NEW r \in Rids, NEW p \in Peers, AddPeer(t, r, p)
    PROVE  Quiet(t)
<1> USE ThreadsAssumption, RoomsAssumption, UidAssumption, Local1 DEF AddPeer, At, GetRoom, Threads
<1>1. PICK o \in Objects : my' = [my EXCEPT ![t] = [Nothing EXCEPT !.rid = r, !.room = o, !.uid = Uid(p), !.peer = p, !.then = "in"]]
    OBVIOUS
<1>2. pc'[t] = "out" /\ my'[t] = [Nothing EXCEPT !.rid = r, !.room = o, !.uid = Uid(p), !.peer = p, !.then = "in"] /\ Others(t)
    BY <1>1, Moved
<1>3. LocalOK(t, "out", [Nothing EXCEPT !.rid = r, !.room = o, !.uid = Uid(p), !.peer = p, !.then = "in"])
    BY DEF LocalOK, Local, Nothing, Places
<1> QED
    BY <1>2, <1>3 DEF Quiet, Holding, shared, maps, locks

LEMMA DelPeerNoneQuiet ==
    ASSUME TypeOK, Locals, NEW t \in Threads, DelPeerNone(t)
    PROVE  Quiet(t)
<1> USE ThreadsAssumption, RoomsAssumption, Local1 DEF DelPeerNone, At, Threads
<1>0. pc[t] = "out" /\ LocalOK(t, "out", my[t])
    BY DEF Locals
<1>1. CASE my[t].then = "idle"
    <2>1. pc'[t] = "idle" /\ my'[t] = Nothing /\ Others(t)
        BY <1>1, Moved DEF Return
    <2>2. LocalOK(t, "idle", Nothing)
        BY <1>0, <1>1 DEF LocalOK, Nothing, Places
    <2> QED
        BY <1>0, <2>1, <2>2 DEF Quiet, Holding, shared, maps, locks
<1>2. CASE my[t].then # "idle"
    <2>1. pc'[t] = my[t].then /\ my'[t] = my[t] /\ Others(t)
        BY <1>2, Went
    <2>2. LocalOK(t, my[t].then, my[t]) /\ my[t].then \in {"in", "peers"}
        BY <1>0, <1>2 DEF LocalOK, Places
    <2> QED
        BY <1>0, <2>1, <2>2 DEF Quiet, Holding, shared, maps, locks
<1> QED
    BY <1>1, <1>2

\* CheckRoom's loops.
LEMMA CheckQuiet ==
    ASSUME TypeOK, Locals, CheckBegin \/ CheckDone \/ CheckLen \/ (DelRoom /\ UNCHANGED mutex)
    PROVE  Quiet(CheckRoom)
<1> USE ThreadsAssumption, RoomsAssumption, Local1 DEF At, Threads
<1>0. LocalOK(CheckRoom, pc[CheckRoom], my[CheckRoom]) /\ CheckRoom \in Threads
    BY DEF Locals
<1> DEFINE Left == [Nothing EXCEPT !.left = my[CheckRoom].left]
<1>1. LocalOK(CheckRoom, "rooms", Left) /\ LocalOK(CheckRoom, "idle", Nothing)
    BY <1>0 DEF LocalOK, Local, Nothing, Places
<1>2. CASE CheckBegin
    <2> DEFINE Begun == [Nothing EXCEPT !.left = Rids]
    <2>1. pc'[CheckRoom] = "rooms" /\ my'[CheckRoom] = Begun /\ Others(CheckRoom)
        BY <1>2, Moved DEF CheckBegin
    <2>2. LocalOK(CheckRoom, "rooms", Begun)
        BY DEF LocalOK, Local, Nothing, Places
    <2> QED
        BY <1>2, <2>1, <2>2 DEF CheckBegin, Quiet, Holding, shared, maps, locks
<1>3. CASE CheckDone
    <2>1. pc'[CheckRoom] = "idle" /\ my'[CheckRoom] = Nothing /\ Others(CheckRoom)
        BY <1>3, Moved DEF CheckDone, Return
    <2> QED
        BY <1>1, <1>3, <2>1 DEF CheckDone, Quiet, Holding, shared, maps, locks
<1>4. ASSUME NextRoom, pc[CheckRoom] \notin Holding, up, UNCHANGED shared PROVE Quiet(CheckRoom)
    <2>1. pc'[CheckRoom] = "rooms" /\ my'[CheckRoom] = Left /\ Others(CheckRoom)
        BY <1>4, Moved DEF NextRoom
    <2> QED
        BY <1>1, <1>4, <2>1 DEF Quiet, Holding
<1>5. CASE CheckLen
    <2>1. CASE Members(my[CheckRoom].room) = {}
        <3>1. pc'[CheckRoom] = "drop room" /\ my'[CheckRoom] = my[CheckRoom] /\ Others(CheckRoom)
            BY <1>5, <2>1, Went DEF CheckLen
        <3>2. LocalOK(CheckRoom, "drop room", my[CheckRoom])
            BY <1>0, <1>5 DEF LocalOK, CheckLen, Places
        <3> QED
            BY <1>5, <3>1, <3>2 DEF CheckLen, Quiet, Holding, shared, maps, locks
    <2>2. CASE Members(my[CheckRoom].room) # {}
        BY <1>4, <1>5, <2>2 DEF CheckLen, Holding, shared, maps, locks
    <2> QED
        BY <2>1, <2>2
<1>6. CASE DelRoom /\ UNCHANGED mutex
    <2>1. NextRoom
        BY <1>6 DEF DelRoom
    <2> QED
        BY <1>4, <1>6, <2>1 DEF DelRoom, Holding, shared, maps, locks
<1> QED
    BY <1>2, <1>3, <1>5, <1>6

LEMMA CheckRoomsQuiet ==
    ASSUME TypeOK, Locals, NEW r \in Rids, CheckRooms(r)
    PROVE  Quiet(CheckRoom)
<1> USE ThreadsAssumption, RoomsAssumption DEF At, Threads, CheckRooms
<1>0. LocalOK(CheckRoom, "rooms", my[CheckRoom]) /\ CheckRoom \in Threads
    BY DEF Locals
<1>1. CASE roomMap[r] = NoRoom
    <2> DEFINE m == [my[CheckRoom] EXCEPT !.left = @ \ {r}]
    <2>1. my' = [my EXCEPT ![CheckRoom] = m] /\ UNCHANGED pc
        BY <1>1
    <2>2. pc'[CheckRoom] = "rooms" /\ my'[CheckRoom] = m /\ Others(CheckRoom)
        BY <2>1 DEF TypeOK, Others
    <2>3. LocalOK(CheckRoom, "rooms", m)
        BY <1>0 DEF LocalOK, Local
    <2> QED
        BY <2>2, <2>3 DEF Quiet, Holding, shared, maps, locks
<1>2. CASE roomMap[r] # NoRoom
    <2> DEFINE m == [Nothing EXCEPT !.rid = r, !.room = roomMap[r], !.todo = Uids,
                                    !.then = "peers", !.left = my[CheckRoom].left \ {r}]
    <2>1. pc'[CheckRoom] = "peers" /\ my'[CheckRoom] = m /\ Others(CheckRoom)
        BY <1>2, Moved
    <2>2. LocalOK(CheckRoom, "peers", m)
        BY <1>0, <1>2 DEF LocalOK, Local, Nothing, Places, TypeOK
    <2> QED
        BY <2>1, <2>2 DEF Quiet, Holding, shared, maps, locks
<1> QED
    BY <1>1, <1>2

LEMMA CheckPeersQuiet ==
    ASSUME TypeOK, Locals, NEW u \in Uids, NEW exist \in BOOLEAN, CheckPeers(u, exist)
    PROVE  Quiet(CheckRoom)
<1> USE ThreadsAssumption, RoomsAssumption DEF At, Threads
<1>0. LocalOK(CheckRoom, "peers", my[CheckRoom]) /\ CheckRoom \in Threads
    BY DEF Locals, CheckPeers
<1> DEFINE m == [my[CheckRoom] EXCEPT !.todo = @ \ {u}, !.uid = IF exist THEN @ ELSE u]
           to == IF exist THEN "peers" ELSE "out"
<1>1. my' = [my EXCEPT ![CheckRoom] = m] /\ Goto(CheckRoom, to)
    BY DEF CheckPeers, TypeOK, Goto
<1>2. pc'[CheckRoom] = to /\ my'[CheckRoom] = m /\ Others(CheckRoom)
    BY <1>1, Moved
<1>3. LocalOK(CheckRoom, to, m)
    BY <1>0 DEF LocalOK, Local, Places
<1> QED
    BY <1>2, <1>3 DEF CheckPeers, Quiet, Holding, shared, maps, locks

-----------------------------------------------------------------------------
(* The actions that hold something.                                          *)

LEMMA AddRoomGoes ==
    ASSUME TypeOK, Locals, NEW t \in Callers, NEW r \in Rids, AddRoom(t, r)
    PROVE  /\ Goes(t, "idle", "new")
           /\ my'[t].room \in Objects \ made /\ made' = made \cup {my'[t].room}
<1> USE ThreadsAssumption, RoomsAssumption, Local1 DEF AddRoom, At, GetRoom, Threads
<1>1. PICK o \in Objects \ made :
          made' = made \cup {o} /\ my' = [my EXCEPT ![t] = [Nothing EXCEPT !.rid = r, !.room = o]]
    OBVIOUS
<1> DEFINE m == [Nothing EXCEPT !.rid = r, !.room = o]
<1>2. pc'[t] = "new" /\ my'[t] = m /\ Others(t)
    BY <1>1, Moved
<1>3. LocalOK(t, "new", m) /\ m.room = o
    BY DEF LocalOK, Local, Nothing, Places
<1> QED
    BY <1>1, <1>2, <1>3 DEF Goes

LEMMA AddRoomLockGoes ==
    ASSUME TypeOK, Locals, NEW t \in Threads, AddRoomLock(t)
    PROVE  Goes(t, "new", "store") /\ my'[t] = my[t]
<1> USE ThreadsAssumption DEF AddRoomLock, At, Threads
<1>1. pc'[t] = "store" /\ my'[t] = my[t] /\ Others(t)
    BY Went
<1>2. LocalOK(t, "store", my[t])
    BY DEF LocalOK, Locals, Places
<1> QED
    BY <1>1, <1>2 DEF Goes

LEMMA AddRoomStoreGoes ==
    ASSUME TypeOK, Locals, NEW t \in Threads, AddRoomStore(t)
    PROVE  Goes(t, "store", "idle")
<1> USE ThreadsAssumption, Local1 DEF AddRoomStore, At, Threads
<1>1. pc'[t] = "idle" /\ my'[t] = Nothing /\ Others(t)
    BY Moved DEF Return
<1>2. LocalOK(t, "idle", Nothing)
    BY DEF LocalOK, Nothing, Places
<1> QED
    BY <1>1, <1>2 DEF Goes

LEMMA DelPeerGoes ==
    ASSUME TypeOK, Locals, NEW t \in Threads, DelPeer(t)
    PROVE  Goes(t, "out", "drop") /\ my'[t] = my[t]
<1> USE ThreadsAssumption DEF DelPeer, At, Threads
<1>1. pc'[t] = "drop" /\ my'[t] = my[t] /\ Others(t)
    BY Went
<1>2. LocalOK(t, "drop", my[t])
    BY DEF LocalOK, Locals, Places
<1> QED
    BY <1>1, <1>2 DEF Goes

LEMMA DelPeerDeleteGoes ==
    ASSUME TypeOK, Locals, NEW t \in Threads, DelPeerDelete(t)
    PROVE  Goes(t, "drop", my[t].then) /\ my[t].then \in {"idle", "in", "peers"}
<1> USE ThreadsAssumption, RoomsAssumption, Local1 DEF DelPeerDelete, At, Threads
<1>0. pc[t] = "drop" /\ LocalOK(t, "drop", my[t]) /\ my[t].then \in {"idle", "in", "peers"}
    BY DEF Locals, LocalOK, Local
<1>1. CASE my[t].then = "idle"
    <2>1. pc'[t] = "idle" /\ my'[t] = Nothing /\ Others(t)
        BY <1>1, Moved DEF Return
    <2>2. LocalOK(t, "idle", Nothing)
        BY <1>0, <1>1 DEF LocalOK, Nothing, Places
    <2> QED
        BY <1>0, <1>1, <2>1, <2>2 DEF Goes
<1>2. CASE my[t].then # "idle"
    <2>1. pc'[t] = my[t].then /\ my'[t] = my[t] /\ Others(t)
        BY <1>2, Went
    <2>2. LocalOK(t, my[t].then, my[t])
        BY <1>0, <1>2 DEF LocalOK, Places
    <2> QED
        BY <1>0, <2>1, <2>2 DEF Goes
<1> QED
    BY <1>0, <1>1, <1>2

LEMMA AddPeerLockGoes ==
    ASSUME TypeOK, Locals, NEW t \in Threads, AddPeerLock(t)
    PROVE  Goes(t, "in", "put") /\ my'[t] = my[t]
<1> USE ThreadsAssumption DEF AddPeerLock, At, Threads
<1>1. pc'[t] = "put" /\ my'[t] = my[t] /\ Others(t)
    BY Went
<1>2. LocalOK(t, "put", my[t])
    BY DEF LocalOK, Locals, Places
<1> QED
    BY <1>1, <1>2 DEF Goes

LEMMA AddPeerPutGoes ==
    ASSUME TypeOK, Locals, NEW t \in Threads, AddPeerPut(t)
    PROVE  Goes(t, "put", "idle")
<1> USE ThreadsAssumption, Local1 DEF AddPeerPut, At, Threads
<1>1. pc'[t] = "idle" /\ my'[t] = Nothing /\ Others(t)
    BY Moved DEF Return
<1>2. LocalOK(t, "idle", Nothing)
    BY DEF LocalOK, Nothing, Places
<1> QED
    BY <1>1, <1>2 DEF Goes

LEMMA NotifyLockGoes ==
    ASSUME TypeOK, Locals, NEW t \in Threads, NotifyLock(t)
    PROVE  /\ Goes(t, "tell", "send") /\ my'[t].room = my[t].room
           /\ my'[t].todo \subseteq PeersOf(my[t].room)
<1> USE ThreadsAssumption DEF NotifyLock, At, Threads
<1> DEFINE S == {peers[my[t].room][u] : u \in Members(my[t].room) \ {my[t].uid}}
           m == [my[t] EXCEPT !.todo = S]
<1>0. LocalOK(t, "tell", my[t])
    BY DEF Locals
<1>1. S \subseteq Peers
    BY <1>0 DEF TypeOK, Members, LocalOK
<1>2. my' = [my EXCEPT ![t] = m]
    BY DEF TypeOK
<1>3. pc'[t] = "send" /\ my'[t] = m /\ Others(t)
    BY <1>2, Moved
<1>4. LocalOK(t, "send", m) /\ m.room = my[t].room /\ m.todo = S
    BY <1>0, <1>1 DEF LocalOK, Local, Places
<1>5. S \subseteq PeersOf(my[t].room)
    BY DEF PeersOf
<1> QED
    BY <1>3, <1>4, <1>5 DEF Goes

LEMMA NotifySendGoes ==
    ASSUME TypeOK, Locals, NEW t \in Threads, NEW p \in Peers, NotifySend(t, p)
    PROVE  /\ Goes(t, "send", "send")
           /\ my'[t].room = my[t].room /\ my'[t].todo = my[t].todo \ {p}
<1> USE ThreadsAssumption DEF NotifySend, At, Threads
<1> DEFINE m == [my[t] EXCEPT !.todo = @ \ {p}]
<1>0. LocalOK(t, "send", my[t])
    BY DEF Locals
<1>1. pc'[t] = "send" /\ my'[t] = m /\ Others(t)
    BY DEF TypeOK, Others
<1>2. LocalOK(t, "send", m) /\ m.room = my[t].room /\ m.todo = my[t].todo \ {p}
    BY <1>0 DEF LocalOK, Local
<1> QED
    BY <1>1, <1>2 DEF Goes

LEMMA NotifyUnlockGoes ==
    ASSUME TypeOK, Locals, NEW t \in Threads, NotifyUnlock(t)
    PROVE  Goes(t, "send", "idle")
<1> USE ThreadsAssumption, Local1 DEF NotifyUnlock, At, Threads
<1>1. pc'[t] = "idle" /\ my'[t] = Nothing /\ Others(t)
    BY Moved DEF Return
<1>2. LocalOK(t, "idle", Nothing)
    BY DEF LocalOK, Nothing, Places
<1> QED
    BY <1>1, <1>2 DEF Goes

LEMMA DelRoomGoes ==
    ASSUME TypeOK, Locals, DelRoom, ~UNCHANGED mutex
    PROVE  /\ Goes(CheckRoom, "drop room", "close") /\ my'[CheckRoom] = my[CheckRoom]
           /\ roomMap[my[CheckRoom].rid] # NoRoom /\ mutex = NoOne /\ mutex' = CheckRoom
           /\ UNCHANGED <<roomMap, peers, made, peersMutex, up, closed, shut, added, lost>>
<1> USE ThreadsAssumption DEF DelRoom, At, Threads, maps
<1>1. roomMap[my[CheckRoom].rid] # NoRoom
    OBVIOUS
<1>2. pc'[CheckRoom] = "close" /\ my'[CheckRoom] = my[CheckRoom] /\ Others(CheckRoom)
    BY <1>1, Went
<1>3. LocalOK(CheckRoom, "close", my[CheckRoom])
    BY DEF LocalOK, Locals, Places
<1> QED
    BY <1>1, <1>2, <1>3 DEF Goes

LEMMA CloseRoomGoes ==
    ASSUME TypeOK, Locals, CloseRoom
    PROVE  Goes(CheckRoom, "close", "erase") /\ my'[CheckRoom] = my[CheckRoom]
<1> USE ThreadsAssumption DEF CloseRoom, At, Threads
<1>1. pc'[CheckRoom] = "erase" /\ my'[CheckRoom] = my[CheckRoom] /\ Others(CheckRoom)
    BY Went
<1>2. LocalOK(CheckRoom, "erase", my[CheckRoom])
    BY DEF LocalOK, Locals, Places
<1> QED
    BY <1>1, <1>2 DEF Goes

LEMMA DelRoomEraseGoes ==
    ASSUME TypeOK, Locals, DelRoomErase
    PROVE  Goes(CheckRoom, "erase", "rooms")
<1> USE ThreadsAssumption, RoomsAssumption, Local1 DEF DelRoomErase, NextRoom, At, Threads
<1> DEFINE m == [Nothing EXCEPT !.left = my[CheckRoom].left]
<1>1. pc'[CheckRoom] = "rooms" /\ my'[CheckRoom] = m /\ Others(CheckRoom)
    BY Moved
<1>2. LocalOK(CheckRoom, "rooms", m)
    BY DEF LocalOK, Locals, Local, Nothing, Places
<1> QED
    BY <1>1, <1>2 DEF Goes

-----------------------------------------------------------------------------
(* The invariants, by cases over the moves.                                  *)

\* The room a goroutine works on, and the user.
LEMMA Rooms1 ==
    ASSUME Locals, NEW t \in Threads, pc[t] \notin {"idle", "rooms"}
    PROVE  /\ my[t].room \in Objects
           /\ pc[t] \in {"new", "store", "in", "put", "peers", "drop room", "close", "erase"} => my[t].rid \in Rids
           /\ pc[t] \in {"out", "drop", "in", "put"} => my[t].uid \in Uids
           /\ pc[t] \in {"in", "put"} => my[t].peer \in Peers /\ Uid(my[t].peer) = my[t].uid
           /\ pc[t] \in {"rooms", "peers", "drop room", "close", "erase"} => t = CheckRoom
           /\ pc[t] \in {"new", "store", "in", "put", "tell", "send"} => t # CheckRoom
    BY DEF Locals, LocalOK

LEMMA LocalsGo ==
    ASSUME TypeOK, Locals, NEW t \in Threads, Others(t), LocalOK(t, pc'[t], my'[t])
    PROVE  Locals' /\ pc' \in [Threads -> Places] /\ my' \in [Threads -> Local]
<1>1. \A s \in Threads : LocalOK(s, pc'[s], my'[s])
    BY DEF Others, Locals
<1>2. \A s \in Threads : pc'[s] \in Places /\ my'[s] \in Local
    BY <1>1 DEF LocalOK
<1> QED
    BY <1>1, <1>2 DEF Others, Locals

SharedOK ==
    /\ roomMap \in [Rids -> Objects \cup {NoRoom}]
    /\ peers \in [Objects -> [Uids -> Peers \cup {NoPeer}]]
    /\ made \subseteq Objects
    /\ mutex \in Threads \cup {NoOne}
    /\ peersMutex \in [Objects -> Threads \cup {NoOne}]
    /\ up \in BOOLEAN
    /\ shut \subseteq Objects
    /\ closed \subseteq Peers /\ added \subseteq Peers /\ lost \subseteq Peers

LEMMA Shared1 ==
    ASSUME TypeOK, NEW o \in Objects
    PROVE  /\ PeersOf(o) \subseteq Peers /\ Open(o) \subseteq Peers
           /\ \A u \in Members(o) : peers[o][u] \in Peers
    BY RoomsAssumption DEF TypeOK, PeersOf, Open, Members

\* Every action keeps the types, and leaves the locals as the next place needs them.
LEMMA TypedStep == TypeOK /\ Locals /\ Closing /\ Next => (TypeOK /\ Locals)'
<1> SUFFICES ASSUME TypeOK, Locals, Closing, Next PROVE (TypeOK /\ Locals)'
    OBVIOUS
<1> USE ThreadsAssumption, RoomsAssumption, UidAssumption DEF Threads
<1>0. SharedOK
    BY DEF TypeOK, SharedOK
<1>1. ASSUME NEW t \in Threads, Quiet(t) PROVE (TypeOK /\ Locals)'
    <2>1. pc' \in [Threads -> Places] /\ my' \in [Threads -> Local] /\ Locals'
        BY <1>1, LocalsGo DEF Quiet
    <2>2. SharedOK'
        BY <1>0, <1>1 DEF Quiet, shared, SharedOK
    <2> QED
        BY <2>1, <2>2 DEF TypeOK, SharedOK
<1>2. ASSUME NEW p \in Peers, Disconnect(p) PROVE (TypeOK /\ Locals)'
    BY <1>2 DEF Disconnect, maps, locks, TypeOK, Locals
<1>3. ASSUME MapRace PROVE (TypeOK /\ Locals)'
    <2>1. \A s \in Threads : LocalOK(s, "idle", Nothing)
        BY Local1 DEF LocalOK, Nothing, Places
    <2> QED
        BY <1>3, <2>1, Local1 DEF MapRace, maps, locks, TypeOK, Locals, Places
<1>4. ASSUME NEW t \in Callers, NEW r \in Rids, AddRoom(t, r) PROVE (TypeOK /\ Locals)'
    <2>1. /\ Goes(t, "idle", "new")
          /\ my'[t].room \in Objects \ made
          /\ made' = made \cup {my'[t].room}
          /\ UNCHANGED <<roomMap, peers, locks, up, closed, shut, added, lost>>
        BY <1>4, AddRoomGoes DEF Goes, AddRoom
    <2>2. pc' \in [Threads -> Places] /\ my' \in [Threads -> Local] /\ Locals'
        BY <2>1, LocalsGo DEF Goes
    <2>3. SharedOK'
        BY <1>0, <2>1 DEF Goes, SharedOK, maps, locks, Lock, Unlock
    <2> QED
        BY <2>2, <2>3 DEF TypeOK, SharedOK
<1>5. ASSUME NEW t \in Threads, AddRoomLock(t) PROVE (TypeOK /\ Locals)'
    <2>1. /\ Goes(t, "new", "store")
          /\ my[t].room \in Objects
          /\ my'[t] = my[t]
          /\ my[t].rid \in Rids
          /\ t # CheckRoom
        BY <1>5, AddRoomLockGoes, Rooms1 DEF Goes
    <2>2. pc' \in [Threads -> Places] /\ my' \in [Threads -> Local] /\ Locals'
        BY <2>1, LocalsGo DEF Goes
    <2>3. SharedOK'
        BY <1>0, <1>5, <2>1 DEF AddRoomLock, At, Goes, SharedOK, maps, locks, Lock, Unlock
    <2> QED
        BY <2>2, <2>3 DEF TypeOK, SharedOK
<1>6. ASSUME NEW t \in Threads, AddRoomStore(t) PROVE (TypeOK /\ Locals)'
    <2>1. /\ Goes(t, "store", "idle")
          /\ my[t].room \in Objects
          /\ my[t].rid \in Rids
          /\ t # CheckRoom
        BY <1>6, AddRoomStoreGoes, Rooms1 DEF Goes
    <2>2. pc' \in [Threads -> Places] /\ my' \in [Threads -> Local] /\ Locals'
        BY <2>1, LocalsGo DEF Goes
    <2>3. roomMap[my[t].rid] # NoRoom => roomMap[my[t].rid] \in Objects
        BY <1>0, <2>1 DEF SharedOK
    <2>4. roomMap[my[t].rid] # NoRoom => Open(roomMap[my[t].rid]) \subseteq Peers
        BY <2>3, Shared1
    <2>5. SharedOK'
        BY <1>0, <1>6, <2>1, <2>3, <2>4 DEF AddRoomStore, At, Goes, SharedOK, maps, locks, Lock, Unlock
    <2> QED
        BY <2>2, <2>5 DEF TypeOK, SharedOK
<1>7. ASSUME NEW t \in Threads, DelPeer(t) PROVE (TypeOK /\ Locals)'
    <2>1. /\ Goes(t, "out", "drop")
          /\ my[t].room \in Objects
          /\ my'[t] = my[t]
          /\ my[t].uid \in Uids
        BY <1>7, DelPeerGoes, Rooms1 DEF Goes
    <2>2. pc' \in [Threads -> Places] /\ my' \in [Threads -> Local] /\ Locals'
        BY <2>1, LocalsGo DEF Goes
    <2>3. peers[my[t].room][my[t].uid] \in Peers \cup {NoPeer}
        BY <1>0, <2>1 DEF SharedOK
    <2>4. SharedOK'
        BY <1>0, <1>7, <2>1, <2>3 DEF DelPeer, At, Goes, SharedOK, maps, locks, Lock, Unlock, Members
    <2> QED
        BY <2>2, <2>4 DEF TypeOK, SharedOK
<1>8. ASSUME NEW t \in Threads, DelPeerDelete(t) PROVE (TypeOK /\ Locals)'
    <2>1. /\ Goes(t, "drop", my[t].then)
          /\ my[t].room \in Objects
          /\ my[t].then \in {"idle", "in", "peers"}
          /\ my[t].uid \in Uids
        BY <1>8, DelPeerDeleteGoes, Rooms1 DEF Goes
    <2>2. pc' \in [Threads -> Places] /\ my' \in [Threads -> Local] /\ Locals'
        BY <2>1, LocalsGo DEF Goes
    <2>3. SharedOK'
        BY <1>0, <1>8, <2>1 DEF DelPeerDelete, At, Goes, SharedOK, maps, locks, Lock, Unlock
    <2> QED
        BY <2>2, <2>3 DEF TypeOK, SharedOK
<1>9. ASSUME NEW t \in Threads, AddPeerLock(t) PROVE (TypeOK /\ Locals)'
    <2>1. /\ Goes(t, "in", "put")
          /\ my[t].room \in Objects
          /\ my'[t] = my[t]
          /\ my[t].rid \in Rids
          /\ my[t].uid \in Uids
          /\ my[t].peer \in Peers
          /\ Uid(my[t].peer) = my[t].uid
          /\ t # CheckRoom
        BY <1>9, AddPeerLockGoes, Rooms1 DEF Goes
    <2>2. pc' \in [Threads -> Places] /\ my' \in [Threads -> Local] /\ Locals'
        BY <2>1, LocalsGo DEF Goes
    <2>3. SharedOK'
        BY <1>0, <1>9, <2>1 DEF AddPeerLock, At, Goes, SharedOK, maps, locks, Lock, Unlock
    <2> QED
        BY <2>2, <2>3 DEF TypeOK, SharedOK
<1>10. ASSUME NEW t \in Threads, AddPeerPut(t) PROVE (TypeOK /\ Locals)'
    <2>1. /\ Goes(t, "put", "idle")
          /\ my[t].room \in Objects
          /\ my[t].rid \in Rids
          /\ my[t].uid \in Uids
          /\ my[t].peer \in Peers
          /\ Uid(my[t].peer) = my[t].uid
          /\ t # CheckRoom
        BY <1>10, AddPeerPutGoes, Rooms1 DEF Goes
    <2>2. pc' \in [Threads -> Places] /\ my' \in [Threads -> Local] /\ Locals'
        BY <2>1, LocalsGo DEF Goes
    <2>3. peers[my[t].room][my[t].uid] \in Peers \cup {NoPeer}
        BY <1>0, <2>1 DEF SharedOK
    <2>4. SharedOK'
        BY <1>0, <1>10, <2>1, <2>3 DEF AddPeerPut, At, Goes, SharedOK, maps, locks, Lock, Unlock
    <2> QED
        BY <2>2, <2>4 DEF TypeOK, SharedOK
<1>11. ASSUME NEW t \in Threads, NotifyLock(t) PROVE (TypeOK /\ Locals)'
    <2>1. /\ Goes(t, "tell", "send")
          /\ my[t].room \in Objects
          /\ my'[t].room = my[t].room
          /\ my'[t].todo \subseteq PeersOf(my[t].room)
          /\ t # CheckRoom
        BY <1>11, NotifyLockGoes, Rooms1 DEF Goes
    <2>2. pc' \in [Threads -> Places] /\ my' \in [Threads -> Local] /\ Locals'
        BY <2>1, LocalsGo DEF Goes
    <2>3. SharedOK'
        BY <1>0, <1>11, <2>1 DEF NotifyLock, At, Goes, SharedOK, maps, locks, Lock, Unlock
    <2> QED
        BY <2>2, <2>3 DEF TypeOK, SharedOK
<1>12. ASSUME NEW t \in Threads, NEW p \in Peers, NotifySend(t, p) PROVE (TypeOK /\ Locals)'
    <2>1. /\ Goes(t, "send", "send")
          /\ my[t].room \in Objects
          /\ my'[t].room = my[t].room
          /\ my'[t].todo \subseteq my[t].todo
          /\ t # CheckRoom
        BY <1>12, NotifySendGoes, Rooms1 DEF Goes
    <2>2. pc' \in [Threads -> Places] /\ my' \in [Threads -> Local] /\ Locals'
        BY <2>1, LocalsGo DEF Goes
    <2>3. SharedOK'
        BY <1>0, <1>12, <2>1 DEF NotifySend, At, Goes, SharedOK, maps, locks, Lock, Unlock
    <2> QED
        BY <2>2, <2>3 DEF TypeOK, SharedOK
<1>13. ASSUME NEW t \in Threads, NotifyUnlock(t) PROVE (TypeOK /\ Locals)'
    <2>1. /\ Goes(t, "send", "idle")
          /\ my[t].room \in Objects
          /\ t # CheckRoom
        BY <1>13, NotifyUnlockGoes, Rooms1 DEF Goes
    <2>2. pc' \in [Threads -> Places] /\ my' \in [Threads -> Local] /\ Locals'
        BY <2>1, LocalsGo DEF Goes
    <2>3. SharedOK'
        BY <1>0, <1>13, <2>1 DEF NotifyUnlock, At, Goes, SharedOK, maps, locks, Lock, Unlock
    <2> QED
        BY <2>2, <2>3 DEF TypeOK, SharedOK
<1>14. ASSUME DelRoom, ~UNCHANGED mutex PROVE (TypeOK /\ Locals)'
    <2>1. /\ Goes(CheckRoom, "drop room", "close")
          /\ my[CheckRoom].room \in Objects
          /\ my'[CheckRoom] = my[CheckRoom]
          /\ roomMap[my[CheckRoom].rid] # NoRoom
          /\ UNCHANGED <<roomMap, peers, made, peersMutex, up, closed, shut, added, lost>>
          /\ my[CheckRoom].rid \in Rids
        BY <1>14, DelRoomGoes, Rooms1 DEF Goes
    <2>2. pc' \in [Threads -> Places] /\ my' \in [Threads -> Local] /\ Locals'
        BY <2>1, LocalsGo DEF Goes
    <2>3. mutex' = CheckRoom
        BY <1>14, DelRoomGoes
    <2>4. SharedOK'
        BY <1>0, <2>1, <2>3 DEF Goes, SharedOK, maps, locks, Lock, Unlock
    <2> QED
        BY <2>2, <2>4 DEF TypeOK, SharedOK
<1>15. ASSUME CloseRoom PROVE (TypeOK /\ Locals)'
    <2>1. /\ Goes(CheckRoom, "close", "erase")
          /\ my[CheckRoom].room \in Objects
          /\ my'[CheckRoom] = my[CheckRoom]
          /\ my[CheckRoom].rid \in Rids
        BY <1>15, CloseRoomGoes, Rooms1 DEF Goes
    <2>2. pc' \in [Threads -> Places] /\ my' \in [Threads -> Local] /\ Locals'
        BY <2>1, LocalsGo DEF Goes
    <2>3. roomMap[my[CheckRoom].rid] \in Objects
        BY <1>0, <2>1 DEF SharedOK, Closing, Goes
    <2>4. PeersOf(roomMap[my[CheckRoom].rid]) \subseteq Peers /\ Open(roomMap[my[CheckRoom].rid]) \subseteq Peers
        BY <2>3, Shared1
    <2>5. SharedOK'
        BY <1>0, <1>15, <2>1, <2>3, <2>4 DEF CloseRoom, At, Goes, SharedOK, maps, locks, Lock, Unlock
    <2> QED
        BY <2>2, <2>5 DEF TypeOK, SharedOK
<1>16. ASSUME DelRoomErase PROVE (TypeOK /\ Locals)'
    <2>1. /\ Goes(CheckRoom, "erase", "rooms")
          /\ my[CheckRoom].room \in Objects
          /\ my[CheckRoom].rid \in Rids
        BY <1>16, DelRoomEraseGoes, Rooms1 DEF Goes
    <2>2. pc' \in [Threads -> Places] /\ my' \in [Threads -> Local] /\ Locals'
        BY <2>1, LocalsGo DEF Goes
    <2>3. roomMap[my[CheckRoom].rid] \in Objects
        BY <1>0, <2>1 DEF SharedOK, Closing, Goes
    <2>4. PeersOf(roomMap[my[CheckRoom].rid]) \subseteq Peers /\ Open(roomMap[my[CheckRoom].rid]) \subseteq Peers
        BY <2>3, Shared1
    <2>5. SharedOK'
        BY <1>0, <1>16, <2>1, <2>3, <2>4 DEF DelRoomErase, At, Goes, SharedOK, maps, locks, Lock, Unlock
    <2> QED
        BY <2>2, <2>5 DEF TypeOK, SharedOK
<1> QED
    BY <1>1, <1>2, <1>3, <1>4, <1>5, <1>6, <1>7, <1>8, <1>9, <1>10, <1>11, <1>12, <1>13, <1>14, <1>15, <1>16,
       LeaveQuiet, NotifyWithoutUidQuiet, AddPeerQuiet, DelPeerNoneQuiet, CheckQuiet, CheckRoomsQuiet, CheckPeersQuiet
    DEF Next, Call, Step, Check

-----------------------------------------------------------------------------
(* The mutexes.                                                              *)

\* A goroutine keeps, takes or gives the mutex of the room it works on.
RoomKeep(t) ==
    /\ UNCHANGED peersMutex
    /\ pc[t] \in ROOM <=> pc'[t] \in ROOM
    /\ pc[t] \in ROOM => my'[t].room = my[t].room
RoomTake(t) ==
    /\ my[t].room \in Objects /\ my'[t].room = my[t].room
    /\ peersMutex[my[t].room] = NoOne /\ peersMutex' = [peersMutex EXCEPT ![my[t].room] = t]
    /\ pc[t] \notin ROOM /\ pc'[t] \in ROOM
RoomGive(t) ==
    /\ my[t].room \in Objects
    /\ peersMutex' = [peersMutex EXCEPT ![my[t].room] = NoOne]
    /\ pc[t] \in ROOM /\ pc'[t] \notin ROOM

\* The same of the mutex of the rooms.
MapKeep(t) == UNCHANGED mutex /\ (pc[t] \in MAP <=> pc'[t] \in MAP)
MapTake(t) == mutex = NoOne /\ mutex' = t /\ pc[t] \notin MAP /\ pc'[t] \in MAP
MapGive(t) == mutex' = NoOne /\ pc[t] \in MAP /\ pc'[t] \notin MAP

Locking(t) ==
    /\ up /\ Others(t)
    /\ RoomKeep(t) \/ RoomTake(t) \/ RoomGive(t)
    /\ MapKeep(t) \/ MapTake(t) \/ MapGive(t)

\* Every step is of one goroutine, and does one of these to each mutex.
LEMMA LockStep ==
    ASSUME TypeOK, Locals, Next
    PROVE  \/ \E t \in Threads : Locking(t)
           \/ MapRace \/ \E p \in Peers : Disconnect(p)
<1> USE ThreadsAssumption DEF Threads
<1>1. ASSUME NEW t \in Threads, Quiet(t) PROVE Locking(t)
    BY <1>1 DEF Quiet, Holding, shared, Locking, RoomKeep, MapKeep, ROOM, MAP
<1>2. ASSUME NEW t \in Callers, NEW r \in Rids, AddRoom(t, r) PROVE Locking(t)
    <2>1. RoomKeep(t)
        BY <1>2, AddRoomGoes, Rooms1 DEF AddRoom, At, Lock, Unlock, Goes, RoomKeep, ROOM, maps, locks
    <2>2. MapKeep(t)
        BY <1>2, AddRoomGoes DEF AddRoom, Goes, MapKeep, MAP, maps, locks
    <2> QED
        BY <1>2, <2>1, <2>2, AddRoomGoes DEF Goes, Locking
<1>3. ASSUME NEW t \in Threads, AddRoomLock(t) PROVE Locking(t)
    <2>1. RoomKeep(t)
        BY <1>3, AddRoomLockGoes, Rooms1 DEF AddRoomLock, At, Lock, Unlock, Goes, RoomKeep, ROOM, maps, locks
    <2>2. MapTake(t)
        BY <1>3, AddRoomLockGoes DEF AddRoomLock, Goes, MapTake, MAP, maps, locks
    <2> QED
        BY <1>3, <2>1, <2>2, AddRoomLockGoes DEF Goes, Locking
<1>4. ASSUME NEW t \in Threads, AddRoomStore(t) PROVE Locking(t)
    <2>1. RoomKeep(t)
        BY <1>4, AddRoomStoreGoes, Rooms1 DEF AddRoomStore, At, Lock, Unlock, Goes, RoomKeep, ROOM, maps, locks
    <2>2. MapGive(t)
        BY <1>4, AddRoomStoreGoes DEF AddRoomStore, Goes, MapGive, MAP, maps, locks
    <2> QED
        BY <1>4, <2>1, <2>2, AddRoomStoreGoes DEF Goes, Locking
<1>5. ASSUME NEW t \in Threads, DelPeer(t) PROVE Locking(t)
    <2>1. RoomTake(t)
        BY <1>5, DelPeerGoes, Rooms1 DEF DelPeer, At, Lock, Unlock, Goes, RoomTake, ROOM, maps, locks
    <2>2. MapKeep(t)
        BY <1>5, DelPeerGoes DEF DelPeer, Goes, MapKeep, MAP, maps, locks
    <2> QED
        BY <1>5, <2>1, <2>2, DelPeerGoes DEF Goes, Locking
<1>6. ASSUME NEW t \in Threads, DelPeerDelete(t) PROVE Locking(t)
    <2>1. RoomGive(t)
        BY <1>6, DelPeerDeleteGoes, Rooms1 DEF DelPeerDelete, At, Lock, Unlock, Goes, RoomGive, ROOM, maps, locks
    <2>2. MapKeep(t)
        BY <1>6, DelPeerDeleteGoes DEF DelPeerDelete, Goes, MapKeep, MAP, maps, locks
    <2> QED
        BY <1>6, <2>1, <2>2, DelPeerDeleteGoes DEF Goes, Locking
<1>7. ASSUME NEW t \in Threads, AddPeerLock(t) PROVE Locking(t)
    <2>1. RoomTake(t)
        BY <1>7, AddPeerLockGoes, Rooms1 DEF AddPeerLock, At, Lock, Unlock, Goes, RoomTake, ROOM, maps, locks
    <2>2. MapKeep(t)
        BY <1>7, AddPeerLockGoes DEF AddPeerLock, Goes, MapKeep, MAP, maps, locks
    <2> QED
        BY <1>7, <2>1, <2>2, AddPeerLockGoes DEF Goes, Locking
<1>8. ASSUME NEW t \in Threads, AddPeerPut(t) PROVE Locking(t)
    <2>1. RoomGive(t)
        BY <1>8, AddPeerPutGoes, Rooms1 DEF AddPeerPut, At, Lock, Unlock, Goes, RoomGive, ROOM, maps, locks
    <2>2. MapKeep(t)
        BY <1>8, AddPeerPutGoes DEF AddPeerPut, Goes, MapKeep, MAP, maps, locks
    <2> QED
        BY <1>8, <2>1, <2>2, AddPeerPutGoes DEF Goes, Locking
<1>9. ASSUME NEW t \in Threads, NotifyLock(t) PROVE Locking(t)
    <2>1. RoomTake(t)
        BY <1>9, NotifyLockGoes, Rooms1 DEF NotifyLock, At, Lock, Unlock, Goes, RoomTake, ROOM, maps, locks
    <2>2. MapKeep(t)
        BY <1>9, NotifyLockGoes DEF NotifyLock, Goes, MapKeep, MAP, maps, locks
    <2> QED
        BY <1>9, <2>1, <2>2, NotifyLockGoes DEF Goes, Locking
<1>10. ASSUME NEW t \in Threads, NEW p \in Peers, NotifySend(t, p) PROVE Locking(t)
    <2>1. RoomKeep(t)
        BY <1>10, NotifySendGoes, Rooms1 DEF NotifySend, At, Lock, Unlock, Goes, RoomKeep, ROOM, maps, locks
    <2>2. MapKeep(t)
        BY <1>10, NotifySendGoes DEF NotifySend, Goes, MapKeep, MAP, maps, locks
    <2> QED
        BY <1>10, <2>1, <2>2, NotifySendGoes DEF Goes, Locking
<1>11. ASSUME NEW t \in Threads, NotifyUnlock(t) PROVE Locking(t)
    <2>1. RoomGive(t)
        BY <1>11, NotifyUnlockGoes, Rooms1 DEF NotifyUnlock, At, Lock, Unlock, Goes, RoomGive, ROOM, maps, locks
    <2>2. MapKeep(t)
        BY <1>11, NotifyUnlockGoes DEF NotifyUnlock, Goes, MapKeep, MAP, maps, locks
    <2> QED
        BY <1>11, <2>1, <2>2, NotifyUnlockGoes DEF Goes, Locking
<1>12. ASSUME DelRoom, ~UNCHANGED mutex PROVE Locking(CheckRoom)
    <2>1. RoomKeep(CheckRoom)
        BY <1>12, DelRoomGoes, Rooms1 DEF At, Lock, Unlock, Goes, RoomKeep, ROOM, maps, locks
    <2>2. MapTake(CheckRoom)
        BY <1>12, DelRoomGoes DEF Goes, MapTake, MAP, maps, locks
    <2> QED
        BY <1>12, <2>1, <2>2, DelRoomGoes DEF Goes, Locking
<1>13. ASSUME CloseRoom PROVE Locking(CheckRoom)
    <2>1. RoomKeep(CheckRoom)
        BY <1>13, CloseRoomGoes, Rooms1 DEF CloseRoom, At, Lock, Unlock, Goes, RoomKeep, ROOM, maps, locks
    <2>2. MapKeep(CheckRoom)
        BY <1>13, CloseRoomGoes DEF CloseRoom, Goes, MapKeep, MAP, maps, locks
    <2> QED
        BY <1>13, <2>1, <2>2, CloseRoomGoes DEF Goes, Locking
<1>14. ASSUME DelRoomErase PROVE Locking(CheckRoom)
    <2>1. RoomKeep(CheckRoom)
        BY <1>14, DelRoomEraseGoes, Rooms1 DEF DelRoomErase, At, Lock, Unlock, Goes, RoomKeep, ROOM, maps, locks
    <2>2. MapGive(CheckRoom)
        BY <1>14, DelRoomEraseGoes DEF DelRoomErase, Goes, MapGive, MAP, maps, locks
    <2> QED
        BY <1>14, <2>1, <2>2, DelRoomEraseGoes DEF Goes, Locking
<1> QED
    BY <1>1, <1>2, <1>3, <1>4, <1>5, <1>6, <1>7, <1>8, <1>9, <1>10, <1>11, <1>12, <1>13, <1>14,
       LeaveQuiet, NotifyWithoutUidQuiet, AddPeerQuiet, DelPeerNoneQuiet, CheckQuiet, CheckRoomsQuiet, CheckPeersQuiet
    DEF Next, Call, Step, Check

\* So the holder of a mutex is the one that is at a place under it.
LEMMA HeldStep == TypeOK /\ Locals /\ Held /\ Next => Held'
<1> SUFFICES ASSUME TypeOK, Locals, Held, Next PROVE Held'
    OBVIOUS
<1> USE ThreadsAssumption
<1>1. peersMutex \in [Objects -> Threads \cup {NoOne}] /\ mutex \in Threads \cup {NoOne}
    BY DEF TypeOK
<1>2. ASSUME NEW t \in Threads, Locking(t) PROVE Held'
    <2>1. RoomHeld'
        <3>1. RoomHeld /\ Others(t)
            BY <1>2 DEF Locking, Held
        <3>2. CASE RoomKeep(t)
            BY <1>1, <3>1, <3>2 DEF RoomKeep, RoomHeld, Others
        <3>3. CASE RoomTake(t)
            BY <1>1, <3>1, <3>3 DEF RoomTake, RoomHeld, Others
        <3>4. CASE RoomGive(t)
            BY <1>1, <3>1, <3>4 DEF RoomGive, RoomHeld, Others
        <3> QED
            BY <1>2, <3>2, <3>3, <3>4 DEF Locking
    <2>2. MapHeld'
        <3>1. MapHeld /\ Others(t)
            BY <1>2 DEF Locking, Held
        <3>2. CASE MapKeep(t)
            BY <1>1, <3>1, <3>2 DEF MapKeep, MapHeld, Others
        <3>3. CASE MapTake(t)
            BY <1>1, <3>1, <3>3 DEF MapTake, MapHeld, Others
        <3>4. CASE MapGive(t)
            BY <1>1, <3>1, <3>4 DEF MapGive, MapHeld, Others
        <3> QED
            BY <1>2, <3>2, <3>3, <3>4 DEF Locking
    <2> QED
        BY <2>1, <2>2 DEF Held
<1>3. CASE MapRace
    BY <1>3 DEF MapRace, Held
<1>4. ASSUME NEW p \in Peers, Disconnect(p) PROVE Held'
    BY <1>4 DEF Disconnect, locks, Held, RoomHeld, MapHeld
<1> QED
    BY <1>2, <1>3, <1>4, LockStep

-----------------------------------------------------------------------------
(* The maps.                                                                 *)

\* What DelRoom closes stays in the map until it erases it.
LEMMA ClosingStep == TypeOK /\ Locals /\ Held /\ Closing /\ Next => Closing'
<1> SUFFICES ASSUME TypeOK, Locals, Held, Closing, Next PROVE Closing'
    OBVIOUS
<1> USE ThreadsAssumption, RoomsAssumption, UidAssumption DEF Threads
<1>0. roomMap \in [Rids -> Objects \cup {NoRoom}]
    BY DEF TypeOK
<1>1. ASSUME NEW t \in Threads, Quiet(t) PROVE Closing'
    BY <1>0, <1>1 DEF Closing, Held, MapHeld, MAP, Quiet, Holding, shared, Others, Members, PeersOf, Open
<1>2. ASSUME NEW p \in Peers, Disconnect(p) PROVE Closing'
    BY <1>0, <1>2 DEF Closing, Held, MapHeld, MAP, Disconnect, maps, locks, Members, PeersOf, Open
<1>3. ASSUME MapRace PROVE Closing'
    BY <1>0, <1>3 DEF Closing, Held, MapHeld, MAP, MapRace, maps, locks, Members, PeersOf, Open
<1>4. ASSUME NEW t \in Callers, NEW r \in Rids, AddRoom(t, r) PROVE Closing'
    <2>1. /\ Goes(t, "idle", "new")
          /\ my'[t].room \in Objects \ made
          /\ made' = made \cup {my'[t].room}
          /\ UNCHANGED <<roomMap, peers, locks, up, closed, shut, added, lost>>
        BY <1>4, AddRoomGoes DEF Goes, AddRoom
    <2> QED
        BY <1>0, <2>1 DEF Closing, Held, MapHeld, MAP, Goes, Others, maps, locks, Members, PeersOf, Open
<1>5. ASSUME NEW t \in Threads, AddRoomLock(t) PROVE Closing'
    <2>1. /\ Goes(t, "new", "store")
          /\ my[t].room \in Objects
          /\ my'[t] = my[t]
          /\ my[t].rid \in Rids
          /\ t # CheckRoom
        BY <1>5, AddRoomLockGoes, Rooms1 DEF Goes
    <2> QED
        BY <1>0, <1>5, <2>1 DEF Closing, Held, MapHeld, MAP, AddRoomLock, Goes, Others, maps, locks, Members, PeersOf, Open
<1>6. ASSUME NEW t \in Threads, AddRoomStore(t) PROVE Closing'
    <2>1. /\ Goes(t, "store", "idle")
          /\ my[t].room \in Objects
          /\ my[t].rid \in Rids
          /\ t # CheckRoom
        BY <1>6, AddRoomStoreGoes, Rooms1 DEF Goes
    <2> QED
        BY <1>0, <1>6, <2>1 DEF Closing, Held, MapHeld, MAP, AddRoomStore, Goes, Others, maps, locks, Members, PeersOf, Open
<1>7. ASSUME NEW t \in Threads, DelPeer(t) PROVE Closing'
    <2>1. /\ Goes(t, "out", "drop")
          /\ my[t].room \in Objects
          /\ my'[t] = my[t]
          /\ my[t].uid \in Uids
        BY <1>7, DelPeerGoes, Rooms1 DEF Goes
    <2> QED
        BY <1>0, <1>7, <2>1 DEF Closing, Held, MapHeld, MAP, DelPeer, Goes, Others, maps, locks, Members, PeersOf, Open
<1>8. ASSUME NEW t \in Threads, DelPeerDelete(t) PROVE Closing'
    <2>1. /\ Goes(t, "drop", my[t].then)
          /\ my[t].room \in Objects
          /\ my[t].then \in {"idle", "in", "peers"}
          /\ my[t].uid \in Uids
        BY <1>8, DelPeerDeleteGoes, Rooms1 DEF Goes
    <2> QED
        BY <1>0, <1>8, <2>1 DEF Closing, Held, MapHeld, MAP, DelPeerDelete, Goes, Others, maps, locks, Members, PeersOf, Open
<1>9. ASSUME NEW t \in Threads, AddPeerLock(t) PROVE Closing'
    <2>1. /\ Goes(t, "in", "put")
          /\ my[t].room \in Objects
          /\ my'[t] = my[t]
          /\ my[t].rid \in Rids
          /\ my[t].uid \in Uids
          /\ my[t].peer \in Peers
          /\ Uid(my[t].peer) = my[t].uid
          /\ t # CheckRoom
        BY <1>9, AddPeerLockGoes, Rooms1 DEF Goes
    <2> QED
        BY <1>0, <1>9, <2>1 DEF Closing, Held, MapHeld, MAP, AddPeerLock, Goes, Others, maps, locks, Members, PeersOf, Open
<1>10. ASSUME NEW t \in Threads, AddPeerPut(t) PROVE Closing'
    <2>1. /\ Goes(t, "put", "idle")
          /\ my[t].room \in Objects
          /\ my[t].rid \in Rids
          /\ my[t].uid \in Uids
          /\ my[t].peer \in Peers
          /\ Uid(my[t].peer) = my[t].uid
          /\ t # CheckRoom
        BY <1>10, AddPeerPutGoes, Rooms1 DEF Goes
    <2> QED
        BY <1>0, <1>10, <2>1 DEF Closing, Held, MapHeld, MAP, AddPeerPut, Goes, Others, maps, locks, Members, PeersOf, Open
<1>11. ASSUME NEW t \in Threads, NotifyLock(t) PROVE Closing'
    <2>1. /\ Goes(t, "tell", "send")
          /\ my[t].room \in Objects
          /\ my'[t].room = my[t].room
          /\ my'[t].todo \subseteq PeersOf(my[t].room)
          /\ t # CheckRoom
        BY <1>11, NotifyLockGoes, Rooms1 DEF Goes
    <2> QED
        BY <1>0, <1>11, <2>1 DEF Closing, Held, MapHeld, MAP, NotifyLock, Goes, Others, maps, locks, Members, PeersOf, Open
<1>12. ASSUME NEW t \in Threads, NEW p \in Peers, NotifySend(t, p) PROVE Closing'
    <2>1. /\ Goes(t, "send", "send")
          /\ my[t].room \in Objects
          /\ my'[t].room = my[t].room
          /\ my'[t].todo \subseteq my[t].todo
          /\ t # CheckRoom
        BY <1>12, NotifySendGoes, Rooms1 DEF Goes
    <2> QED
        BY <1>0, <1>12, <2>1 DEF Closing, Held, MapHeld, MAP, NotifySend, Goes, Others, maps, locks, Members, PeersOf, Open
<1>13. ASSUME NEW t \in Threads, NotifyUnlock(t) PROVE Closing'
    <2>1. /\ Goes(t, "send", "idle")
          /\ my[t].room \in Objects
          /\ t # CheckRoom
        BY <1>13, NotifyUnlockGoes, Rooms1 DEF Goes
    <2> QED
        BY <1>0, <1>13, <2>1 DEF Closing, Held, MapHeld, MAP, NotifyUnlock, Goes, Others, maps, locks, Members, PeersOf, Open
<1>14. ASSUME DelRoom, ~UNCHANGED mutex PROVE Closing'
    <2>1. /\ Goes(CheckRoom, "drop room", "close")
          /\ my[CheckRoom].room \in Objects
          /\ my'[CheckRoom] = my[CheckRoom]
          /\ roomMap[my[CheckRoom].rid] # NoRoom
          /\ UNCHANGED <<roomMap, peers, made, peersMutex, up, closed, shut, added, lost>>
          /\ my[CheckRoom].rid \in Rids
        BY <1>14, DelRoomGoes, Rooms1 DEF Goes
    <2> QED
        BY <1>0, <2>1 DEF Closing, Held, MapHeld, MAP, Goes, Others, maps, locks, Members, PeersOf, Open
<1>15. ASSUME CloseRoom PROVE Closing'
    <2>1. /\ Goes(CheckRoom, "close", "erase")
          /\ my[CheckRoom].room \in Objects
          /\ my'[CheckRoom] = my[CheckRoom]
          /\ my[CheckRoom].rid \in Rids
        BY <1>15, CloseRoomGoes, Rooms1 DEF Goes
    <2> QED
        BY <1>0, <1>15, <2>1 DEF Closing, Held, MapHeld, MAP, CloseRoom, Goes, Others, maps, locks, Members, PeersOf, Open
<1>16. ASSUME DelRoomErase PROVE Closing'
    <2>1. /\ Goes(CheckRoom, "erase", "rooms")
          /\ my[CheckRoom].room \in Objects
          /\ my[CheckRoom].rid \in Rids
        BY <1>16, DelRoomEraseGoes, Rooms1 DEF Goes
    <2> QED
        BY <1>0, <1>16, <2>1 DEF Closing, Held, MapHeld, MAP, DelRoomErase, Goes, Others, maps, locks, Members, PeersOf, Open
<1> QED
    BY <1>1, <1>2, <1>3, <1>4, <1>5, <1>6, <1>7, <1>8, <1>9, <1>10, <1>11, <1>12, <1>13, <1>14, <1>15, <1>16,
       LeaveQuiet, NotifyWithoutUidQuiet, AddPeerQuiet, DelPeerNoneQuiet, CheckQuiet, CheckRoomsQuiet, CheckPeersQuiet
    DEF Next, Call, Step, Check

\* AddPeer puts a peer under its own id.
LEMMA PlacedStep == TypeOK /\ Locals /\ Placed /\ Next => Placed'
<1> SUFFICES ASSUME TypeOK, Locals, Placed, Next PROVE Placed'
    OBVIOUS
<1> USE ThreadsAssumption, RoomsAssumption, UidAssumption DEF Threads
<1>0. peers \in [Objects -> [Uids -> Peers \cup {NoPeer}]]
    BY DEF TypeOK
<1>1. ASSUME NEW t \in Threads, Quiet(t) PROVE Placed'
    BY <1>0, <1>1 DEF Placed, Quiet, Holding, shared, Others, Members, PeersOf, Open
<1>2. ASSUME NEW p \in Peers, Disconnect(p) PROVE Placed'
    BY <1>0, <1>2 DEF Placed, Disconnect, maps, locks, Members, PeersOf, Open
<1>3. ASSUME MapRace PROVE Placed'
    BY <1>0, <1>3 DEF Placed, MapRace, maps, locks, Members, PeersOf, Open
<1>4. ASSUME NEW t \in Callers, NEW r \in Rids, AddRoom(t, r) PROVE Placed'
    <2>1. /\ Goes(t, "idle", "new")
          /\ my'[t].room \in Objects \ made
          /\ made' = made \cup {my'[t].room}
          /\ UNCHANGED <<roomMap, peers, locks, up, closed, shut, added, lost>>
        BY <1>4, AddRoomGoes DEF Goes, AddRoom
    <2> QED
        BY <1>0, <2>1 DEF Placed, Goes, Others, maps, locks, Members, PeersOf, Open
<1>5. ASSUME NEW t \in Threads, AddRoomLock(t) PROVE Placed'
    <2>1. /\ Goes(t, "new", "store")
          /\ my[t].room \in Objects
          /\ my'[t] = my[t]
          /\ my[t].rid \in Rids
          /\ t # CheckRoom
        BY <1>5, AddRoomLockGoes, Rooms1 DEF Goes
    <2> QED
        BY <1>0, <1>5, <2>1 DEF Placed, AddRoomLock, Goes, Others, maps, locks, Members, PeersOf, Open
<1>6. ASSUME NEW t \in Threads, AddRoomStore(t) PROVE Placed'
    <2>1. /\ Goes(t, "store", "idle")
          /\ my[t].room \in Objects
          /\ my[t].rid \in Rids
          /\ t # CheckRoom
        BY <1>6, AddRoomStoreGoes, Rooms1 DEF Goes
    <2> QED
        BY <1>0, <1>6, <2>1 DEF Placed, AddRoomStore, Goes, Others, maps, locks, Members, PeersOf, Open
<1>7. ASSUME NEW t \in Threads, DelPeer(t) PROVE Placed'
    <2>1. /\ Goes(t, "out", "drop")
          /\ my[t].room \in Objects
          /\ my'[t] = my[t]
          /\ my[t].uid \in Uids
        BY <1>7, DelPeerGoes, Rooms1 DEF Goes
    <2> QED
        BY <1>0, <1>7, <2>1 DEF Placed, DelPeer, Goes, Others, maps, locks, Members, PeersOf, Open
<1>8. ASSUME NEW t \in Threads, DelPeerDelete(t) PROVE Placed'
    <2>1. /\ Goes(t, "drop", my[t].then)
          /\ my[t].room \in Objects
          /\ my[t].then \in {"idle", "in", "peers"}
          /\ my[t].uid \in Uids
        BY <1>8, DelPeerDeleteGoes, Rooms1 DEF Goes
    <2> QED
        BY <1>0, <1>8, <2>1 DEF Placed, DelPeerDelete, Goes, Others, maps, locks, Members, PeersOf, Open
<1>9. ASSUME NEW t \in Threads, AddPeerLock(t) PROVE Placed'
    <2>1. /\ Goes(t, "in", "put")
          /\ my[t].room \in Objects
          /\ my'[t] = my[t]
          /\ my[t].rid \in Rids
          /\ my[t].uid \in Uids
          /\ my[t].peer \in Peers
          /\ Uid(my[t].peer) = my[t].uid
          /\ t # CheckRoom
        BY <1>9, AddPeerLockGoes, Rooms1 DEF Goes
    <2> QED
        BY <1>0, <1>9, <2>1 DEF Placed, AddPeerLock, Goes, Others, maps, locks, Members, PeersOf, Open
<1>10. ASSUME NEW t \in Threads, AddPeerPut(t) PROVE Placed'
    <2>1. /\ Goes(t, "put", "idle")
          /\ my[t].room \in Objects
          /\ my[t].rid \in Rids
          /\ my[t].uid \in Uids
          /\ my[t].peer \in Peers
          /\ Uid(my[t].peer) = my[t].uid
          /\ t # CheckRoom
        BY <1>10, AddPeerPutGoes, Rooms1 DEF Goes
    <2> QED
        BY <1>0, <1>10, <2>1 DEF Placed, AddPeerPut, Goes, Others, maps, locks, Members, PeersOf, Open
<1>11. ASSUME NEW t \in Threads, NotifyLock(t) PROVE Placed'
    <2>1. /\ Goes(t, "tell", "send")
          /\ my[t].room \in Objects
          /\ my'[t].room = my[t].room
          /\ my'[t].todo \subseteq PeersOf(my[t].room)
          /\ t # CheckRoom
        BY <1>11, NotifyLockGoes, Rooms1 DEF Goes
    <2> QED
        BY <1>0, <1>11, <2>1 DEF Placed, NotifyLock, Goes, Others, maps, locks, Members, PeersOf, Open
<1>12. ASSUME NEW t \in Threads, NEW p \in Peers, NotifySend(t, p) PROVE Placed'
    <2>1. /\ Goes(t, "send", "send")
          /\ my[t].room \in Objects
          /\ my'[t].room = my[t].room
          /\ my'[t].todo \subseteq my[t].todo
          /\ t # CheckRoom
        BY <1>12, NotifySendGoes, Rooms1 DEF Goes
    <2> QED
        BY <1>0, <1>12, <2>1 DEF Placed, NotifySend, Goes, Others, maps, locks, Members, PeersOf, Open
<1>13. ASSUME NEW t \in Threads, NotifyUnlock(t) PROVE Placed'
    <2>1. /\ Goes(t, "send", "idle")
          /\ my[t].room \in Objects
          /\ t # CheckRoom
        BY <1>13, NotifyUnlockGoes, Rooms1 DEF Goes
    <2> QED
        BY <1>0, <1>13, <2>1 DEF Placed, NotifyUnlock, Goes, Others, maps, locks, Members, PeersOf, Open
<1>14. ASSUME DelRoom, ~UNCHANGED mutex PROVE Placed'
    <2>1. /\ Goes(CheckRoom, "drop room", "close")
          /\ my[CheckRoom].room \in Objects
          /\ my'[CheckRoom] = my[CheckRoom]
          /\ roomMap[my[CheckRoom].rid] # NoRoom
          /\ UNCHANGED <<roomMap, peers, made, peersMutex, up, closed, shut, added, lost>>
          /\ my[CheckRoom].rid \in Rids
        BY <1>14, DelRoomGoes, Rooms1 DEF Goes
    <2> QED
        BY <1>0, <2>1 DEF Placed, Goes, Others, maps, locks, Members, PeersOf, Open
<1>15. ASSUME CloseRoom PROVE Placed'
    <2>1. /\ Goes(CheckRoom, "close", "erase")
          /\ my[CheckRoom].room \in Objects
          /\ my'[CheckRoom] = my[CheckRoom]
          /\ my[CheckRoom].rid \in Rids
        BY <1>15, CloseRoomGoes, Rooms1 DEF Goes
    <2> QED
        BY <1>0, <1>15, <2>1 DEF Placed, CloseRoom, Goes, Others, maps, locks, Members, PeersOf, Open
<1>16. ASSUME DelRoomErase PROVE Placed'
    <2>1. /\ Goes(CheckRoom, "erase", "rooms")
          /\ my[CheckRoom].room \in Objects
          /\ my[CheckRoom].rid \in Rids
        BY <1>16, DelRoomEraseGoes, Rooms1 DEF Goes
    <2> QED
        BY <1>0, <1>16, <2>1 DEF Placed, DelRoomErase, Goes, Others, maps, locks, Members, PeersOf, Open
<1> QED
    BY <1>1, <1>2, <1>3, <1>4, <1>5, <1>6, <1>7, <1>8, <1>9, <1>10, <1>11, <1>12, <1>13, <1>14, <1>15, <1>16,
       LeaveQuiet, NotifyWithoutUidQuiet, AddPeerQuiet, DelPeerNoneQuiet, CheckQuiet, CheckRoomsQuiet, CheckPeersQuiet
    DEF Next, Call, Step, Check

\* Nobody replaces the peer that DelPeer is deleting.
LEMMA DroppingStep == TypeOK /\ Locals /\ Held /\ Dropping /\ Next => Dropping'
<1> SUFFICES ASSUME TypeOK, Locals, Held, Dropping, Next PROVE Dropping'
    OBVIOUS
<1> USE ThreadsAssumption, RoomsAssumption, UidAssumption DEF Threads
<1>0. peers \in [Objects -> [Uids -> Peers \cup {NoPeer}]]
    BY DEF TypeOK
<1>1. ASSUME NEW t \in Threads, Quiet(t) PROVE Dropping'
    BY <1>0, <1>1 DEF Dropping, Held, RoomHeld, ROOM, Quiet, Holding, shared, Others, Members, PeersOf, Open
<1>2. ASSUME NEW p \in Peers, Disconnect(p) PROVE Dropping'
    BY <1>0, <1>2 DEF Dropping, Held, RoomHeld, ROOM, Disconnect, maps, locks, Members, PeersOf, Open
<1>3. ASSUME MapRace PROVE Dropping'
    BY <1>0, <1>3 DEF Dropping, Held, RoomHeld, ROOM, MapRace, maps, locks, Members, PeersOf, Open
<1>4. ASSUME NEW t \in Callers, NEW r \in Rids, AddRoom(t, r) PROVE Dropping'
    <2>1. /\ Goes(t, "idle", "new")
          /\ my'[t].room \in Objects \ made
          /\ made' = made \cup {my'[t].room}
          /\ UNCHANGED <<roomMap, peers, locks, up, closed, shut, added, lost>>
        BY <1>4, AddRoomGoes DEF Goes, AddRoom
    <2> QED
        BY <1>0, <2>1 DEF Dropping, Held, RoomHeld, ROOM, Goes, Others, maps, locks, Members, PeersOf, Open
<1>5. ASSUME NEW t \in Threads, AddRoomLock(t) PROVE Dropping'
    <2>1. /\ Goes(t, "new", "store")
          /\ my[t].room \in Objects
          /\ my'[t] = my[t]
          /\ my[t].rid \in Rids
          /\ t # CheckRoom
        BY <1>5, AddRoomLockGoes, Rooms1 DEF Goes
    <2> QED
        BY <1>0, <1>5, <2>1 DEF Dropping, Held, RoomHeld, ROOM, AddRoomLock, Goes, Others, maps, locks, Members, PeersOf, Open
<1>6. ASSUME NEW t \in Threads, AddRoomStore(t) PROVE Dropping'
    <2>1. /\ Goes(t, "store", "idle")
          /\ my[t].room \in Objects
          /\ my[t].rid \in Rids
          /\ t # CheckRoom
        BY <1>6, AddRoomStoreGoes, Rooms1 DEF Goes
    <2> QED
        BY <1>0, <1>6, <2>1 DEF Dropping, Held, RoomHeld, ROOM, AddRoomStore, Goes, Others, maps, locks, Members, PeersOf, Open
<1>7. ASSUME NEW t \in Threads, DelPeer(t) PROVE Dropping'
    <2>1. /\ Goes(t, "out", "drop")
          /\ my[t].room \in Objects
          /\ my'[t] = my[t]
          /\ my[t].uid \in Uids
        BY <1>7, DelPeerGoes, Rooms1 DEF Goes
    <2> QED
        BY <1>0, <1>7, <2>1 DEF Dropping, Held, RoomHeld, ROOM, DelPeer, Goes, Others, maps, locks, Members, PeersOf, Open
<1>8. ASSUME NEW t \in Threads, DelPeerDelete(t) PROVE Dropping'
    <2>1. /\ Goes(t, "drop", my[t].then)
          /\ my[t].room \in Objects
          /\ my[t].then \in {"idle", "in", "peers"}
          /\ my[t].uid \in Uids
        BY <1>8, DelPeerDeleteGoes, Rooms1 DEF Goes
    <2> QED
        BY <1>0, <1>8, <2>1 DEF Dropping, Held, RoomHeld, ROOM, DelPeerDelete, Goes, Others, maps, locks, Members, PeersOf, Open
<1>9. ASSUME NEW t \in Threads, AddPeerLock(t) PROVE Dropping'
    <2>1. /\ Goes(t, "in", "put")
          /\ my[t].room \in Objects
          /\ my'[t] = my[t]
          /\ my[t].rid \in Rids
          /\ my[t].uid \in Uids
          /\ my[t].peer \in Peers
          /\ Uid(my[t].peer) = my[t].uid
          /\ t # CheckRoom
        BY <1>9, AddPeerLockGoes, Rooms1 DEF Goes
    <2> QED
        BY <1>0, <1>9, <2>1 DEF Dropping, Held, RoomHeld, ROOM, AddPeerLock, Goes, Others, maps, locks, Members, PeersOf, Open
<1>10. ASSUME NEW t \in Threads, AddPeerPut(t) PROVE Dropping'
    <2>1. /\ Goes(t, "put", "idle")
          /\ my[t].room \in Objects
          /\ my[t].rid \in Rids
          /\ my[t].uid \in Uids
          /\ my[t].peer \in Peers
          /\ Uid(my[t].peer) = my[t].uid
          /\ t # CheckRoom
        BY <1>10, AddPeerPutGoes, Rooms1 DEF Goes
    <2> QED
        BY <1>0, <1>10, <2>1 DEF Dropping, Held, RoomHeld, ROOM, AddPeerPut, Goes, Others, maps, locks, Members, PeersOf, Open
<1>11. ASSUME NEW t \in Threads, NotifyLock(t) PROVE Dropping'
    <2>1. /\ Goes(t, "tell", "send")
          /\ my[t].room \in Objects
          /\ my'[t].room = my[t].room
          /\ my'[t].todo \subseteq PeersOf(my[t].room)
          /\ t # CheckRoom
        BY <1>11, NotifyLockGoes, Rooms1 DEF Goes
    <2> QED
        BY <1>0, <1>11, <2>1 DEF Dropping, Held, RoomHeld, ROOM, NotifyLock, Goes, Others, maps, locks, Members, PeersOf, Open
<1>12. ASSUME NEW t \in Threads, NEW p \in Peers, NotifySend(t, p) PROVE Dropping'
    <2>1. /\ Goes(t, "send", "send")
          /\ my[t].room \in Objects
          /\ my'[t].room = my[t].room
          /\ my'[t].todo \subseteq my[t].todo
          /\ t # CheckRoom
        BY <1>12, NotifySendGoes, Rooms1 DEF Goes
    <2> QED
        BY <1>0, <1>12, <2>1 DEF Dropping, Held, RoomHeld, ROOM, NotifySend, Goes, Others, maps, locks, Members, PeersOf, Open
<1>13. ASSUME NEW t \in Threads, NotifyUnlock(t) PROVE Dropping'
    <2>1. /\ Goes(t, "send", "idle")
          /\ my[t].room \in Objects
          /\ t # CheckRoom
        BY <1>13, NotifyUnlockGoes, Rooms1 DEF Goes
    <2> QED
        BY <1>0, <1>13, <2>1 DEF Dropping, Held, RoomHeld, ROOM, NotifyUnlock, Goes, Others, maps, locks, Members, PeersOf, Open
<1>14. ASSUME DelRoom, ~UNCHANGED mutex PROVE Dropping'
    <2>1. /\ Goes(CheckRoom, "drop room", "close")
          /\ my[CheckRoom].room \in Objects
          /\ my'[CheckRoom] = my[CheckRoom]
          /\ roomMap[my[CheckRoom].rid] # NoRoom
          /\ UNCHANGED <<roomMap, peers, made, peersMutex, up, closed, shut, added, lost>>
          /\ my[CheckRoom].rid \in Rids
        BY <1>14, DelRoomGoes, Rooms1 DEF Goes
    <2> QED
        BY <1>0, <2>1 DEF Dropping, Held, RoomHeld, ROOM, Goes, Others, maps, locks, Members, PeersOf, Open
<1>15. ASSUME CloseRoom PROVE Dropping'
    <2>1. /\ Goes(CheckRoom, "close", "erase")
          /\ my[CheckRoom].room \in Objects
          /\ my'[CheckRoom] = my[CheckRoom]
          /\ my[CheckRoom].rid \in Rids
        BY <1>15, CloseRoomGoes, Rooms1 DEF Goes
    <2> QED
        BY <1>0, <1>15, <2>1 DEF Dropping, Held, RoomHeld, ROOM, CloseRoom, Goes, Others, maps, locks, Members, PeersOf, Open
<1>16. ASSUME DelRoomErase PROVE Dropping'
    <2>1. /\ Goes(CheckRoom, "erase", "rooms")
          /\ my[CheckRoom].room \in Objects
          /\ my[CheckRoom].rid \in Rids
        BY <1>16, DelRoomEraseGoes, Rooms1 DEF Goes
    <2> QED
        BY <1>0, <1>16, <2>1 DEF Dropping, Held, RoomHeld, ROOM, DelRoomErase, Goes, Others, maps, locks, Members, PeersOf, Open
<1> QED
    BY <1>1, <1>2, <1>3, <1>4, <1>5, <1>6, <1>7, <1>8, <1>9, <1>10, <1>11, <1>12, <1>13, <1>14, <1>15, <1>16,
       LeaveQuiet, NotifyWithoutUidQuiet, AddPeerQuiet, DelPeerNoneQuiet, CheckQuiet, CheckRoomsQuiet, CheckPeersQuiet
    DEF Next, Call, Step, Check

\* The members stay while a broadcast is written.
LEMMA SendsStep == TypeOK /\ Locals /\ Held /\ SendsToMembers /\ Next => SendsToMembers'
<1> SUFFICES ASSUME TypeOK, Locals, Held, SendsToMembers, Next PROVE SendsToMembers'
    OBVIOUS
<1> USE ThreadsAssumption, RoomsAssumption, UidAssumption DEF Threads
<1>0. peers \in [Objects -> [Uids -> Peers \cup {NoPeer}]]
    BY DEF TypeOK
<1>1. ASSUME NEW t \in Threads, Quiet(t) PROVE SendsToMembers'
    BY <1>0, <1>1 DEF SendsToMembers, Held, RoomHeld, ROOM, Quiet, Holding, shared, Others, Members, PeersOf, Open
<1>2. ASSUME NEW p \in Peers, Disconnect(p) PROVE SendsToMembers'
    BY <1>0, <1>2 DEF SendsToMembers, Held, RoomHeld, ROOM, Disconnect, maps, locks, Members, PeersOf, Open
<1>3. ASSUME MapRace PROVE SendsToMembers'
    BY <1>0, <1>3 DEF SendsToMembers, Held, RoomHeld, ROOM, MapRace, maps, locks, Members, PeersOf, Open
<1>4. ASSUME NEW t \in Callers, NEW r \in Rids, AddRoom(t, r) PROVE SendsToMembers'
    <2>1. /\ Goes(t, "idle", "new")
          /\ my'[t].room \in Objects \ made
          /\ made' = made \cup {my'[t].room}
          /\ UNCHANGED <<roomMap, peers, locks, up, closed, shut, added, lost>>
        BY <1>4, AddRoomGoes DEF Goes, AddRoom
    <2>2. \A o : PeersOf(o)' = PeersOf(o)
        BY <2>1 DEF Members, PeersOf, locks
    <2> QED
        BY <2>1, <2>2 DEF SendsToMembers, Goes, Others, locks
<1>5. ASSUME NEW t \in Threads, AddRoomLock(t) PROVE SendsToMembers'
    <2>1. /\ Goes(t, "new", "store")
          /\ my[t].room \in Objects
          /\ my'[t] = my[t]
          /\ my[t].rid \in Rids
          /\ t # CheckRoom
        BY <1>5, AddRoomLockGoes, Rooms1 DEF Goes
    <2> QED
        BY <1>0, <1>5, <2>1 DEF SendsToMembers, Held, RoomHeld, ROOM, AddRoomLock, Goes, Others, maps, locks, Members, PeersOf, Open
<1>6. ASSUME NEW t \in Threads, AddRoomStore(t) PROVE SendsToMembers'
    <2>1. /\ Goes(t, "store", "idle")
          /\ my[t].room \in Objects
          /\ my[t].rid \in Rids
          /\ t # CheckRoom
        BY <1>6, AddRoomStoreGoes, Rooms1 DEF Goes
    <2> QED
        BY <1>0, <1>6, <2>1 DEF SendsToMembers, Held, RoomHeld, ROOM, AddRoomStore, Goes, Others, maps, locks, Members, PeersOf, Open
<1>7. ASSUME NEW t \in Threads, DelPeer(t) PROVE SendsToMembers'
    <2>1. /\ Goes(t, "out", "drop")
          /\ my[t].room \in Objects
          /\ my'[t] = my[t]
          /\ my[t].uid \in Uids
        BY <1>7, DelPeerGoes, Rooms1 DEF Goes
    <2> QED
        BY <1>0, <1>7, <2>1 DEF SendsToMembers, Held, RoomHeld, ROOM, DelPeer, Goes, Others, maps, locks, Members, PeersOf, Open
<1>8. ASSUME NEW t \in Threads, DelPeerDelete(t) PROVE SendsToMembers'
    <2>1. /\ Goes(t, "drop", my[t].then)
          /\ my[t].room \in Objects
          /\ my[t].then \in {"idle", "in", "peers"}
          /\ my[t].uid \in Uids
        BY <1>8, DelPeerDeleteGoes, Rooms1 DEF Goes
    <2> QED
        BY <1>0, <1>8, <2>1 DEF SendsToMembers, Held, RoomHeld, ROOM, DelPeerDelete, Goes, Others, maps, locks, Members, PeersOf, Open
<1>9. ASSUME NEW t \in Threads, AddPeerLock(t) PROVE SendsToMembers'
    <2>1. /\ Goes(t, "in", "put")
          /\ my[t].room \in Objects
          /\ my'[t] = my[t]
          /\ my[t].rid \in Rids
          /\ my[t].uid \in Uids
          /\ my[t].peer \in Peers
          /\ Uid(my[t].peer) = my[t].uid
          /\ t # CheckRoom
        BY <1>9, AddPeerLockGoes, Rooms1 DEF Goes
    <2> QED
        BY <1>0, <1>9, <2>1 DEF SendsToMembers, Held, RoomHeld, ROOM, AddPeerLock, Goes, Others, maps, locks, Members, PeersOf, Open
<1>10. ASSUME NEW t \in Threads, AddPeerPut(t) PROVE SendsToMembers'
    <2>1. /\ Goes(t, "put", "idle")
          /\ my[t].room \in Objects
          /\ my[t].rid \in Rids
          /\ my[t].uid \in Uids
          /\ my[t].peer \in Peers
          /\ Uid(my[t].peer) = my[t].uid
          /\ t # CheckRoom
        BY <1>10, AddPeerPutGoes, Rooms1 DEF Goes
    <2> QED
        BY <1>0, <1>10, <2>1 DEF SendsToMembers, Held, RoomHeld, ROOM, AddPeerPut, Goes, Others, maps, locks, Members, PeersOf, Open
<1>11. ASSUME NEW t \in Threads, NotifyLock(t) PROVE SendsToMembers'
    <2>1. /\ Goes(t, "tell", "send")
          /\ my[t].room \in Objects
          /\ my'[t].room = my[t].room
          /\ my'[t].todo \subseteq PeersOf(my[t].room)
          /\ t # CheckRoom
        BY <1>11, NotifyLockGoes, Rooms1 DEF Goes
    <2> QED
        BY <1>0, <1>11, <2>1 DEF SendsToMembers, Held, RoomHeld, ROOM, NotifyLock, Goes, Others, maps, locks, Members, PeersOf, Open
<1>12. ASSUME NEW t \in Threads, NEW p \in Peers, NotifySend(t, p) PROVE SendsToMembers'
    <2>1. /\ Goes(t, "send", "send")
          /\ my[t].room \in Objects
          /\ my'[t].room = my[t].room
          /\ my'[t].todo \subseteq my[t].todo
          /\ t # CheckRoom
        BY <1>12, NotifySendGoes, Rooms1 DEF Goes
    <2> QED
        BY <1>0, <1>12, <2>1 DEF SendsToMembers, Held, RoomHeld, ROOM, NotifySend, Goes, Others, maps, locks, Members, PeersOf, Open
<1>13. ASSUME NEW t \in Threads, NotifyUnlock(t) PROVE SendsToMembers'
    <2>1. /\ Goes(t, "send", "idle")
          /\ my[t].room \in Objects
          /\ t # CheckRoom
        BY <1>13, NotifyUnlockGoes, Rooms1 DEF Goes
    <2> QED
        BY <1>0, <1>13, <2>1 DEF SendsToMembers, Held, RoomHeld, ROOM, NotifyUnlock, Goes, Others, maps, locks, Members, PeersOf, Open
<1>14. ASSUME DelRoom, ~UNCHANGED mutex PROVE SendsToMembers'
    <2>1. /\ Goes(CheckRoom, "drop room", "close")
          /\ my[CheckRoom].room \in Objects
          /\ my'[CheckRoom] = my[CheckRoom]
          /\ roomMap[my[CheckRoom].rid] # NoRoom
          /\ UNCHANGED <<roomMap, peers, made, peersMutex, up, closed, shut, added, lost>>
          /\ my[CheckRoom].rid \in Rids
        BY <1>14, DelRoomGoes, Rooms1 DEF Goes
    <2>2. \A o : PeersOf(o)' = PeersOf(o)
        BY <2>1 DEF Members, PeersOf, locks
    <2> QED
        BY <2>1, <2>2 DEF SendsToMembers, Goes, Others, locks
<1>15. ASSUME CloseRoom PROVE SendsToMembers'
    <2>1. /\ Goes(CheckRoom, "close", "erase")
          /\ my[CheckRoom].room \in Objects
          /\ my'[CheckRoom] = my[CheckRoom]
          /\ my[CheckRoom].rid \in Rids
        BY <1>15, CloseRoomGoes, Rooms1 DEF Goes
    <2> QED
        BY <1>0, <1>15, <2>1 DEF SendsToMembers, Held, RoomHeld, ROOM, CloseRoom, Goes, Others, maps, locks, Members, PeersOf, Open
<1>16. ASSUME DelRoomErase PROVE SendsToMembers'
    <2>1. /\ Goes(CheckRoom, "erase", "rooms")
          /\ my[CheckRoom].room \in Objects
          /\ my[CheckRoom].rid \in Rids
        BY <1>16, DelRoomEraseGoes, Rooms1 DEF Goes
    <2> QED
        BY <1>0, <1>16, <2>1 DEF SendsToMembers, Held, RoomHeld, ROOM, DelRoomErase, Goes, Others, maps, locks, Members, PeersOf, Open
<1> QED
    BY <1>1, <1>2, <1>3, <1>4, <1>5, <1>6, <1>7, <1>8, <1>9, <1>10, <1>11, <1>12, <1>13, <1>14, <1>15, <1>16,
       LeaveQuiet, NotifyWithoutUidQuiet, AddPeerQuiet, DelPeerNoneQuiet, CheckQuiet, CheckRoomsQuiet, CheckPeersQuiet
    DEF Next, Call, Step, Check

\* A room object is stored once.
LEMMA OnceStep == TypeOK /\ Locals /\ Held /\ Closing /\ Once /\ Next => Once'
<1> SUFFICES ASSUME TypeOK, Locals, Held, Closing, Once, Next PROVE Once'
    OBVIOUS
<1> USE ThreadsAssumption, RoomsAssumption, UidAssumption DEF Threads
<1>0. roomMap \in [Rids -> Objects \cup {NoRoom}] /\ made \subseteq Objects
    BY DEF TypeOK
<1>1. ASSUME NEW t \in Threads, Quiet(t) PROVE Once'
    BY <1>0, <1>1 DEF Once, Held, MapHeld, MAP, Quiet, Holding, shared, Others, Members, PeersOf, Open
<1>2. ASSUME NEW p \in Peers, Disconnect(p) PROVE Once'
    BY <1>0, <1>2 DEF Once, Held, MapHeld, MAP, Disconnect, maps, locks, Members, PeersOf, Open
<1>3. ASSUME MapRace PROVE Once'
    BY <1>0, <1>3 DEF Once, Held, MapHeld, MAP, MapRace, maps, locks, Members, PeersOf, Open
<1>4. ASSUME NEW t \in Callers, NEW r \in Rids, AddRoom(t, r) PROVE Once'
    <2>1. /\ Goes(t, "idle", "new")
          /\ my'[t].room \in Objects \ made
          /\ made' = made \cup {my'[t].room}
          /\ UNCHANGED <<roomMap, peers, locks, up, closed, shut, added, lost>>
        BY <1>4, AddRoomGoes DEF Goes, AddRoom
    <2>2. shut' \subseteq made' /\ \A q \in Rids : roomMap'[q] \in made' \cup {NoRoom}
        BY <1>0, <2>1 DEF Once, Goes, Others, maps, locks
    <2>3. \A q, s \in Rids : roomMap'[q] = roomMap'[s] /\ roomMap'[q] # NoRoom => q = s
        BY <1>0, <2>1 DEF Once, Goes, Others, maps, locks
    <2>4. \A s \in Threads : pc'[s] \in {"new", "store"} =>
            /\ my'[s].room \in made' \ shut'
            /\ \A q \in Rids : roomMap'[q] # my'[s].room
            /\ \A x \in Threads : pc'[x] \in {"new", "store"} /\ my'[x].room = my'[s].room => x = s
        BY <1>0, <2>1 DEF Once, Goes, Others, maps, locks
    <2>5. up' => \A q \in Rids : roomMap'[q] \in shut' => pc'[CheckRoom] = "erase" /\ my'[CheckRoom].rid = q
        BY <1>0, <2>1 DEF Once, Goes, Others, maps, locks
    <2> QED
        BY <2>2, <2>3, <2>4, <2>5 DEF Once
<1>5. ASSUME NEW t \in Threads, AddRoomLock(t) PROVE Once'
    <2>1. /\ Goes(t, "new", "store")
          /\ my[t].room \in Objects
          /\ my'[t] = my[t]
          /\ my[t].rid \in Rids
          /\ t # CheckRoom
        BY <1>5, AddRoomLockGoes, Rooms1 DEF Goes
    <2> QED
        BY <1>0, <1>5, <2>1 DEF Once, Held, MapHeld, MAP, AddRoomLock, Goes, Others, maps, locks, Members, PeersOf, Open
<1>6. ASSUME NEW t \in Threads, AddRoomStore(t) PROVE Once'
    <2>1. /\ Goes(t, "store", "idle")
          /\ my[t].room \in Objects
          /\ my[t].rid \in Rids
          /\ t # CheckRoom
        BY <1>6, AddRoomStoreGoes, Rooms1 DEF Goes
    <2> QED
        BY <1>0, <1>6, <2>1 DEF Once, Held, MapHeld, MAP, AddRoomStore, Goes, Others, maps, locks, Members, PeersOf, Open
<1>7. ASSUME NEW t \in Threads, DelPeer(t) PROVE Once'
    <2>1. /\ Goes(t, "out", "drop")
          /\ my[t].room \in Objects
          /\ my'[t] = my[t]
          /\ my[t].uid \in Uids
        BY <1>7, DelPeerGoes, Rooms1 DEF Goes
    <2> QED
        BY <1>0, <1>7, <2>1 DEF Once, Held, MapHeld, MAP, DelPeer, Goes, Others, maps, locks, Members, PeersOf, Open
<1>8. ASSUME NEW t \in Threads, DelPeerDelete(t) PROVE Once'
    <2>1. /\ Goes(t, "drop", my[t].then)
          /\ my[t].room \in Objects
          /\ my[t].then \in {"idle", "in", "peers"}
          /\ my[t].uid \in Uids
        BY <1>8, DelPeerDeleteGoes, Rooms1 DEF Goes
    <2> QED
        BY <1>0, <1>8, <2>1 DEF Once, Held, MapHeld, MAP, DelPeerDelete, Goes, Others, maps, locks, Members, PeersOf, Open
<1>9. ASSUME NEW t \in Threads, AddPeerLock(t) PROVE Once'
    <2>1. /\ Goes(t, "in", "put")
          /\ my[t].room \in Objects
          /\ my'[t] = my[t]
          /\ my[t].rid \in Rids
          /\ my[t].uid \in Uids
          /\ my[t].peer \in Peers
          /\ Uid(my[t].peer) = my[t].uid
          /\ t # CheckRoom
        BY <1>9, AddPeerLockGoes, Rooms1 DEF Goes
    <2> QED
        BY <1>0, <1>9, <2>1 DEF Once, Held, MapHeld, MAP, AddPeerLock, Goes, Others, maps, locks, Members, PeersOf, Open
<1>10. ASSUME NEW t \in Threads, AddPeerPut(t) PROVE Once'
    <2>1. /\ Goes(t, "put", "idle")
          /\ my[t].room \in Objects
          /\ my[t].rid \in Rids
          /\ my[t].uid \in Uids
          /\ my[t].peer \in Peers
          /\ Uid(my[t].peer) = my[t].uid
          /\ t # CheckRoom
        BY <1>10, AddPeerPutGoes, Rooms1 DEF Goes
    <2> QED
        BY <1>0, <1>10, <2>1 DEF Once, Held, MapHeld, MAP, AddPeerPut, Goes, Others, maps, locks, Members, PeersOf, Open
<1>11. ASSUME NEW t \in Threads, NotifyLock(t) PROVE Once'
    <2>1. /\ Goes(t, "tell", "send")
          /\ my[t].room \in Objects
          /\ my'[t].room = my[t].room
          /\ my'[t].todo \subseteq PeersOf(my[t].room)
          /\ t # CheckRoom
        BY <1>11, NotifyLockGoes, Rooms1 DEF Goes
    <2> QED
        BY <1>0, <1>11, <2>1 DEF Once, Held, MapHeld, MAP, NotifyLock, Goes, Others, maps, locks, Members, PeersOf, Open
<1>12. ASSUME NEW t \in Threads, NEW p \in Peers, NotifySend(t, p) PROVE Once'
    <2>1. /\ Goes(t, "send", "send")
          /\ my[t].room \in Objects
          /\ my'[t].room = my[t].room
          /\ my'[t].todo \subseteq my[t].todo
          /\ t # CheckRoom
        BY <1>12, NotifySendGoes, Rooms1 DEF Goes
    <2> QED
        BY <1>0, <1>12, <2>1 DEF Once, Held, MapHeld, MAP, NotifySend, Goes, Others, maps, locks, Members, PeersOf, Open
<1>13. ASSUME NEW t \in Threads, NotifyUnlock(t) PROVE Once'
    <2>1. /\ Goes(t, "send", "idle")
          /\ my[t].room \in Objects
          /\ t # CheckRoom
        BY <1>13, NotifyUnlockGoes, Rooms1 DEF Goes
    <2> QED
        BY <1>0, <1>13, <2>1 DEF Once, Held, MapHeld, MAP, NotifyUnlock, Goes, Others, maps, locks, Members, PeersOf, Open
<1>14. ASSUME DelRoom, ~UNCHANGED mutex PROVE Once'
    <2>1. /\ Goes(CheckRoom, "drop room", "close")
          /\ my[CheckRoom].room \in Objects
          /\ my'[CheckRoom] = my[CheckRoom]
          /\ roomMap[my[CheckRoom].rid] # NoRoom
          /\ UNCHANGED <<roomMap, peers, made, peersMutex, up, closed, shut, added, lost>>
          /\ my[CheckRoom].rid \in Rids
        BY <1>14, DelRoomGoes, Rooms1 DEF Goes
    <2>2. \A s \in Threads : pc'[s] \in {"new", "store"} =>
              pc[s] = pc'[s] /\ my[s] = my'[s] /\ my[s].room \in made \ shut
        BY <2>1 DEF Once, Goes, Others
    <2>3. shut' \subseteq made' /\ \A r \in Rids : roomMap'[r] \in made' \cup {NoRoom}
        BY <1>0, <2>1 DEF Once, Goes, Others, maps, locks
    <2>4. \A r, s \in Rids : roomMap'[r] = roomMap'[s] /\ roomMap'[r] # NoRoom => r = s
        BY <1>0, <2>1 DEF Once, Goes, Others, maps, locks
    <2>5. \A s \in Threads : pc'[s] \in {"new", "store"} =>
            /\ my'[s].room \in made' \ shut'
            /\ \A r \in Rids : roomMap'[r] # my'[s].room
            /\ \A x \in Threads : pc'[x] \in {"new", "store"} /\ my'[x].room = my'[s].room => x = s
        <3> SUFFICES ASSUME NEW s \in Threads, pc'[s] \in {"new", "store"}
                     PROVE  /\ my'[s].room \in made' \ shut'
                            /\ \A r \in Rids : roomMap'[r] # my'[s].room
                            /\ \A x \in Threads : pc'[x] \in {"new", "store"} /\ my'[x].room = my'[s].room => x = s
            OBVIOUS
        <3>1. UNCHANGED <<roomMap, made, shut>>
            BY <2>1
        <3>2. pc[s] \in {"new", "store"} /\ my'[s] = my[s]
            BY <2>2
        <3>3. ASSUME NEW x \in Threads, pc'[x] \in {"new", "store"}, my'[x].room = my'[s].room PROVE x = s
            <4>1. pc[x] \in {"new", "store"} /\ my[x].room = my[s].room
                BY <2>2, <3>2, <3>3
            <4> QED
                BY <3>2, <4>1 DEF Once
        <3>4. \A r \in Rids : roomMap[r] # my[s].room
            BY <3>2 DEF Once
        <3> QED
            BY <2>2, <3>1, <3>2, <3>3, <3>4
    <2>6. up' => \A r \in Rids : roomMap'[r] \in shut' => pc'[CheckRoom] = "erase" /\ my'[CheckRoom].rid = r
        BY <1>0, <2>1 DEF Once, Goes, Others, maps, locks
    <2> QED
        BY <2>3, <2>4, <2>5, <2>6 DEF Once
<1>15. ASSUME CloseRoom PROVE Once'
    <2>1. /\ Goes(CheckRoom, "close", "erase")
          /\ my[CheckRoom].room \in Objects
          /\ my'[CheckRoom] = my[CheckRoom]
          /\ my[CheckRoom].rid \in Rids
        BY <1>15, CloseRoomGoes, Rooms1 DEF Goes
    <2>2. roomMap[my[CheckRoom].rid] # NoRoom
        BY <2>1 DEF Closing, Goes
    <2>3. shut' \subseteq made' /\ \A r \in Rids : roomMap'[r] \in made' \cup {NoRoom}
        BY <1>0, <1>15, <2>1, <2>2 DEF Once, CloseRoom, Goes, Others, maps, locks
    <2>4. \A r, s \in Rids : roomMap'[r] = roomMap'[s] /\ roomMap'[r] # NoRoom => r = s
        BY <1>0, <1>15, <2>1, <2>2 DEF Once, CloseRoom, Goes, Others, maps, locks
    <2>5. \A s \in Threads : pc'[s] \in {"new", "store"} =>
            /\ my'[s].room \in made' \ shut'
            /\ \A r \in Rids : roomMap'[r] # my'[s].room
            /\ \A x \in Threads : pc'[x] \in {"new", "store"} /\ my'[x].room = my'[s].room => x = s
        BY <1>0, <1>15, <2>1, <2>2 DEF Once, CloseRoom, Goes, Others, maps, locks
    <2>6. up' => \A r \in Rids : roomMap'[r] \in shut' => pc'[CheckRoom] = "erase" /\ my'[CheckRoom].rid = r
        BY <1>0, <1>15, <2>1, <2>2 DEF Once, CloseRoom, Goes, Others, maps, locks
    <2> QED
        BY <2>3, <2>4, <2>5, <2>6 DEF Once
<1>16. ASSUME DelRoomErase PROVE Once'
    <2>1. /\ Goes(CheckRoom, "erase", "rooms")
          /\ my[CheckRoom].room \in Objects
          /\ my[CheckRoom].rid \in Rids
        BY <1>16, DelRoomEraseGoes, Rooms1 DEF Goes
    <2>2. shut' \subseteq made' /\ \A r \in Rids : roomMap'[r] \in made' \cup {NoRoom}
        BY <1>0, <1>16, <2>1 DEF Once, DelRoomErase, Goes, Others, maps, locks
    <2>3. \A r, s \in Rids : roomMap'[r] = roomMap'[s] /\ roomMap'[r] # NoRoom => r = s
        BY <1>0, <1>16, <2>1 DEF Once, DelRoomErase, Goes, Others, maps, locks
    <2>4. \A s \in Threads : pc'[s] \in {"new", "store"} =>
            /\ my'[s].room \in made' \ shut'
            /\ \A r \in Rids : roomMap'[r] # my'[s].room
            /\ \A x \in Threads : pc'[x] \in {"new", "store"} /\ my'[x].room = my'[s].room => x = s
        BY <1>0, <1>16, <2>1 DEF Once, DelRoomErase, Goes, Others, maps, locks
    <2>5. up' => \A r \in Rids : roomMap'[r] \in shut' => pc'[CheckRoom] = "erase" /\ my'[CheckRoom].rid = r
        BY <1>0, <1>16, <2>1 DEF Once, DelRoomErase, Goes, Others, maps, locks
    <2> QED
        BY <2>2, <2>3, <2>4, <2>5 DEF Once
<1> QED
    BY <1>1, <1>2, <1>3, <1>4, <1>5, <1>6, <1>7, <1>8, <1>9, <1>10, <1>11, <1>12, <1>13, <1>14, <1>15, <1>16,
       LeaveQuiet, NotifyWithoutUidQuiet, AddPeerQuiet, DelPeerNoneQuiet, CheckQuiet, CheckRoomsQuiet, CheckPeersQuiet
    DEF Next, Call, Step, Check

\* A peer drops out by a Close or by one of the four races.
LEMMA KeptStep == TypeOK /\ Locals /\ Placed /\ Dropping /\ Once /\ AddedIsKept /\ Next => AddedIsKept'
<1> SUFFICES ASSUME TypeOK, Locals, Placed, Dropping, Once, AddedIsKept, Next PROVE AddedIsKept'
    OBVIOUS
<1> USE ThreadsAssumption, RoomsAssumption, UidAssumption DEF Threads
<1>0. roomMap \in [Rids -> Objects \cup {NoRoom}] /\ peers \in [Objects -> [Uids -> Peers \cup {NoPeer}]]
    BY DEF TypeOK
<1>1. ASSUME NEW t \in Threads, Quiet(t) PROVE AddedIsKept'
    BY <1>0, <1>1 DEF AddedIsKept, Placed, Dropping, Once, Quiet, Holding, shared, Others, Members, PeersOf, Open
<1>2. ASSUME NEW p \in Peers, Disconnect(p) PROVE AddedIsKept'
    BY <1>0, <1>2 DEF AddedIsKept, Placed, Dropping, Once, Disconnect, maps, locks, Members, PeersOf, Open
<1>3. ASSUME MapRace PROVE AddedIsKept'
    BY <1>0, <1>3 DEF AddedIsKept, Placed, Dropping, Once, MapRace, maps, locks, Members, PeersOf, Open
<1>4. ASSUME NEW t \in Callers, NEW r \in Rids, AddRoom(t, r) PROVE AddedIsKept'
    <2>1. /\ Goes(t, "idle", "new")
          /\ my'[t].room \in Objects \ made
          /\ made' = made \cup {my'[t].room}
          /\ UNCHANGED <<roomMap, peers, locks, up, closed, shut, added, lost>>
        BY <1>4, AddRoomGoes DEF Goes, AddRoom
    <2> QED
        BY <1>0, <2>1 DEF AddedIsKept, Placed, Dropping, Once, Goes, Others, maps, locks, Members, PeersOf, Open
<1>5. ASSUME NEW t \in Threads, AddRoomLock(t) PROVE AddedIsKept'
    <2>1. /\ Goes(t, "new", "store")
          /\ my[t].room \in Objects
          /\ my'[t] = my[t]
          /\ my[t].rid \in Rids
          /\ t # CheckRoom
        BY <1>5, AddRoomLockGoes, Rooms1 DEF Goes
    <2> QED
        BY <1>0, <1>5, <2>1 DEF AddedIsKept, Placed, Dropping, Once, AddRoomLock, Goes, Others, maps, locks, Members, PeersOf, Open
<1>6. ASSUME NEW t \in Threads, AddRoomStore(t) PROVE AddedIsKept'
    <2>1. /\ Goes(t, "store", "idle")
          /\ my[t].room \in Objects
          /\ my[t].rid \in Rids
          /\ t # CheckRoom
        BY <1>6, AddRoomStoreGoes, Rooms1 DEF Goes
    <2> SUFFICES ASSUME NEW p \in added' \ (closed' \cup lost')
                 PROVE  \E r \in Rids : roomMap'[r] # NoRoom /\ peers'[roomMap'[r]][Uid(p)] = p
        BY DEF AddedIsKept
    <2>2. p \in added \ (closed \cup lost) /\ p \in Peers /\ Uid(p) \in Uids /\ UNCHANGED peers
        BY <1>0, <1>6 DEF AddRoomStore, TypeOK
    <2>3. PICK r \in Rids : roomMap[r] # NoRoom /\ peers[roomMap[r]][Uid(p)] = p
        BY <2>2 DEF AddedIsKept
    <2>4. r # my[t].rid
        <3> SUFFICES ASSUME r = my[t].rid PROVE FALSE
            OBVIOUS
        <3>1. p \in Open(roomMap[my[t].rid])
            BY <2>2, <2>3 DEF Open, PeersOf, Members
        <3> QED
            BY <1>6, <2>2, <2>3, <3>1 DEF AddRoomStore
    <2> QED
        BY <1>0, <1>6, <2>1, <2>2, <2>3, <2>4 DEF AddRoomStore
<1>7. ASSUME NEW t \in Threads, DelPeer(t) PROVE AddedIsKept'
    <2>1. /\ Goes(t, "out", "drop")
          /\ my[t].room \in Objects
          /\ my'[t] = my[t]
          /\ my[t].uid \in Uids
        BY <1>7, DelPeerGoes, Rooms1 DEF Goes
    <2> QED
        BY <1>0, <1>7, <2>1 DEF AddedIsKept, Placed, Dropping, Once, DelPeer, Goes, Others, maps, locks, Members, PeersOf, Open
<1>8. ASSUME NEW t \in Threads, DelPeerDelete(t) PROVE AddedIsKept'
    <2>1. /\ Goes(t, "drop", my[t].then)
          /\ my[t].room \in Objects
          /\ my[t].then \in {"idle", "in", "peers"}
          /\ my[t].uid \in Uids
        BY <1>8, DelPeerDeleteGoes, Rooms1 DEF Goes
    <2> QED
        BY <1>0, <1>8, <2>1 DEF AddedIsKept, Placed, Dropping, Once, DelPeerDelete, Goes, Others, maps, locks, Members, PeersOf, Open
<1>9. ASSUME NEW t \in Threads, AddPeerLock(t) PROVE AddedIsKept'
    <2>1. /\ Goes(t, "in", "put")
          /\ my[t].room \in Objects
          /\ my'[t] = my[t]
          /\ my[t].rid \in Rids
          /\ my[t].uid \in Uids
          /\ my[t].peer \in Peers
          /\ Uid(my[t].peer) = my[t].uid
          /\ t # CheckRoom
        BY <1>9, AddPeerLockGoes, Rooms1 DEF Goes
    <2> QED
        BY <1>0, <1>9, <2>1 DEF AddedIsKept, Placed, Dropping, Once, AddPeerLock, Goes, Others, maps, locks, Members, PeersOf, Open
<1>10. ASSUME NEW t \in Threads, AddPeerPut(t) PROVE AddedIsKept'
    <2>1. /\ Goes(t, "put", "idle")
          /\ my[t].room \in Objects
          /\ my[t].rid \in Rids
          /\ my[t].uid \in Uids
          /\ my[t].peer \in Peers
          /\ Uid(my[t].peer) = my[t].uid
          /\ t # CheckRoom
        BY <1>10, AddPeerPutGoes, Rooms1 DEF Goes
    <2> DEFINE o == my[t].room
               q == my[t].peer
    <2> SUFFICES ASSUME NEW p \in added' \ (closed' \cup lost')
                 PROVE  \E r \in Rids : roomMap'[r] # NoRoom /\ peers'[roomMap'[r]][Uid(p)] = p
        BY DEF AddedIsKept
    <2>2. p \in added \cup {q} /\ p \notin closed /\ UNCHANGED roomMap
        BY <1>10 DEF AddPeerPut
    <2>3. p \notin lost /\ (peers[o][my[t].uid] # NoPeer => p # peers[o][my[t].uid])
          /\ (roomMap[my[t].rid] # o => p # q)
        BY <1>10, <2>2 DEF AddPeerPut
    <2>4. peers' = [peers EXCEPT ![o][my[t].uid] = q]
        BY <1>10 DEF AddPeerPut
    <2>5. CASE p = q
        BY <1>0, <2>1, <2>2, <2>3, <2>4, <2>5
    <2>6. CASE p # q
        <3>1. p \in Peers /\ Uid(p) \in Uids
            BY <2>2, <2>6 DEF TypeOK
        <3>2. PICK r \in Rids : roomMap[r] # NoRoom /\ peers[roomMap[r]][Uid(p)] = p
            BY <2>2, <2>3, <2>6 DEF AddedIsKept
        <3>3. ~(roomMap[r] = o /\ Uid(p) = my[t].uid)
            BY <2>3, <3>1, <3>2
        <3> QED
            BY <1>0, <2>1, <2>2, <2>4, <3>1, <3>2, <3>3
    <2> QED
        BY <2>5, <2>6
<1>11. ASSUME NEW t \in Threads, NotifyLock(t) PROVE AddedIsKept'
    <2>1. /\ Goes(t, "tell", "send")
          /\ my[t].room \in Objects
          /\ my'[t].room = my[t].room
          /\ my'[t].todo \subseteq PeersOf(my[t].room)
          /\ t # CheckRoom
        BY <1>11, NotifyLockGoes, Rooms1 DEF Goes
    <2> QED
        BY <1>0, <1>11, <2>1 DEF AddedIsKept, Placed, Dropping, Once, NotifyLock, Goes, Others, maps, locks, Members, PeersOf, Open
<1>12. ASSUME NEW t \in Threads, NEW p \in Peers, NotifySend(t, p) PROVE AddedIsKept'
    <2>1. /\ Goes(t, "send", "send")
          /\ my[t].room \in Objects
          /\ my'[t].room = my[t].room
          /\ my'[t].todo \subseteq my[t].todo
          /\ t # CheckRoom
        BY <1>12, NotifySendGoes, Rooms1 DEF Goes
    <2> QED
        BY <1>0, <1>12, <2>1 DEF AddedIsKept, Placed, Dropping, Once, NotifySend, Goes, Others, maps, locks, Members, PeersOf, Open
<1>13. ASSUME NEW t \in Threads, NotifyUnlock(t) PROVE AddedIsKept'
    <2>1. /\ Goes(t, "send", "idle")
          /\ my[t].room \in Objects
          /\ t # CheckRoom
        BY <1>13, NotifyUnlockGoes, Rooms1 DEF Goes
    <2> QED
        BY <1>0, <1>13, <2>1 DEF AddedIsKept, Placed, Dropping, Once, NotifyUnlock, Goes, Others, maps, locks, Members, PeersOf, Open
<1>14. ASSUME DelRoom, ~UNCHANGED mutex PROVE AddedIsKept'
    <2>1. /\ Goes(CheckRoom, "drop room", "close")
          /\ my[CheckRoom].room \in Objects
          /\ my'[CheckRoom] = my[CheckRoom]
          /\ roomMap[my[CheckRoom].rid] # NoRoom
          /\ UNCHANGED <<roomMap, peers, made, peersMutex, up, closed, shut, added, lost>>
          /\ my[CheckRoom].rid \in Rids
        BY <1>14, DelRoomGoes, Rooms1 DEF Goes
    <2> QED
        BY <1>0, <2>1 DEF AddedIsKept, Placed, Dropping, Once, Goes, Others, maps, locks, Members, PeersOf, Open
<1>15. ASSUME CloseRoom PROVE AddedIsKept'
    <2>1. /\ Goes(CheckRoom, "close", "erase")
          /\ my[CheckRoom].room \in Objects
          /\ my'[CheckRoom] = my[CheckRoom]
          /\ my[CheckRoom].rid \in Rids
        BY <1>15, CloseRoomGoes, Rooms1 DEF Goes
    <2> QED
        BY <1>0, <1>15, <2>1 DEF AddedIsKept, Placed, Dropping, Once, CloseRoom, Goes, Others, maps, locks, Members, PeersOf, Open
<1>16. ASSUME DelRoomErase PROVE AddedIsKept'
    <2>1. /\ Goes(CheckRoom, "erase", "rooms")
          /\ my[CheckRoom].room \in Objects
          /\ my[CheckRoom].rid \in Rids
        BY <1>16, DelRoomEraseGoes, Rooms1 DEF Goes
    <2> SUFFICES ASSUME NEW p \in added' \ (closed' \cup lost')
                 PROVE  \E r \in Rids : roomMap'[r] # NoRoom /\ peers'[roomMap'[r]][Uid(p)] = p
        BY DEF AddedIsKept
    <2>2. p \in added \ (closed \cup lost) /\ p \in Peers /\ Uid(p) \in Uids /\ UNCHANGED peers
        BY <1>0, <1>16 DEF DelRoomErase, TypeOK
    <2>3. PICK r \in Rids : roomMap[r] # NoRoom /\ peers[roomMap[r]][Uid(p)] = p
        BY <2>2 DEF AddedIsKept
    <2>4. r # my[CheckRoom].rid
        <3> SUFFICES ASSUME r = my[CheckRoom].rid PROVE FALSE
            OBVIOUS
        <3>1. p \in Open(roomMap[my[CheckRoom].rid])
            BY <2>2, <2>3 DEF Open, PeersOf, Members
        <3> QED
            BY <1>16, <2>2, <2>3, <3>1 DEF DelRoomErase
    <2> QED
        BY <1>0, <1>16, <2>1, <2>2, <2>3, <2>4 DEF DelRoomErase
<1> QED
    BY <1>1, <1>2, <1>3, <1>4, <1>5, <1>6, <1>7, <1>8, <1>9, <1>10, <1>11, <1>12, <1>13, <1>14, <1>15, <1>16,
       LeaveQuiet, NotifyWithoutUidQuiet, AddPeerQuiet, DelPeerNoneQuiet, CheckQuiet, CheckRoomsQuiet, CheckPeersQuiet
    DEF Next, Call, Step, Check

-----------------------------------------------------------------------------
LEMMA InitInv == Init => IInv
<1> SUFFICES ASSUME Init PROVE IInv
    OBVIOUS
<1> USE ThreadsAssumption, RoomsAssumption, Local1 DEF Init, Threads
<1>1. TypeOK
    BY DEF TypeOK, Places
<1>2. Locals
    <2>1. \A s \in Threads : LocalOK(s, "idle", Nothing)
        BY DEF LocalOK, Nothing, Places
    <2> QED
        BY <2>1 DEF Locals
<1>3. Held
    BY DEF Held, RoomHeld, MapHeld, ROOM, MAP
<1>4. Closing /\ Placed /\ Dropping /\ SendsToMembers /\ AddedIsKept
    BY DEF Closing, Placed, Dropping, SendsToMembers, AddedIsKept
<1>5. Once
    BY DEF Once
<1> QED
    BY <1>1, <1>2, <1>3, <1>4, <1>5 DEF IInv

LEMMA StutterInv == IInv /\ UNCHANGED vars => IInv'
<1> SUFFICES ASSUME IInv, UNCHANGED vars PROVE IInv'
    OBVIOUS
<1> USE DEF IInv, vars, maps, locks
<1>1. TypeOK' /\ Locals'
    BY DEF TypeOK, Locals
<1>2. Held' /\ Closing' /\ Placed' /\ Dropping'
    BY DEF Held, RoomHeld, MapHeld, Closing, Placed, Dropping
<1>3. Once'
    BY DEF Once
<1>4. SendsToMembers' /\ AddedIsKept'
    BY DEF SendsToMembers, AddedIsKept, PeersOf, Members
<1> QED
    BY <1>1, <1>2, <1>3, <1>4

LEMMA Invariance == Spec => []IInv
<1>1. IInv /\ Next => IInv'
    BY TypedStep, HeldStep, ClosingStep, PlacedStep, DroppingStep, OnceStep, SendsStep, KeptStep DEF IInv
<1> QED
    BY <1>1, InitInv, StutterInv, PTL DEF Spec

\* The maps, the mutexes and every goroutine's locals keep their types.
THEOREM RoomsTyped == Spec => []TypeOK
<1>1. IInv => TypeOK
    BY DEF IInv
<1> QED
    BY <1>1, Invariance, PTL

\* However many goroutines there are, they cannot wait in a circle for the mutexes of the
\* rooms: room.go takes one room's at a time, and only DelRoom takes it under that of
\* the rooms (rooms.go:30).
THEOREM MutexesOrdered == Spec => []LockOrder
<1>1. IInv => LockOrder
    BY DEF IInv, LockOrder, Held, RoomHeld, MapHeld, ROOM, MAP
<1> QED
    BY <1>1, Invariance, PTL

\* A broadcast that is under way goes to peers that are in the room (room.go:81).
THEOREM BroadcastsToMembers == Spec => []SendsToMembers
<1>1. IInv => SendsToMembers
    BY DEF IInv
<1> QED
    BY <1>1, Invariance, PTL

\* No GetRoom finds a room that DelRoom has closed (rooms.go:30).
THEOREM ClosedNeverFound == Spec => []ClosedRoomHidden
<1>1. IInv => ClosedRoomHidden
    BY ThreadsAssumption DEF IInv, ClosedRoomHidden, Once, Held, MapHeld, MAP, Threads
<1> QED
    BY <1>1, Invariance, PTL

\* Outside of the four races, an open peer is where broadcasts and joins look for it.
THEOREM PeersKept == Spec => []AddedIsKept
<1>1. IInv => AddedIsKept
    BY DEF IInv
<1> QED
    BY <1>1, Invariance, PTL

=============================================================================
