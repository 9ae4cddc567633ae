-------------------------------- MODULE Rooms --------------------------------
(***************************************************************************)
(* The rooms of one signal server and the peers in each                    *)
(* (server/signal/ws/rooms.go, room.go, peer.go), called by the goroutines *)
(* of its clients' requests and by CheckRoom.                              *)
(*                                                                         *)
(* The map of rooms and each room's map of peers have a mutex each.  A     *)
(* caller keeps the *Room it was given after the mutex of the rooms is     *)
(* released, and AddPeer takes the room's mutex twice.  CheckRoom iterates *)
(* over both maps with no mutex at all.                                    *)
(***************************************************************************)
EXTENDS Naturals

CONSTANTS
    Callers,            \* goroutines of requests
    CheckRoom,          \* the goroutine of the same name
    Rids, Uids,         \* room and user ids
    Objects,            \* *Room values; a bound on the calls of NewRoom
    Peers,              \* *Peer values, one for each connection of a client
    Uid(_),             \* Peer.ID
    NoOne, NoRoom, NoPeer, NoId  \* nil or unset

Threads == Callers \cup {CheckRoom}

ASSUME ThreadsAssumption == CheckRoom \notin Callers /\ NoOne \notin Threads
ASSUME RoomsAssumption == NoRoom \notin Objects /\ NoPeer \notin Peers /\ NoId \notin Rids \cup Uids
ASSUME UidAssumption == \A p \in Peers : Uid(p) \in Uids

VARIABLES
    roomMap,    \* Rooms.roomMap
    peers,      \* Room.peers of every object
    made,       \* the objects NewRoom has made
    mutex,      \* who holds the mutex of the rooms
    peersMutex, \* who holds each room's mutex
    pc, my,     \* each goroutine's place and local variables
    up,         \* the process runs
    closed,     \* peers whose Close was called
    shut,       \* history: rooms whose Close was called
    added,      \* history: peers AddPeer has inserted
    lost        \* history: peers inserted, and dropped by a race without a Close

maps  == <<roomMap, peers, made>>
locks == <<mutex, peersMutex>>
vars  == <<maps, locks, pc, my, up, closed, shut, added, lost>>

Places == {"idle", "new", "store",
           "out", "drop", "in", "put",
           "tell", "send",
           "rooms", "peers", "drop room", "close", "erase"}

\* rid, room, uid, peer: arguments and results of calls; then: where DelPeer
\* returns to; todo, left: what a loop over peers, over rooms has still to visit.
Local == [rid : Rids \cup {NoId}, room : Objects \cup {NoRoom}, uid : Uids \cup {NoId},
          peer : Peers \cup {NoPeer}, then : {"idle", "in", "peers"},
          todo : SUBSET (Peers \cup Uids), left : SUBSET Rids]

Nothing == [rid |-> NoId, room |-> NoRoom, uid |-> NoId, peer |-> NoPeer,
            then |-> "idle", todo |-> {}, left |-> {}]

TypeOK ==
    /\ roomMap \in [Rids -> Objects \cup {NoRoom}]
    /\ peers \in [Objects -> [Uids -> Peers \cup {NoPeer}]]
    /\ made \subseteq Objects
    /\ mutex \in Threads \cup {NoOne}
    /\ peersMutex \in [Objects -> Threads \cup {NoOne}]
    /\ pc \in [Threads -> Places] /\ my \in [Threads -> Local]
    /\ up \in BOOLEAN
    /\ shut \subseteq Objects
    /\ closed \subseteq Peers /\ added \subseteq Peers /\ lost \subseteq Peers

\* NewRooms
Init ==
    /\ roomMap = [r \in Rids |-> NoRoom]
    /\ peers = [o \in Objects |-> [u \in Uids |-> NoPeer]]
    /\ made = {}
    /\ mutex = NoOne /\ peersMutex = [o \in Objects |-> NoOne]
    /\ pc = [t \in Threads |-> "idle"] /\ my = [t \in Threads |-> Nothing]
    /\ up = TRUE /\ closed = {} /\ shut = {} /\ added = {} /\ lost = {}

At(t, place) == up /\ pc[t] = place

Goto(t, place) == pc' = [pc EXCEPT ![t] = place]

Return(t) == Goto(t, "idle") /\ my' = [my EXCEPT ![t] = Nothing]

Free(o) == peersMutex[o] = NoOne

Lock(o, t) == peersMutex[o] = NoOne /\ peersMutex' = [peersMutex EXCEPT ![o] = t]
Unlock(o) == peersMutex' = [peersMutex EXCEPT ![o] = NoOne]

Members(o) == {u \in Uids : peers[o][u] # NoPeer}
PeersOf(o) == {peers[o][u] : u \in Members(o)}

\* The peers of a room that nobody has closed.
Open(o) == PeersOf(o) \ closed

-----------------------------------------------------------------------------
(* Rooms.GetRoom: one critical section.                                     *)

GetRoom(r, o) == mutex = NoOne /\ o = roomMap[r]

(* Rooms.AddRoom: GetRoom, and if there is none a second critical section.  *)

AddRoom(t, r) ==
    /\ At(t, "idle") /\ t \in Callers
    /\ GetRoom(r, NoRoom)
    /\ \E o \in Objects \ made :
        /\ made' = made \cup {o}
        /\ my' = [my EXCEPT ![t] = [Nothing EXCEPT !.rid = r, !.room = o]]
    /\ Goto(t, "new")
    /\ UNCHANGED <<roomMap, peers, locks, up, shut, closed, added, lost>>

AddRoomLock(t) ==
    /\ At(t, "new")
    /\ mutex = NoOne /\ mutex' = t
    /\ Goto(t, "store")
    /\ UNCHANGED <<maps, peersMutex, my, up, shut, closed, added, lost>>

\* Another call may have stored a room since: its peers stay in an object that
\* nobody finds.
AddRoomStore(t) ==
    LET old == roomMap[my[t].rid] IN
    /\ At(t, "store")
    /\ roomMap' = [roomMap EXCEPT ![my[t].rid] = my[t].room]
    /\ lost' = IF old = NoRoom THEN lost ELSE lost \cup Open(old)
    /\ mutex' = NoOne
    /\ Return(t)
    /\ UNCHANGED <<peers, made, peersMutex, up, shut, closed, added>>

-----------------------------------------------------------------------------
(* Room.DelPeer: Close and delete in one critical section.  A goroutine at   *)
(* "out" waits for the mutex; at "drop" it holds it and is at the write.     *)

\* Mutant of DelPeer: without the room's mutex.
DelPeerUnlocked(t) ==
    LET o == my[t].room IN
    /\ At(t, "out")
    /\ my[t].uid \in Members(o)
    /\ closed' = closed \cup {peers[o][my[t].uid]}
    /\ Goto(t, "drop")
    /\ UNCHANGED <<maps, locks, my, up, shut, added, lost>>

DelPeer(t) ==
    LET o == my[t].room IN
    /\ At(t, "out")
    /\ my[t].uid \in Members(o)
    /\ closed' = closed \cup {peers[o][my[t].uid]}
    /\ Lock(o, t) /\ Goto(t, "drop")
    /\ UNCHANGED <<maps, mutex, my, up, shut, added, lost>>

DelPeerNone(t) ==
    /\ At(t, "out")
    /\ Free(my[t].room) /\ my[t].uid \notin Members(my[t].room)
    /\ IF my[t].then = "idle" THEN Return(t) ELSE Goto(t, my[t].then) /\ UNCHANGED my
    /\ UNCHANGED <<maps, locks, up, shut, closed, added, lost>>

DelPeerDelete(t) ==
    LET o == my[t].room IN
    /\ At(t, "drop")
    /\ peers' = [peers EXCEPT ![o][my[t].uid] = NoPeer]
    /\ Unlock(o)
    /\ IF my[t].then = "idle" THEN Return(t) ELSE Goto(t, my[t].then) /\ UNCHANGED my
    /\ UNCHANGED <<roomMap, made, mutex, up, shut, closed, added, lost>>

\* A request that takes a user out: GetRoom, and DelPeer of a room that is there.
Leave(t, r, u) ==
    /\ At(t, "idle") /\ t \in Callers
    /\ \E o \in Objects :
        /\ GetRoom(r, o)
        /\ my' = [my EXCEPT ![t] = [Nothing EXCEPT !.room = o, !.uid = u]]
    /\ Goto(t, "out")
    /\ UNCHANGED <<maps, locks, up, shut, closed, added, lost>>

(* Room.AddPeer: DelPeer of the user's old peer, then a critical section of   *)
(* its own for the new one.                                                   *)

AddPeer(t, r, p) ==
    /\ At(t, "idle") /\ t \in Callers /\ p \notin added
    /\ \A q \in Callers : my[q].peer # p
    /\ \E o \in Objects :
        /\ GetRoom(r, o)
        /\ my' = [my EXCEPT ![t] = [Nothing EXCEPT !.rid = r, !.room = o, !.uid = Uid(p),
                                                   !.peer = p, !.then = "in"]]
    /\ Goto(t, "out")
    /\ UNCHANGED <<maps, locks, up, shut, closed, added, lost>>

AddPeerLock(t) ==
    /\ At(t, "in")
    /\ Lock(my[t].room, t) /\ Goto(t, "put")
    /\ UNCHANGED <<maps, mutex, my, up, shut, closed, added, lost>>

\* Mutant of AddPeerPut: a user who has a peer again keeps that one.
AddPeerPutIfNone(t) ==
    LET o == my[t].room IN
    /\ At(t, "put")
    /\ peers' = [peers EXCEPT ![o][my[t].uid] = IF @ = NoPeer THEN my[t].peer ELSE @]
    /\ added' = added \cup {my[t].peer}
    /\ lost' = IF roomMap[my[t].rid] = o THEN lost ELSE lost \cup {my[t].peer}
    /\ Unlock(o)
    /\ Return(t)
    /\ UNCHANGED <<roomMap, made, mutex, up, shut, closed>>

\* Another AddPeer of the same user may have been between the two critical
\* sections, and the room may have left the map.
AddPeerPut(t) ==
    LET o == my[t].room
        old == peers[o][my[t].uid] IN
    /\ At(t, "put")
    /\ peers' = [peers EXCEPT ![o][my[t].uid] = my[t].peer]
    /\ added' = added \cup {my[t].peer}
    /\ lost' = lost \cup (IF old = NoPeer THEN {} ELSE {old} \ closed)
                    \cup (IF roomMap[my[t].rid] = o THEN {} ELSE {my[t].peer})
    /\ Unlock(o)
    /\ Return(t)
    /\ UNCHANGED <<roomMap, made, mutex, up, shut, closed>>

-----------------------------------------------------------------------------
(* Room.NotifyWithoutUid: every other member gets the message, with the        *)
(* mutex of the room held meanwhile.  NotifyAll leaves nobody (NoId) out.      *)

NotifyWithoutUid(t, r, u) ==
    /\ At(t, "idle") /\ t \in Callers
    /\ \E o \in Objects :
        /\ GetRoom(r, o)
        /\ my' = [my EXCEPT ![t] = [Nothing EXCEPT !.room = o, !.uid = u]]
    /\ Goto(t, "tell")
    /\ UNCHANGED <<maps, locks, up, shut, closed, added, lost>>

\* Mutant of NotifyLock: users who have no peer are sent to.
NotifyLockAll(t) ==
    LET o == my[t].room IN
    /\ At(t, "tell")
    /\ Lock(o, t) /\ Goto(t, "send")
    /\ my' = [my EXCEPT ![t].todo = {peers[o][u] : u \in Uids \ {my[t].uid}}]
    /\ UNCHANGED <<maps, mutex, up, closed, shut, added, lost>>

NotifyLock(t) ==
    LET o == my[t].room IN
    /\ At(t, "tell")
    /\ Lock(o, t) /\ Goto(t, "send")
    /\ my' = [my EXCEPT ![t].todo = {peers[o][u] : u \in Members(o) \ {my[t].uid}}]
    /\ UNCHANGED <<maps, mutex, up, shut, closed, added, lost>>

\* Peer.Notify writes to the connection, which may take as long as it likes.
NotifySend(t, p) ==
    /\ At(t, "send") /\ p \in my[t].todo
    /\ my' = [my EXCEPT ![t].todo = @ \ {p}]
    /\ UNCHANGED <<maps, locks, pc, up, shut, closed, added, lost>>

\* Mutant of NotifyUnlock: an early return without the deferred Unlock.
NotifyKeepsLock(t) ==
    /\ At(t, "send") /\ my[t].todo = {}
    /\ Return(t)
    /\ UNCHANGED <<maps, locks, up, shut, closed, added, lost>>

NotifyUnlock(t) ==
    /\ At(t, "send") /\ my[t].todo = {}
    /\ Unlock(my[t].room)
    /\ Return(t)
    /\ UNCHANGED <<maps, mutex, up, shut, closed, added, lost>>

-----------------------------------------------------------------------------
(* CheckRoom, every ten seconds.  A loop over a Go map passes each key that    *)
(* stays, and may pass the place of a key before or after it is inserted.      *)

CheckBegin ==
    /\ At(CheckRoom, "idle")
    /\ my' = [my EXCEPT ![CheckRoom] = [Nothing EXCEPT !.left = Rids]]
    /\ Goto(CheckRoom, "rooms")
    /\ UNCHANGED <<maps, locks, up, closed, shut, added, lost>>

CheckRooms(r) ==
    /\ At(CheckRoom, "rooms") /\ r \in my[CheckRoom].left
    /\ IF roomMap[r] = NoRoom
       THEN my' = [my EXCEPT ![CheckRoom].left = @ \ {r}] /\ UNCHANGED pc
       ELSE /\ my' = [my EXCEPT ![CheckRoom] =
                         [Nothing EXCEPT !.rid = r, !.room = roomMap[r], !.todo = Uids,
                                         !.then = "peers", !.left = my[CheckRoom].left \ {r}]]
            /\ Goto(CheckRoom, "peers")
    /\ UNCHANGED <<maps, locks, up, closed, shut, added, lost>>

\* On to the next room, with the locals of this one forgotten.
NextRoom ==
    /\ Goto(CheckRoom, "rooms")
    /\ my' = [my EXCEPT ![CheckRoom] = [Nothing EXCEPT !.left = my[CheckRoom].left]]

CheckDone ==
    /\ At(CheckRoom, "rooms") /\ my[CheckRoom].left = {}
    /\ Return(CheckRoom)
    /\ UNCHANGED <<maps, locks, up, closed, shut, added, lost>>

\* A user of the room is asked for at the register, and taken out if it is gone.
CheckPeers(u, exist) ==
    LET here == u \in Members(my[CheckRoom].room) IN
    /\ At(CheckRoom, "peers") /\ u \in my[CheckRoom].todo
    /\ exist \/ here
    /\ my' = [my EXCEPT ![CheckRoom].todo = @ \ {u},
                        ![CheckRoom].uid = IF exist THEN @ ELSE u]
    /\ IF exist THEN UNCHANGED pc ELSE Goto(CheckRoom, "out")
    /\ UNCHANGED <<maps, locks, up, closed, shut, added, lost>>

\* len(room.GetPeers()) == 0
CheckLen ==
    /\ At(CheckRoom, "peers") /\ my[CheckRoom].todo = {}
    /\ IF Members(my[CheckRoom].room) = {}
       THEN Goto(CheckRoom, "drop room") /\ UNCHANGED my ELSE NextRoom
    /\ UNCHANGED <<maps, locks, up, closed, shut, added, lost>>

(* Rooms.DelRoom, with the mutex of the rooms held from the test to the end:   *)
(* Room.Close closes the peers and leaves them in the room's map.              *)

DelRoom ==
    /\ At(CheckRoom, "drop room") /\ mutex = NoOne
    /\ IF roomMap[my[CheckRoom].rid] = NoRoom
       THEN NextRoom /\ UNCHANGED mutex
       ELSE Goto(CheckRoom, "close") /\ mutex' = CheckRoom /\ UNCHANGED my
    /\ UNCHANGED <<maps, peersMutex, up, closed, shut, added, lost>>

\* Mutant of CloseRoom: the mutex of the rooms is released too early.
CloseRoomUnlocked ==
    LET o == roomMap[my[CheckRoom].rid] IN
    /\ At(CheckRoom, "close") /\ Free(o)
    /\ closed' = closed \cup PeersOf(o)
    /\ shut' = shut \cup {o}
    /\ mutex' = NoOne
    /\ Goto(CheckRoom, "erase")
    /\ UNCHANGED <<maps, peersMutex, my, up, added, lost>>

CloseRoom ==
    LET o == roomMap[my[CheckRoom].rid] IN
    /\ At(CheckRoom, "close") /\ Free(o)
    /\ closed' = closed \cup PeersOf(o)
    /\ shut' = shut \cup {o}
    /\ Goto(CheckRoom, "erase")
    /\ UNCHANGED <<maps, locks, my, up, added, lost>>

\* A peer inserted after Close is lost with its room.
DelRoomErase ==
    LET r == my[CheckRoom].rid IN
    /\ At(CheckRoom, "erase")
    /\ roomMap' = [roomMap EXCEPT ![r] = NoRoom]
    /\ lost' = lost \cup Open(roomMap[r])
    /\ mutex' = NoOne
    /\ NextRoom
    /\ UNCHANGED <<peers, made, peersMutex, up, closed, shut, added>>

\* The loops read the maps while another goroutine writes them, its own mutex held:
\* the Go runtime may notice, and ends the process.
WritesRooms(t) == pc[t] = "store"
WritesPeers(t, o) == pc[t] \in {"drop", "put"} /\ my[t].room = o

MapRace ==
    /\ \/ At(CheckRoom, "rooms") /\ \E t \in Callers : WritesRooms(t)
       \/ At(CheckRoom, "peers") /\ \E t \in Callers : WritesPeers(t, my[CheckRoom].room)
    /\ up' = FALSE
    /\ pc' = [t \in Threads |-> "idle"] /\ my' = [t \in Threads |-> Nothing]
    /\ UNCHANGED <<maps, locks, closed, shut, added, lost>>

-----------------------------------------------------------------------------
(* The clients' connections.                                                   *)

\* handleClose: the peer is closed and stays in its room.
Disconnect(p) ==
    /\ up /\ p \notin closed
    /\ closed' = closed \cup {p}
    /\ UNCHANGED <<maps, locks, pc, my, up, shut, added, lost>>

-----------------------------------------------------------------------------
Call(t) ==
    \E r \in Rids :
        \/ AddRoom(t, r)
        \/ \E u \in Uids : Leave(t, r, u)
        \/ \E u \in Uids \cup {NoId} : NotifyWithoutUid(t, r, u)
        \/ \E p \in Peers : AddPeer(t, r, p)

Step(t) ==
    \/ AddRoomLock(t) \/ AddRoomStore(t)
    \/ DelPeer(t) \/ DelPeerNone(t) \/ DelPeerDelete(t)
    \/ AddPeerLock(t) \/ AddPeerPut(t)
    \/ NotifyLock(t) \/ NotifyUnlock(t)
    \/ \E p \in Peers : NotifySend(t, p)

Check ==
    \/ CheckBegin \/ CheckDone \/ CheckLen
    \/ DelRoom \/ CloseRoom \/ DelRoomErase \/ MapRace
    \/ \E r \in Rids : CheckRooms(r)
    \/ \E u \in Uids, exist \in BOOLEAN : CheckPeers(u, exist)

Next ==
    \/ \E t \in Callers : Call(t)
    \/ \E t \in Threads : Step(t)
    \/ Check
    \/ \E p \in Peers : Disconnect(p)

Spec == Init /\ [][Next]_vars

-----------------------------------------------------------------------------
\* Broadcasts and later joins find the peers by the map of rooms.  A peer that AddPeer
\* inserted is in the room that is in the map, until it was closed; it drops out
\* without a Close only in the four races that end in lost: AddRoom stores over a
\* room (rooms.go:24), AddPeer over another peer of the user (room.go:34) or into
\* a room that is no longer in the map, and DelRoom erases a room that got a peer
\* after its Close (rooms.go:35).
AddedIsKept ==
    \A p \in added \ (closed \cup lost) :
        \E r \in Rids : roomMap[r] # NoRoom /\ peers[roomMap[r]][Uid(p)] = p

\* DelRoom closes a room and erases it without giving up the mutex of the rooms
\* (rooms.go:30): no GetRoom answers a room that was closed.
ClosedRoomHidden ==
    up => \A r \in Rids : roomMap[r] \in shut => mutex = CheckRoom

\* A broadcast goes to members of the room only: whoever it is still to reach is
\* not deleted and closed before it is through (room.go:86).
SendsToMembers ==
    up => \A t \in Callers : pc[t] = "send" => my[t].todo \subseteq PeersOf(my[t].room)

\* Nobody waits in a circle.  A goroutine that holds a room's mutex needs no other to
\* go on, and one that holds the mutex of the rooms waits at most for a room's, in
\* DelRoom; whoever holds neither keeps none locked.
LockOrder ==
    up => /\ \A o \in Objects : peersMutex[o] # NoOne =>
                /\ my[peersMutex[o]].room = o
                /\ pc[peersMutex[o]] \in {"drop", "put", "send"}
          /\ mutex # NoOne => pc[mutex] \in {"store", "close", "erase"}

=============================================================================
