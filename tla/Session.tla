------------------------------- MODULE Session -------------------------------
(***************************************************************************)
(* The life of users in a room that several signal servers share:          *)
(* join and leave (server/signal/src/handler.go), the kick one server      *)
(* sends another (internal.go), the broadcasts between them, and CheckRoom *)
(* (init.go).  Each is a goroutine that calls the register service and     *)
(* waits; everything may happen meanwhile.                                 *)
(*                                                                         *)
(* Rooms has the mutexes of one server's rooms; here a call of Room is one *)
(* step, and there is one room, as rooms share nothing but CheckRoom's     *)
(* loop.  Register has the commands of each request; here a request is one *)
(* step, which may fail, and a write that fails may have been done.        *)
(*                                                                         *)
(* streamRemove of all streams of a user, which join, leave, kick and      *)
(* CheckRoom call first, removes none and answers an empty rmPubs          *)
(* (RegisterProofs), so nobody is notified of what it removed.  A panic    *)
(* ends a request without an answer, and the process if it is CheckRoom's. *)
(***************************************************************************)
EXTENDS Naturals

CONSTANTS
    Nodes,              \* signal servers
    Uids,               \* users
    Peers,              \* connections of clients
    Uid(_), Node(_),    \* the user of a connection, and the server it is to
    Handlers,           \* goroutines of requests
    None,               \* no value: nil, or the empty string
    MaxFaults           \* bound: calls that fail, broadcasts lost, processes stopped from outside

ASSUME NoneAssumption == None \notin Nodes \cup Peers \cup Uids
ASSUME PeersAssumption == \A p \in Peers : Uid(p) \in Uids /\ Node(p) \in Nodes
ASSUME LimitsAssumption == MaxFaults \in Nat

VARIABLES
    reg,        \* the register: which server each user is registered on
    room,       \* servers that have the room in rooms
    member,     \* Room.peers of each server's room
    up,         \* servers that run
    call,       \* each goroutine's request: its place and its peer
    check,      \* CheckRoom of each server
    kicks,      \* kick requests under way or running
    casts,      \* broadcasts of a join under way: to a server, of a user
    faults,     \* failures so far
    lost,       \* history: a broadcast was lost
    steady,     \* history: peers registered ever since their join
    told        \* history: the users that a steady peer was told of since its join was
                \* accepted with a list of users; itself included, and {} before

states  == <<reg, room, member, up>>
tasks   == <<call, check, kicks, casts>>
bounds  == <<faults, lost>>
history == <<steady, told>>
vars    == <<states, tasks, bounds, history>>

Places == {"idle", "kick", "rejoin", "rejoin leave", "enter", "register", "notify", "list",
           "leave", "leave bad", "leave del"}

Task == [at : Places, peer : Peers \cup {None}, signal : Nodes \cup {None}]
Idle == [at |-> "idle", peer |-> None, signal |-> None]

\* What CheckRoom is at, and the user it is removing.
Round == [at : {"idle", "leave", "del", "empty"}, uid : Uids \cup {None}]
Resting == [at |-> "idle", uid |-> None]

Nobody == [u \in Uids |-> None]

TypeOK ==
    /\ reg \in [Uids -> Nodes \cup {None}]
    /\ up \subseteq Nodes /\ room \subseteq up
    /\ member \in [Nodes -> [Uids -> Peers \cup {None}]]
    /\ \A n \in Nodes \ room : member[n] = Nobody
    /\ call \in [Handlers -> Task]
    /\ check \in [Nodes -> Round]
    /\ kicks \subseteq Nodes \X Uids \X {"streams", "leave"}
    /\ casts \subseteq Nodes \X Uids
    /\ faults \in 0..MaxFaults /\ lost \in BOOLEAN
    /\ told \in [Peers -> SUBSET Uids]
    /\ steady \subseteq Peers

Init ==
    /\ reg = Nobody
    /\ up = Nodes /\ room = {}
    /\ member = [n \in Nodes |-> Nobody]
    /\ call = [h \in Handlers |-> Idle]
    /\ check = [n \in Nodes |-> Resting]
    /\ kicks = {} /\ casts = {}
    /\ faults = 0 /\ lost = FALSE
    /\ steady = {} /\ told = [p \in Peers |-> {}]

-----------------------------------------------------------------------------
(* Calls.                                                                   *)

Works == UNCHANGED faults
Fails == faults < MaxFaults /\ faults' = faults + 1

PeersOf(u) == {p \in Peers : Uid(p) = u}

\* The peers that are steady now; the others' history ends.
Steady(ps) ==
    /\ steady' = ps
    /\ told' = [p \in Peers |-> IF p \in ps \cap steady THEN told[p] ELSE {}]

\* What clientJoin and clientLeave do at the register.
Register(u, n) == reg' = [reg EXCEPT ![u] = n]
Forget(u) == Register(u, None) /\ Steady(steady \ PeersOf(u))

\* A call of clientLeave that answers, with its Redis command done or failed, or a
\* call that fails and is done or not.
CallLeave(u, ok) ==
    \/ ok /\ Works /\ Forget(u)
    \/ ok /\ Fails /\ UNCHANGED <<reg, steady, told>>
    \/ ~ok /\ Fails /\ (Forget(u) \/ UNCHANGED <<reg, steady, told>>)

At(h, place) == call[h].at = place
Goto(h, place) == call' = [call EXCEPT ![h].at = place]

\* The answer of a request, or its panic.
Return(h) == call' = [call EXCEPT ![h] = Idle]

\* The peer's server runs, and a goroutine takes the request.
Arrives(h, p) == At(h, "idle") /\ Node(p) \in up

-----------------------------------------------------------------------------
(* join: where is the user?                                                 *)

Join(h, p) ==
    LET s == reg[Uid(p)]
        start(place, signal) == call' = [call EXCEPT ![h] = [at |-> place, peer |-> p, signal |-> signal]]
    IN
    /\ Arrives(h, p)
    /\ \/ Works /\ start(IF s = None THEN "enter" ELSE IF s = Node(p) THEN "rejoin" ELSE "kick", s)
       \/ Fails /\ start("enter", None)
    /\ UNCHANGED <<states, check, kicks, casts, lost, history>>

\* On another server, which is told to remove it.  No answer ever comes back, and the
\* wait for it ends in a timeout; the kick may run before or after that.
JoinKick(h) ==
    LET c == call[h] IN
    /\ At(h, "kick")
    /\ \/ Works /\ kicks' = kicks \cup ({<<c.signal, Uid(c.peer), "streams">>} \cap (up \X Uids \X {"streams"}))
       \/ Fails /\ UNCHANGED kicks
    /\ Goto(h, "enter")
    /\ UNCHANGED <<states, check, casts, lost, history>>

\* On this server: streamRemove.  If it succeeds, the next line reads the reason of
\* an error that is nil.
JoinAgain(h) ==
    /\ At(h, "rejoin")
    /\ \/ Works /\ Return(h)
       \/ Fails /\ Goto(h, "rejoin leave")
    /\ UNCHANGED <<states, check, kicks, casts, lost, history>>

\* If it failed there is no rmPubs, which is missed after the leave.
JoinAgainLeave(h, ok) ==
    /\ At(h, "rejoin leave")
    /\ CallLeave(Uid(call[h].peer), ok)
    /\ Return(h)
    /\ UNCHANGED <<room, member, up, check, kicks, casts, lost>>

\* AddPeer of the room, which closes the user's old peer; a room that is nil panics.
JoinEnter(h) ==
    LET p == call[h].peer
        n == Node(p)
        old == member[n][Uid(p)] IN
    /\ At(h, "enter")
    /\ IF n \notin room THEN Return(h) /\ UNCHANGED <<member, told>>
       ELSE /\ member' = [member EXCEPT ![n][Uid(p)] = p]
            /\ told' = [told EXCEPT ![p] = {}]
            /\ Goto(h, "register")
    /\ UNCHANGED <<reg, room, up, check, kicks, casts, bounds, steady>>

\* If it fails the request is rejected; the peer stays in the room.
JoinRegister(h) ==
    LET p == call[h].peer
        u == Uid(p)
        others == steady \ PeersOf(u) IN
    /\ At(h, "register")
    /\ \/ Works /\ Register(u, Node(p)) /\ Steady(others \cup {p}) /\ Goto(h, "notify")
       \/ /\ Fails /\ Return(h)
          /\ \/ Register(u, Node(p)) /\ Steady(others)
             \/ UNCHANGED <<reg, steady, told>>
    /\ UNCHANGED <<room, member, up, check, kicks, casts, lost>>

\* The members of a server's room hear of a user, but not the user itself.
Tell(n, u) ==
    told' = [p \in Peers |->
        IF p = member[n][Uid(p)] /\ Uid(p) # u /\ told[p] # {} THEN told[p] \cup {u} ELSE told[p]]

\* Mutant of JoinNotify: the other servers are not told.
JoinNotifyHere(h) ==
    LET p == call[h].peer IN
    /\ At(h, "notify")
    /\ Tell(Node(p), Uid(p))
    /\ Goto(h, "list")
    /\ UNCHANGED <<states, check, kicks, casts, bounds, steady>>

\* SendNotifyByUids: the room here, and a broadcast to the other servers.
JoinNotify(h) ==
    LET p == call[h].peer IN
    /\ At(h, "notify")
    /\ Tell(Node(p), Uid(p))
    /\ casts' = casts \cup ((up \ {Node(p)}) \X {Uid(p)})
    /\ Goto(h, "list")
    /\ UNCHANGED <<states, check, kicks, bounds, steady>>

\* FindRoomUsers: everybody the register knows, but the user itself.  The request is
\* accepted with or without it.
JoinList(h) ==
    LET p == call[h].peer
        users == {u \in Uids : reg[u] # None} IN
    /\ At(h, "list")
    /\ \/ Works /\ told' = [told EXCEPT ![p] = IF p \in steady THEN users ELSE {}]
       \/ Fails /\ UNCHANGED told
    /\ Return(h)
    /\ UNCHANGED <<states, check, kicks, casts, lost, steady>>

-----------------------------------------------------------------------------
(* leave: streamRemove, the leave, DelPeer.                                  *)

Leave(h, p) ==
    /\ Arrives(h, p)
    /\ \E place \in {"leave", "leave bad"} :
        /\ IF place = "leave" THEN Works ELSE Fails
        /\ call' = [call EXCEPT ![h] = [at |-> place, peer |-> p, signal |-> None]]
    /\ UNCHANGED <<states, check, kicks, casts, lost, history>>

\* Without a rmPubs, for streamRemove failed, a panic skips DelPeer.
LeaveRegister(h, ok) ==
    /\ At(h, "leave") \/ At(h, "leave bad")
    /\ CallLeave(Uid(call[h].peer), ok)
    /\ IF At(h, "leave") THEN Goto(h, "leave del") ELSE Return(h)
    /\ UNCHANGED <<room, member, up, check, kicks, casts, lost>>

\* Room.DelPeer
DelPeer(n, u) ==
    /\ member' = [member EXCEPT ![n][u] = None]

LeaveDel(h) ==
    /\ At(h, "leave del")
    /\ DelPeer(Node(call[h].peer), Uid(call[h].peer))
    /\ Return(h)
    /\ UNCHANGED <<reg, room, up, check, kicks, casts, bounds, history>>

-----------------------------------------------------------------------------
(* peerKick at the other server.  A streamRemove that succeeds is taken for a   *)
(* failure, whose reason is nil; after one that failed, the answer of the leave *)
(* has no rmPubs.  Neither way reaches DelPeer.                                 *)

Kick(k) ==
    /\ k \in kicks /\ k[3] = "streams"
    /\ \/ Works /\ kicks' = kicks \ {k}
       \/ Fails /\ kicks' = (kicks \ {k}) \cup {[k EXCEPT ![3] = "leave"]}
    /\ UNCHANGED <<states, call, check, casts, lost, history>>

KickLeave(k, ok) ==
    /\ k \in kicks /\ k[3] = "leave"
    /\ CallLeave(k[2], ok)
    /\ kicks' = kicks \ {k}
    /\ UNCHANGED <<room, member, up, call, check, casts, lost>>

(* handleBroadcast: a server hears of a join elsewhere.                          *)

HandleBroadcast(c) ==
    /\ c \in casts /\ casts' = casts \ {c}
    /\ Tell(c[1], c[2])
    /\ UNCHANGED <<states, call, check, kicks, bounds, steady>>

Lose(c) ==
    /\ c \in casts /\ casts' = casts \ {c}
    /\ Fails /\ lost' = TRUE
    /\ UNCHANGED <<states, call, check, kicks, history>>

-----------------------------------------------------------------------------
(* CheckRoom asks for every member, tick after tick; one that exists stays, and *)
(* the loop goes on (Rooms has the loop).                                       *)

Checks(n, place) == check[n].at = place
Turn(n, place, u) == check' = [check EXCEPT ![n] = [at |-> place, uid |-> u]]

\* Mutant of Gone: whoever is not registered at all exists.
GoneDown(u) == (reg[u] \in Nodes \ up /\ Works) \/ Fails

\* GetExistByUid answers no: the register does, or cannot be asked; or it names a
\* server that has stopped, which discovery may have noticed.
Gone(u) == (reg[u] \notin up /\ Works) \/ Fails

\* The user's streams are removed, which has no effect here; its registration is next.
CheckAsk(n, u) ==
    /\ Checks(n, "idle") /\ member[n][u] # None
    /\ Gone(u)
    /\ Turn(n, "leave", u)
    /\ UNCHANGED <<states, call, kicks, casts, lost, history>>

\* The process of a server ends, with its goroutines, its room and its connections.
End(n) ==
    /\ up' = up \ {n} /\ room' = room \ {n}
    /\ member' = [member EXCEPT ![n] = Nobody]
    /\ call' = [h \in Handlers |-> IF At(h, "idle") \/ Node(call[h].peer) # n THEN call[h] ELSE Idle]
    /\ check' = [check EXCEPT ![n] = Resting]
    /\ kicks' = {k \in kicks : k[1] # n}
    /\ casts' = {c \in casts : c[1] # n}

\* After a leave that succeeds the reason of an error that is nil is read, and nothing
\* recovers the goroutine.  One that fails is taken for a success.
CheckLeave(n, ok) ==
    /\ Checks(n, "leave")
    /\ CallLeave(check[n].uid, ok)
    /\ IF ok THEN End(n) ELSE Turn(n, "del", check[n].uid) /\ UNCHANGED <<room, member, up, call, kicks, casts>>
    /\ UNCHANGED lost

CheckDel(n) ==
    /\ Checks(n, "del")
    /\ DelPeer(n, check[n].uid)
    /\ Turn(n, "idle", None)
    /\ UNCHANGED <<reg, room, up, call, kicks, casts, bounds, history>>

\* len(room.GetPeers()) == 0
CheckLen(n) ==
    /\ Checks(n, "idle") /\ n \in room /\ member[n] = Nobody
    /\ Turn(n, "empty", None)
    /\ UNCHANGED <<states, call, kicks, casts, bounds, history>>

\* Mutant of CheckDrop: the room is taken out with its peers.
CheckDropOpen(n) ==
    /\ Checks(n, "empty")
    /\ room' = room \ {n}
    /\ Turn(n, "idle", None)
    /\ UNCHANGED <<reg, member, up, call, kicks, casts, bounds, history>>

\* DelRoom: closes the peers that entered meanwhile.
CheckDrop(n) ==
    /\ Checks(n, "empty")
    /\ room' = room \ {n}
    /\ member' = [member EXCEPT ![n] = Nobody]
    /\ Turn(n, "idle", None)
    /\ UNCHANGED <<reg, up, call, kicks, casts, bounds, history>>

-----------------------------------------------------------------------------
(* The environment.                                                          *)

\* Nothing calls Rooms.AddRoom in this version; who will, adds an empty room.
AddRoom(n) ==
    /\ n \in up \ room
    /\ room' = room \cup {n}
    /\ UNCHANGED <<reg, member, up, tasks, bounds, history>>

\* A registration that was not kept alive.
Expire(u) ==
    /\ reg[u] # None
    /\ Forget(u)
    /\ UNCHANGED <<room, member, up, tasks, bounds>>

Crash(n) ==
    /\ n \in up /\ Fails
    /\ End(n)
    /\ UNCHANGED <<reg, lost, history>>

Restart(n) ==
    /\ n \in Nodes \ up
    /\ up' = up \cup {n}
    /\ UNCHANGED <<reg, room, member, tasks, bounds, history>>

-----------------------------------------------------------------------------
Request(h) ==
    \/ \E p \in Peers : Join(h, p) \/ Leave(h, p)
    \/ JoinKick(h) \/ JoinAgain(h) \/ \E ok \in BOOLEAN : JoinAgainLeave(h, ok)
    \/ JoinEnter(h) \/ JoinRegister(h) \/ JoinNotify(h) \/ JoinList(h)
    \/ \E ok \in BOOLEAN : LeaveRegister(h, ok)
    \/ LeaveDel(h)

Remote ==
    \/ \E k \in kicks : Kick(k) \/ \E ok \in BOOLEAN : KickLeave(k, ok)
    \/ \E c \in casts : HandleBroadcast(c) \/ Lose(c)

CheckRoom(n) ==
    \/ \E u \in Uids : CheckAsk(n, u)
    \/ \E ok \in BOOLEAN : CheckLeave(n, ok)
    \/ CheckDel(n) \/ CheckLen(n) \/ CheckDrop(n)

Environment ==
    \/ \E n \in Nodes : AddRoom(n) \/ Crash(n) \/ Restart(n)
    \/ \E u \in Uids : Expire(u)

Next ==
    \/ \E h \in Handlers : Request(h)
    \/ Remote
    \/ \E n \in Nodes : CheckRoom(n)
    \/ Environment

Spec == Init /\ [][Next]_vars

\* The ticker comes and its goroutine runs; a round asks for every member, whatever
\* happened to another in the round before.
Fairness ==
    \A n \in Nodes :
        /\ WF_vars(CheckRoom(n))
        /\ \A u \in Uids : SF_vars(CheckAsk(n, u))

FairSpec == Spec /\ Fairness

-----------------------------------------------------------------------------
(* Safety.                                                                   *)

\* A peer that was accepted with a list of users and has been registered and in its
\* room ever since, and makes no other request.
Settled(p) ==
    /\ told[p] # {} /\ member[Node(p)][Uid(p)] = p
    /\ \A h \in Handlers : call[h].peer # p

\* join registers before it notifies the others and asks for them (handler.go:108-118),
\* so of two clients in the room, wherever they joined and in whichever order, each has
\* heard of the other, unless the word is still under way or was lost.
MutuallyKnown ==
    \A p, q \in Peers :
        /\ Settled(p) /\ Settled(q) /\ Uid(p) # Uid(q)
        /\ ~lost /\ <<Node(p), Uid(q)>> \notin casts
        => Uid(q) \in told[p]

(* Liveness.                                                                 *)

\* CheckRoom takes out of the room a user who is not registered any more (init.go:244),
\* or the user registers again.  The end of the process is one of the ways.
StaleLeaves ==
    \A n \in Nodes, u \in Uids :
        (member[n][u] # None /\ reg[u] = None) ~> (member[n][u] = None \/ reg[u] # None)

=============================================================================
