---------------------------- MODULE SessionProofs ----------------------------
(***************************************************************************)
(* Proofs about Session, for any number of servers, users, connections and *)
(* requests, and any number of failures.                                   *)
(*                                                                         *)
(* MutuallyKnown speaks of clients that make no request any more.  What it *)
(* rests on is WordInv, which says of a client from its join at the        *)
(* register on that the word of it is with everybody who hears, under way, *)
(* or about to be sent by a join at "notify".                              *)
(***************************************************************************)
EXTENDS Session, TLAPS

\* A request and a removal know whom they are about.
Tidy ==
    /\ \A h \in Handlers : call[h].at # "idle" => call[h].peer \in Peers
    /\ \A n \in Nodes : check[n].at \in {"leave", "del"} => check[n].uid \in Uids

\* A steady peer is registered, on its server; only steady peers have been told of users.
SteadyRegistered == \A p \in steady : reg[Uid(p)] = Node(p)
ToldSteady == \A p \in Peers : told[p] # {} => p \in steady

\* A peer that hears what is said in its room.
Heard(p) == told[p] # {} /\ member[Node(p)][Uid(p)] = p

\* A registered peer whose join has notified the others, and has a list of users or is
\* about to ask for it.  A client that hears, but joins once more, is Announced too.
Announced(q) ==
    /\ q \in steady
    /\ Heard(q) \/ \E h \in Handlers : At(h, "list") /\ call[h].peer = q

WordReaches(p, q) ==
    \/ Uid(q) \in told[p]
    \/ <<Node(p), Uid(q)>> \in casts
    \/ \E h \in Handlers : At(h, "notify") /\ call[h].peer = q

WordInv ==
    \A p, q \in Peers :
        Heard(p) /\ Announced(q) /\ Uid(p) # Uid(q) /\ ~lost => WordReaches(p, q)

HistoryInv == SteadyRegistered /\ ToldSteady
Shape == TypeOK /\ Tidy
KnownInv == Shape /\ HistoryInv /\ WordInv

-----------------------------------------------------------------------------
(* Requests.                                                                *)

\* The goroutine h is at another place of the same or a new request, the others where
\* they were.
Moves(h, place) ==
    /\ call' \in [Handlers -> Task]
    /\ call'[h].at = place
    /\ place # "idle" => call'[h].peer \in Peers
    /\ \A g \in Handlers \ {h} : call'[g] = call[g]

LEMMA Goes ==
    ASSUME Shape, NEW h \in Handlers, NEW place \in Places, ~At(h, "idle"), Goto(h, place)
    PROVE  Moves(h, place) /\ call'[h].peer = call[h].peer
BY DEF Shape, TypeOK, Tidy, Moves, Goto, At, Task

LEMMA Returns ==
    ASSUME Shape, NEW h \in Handlers, Return(h)
    PROVE  Moves(h, "idle")
<1>1. Idle \in Task /\ Idle.at = "idle"
    BY DEF Idle, Task, Places
<1> QED
    BY <1>1 DEF Shape, TypeOK, Moves, Return

LEMMA Starts ==
    ASSUME Shape, NEW h \in Handlers, NEW place \in Places, NEW p \in Peers,
           NEW n \in Nodes \cup {None},
           call' = [call EXCEPT ![h] = [at |-> place, peer |-> p, signal |-> n]]
    PROVE  Moves(h, place)
<1> DEFINE new == [at |-> place, peer |-> p, signal |-> n]
<1>1. new \in Task /\ new.at = place /\ new.peer = p
    BY DEF Task
<1> HIDE DEF new
<1> QED
    BY <1>1 DEF Shape, TypeOK, Moves, new

\* What the moves of a goroutine leave of Shape.
LEMMA MovesTidy ==
    ASSUME Shape, NEW h \in Handlers, NEW place, Moves(h, place), UNCHANGED check
    PROVE  Tidy' /\ call' \in [Handlers -> Task] /\ check' \in [Nodes -> Round]
BY DEF Shape, TypeOK, Tidy, Moves

-----------------------------------------------------------------------------
(* The register.                                                            *)

\* The history of some peers ends; the others stay as they were.
Fewer ==
    /\ steady' \subseteq steady
    /\ told' \in [Peers -> SUBSET Uids]
    /\ \A p \in Peers : told'[p] = told[p] \/ told'[p] = {}

RegisterTypes ==
    /\ reg' \in [Uids -> Nodes \cup {None}] /\ faults' \in 0..MaxFaults
    /\ told' \in [Peers -> SUBSET Uids] /\ steady' \subseteq Peers

LEMMA Untouched ==
    ASSUME Shape, HistoryInv, UNCHANGED <<reg, steady, told>>
    PROVE  Fewer /\ HistoryInv' /\ reg' \in [Uids -> Nodes \cup {None}]
BY DEF Shape, TypeOK, HistoryInv, Fewer, SteadyRegistered, ToldSteady

LEMMA Counts ==
    ASSUME Shape, Works \/ Fails
    PROVE  faults' \in 0..MaxFaults
BY LimitsAssumption DEF Shape, TypeOK, Works, Fails

LEMMA Steadied ==
    ASSUME Shape, HistoryInv, NEW ps \in SUBSET Peers, Steady(ps)
    PROVE  /\ steady' = ps /\ told' \in [Peers -> SUBSET Uids]
           /\ \A p \in Peers : told'[p] = IF p \in ps \cap steady THEN told[p] ELSE {}
           /\ ToldSteady'
BY DEF Shape, TypeOK, HistoryInv, Steady, ToldSteady

LEMMA Forgets ==
    ASSUME Shape, HistoryInv, NEW u \in Uids, Forget(u)
    PROVE  Fewer /\ HistoryInv' /\ reg' \in [Uids -> Nodes \cup {None}]
<1> DEFINE ps == steady \ PeersOf(u)
<1>1. ps \in SUBSET Peers /\ Steady(ps) /\ reg' = [reg EXCEPT ![u] = None]
    BY DEF Shape, TypeOK, Forget, Register
<1>2. \A p \in ps : p \in steady /\ Uid(p) # u
    BY DEF PeersOf, Shape, TypeOK
<1> HIDE DEF ps
<1>3. /\ steady' = ps /\ told' \in [Peers -> SUBSET Uids]
      /\ \A p \in Peers : told'[p] = IF p \in ps \cap steady THEN told[p] ELSE {}
      /\ ToldSteady'
    BY <1>1, Steadied
<1>4. reg' \in [Uids -> Nodes \cup {None}] /\ SteadyRegistered'
    BY <1>1, <1>2, <1>3, PeersAssumption DEF Shape, TypeOK, HistoryInv, SteadyRegistered
<1> QED
    BY <1>2, <1>3, <1>4 DEF Fewer, HistoryInv

LEMMA LeaveEffect ==
    ASSUME Shape, HistoryInv, NEW u \in Uids, NEW ok \in BOOLEAN, CallLeave(u, ok)
    PROVE  Fewer /\ HistoryInv' /\ RegisterTypes
<1>1. Forget(u) \/ UNCHANGED <<reg, steady, told>>
    BY DEF CallLeave
<1>2. Works \/ Fails
    BY DEF CallLeave
<1>3. Fewer /\ HistoryInv' /\ reg' \in [Uids -> Nodes \cup {None}]
    BY <1>1, Forgets, Untouched
<1> QED
    BY <1>2, <1>3, Counts DEF Fewer, RegisterTypes, Shape, TypeOK

\* What clientJoin does, whether its answer arrives or not.
LEMMA RegisterEffect ==
    ASSUME Shape, HistoryInv, NEW p \in Peers, NEW some \in SUBSET {p},
           Register(Uid(p), Node(p)), Steady((steady \ PeersOf(Uid(p))) \cup some)
    PROVE  /\ HistoryInv' /\ reg' \in [Uids -> Nodes \cup {None}]
           /\ told' \in [Peers -> SUBSET Uids] /\ steady' \subseteq Peers
           /\ steady' \subseteq steady \cup some
           /\ \A q \in Peers : told'[q] = told[q] \/ told'[q] = {}
<1> DEFINE ps == (steady \ PeersOf(Uid(p))) \cup some
<1>1. ps \in SUBSET Peers /\ Steady(ps) /\ reg' = [reg EXCEPT ![Uid(p)] = Node(p)]
    BY DEF Shape, TypeOK, Register
<1>2. \A q \in ps : (q \in steady /\ Uid(q) # Uid(p)) \/ (q \in some /\ q = p)
    BY DEF PeersOf, Shape, TypeOK
<1> HIDE DEF ps
<1>3. /\ steady' = ps /\ told' \in [Peers -> SUBSET Uids]
      /\ \A q \in Peers : told'[q] = IF q \in ps \cap steady THEN told[q] ELSE {}
      /\ ToldSteady'
    BY <1>1, Steadied
<1>4. reg' \in [Uids -> Nodes \cup {None}] /\ SteadyRegistered'
    BY <1>1, <1>2, <1>3, PeersAssumption DEF Shape, TypeOK, HistoryInv, SteadyRegistered
<1> QED
    BY <1>1, <1>2, <1>3, <1>4 DEF HistoryInv

-----------------------------------------------------------------------------
(* Rooms, and the end of a process.                                         *)

RoomTypes ==
    /\ up' \subseteq Nodes /\ room' \subseteq up'
    /\ member' \in [Nodes -> [Uids -> Peers \cup {None}]]
    /\ \A n \in Nodes \ room' : member'[n] = Nobody

TaskTypes ==
    /\ Tidy' /\ call' \in [Handlers -> Task] /\ check' \in [Nodes -> Round]
    /\ kicks' \subseteq Nodes \X Uids \X {"streams", "leave"}
    /\ casts' \subseteq Nodes \X Uids

\* Nobody enters a room.
NoEntry == \A p \in Peers : member'[Node(p)][Uid(p)] = p => member[Node(p)][Uid(p)] = p

LEMMA NobodyEnters ==
    ASSUME UNCHANGED member
    PROVE  NoEntry
BY DEF NoEntry

LEMMA NobodyTyped == Nobody \in [Uids -> Peers \cup {None}]
BY DEF Nobody

LEMMA Empties ==
    ASSUME Shape, NEW n \in Nodes, member' = [member EXCEPT ![n] = Nobody]
    PROVE  /\ member' \in [Nodes -> [Uids -> Peers \cup {None}]]
           /\ \A m \in Nodes : m \notin room \/ m = n => member'[m] = Nobody
           /\ NoEntry /\ \A p \in Peers : Node(p) = n => member'[n][Uid(p)] # p
<1>1. /\ member' \in [Nodes -> [Uids -> Peers \cup {None}]]
      /\ \A m \in Nodes : member'[m] = IF m = n THEN Nobody ELSE member[m]
    BY NobodyTyped DEF Shape, TypeOK
<1>2. \A p \in Peers : p # None /\ Nobody[Uid(p)] = None
    BY NoneAssumption, PeersAssumption DEF Nobody
<1>3. \A m \in Nodes \ room : member[m] = Nobody
    BY DEF Shape, TypeOK
<1> QED
    BY <1>1, <1>2, <1>3, PeersAssumption DEF NoEntry

LEMMA Deletes ==
    ASSUME Shape, NEW n \in Nodes, NEW u \in Uids, DelPeer(n, u)
    PROVE  /\ member' \in [Nodes -> [Uids -> Peers \cup {None}]]
           /\ \A m \in Nodes \ room : member'[m] = Nobody
           /\ NoEntry
<1>1. /\ member \in [Nodes -> [Uids -> Peers \cup {None}]]
      /\ \A m \in Nodes \ room : member[m] = Nobody
    BY DEF Shape, TypeOK
<1>2. member' = [member EXCEPT ![n][u] = None]
    BY DEF DelPeer
<1>3. member' \in [Nodes -> [Uids -> Peers \cup {None}]]
    BY <1>1, <1>2
<1>4. ASSUME NEW m \in Nodes \ room
      PROVE  member'[m] = Nobody
    <2>1. [Nobody EXCEPT ![u] = None] = Nobody
        BY DEF Nobody
    <2> QED
        BY <1>1, <1>2, <2>1
<1>5. \A p \in Peers : p # None
    BY NoneAssumption
<1>6. ASSUME NEW p \in Peers, member'[Node(p)][Uid(p)] = p
      PROVE  member[Node(p)][Uid(p)] = p
    BY <1>1, <1>2, <1>5, <1>6, PeersAssumption
<1> QED
    BY <1>3, <1>4, <1>6 DEF NoEntry

LEMMA Ends ==
    ASSUME Shape, NEW n \in Nodes, End(n)
    PROVE  /\ RoomTypes /\ TaskTypes /\ NoEntry
           /\ \A p \in Peers : Node(p) = n => member'[n][Uid(p)] # p
           /\ \A h \in Handlers : call'[h] = call[h] \/ call'[h].at = "idle"
           /\ \A h \in Handlers : call'[h].at # "idle" => Node(call'[h].peer) # n
           /\ \A h \in Handlers :
                ~At(h, "idle") /\ Node(call[h].peer) # n => call'[h] = call[h]
<1>1. /\ member' \in [Nodes -> [Uids -> Peers \cup {None}]]
      /\ \A m \in Nodes : m \notin room \/ m = n => member'[m] = Nobody
      /\ NoEntry /\ \A p \in Peers : Node(p) = n => member'[n][Uid(p)] # p
    BY Empties DEF End
<1>2. RoomTypes
    BY <1>1 DEF End, RoomTypes, Shape, TypeOK
<1>3. Idle \in Task /\ Idle.at = "idle"
    BY DEF Idle, Task, Places
<1>4. \A h \in Handlers : call'[h] =
        IF At(h, "idle") \/ Node(call[h].peer) # n THEN call[h] ELSE Idle
    BY DEF End
<1>5. call' \in [Handlers -> Task]
    BY <1>3, <1>4 DEF End, Shape, TypeOK
<1>6. Resting \in Round /\ Resting.at = "idle"
    BY DEF Resting, Round
<1>7. check' \in [Nodes -> Round] /\ \A m \in Nodes : check'[m] = IF m = n THEN Resting ELSE check[m]
    BY <1>6 DEF End, Shape, TypeOK
<1>8. Tidy'
    BY <1>3, <1>4, <1>6, <1>7 DEF Shape, Tidy, At
<1>9. TaskTypes
    BY <1>5, <1>7, <1>8 DEF TaskTypes, End, Shape, TypeOK
<1> QED
    BY <1>1, <1>2, <1>3, <1>4, <1>9 DEF At

-----------------------------------------------------------------------------
(* Every step keeps Shape and HistoryInv.                                   *)

LEMMA ShapeFrom ==
    ASSUME RegisterTypes, RoomTypes, TaskTypes, lost' \in BOOLEAN
    PROVE  Shape'
BY DEF RegisterTypes, RoomTypes, TaskTypes, Shape, TypeOK

\* The parts that a step leaves alone.
LEMMA RegisterStays ==
    ASSUME Shape, HistoryInv, UNCHANGED <<reg, history>>, Works \/ Fails \/ UNCHANGED faults
    PROVE  RegisterTypes /\ HistoryInv' /\ Fewer
<1>1. faults' \in 0..MaxFaults
    BY Counts DEF Works
<1> QED
    BY <1>1 DEF RegisterTypes, history, Shape, TypeOK, HistoryInv, SteadyRegistered, ToldSteady, Fewer

LEMMA RoomStays ==
    ASSUME Shape, UNCHANGED <<room, member, up>>
    PROVE  RoomTypes
BY DEF RoomTypes, Shape, TypeOK

LEMMA TasksStay ==
    ASSUME Shape, UNCHANGED tasks
    PROVE  TaskTypes
BY DEF TaskTypes, tasks, Shape, TypeOK, Tidy

LEMMA TasksMove ==
    ASSUME Shape, NEW h \in Handlers, NEW place, Moves(h, place), UNCHANGED <<check, kicks, casts>>
    PROVE  TaskTypes
<1>1. Tidy' /\ call' \in [Handlers -> Task] /\ check' \in [Nodes -> Round]
    BY MovesTidy
<1> QED
    BY <1>1 DEF TaskTypes, Shape, TypeOK

-----------------------------------------------------------------------------
(* Steps that say nothing: nobody hears who did not, nobody is announced,   *)
(* and no word gets lost.                                                   *)

QuietTasks ==
    /\ casts \subseteq casts'
    /\ \A h \in Handlers : At(h, "notify") => call'[h] = call[h]
    /\ \A h \in Handlers : call'[h].at = "list" => call'[h] = call[h]

Silent ==
    /\ QuietTasks /\ (lost => lost')
    /\ \A p \in Peers : Heard(p)' => Heard(p) /\ told'[p] = told[p]
    /\ \A q \in steady' \ steady : \E h \in Handlers : At(h, "notify")' /\ call'[h].peer = q

LEMMA QuietMove ==
    ASSUME NEW h \in Handlers, NEW place, Moves(h, place),
           ~At(h, "notify"), place # "list", casts \subseteq casts'
    PROVE  QuietTasks
BY DEF QuietTasks, Moves, At

LEMMA SilentIfFewer ==
    ASSUME Fewer, NoEntry, QuietTasks, lost => lost'
    PROVE  Silent
BY DEF Fewer, NoEntry, Silent, Heard

LEMMA SilentKeeps ==
    ASSUME WordInv, Silent
    PROVE  WordInv'
<1> SUFFICES ASSUME NEW p \in Peers, NEW q \in Peers,
                    Heard(p)', Announced(q)', Uid(p) # Uid(q), ~lost'
             PROVE  WordReaches(p, q)'
    BY DEF WordInv
<1>1. Heard(p) /\ told'[p] = told[p] /\ ~lost
    BY DEF Silent
<1>2. CASE q \notin steady
    BY <1>2 DEF Silent, Announced, WordReaches, At
<1>3. CASE q \in steady
    <2>1. Announced(q)
        <3>1. CASE Heard(q)'
            BY <1>3, <3>1 DEF Silent, Announced
        <3>2. CASE ~Heard(q)'
            <4>1. PICK h \in Handlers : call'[h].at = "list" /\ call'[h].peer = q
                BY <3>2 DEF Announced, At
            <4> QED
                BY <1>3, <4>1 DEF Silent, QuietTasks, Announced, At
        <3> QED
            BY <3>1, <3>2
    <2>2. WordReaches(p, q)
        BY <1>1, <2>1 DEF WordInv
    <2> QED
        BY <1>1, <2>2 DEF WordReaches, Silent, QuietTasks, At
<1> QED
    BY <1>2, <1>3

\* What each lemma about an action shows.
Kept == Shape' /\ HistoryInv' /\ WordInv'

\* A request whose step is silent, and leaves the rooms alone.
LEMMA MoveKeeps ==
    ASSUME KnownInv, NEW h \in Handlers, NEW place, Moves(h, place),
           ~At(h, "notify"), place # "list",
           Fewer, HistoryInv', RegisterTypes,
           UNCHANGED <<room, member, up, check, kicks, casts, lost>>
    PROVE  Kept
<1>1. RoomTypes /\ NoEntry
    BY RoomStays, NobodyEnters DEF KnownInv
<1>2. TaskTypes /\ lost' \in BOOLEAN
    BY TasksMove DEF KnownInv, Shape, TypeOK
<1>3. QuietTasks
    BY QuietMove
<1>4. Shape'
    BY <1>1, <1>2, ShapeFrom
<1>5. WordInv'
    BY <1>1, <1>3, SilentIfFewer, SilentKeeps DEF KnownInv
<1> QED
    BY <1>4, <1>5 DEF Kept

LEMMA JoinKeeps ==
    ASSUME KnownInv, NEW h \in Handlers, NEW p \in Peers, Join(h, p)
    PROVE  Kept
<1>1. PICK place \in {"enter", "rejoin", "kick"}, n \in Nodes \cup {None} :
        call' = [call EXCEPT ![h] = [at |-> place, peer |-> p, signal |-> n]]
    BY PeersAssumption DEF Join, KnownInv, Shape, TypeOK
<1>2. Moves(h, place)
    BY <1>1, Starts DEF KnownInv, Places
<1>3. /\ Works \/ Fails
      /\ UNCHANGED <<states, check, kicks, casts, lost, history>> /\ ~At(h, "notify")
    BY DEF Join, Arrives, At
<1>4. RegisterTypes /\ HistoryInv' /\ Fewer
    BY <1>3, RegisterStays DEF KnownInv, states
<1> QED
    BY <1>2, <1>3, <1>4, MoveKeeps DEF states

LEMMA LeaveKeeps ==
    ASSUME KnownInv, NEW h \in Handlers, NEW p \in Peers, Leave(h, p)
    PROVE  Kept
<1>1. PICK place \in {"leave", "leave bad"} :
        /\ Works \/ Fails
        /\ call' = [call EXCEPT ![h] = [at |-> place, peer |-> p, signal |-> None]]
    BY DEF Leave
<1>2. Moves(h, place)
    BY <1>1, Starts DEF KnownInv, Places
<1>3. UNCHANGED <<states, check, kicks, casts, lost, history>> /\ ~At(h, "notify")
    BY DEF Leave, Arrives, At
<1>4. RegisterTypes /\ HistoryInv' /\ Fewer
    BY <1>1, <1>3, RegisterStays DEF KnownInv, states
<1> QED
    BY <1>2, <1>3, <1>4, MoveKeeps DEF states

LEMMA JoinKickKeeps ==
    ASSUME KnownInv, NEW h \in Handlers, JoinKick(h)
    PROVE  Kept
<1> DEFINE new == {<<call[h].signal, Uid(call[h].peer), "streams">>} \cap (up \X Uids \X {"streams"})
<1>1. Moves(h, "enter") /\ ~At(h, "notify")
    BY Goes DEF JoinKick, At, Places, KnownInv
<1>2. /\ Works \/ Fails
      /\ kicks' = kicks \cup new \/ kicks' = kicks
      /\ UNCHANGED <<states, check, casts, lost, history>>
    BY DEF JoinKick
<1>3. new \subseteq Nodes \X Uids \X {"streams", "leave"}
    BY DEF KnownInv, Shape, TypeOK
<1> HIDE DEF new
<1>4. Tidy' /\ call' \in [Handlers -> Task] /\ check' \in [Nodes -> Round]
    BY <1>1, <1>2, MovesTidy DEF KnownInv
<1>5. TaskTypes
    BY <1>2, <1>3, <1>4 DEF TaskTypes, KnownInv, Shape, TypeOK
<1>6. RegisterTypes /\ HistoryInv' /\ Fewer
    BY <1>2, RegisterStays DEF KnownInv, states
<1>7. RoomTypes /\ NoEntry
    BY <1>2, RoomStays, NobodyEnters DEF KnownInv, states
<1>8. QuietTasks
    BY <1>1, <1>2, QuietMove
<1>9. Shape'
    BY <1>2, <1>5, <1>6, <1>7, ShapeFrom DEF KnownInv, Shape, TypeOK
<1>10. WordInv'
    BY <1>2, <1>6, <1>7, <1>8, SilentIfFewer, SilentKeeps DEF KnownInv
<1> QED
    BY <1>6, <1>9, <1>10 DEF Kept

LEMMA JoinAgainKeeps ==
    ASSUME KnownInv, NEW h \in Handlers, JoinAgain(h)
    PROVE  Kept
<1>1. PICK place \in {"idle", "rejoin leave"} : Moves(h, place)
    BY Goes, Returns DEF JoinAgain, At, Places, KnownInv
<1>2. /\ Works \/ Fails
      /\ UNCHANGED <<states, check, kicks, casts, lost, history>> /\ ~At(h, "notify")
    BY DEF JoinAgain, At
<1>3. RegisterTypes /\ HistoryInv' /\ Fewer
    BY <1>2, RegisterStays DEF KnownInv, states
<1> QED
    BY <1>1, <1>2, <1>3, MoveKeeps DEF states

LEMMA JoinAgainLeaveKeeps ==
    ASSUME KnownInv, NEW h \in Handlers, NEW ok \in BOOLEAN, JoinAgainLeave(h, ok)
    PROVE  Kept
<1>1. Uid(call[h].peer) \in Uids
    BY PeersAssumption DEF JoinAgainLeave, At, KnownInv, Shape, Tidy
<1>2. Fewer /\ HistoryInv' /\ RegisterTypes
    BY <1>1, LeaveEffect DEF JoinAgainLeave, KnownInv
<1>3. Moves(h, "idle") /\ ~At(h, "notify")
    BY Returns DEF JoinAgainLeave, At, KnownInv
<1> QED
    BY <1>2, <1>3, MoveKeeps DEF JoinAgainLeave

LEMMA LeaveRegisterKeeps ==
    ASSUME KnownInv, NEW h \in Handlers, NEW ok \in BOOLEAN, LeaveRegister(h, ok)
    PROVE  Kept
<1>1. Uid(call[h].peer) \in Uids
    BY PeersAssumption DEF LeaveRegister, At, KnownInv, Shape, Tidy
<1>2. Fewer /\ HistoryInv' /\ RegisterTypes
    BY <1>1, LeaveEffect DEF LeaveRegister, KnownInv
<1>3. PICK place \in {"idle", "leave del"} : Moves(h, place)
    BY Goes, Returns DEF LeaveRegister, At, Places, KnownInv
<1>4. ~At(h, "notify")
    BY DEF LeaveRegister, At
<1> QED
    BY <1>2, <1>3, <1>4, MoveKeeps DEF LeaveRegister

LEMMA LeaveDelKeeps ==
    ASSUME KnownInv, NEW h \in Handlers, LeaveDel(h)
    PROVE  Kept
<1>1. Moves(h, "idle") /\ ~At(h, "notify")
    BY Returns DEF LeaveDel, At, KnownInv
<1>2. UNCHANGED <<reg, room, up, check, kicks, casts, bounds, history>>
    BY DEF LeaveDel
<1>3. DelPeer(Node(call[h].peer), Uid(call[h].peer)) /\ call[h].peer \in Peers
    BY DEF LeaveDel, At, KnownInv, Shape, Tidy
<1>4. RoomTypes /\ NoEntry
    BY <1>2, <1>3, Deletes, PeersAssumption DEF RoomTypes, KnownInv, Shape, TypeOK
<1>5. TaskTypes /\ QuietTasks
    BY <1>1, <1>2, TasksMove, QuietMove DEF KnownInv
<1>6. RegisterTypes /\ HistoryInv' /\ Fewer
    BY <1>2, RegisterStays DEF KnownInv, bounds
<1>7. Shape'
    BY <1>2, <1>4, <1>5, <1>6, ShapeFrom DEF KnownInv, Shape, TypeOK, bounds
<1>8. WordInv'
    BY <1>2, <1>4, <1>5, <1>6, SilentIfFewer, SilentKeeps DEF KnownInv, bounds
<1> QED
    BY <1>6, <1>7, <1>8 DEF Kept

\* A client that enters the room has been told of nobody since, and hears nothing.
LEMMA JoinEnterKeeps ==
    ASSUME KnownInv, NEW h \in Handlers, JoinEnter(h)
    PROVE  Kept
<1> DEFINE p == call[h].peer
           n == Node(p)
<1>1. p \in Peers /\ n \in Nodes /\ Uid(p) \in Uids
    BY PeersAssumption DEF JoinEnter, At, KnownInv, Shape, Tidy
<1>2. /\ UNCHANGED <<reg, room, up, check, kicks, casts, bounds, steady>>
      /\ ~At(h, "notify") /\ ~At(h, "idle")
    BY DEF JoinEnter, At
<1>3. CASE n \notin room
    <2>1. Return(h) /\ UNCHANGED <<member, told>>
        BY <1>3 DEF JoinEnter
    <2>2. Moves(h, "idle")
        BY <2>1, Returns DEF KnownInv
    <2>3. RegisterTypes /\ HistoryInv' /\ Fewer
        BY <1>2, <2>1, RegisterStays DEF KnownInv, bounds, history
    <2> QED
        BY <1>2, <2>1, <2>2, <2>3, MoveKeeps DEF bounds
<1>4. CASE n \in room
    <2>1. /\ member' = [member EXCEPT ![n][Uid(p)] = p]
          /\ told' = [told EXCEPT ![p] = {}]
          /\ Goto(h, "register")
        BY <1>4 DEF JoinEnter
    <2>2. Moves(h, "register")
        BY <1>2, <2>1, Goes DEF Places, KnownInv
    <2> HIDE DEF n, p
    <2>3. TaskTypes /\ QuietTasks
        BY <1>2, <2>2, TasksMove, QuietMove DEF KnownInv
    <2>4. /\ told' \in [Peers -> SUBSET Uids]
          /\ \A q \in Peers : told'[q] = IF q = p THEN {} ELSE told[q]
        BY <1>1, <2>1 DEF KnownInv, Shape, TypeOK
    <2>5. RegisterTypes /\ HistoryInv'
        BY <1>2, <2>4 DEF RegisterTypes, KnownInv, Shape, TypeOK, bounds, HistoryInv, SteadyRegistered, ToldSteady
    <2>6. /\ member' \in [Nodes -> [Uids -> Peers \cup {None}]]
          /\ \A m \in Nodes : m # n => member'[m] = member[m]
          /\ \A v \in Uids : member'[n][v] = IF v = Uid(p) THEN p ELSE member[n][v]
        BY <1>1, <2>1 DEF KnownInv, Shape, TypeOK
    <2>7. RoomTypes
        BY <1>2, <1>4, <2>6 DEF RoomTypes, KnownInv, Shape, TypeOK
    <2>8. \A q \in Peers : Heard(q)' => Heard(q) /\ told'[q] = told[q]
        <3> SUFFICES ASSUME NEW q \in Peers, Heard(q)'
                     PROVE  Heard(q) /\ told'[q] = told[q]
            OBVIOUS
        <3>1. q # p /\ told'[q] = told[q] /\ told[q] # {}
            BY <2>4 DEF Heard
        <3>2. member'[Node(q)][Uid(q)] = q
            BY DEF Heard
        <3>3. member[Node(q)][Uid(q)] = q
            BY <2>6, <3>1, <3>2, PeersAssumption
        <3> QED
            BY <3>1, <3>3 DEF Heard
    <2>9. Silent
        BY <1>2, <2>3, <2>8 DEF Silent, bounds
    <2>10. Shape'
        BY <1>2, <2>3, <2>5, <2>7, ShapeFrom DEF KnownInv, Shape, TypeOK, bounds
    <2> QED
        BY <2>5, <2>9, <2>10, SilentKeeps DEF Kept, KnownInv
<1> QED
    BY <1>3, <1>4

\* A client that registers is announced by the join that registered it.
LEMMA JoinRegisterKeeps ==
    ASSUME KnownInv, NEW h \in Handlers, JoinRegister(h)
    PROVE  Kept
<1> DEFINE p == call[h].peer
<1>1. p \in Peers
    BY DEF JoinRegister, At, KnownInv, Shape, Tidy
<1>2. /\ UNCHANGED <<room, member, up, check, kicks, casts, lost>>
      /\ ~At(h, "notify") /\ ~At(h, "idle") /\ (Works \/ Fails)
    BY DEF JoinRegister, At
<1>3. faults' \in 0..MaxFaults
    BY <1>2, Counts DEF KnownInv
<1>4. RoomTypes /\ NoEntry
    BY <1>2, RoomStays, NobodyEnters DEF KnownInv
<1>5. CASE Register(Uid(p), Node(p)) /\ Steady((steady \ PeersOf(Uid(p))) \cup {p}) /\ Goto(h, "notify")
    <2>1. Moves(h, "notify") /\ call'[h].peer = p
        BY <1>2, <1>5, Goes DEF Places, KnownInv
    <2> HIDE DEF p
    <2>2. TaskTypes /\ QuietTasks
        BY <1>2, <2>1, TasksMove, QuietMove DEF KnownInv
    <2>3. /\ HistoryInv' /\ reg' \in [Uids -> Nodes \cup {None}]
          /\ told' \in [Peers -> SUBSET Uids] /\ steady' \subseteq Peers
          /\ steady' \subseteq steady \cup {p}
          /\ \A q \in Peers : told'[q] = told[q] \/ told'[q] = {}
        BY <1>1, <1>5, RegisterEffect DEF KnownInv
    <2>4. \A q \in Peers : Heard(q)' => Heard(q) /\ told'[q] = told[q]
        BY <1>4, <2>3 DEF Heard, NoEntry
    <2>5. \A q \in steady' \ steady : At(h, "notify")' /\ call'[h].peer = q
        BY <2>1, <2>3 DEF Moves, At
    <2>6. Silent
        BY <1>2, <2>2, <2>4, <2>5 DEF Silent
    <2>7. Shape'
        BY <1>2, <1>3, <1>4, <2>2, <2>3, ShapeFrom DEF RegisterTypes, KnownInv, Shape, TypeOK
    <2> QED
        BY <2>3, <2>6, <2>7, SilentKeeps DEF Kept, KnownInv
<1>6. CASE /\ Return(h)
           /\ \/ Register(Uid(p), Node(p)) /\ Steady(steady \ PeersOf(Uid(p)))
              \/ UNCHANGED <<reg, steady, told>>
    <2>1. Moves(h, "idle")
        BY <1>6, Returns DEF KnownInv
    <2> HIDE DEF p
    <2>2. CASE Register(Uid(p), Node(p)) /\ Steady(steady \ PeersOf(Uid(p)))
        <3>1. {} \in SUBSET {p} /\ Steady((steady \ PeersOf(Uid(p))) \cup {})
            BY <2>2
        <3>2. /\ HistoryInv' /\ reg' \in [Uids -> Nodes \cup {None}]
              /\ told' \in [Peers -> SUBSET Uids] /\ steady' \subseteq Peers
              /\ steady' \subseteq steady \cup {}
              /\ \A q \in Peers : told'[q] = told[q] \/ told'[q] = {}
            BY <1>1, <2>2, <3>1, RegisterEffect DEF KnownInv
        <3>3. Fewer /\ RegisterTypes
            BY <1>3, <3>2 DEF Fewer, RegisterTypes
        <3> QED
            BY <1>2, <2>1, <3>2, <3>3, MoveKeeps
    <2>3. CASE UNCHANGED <<reg, steady, told>>
        <3>1. Fewer /\ HistoryInv' /\ reg' \in [Uids -> Nodes \cup {None}]
            BY <2>3, Untouched DEF KnownInv
        <3>2. RegisterTypes
            BY <1>3, <2>3, <3>1 DEF Fewer, RegisterTypes, KnownInv, Shape, TypeOK
        <3> QED
            BY <1>2, <2>1, <3>1, <3>2, MoveKeeps
    <2> QED
        BY <1>6, <2>2, <2>3
<1> QED
    BY <1>5, <1>6 DEF JoinRegister

-----------------------------------------------------------------------------
(* Steps that tell.                                                         *)

\* Who hears stays who hears, and has heard of all it had and of u too.
LEMMA Tells ==
    ASSUME Shape, HistoryInv, NEW n \in Nodes, NEW u \in Uids, Tell(n, u),
           UNCHANGED <<reg, member, faults, steady>>
    PROVE  /\ RegisterTypes /\ HistoryInv'
           /\ \A p \in Peers :
                /\ told[p] \subseteq told'[p]
                /\ told'[p] # {} => told[p] # {}
                /\ Heard(p)' <=> Heard(p)
                /\ Heard(p) /\ Node(p) = n /\ Uid(p) # u => u \in told'[p]
<1>1. \A p \in Peers : told'[p] =
        IF p = member[n][Uid(p)] /\ Uid(p) # u /\ told[p] # {} THEN told[p] \cup {u} ELSE told[p]
    BY DEF Tell
<1>2. told' \in [Peers -> SUBSET Uids]
    <2>1. \A p \in Peers : told[p] \in SUBSET Uids /\ told[p] \cup {u} \in SUBSET Uids
        BY DEF Shape, TypeOK
    <2> QED
        BY <2>1 DEF Tell
<1>3. ASSUME NEW p \in Peers
      PROVE  told[p] \subseteq told'[p] /\ (told'[p] # {} => told[p] # {})
    BY <1>1
<1>4. RegisterTypes /\ HistoryInv'
    BY <1>2, <1>3 DEF RegisterTypes, Shape, TypeOK, HistoryInv, SteadyRegistered, ToldSteady
<1>5. ASSUME NEW p \in Peers
      PROVE  Heard(p)' <=> Heard(p)
    <2>1. told'[p] # {} <=> told[p] # {}
        BY <1>3
    <2> QED
        BY <2>1 DEF Heard
<1>6. ASSUME NEW p \in Peers, Heard(p), Node(p) = n, Uid(p) # u
      PROVE  u \in told'[p]
    BY <1>1, <1>6 DEF Heard
<1> QED
    BY <1>3, <1>4, <1>5, <1>6

\* SendNotifyByUids: from now on the word of the client is with the members of the
\* room here, and under way to the other servers that run.
LEMMA JoinNotifyKeeps ==
    ASSUME KnownInv, NEW h \in Handlers, JoinNotify(h)
    PROVE  Kept
<1> DEFINE c == call[h].peer
<1>1. c \in Peers /\ Node(c) \in Nodes /\ Uid(c) \in Uids
    BY PeersAssumption DEF JoinNotify, At, KnownInv, Shape, Tidy
<1>2. /\ UNCHANGED <<states, check, kicks, bounds, steady>>
      /\ ~At(h, "idle") /\ At(h, "notify") /\ Goto(h, "list")
      /\ Tell(Node(c), Uid(c))
      /\ casts' = casts \cup ((up \ {Node(c)}) \X {Uid(c)})
    BY DEF JoinNotify, At
<1>3. Moves(h, "list") /\ call'[h].peer = c
    BY <1>2, Goes DEF KnownInv, Places
<1>4. call[h].peer = c
    OBVIOUS
<1> HIDE DEF c
<1>5. /\ RegisterTypes /\ HistoryInv'
      /\ \A p \in Peers :
           /\ told[p] \subseteq told'[p]
           /\ told'[p] # {} => told[p] # {}
           /\ Heard(p)' <=> Heard(p)
           /\ Heard(p) /\ Node(p) = Node(c) /\ Uid(p) # Uid(c) => Uid(c) \in told'[p]
    BY <1>1, <1>2, Tells DEF KnownInv, states, bounds
<1>6. Tidy' /\ call' \in [Handlers -> Task] /\ check' \in [Nodes -> Round]
    BY <1>2, <1>3, MovesTidy DEF KnownInv
<1>7. TaskTypes
    BY <1>1, <1>2, <1>6 DEF TaskTypes, KnownInv, Shape, TypeOK
<1>8. RoomTypes
    BY <1>2, RoomStays DEF KnownInv, states
<1>9. Shape'
    BY <1>2, <1>5, <1>7, <1>8, ShapeFrom DEF KnownInv, Shape, TypeOK, bounds
<1>10. ASSUME NEW p \in Peers, NEW q \in Peers,
              Heard(p)', Announced(q)', Uid(p) # Uid(q), ~lost'
       PROVE  WordReaches(p, q)'
    <2>1. Heard(p) /\ ~lost
        BY <1>2, <1>5, <1>10 DEF bounds
    <2>2. CASE q = c
        <3>1. CASE Node(p) = Node(c)
            BY <1>5, <1>10, <2>1, <2>2, <3>1 DEF WordReaches
        <3>2. CASE Node(p) # Node(c)
            <4>1. member[Node(p)][Uid(p)] # None
                BY <2>1, NoneAssumption DEF Heard
            <4>2. Node(p) \in up
                BY <4>1, PeersAssumption DEF KnownInv, Shape, TypeOK, Nobody
            <4>3. <<Node(p), Uid(c)>> \in casts'
                BY <1>2, <3>2, <4>2
            <4> QED
                BY <2>2, <4>3 DEF WordReaches
        <3> QED
            BY <3>1, <3>2
    <2>3. CASE q # c
        <3>1. Announced(q)
            BY <1>2, <1>3, <1>5, <1>10, <2>3 DEF Announced, Moves, At
        <3>2. WordReaches(p, q)
            BY <1>10, <2>1, <3>1 DEF KnownInv, WordInv
        <3> QED
            BY <1>2, <1>3, <1>4, <1>5, <2>3, <3>2 DEF WordReaches, Moves, At
    <2> QED
        BY <2>2, <2>3
<1> QED
    BY <1>5, <1>9, <1>10 DEF Kept, WordInv

\* FindRoomUsers: the list has every client that is announced, for it is registered.
LEMMA JoinListKeeps ==
    ASSUME KnownInv, NEW h \in Handlers, JoinList(h)
    PROVE  Kept
<1> DEFINE c == call[h].peer
           users == {u \in Uids : reg[u] # None}
<1>1. c \in Peers
    BY DEF JoinList, At, KnownInv, Shape, Tidy
<1>2. /\ UNCHANGED <<states, check, kicks, casts, lost, steady>>
      /\ At(h, "list") /\ ~At(h, "notify") /\ Return(h) /\ (Works \/ Fails)
      /\ \/ told' = [told EXCEPT ![c] = IF c \in steady THEN users ELSE {}]
         \/ told' = told
    BY DEF JoinList, At
<1>3. Moves(h, "idle")
    BY <1>2, Returns DEF KnownInv
<1>4. call[h].peer = c
    OBVIOUS
<1>5. /\ users \subseteq Uids
      /\ \A q \in steady : Uid(q) \in users
    BY NoneAssumption, PeersAssumption DEF KnownInv, Shape, TypeOK, HistoryInv, SteadyRegistered
<1> HIDE DEF c, users
<1>6. /\ told' \in [Peers -> SUBSET Uids]
      /\ \A p \in Peers : p # c => told'[p] = told[p]
      /\ told'[c] = told[c] \/ told'[c] = IF c \in steady THEN users ELSE {}
    BY <1>1, <1>2, <1>5 DEF KnownInv, Shape, TypeOK
<1>7. faults' \in 0..MaxFaults
    BY <1>2, Counts DEF KnownInv
<1>8. RegisterTypes /\ HistoryInv'
    BY <1>1, <1>2, <1>6, <1>7
    DEF RegisterTypes, KnownInv, Shape, TypeOK, states, HistoryInv, SteadyRegistered, ToldSteady
<1>9. TaskTypes /\ RoomTypes
    BY <1>2, <1>3, TasksMove, RoomStays DEF KnownInv, states
<1>10. Shape'
    BY <1>2, <1>8, <1>9, ShapeFrom DEF KnownInv, Shape, TypeOK
<1>11. ASSUME NEW p \in Peers, NEW q \in Peers,
              Heard(p)', Announced(q)', Uid(p) # Uid(q), ~lost'
       PROVE  WordReaches(p, q)'
    <2>1. q \in steady
        BY <1>2, <1>11 DEF Announced
    <2>2. CASE told'[p] # told[p]
        BY <1>5, <1>6, <1>11, <2>1, <2>2 DEF Heard, WordReaches
    <2>3. CASE told'[p] = told[p]
        <3>1. Heard(p) /\ ~lost
            BY <1>2, <1>11, <2>3 DEF Heard, states
        <3>2. Announced(q)
            <4>1. CASE q = c
                BY <1>2, <1>4, <2>1, <4>1 DEF Announced
            <4>2. CASE q # c
                BY <1>2, <1>3, <1>6, <1>11, <4>2 DEF Announced, Heard, Moves, At, states
            <4> QED
                BY <4>1, <4>2
        <3>3. WordReaches(p, q)
            BY <1>11, <3>1, <3>2 DEF KnownInv, WordInv
        <3> QED
            BY <1>2, <1>3, <2>3, <3>3 DEF WordReaches, Moves, At
    <2> QED
        BY <2>2, <2>3
<1> QED
    BY <1>8, <1>10, <1>11 DEF Kept, WordInv

-----------------------------------------------------------------------------
(* What other servers ask for.                                              *)

\* A step that moves no request and takes no broadcast.
LEMMA ElsewhereKeeps ==
    ASSUME KnownInv, HistoryInv', Fewer, RegisterTypes, RoomTypes, NoEntry, TaskTypes,
           UNCHANGED <<call, casts, lost>>
    PROVE  Kept
<1>1. Shape'
    BY ShapeFrom DEF KnownInv, Shape, TypeOK
<1>2. QuietTasks
    BY DEF QuietTasks
<1> QED
    BY <1>1, <1>2, SilentIfFewer, SilentKeeps DEF Kept, KnownInv

LEMMA KickKeeps ==
    ASSUME KnownInv, NEW k \in kicks, Kick(k)
    PROVE  Kept
<1>1. /\ Works \/ Fails
      /\ UNCHANGED <<states, call, check, casts, lost, history>>
      /\ kicks' = kicks \ {k} \/ kicks' = (kicks \ {k}) \cup {[k EXCEPT ![3] = "leave"]}
    BY DEF Kick
<1>2. PICK n \in Nodes, u \in Uids, s \in {"streams", "leave"} : k = <<n, u, s>>
    BY DEF KnownInv, Shape, TypeOK
<1>3. [k EXCEPT ![3] = "leave"] = <<n, u, "leave">>
    BY <1>2
<1>4. kicks' \subseteq Nodes \X Uids \X {"streams", "leave"}
    BY <1>1, <1>3 DEF KnownInv, Shape, TypeOK
<1>5. TaskTypes
    BY <1>1, <1>4 DEF TaskTypes, KnownInv, Shape, TypeOK, Tidy
<1>6. RegisterTypes /\ HistoryInv' /\ Fewer
    BY <1>1, RegisterStays DEF KnownInv, states
<1>7. RoomTypes /\ NoEntry
    BY <1>1, RoomStays, NobodyEnters DEF KnownInv, states
<1> QED
    BY <1>1, <1>5, <1>6, <1>7, ElsewhereKeeps

LEMMA KickLeaveKeeps ==
    ASSUME KnownInv, NEW k \in kicks, NEW ok \in BOOLEAN, KickLeave(k, ok)
    PROVE  Kept
<1>1. k[2] \in Uids
    BY DEF KnownInv, Shape, TypeOK
<1>2. Fewer /\ HistoryInv' /\ RegisterTypes
    BY <1>1, LeaveEffect DEF KickLeave, KnownInv
<1>3. RoomTypes /\ NoEntry
    BY RoomStays, NobodyEnters DEF KnownInv, KickLeave
<1>4. TaskTypes
    BY DEF KickLeave, TaskTypes, KnownInv, Shape, TypeOK, Tidy
<1> QED
    BY <1>2, <1>3, <1>4, ElsewhereKeeps DEF KickLeave

\* The word arrives.
LEMMA HandleBroadcastKeeps ==
    ASSUME KnownInv, NEW c \in casts, HandleBroadcast(c)
    PROVE  Kept
<1>1. PICK n \in Nodes, u \in Uids : c = <<n, u>>
    BY DEF KnownInv, Shape, TypeOK
<1>2. /\ casts' = casts \ {<<n, u>>} /\ Tell(n, u)
      /\ UNCHANGED <<states, call, check, kicks, bounds, steady>>
    BY <1>1 DEF HandleBroadcast
<1>3. /\ RegisterTypes /\ HistoryInv'
      /\ \A p \in Peers :
           /\ told[p] \subseteq told'[p]
           /\ told'[p] # {} => told[p] # {}
           /\ Heard(p)' <=> Heard(p)
           /\ Heard(p) /\ Node(p) = n /\ Uid(p) # u => u \in told'[p]
    BY <1>2, Tells DEF KnownInv, states, bounds
<1>4. TaskTypes /\ RoomTypes
    BY <1>2, RoomStays DEF TaskTypes, KnownInv, Shape, TypeOK, Tidy, states
<1>5. Shape'
    BY <1>2, <1>3, <1>4, ShapeFrom DEF KnownInv, Shape, TypeOK, bounds
<1>6. ASSUME NEW p \in Peers, NEW q \in Peers,
             Heard(p)', Announced(q)', Uid(p) # Uid(q), ~lost'
      PROVE  WordReaches(p, q)'
    <2>1. Heard(p) /\ Announced(q) /\ ~lost
        BY <1>2, <1>3, <1>6 DEF Announced, At, bounds
    <2>2. WordReaches(p, q)
        BY <1>6, <2>1 DEF KnownInv, WordInv
    <2>3. CASE Node(p) = n /\ Uid(q) = u
        BY <1>3, <1>6, <2>1, <2>3 DEF WordReaches
    <2>4. CASE ~(Node(p) = n /\ Uid(q) = u)
        <3>1. <<Node(p), Uid(q)>> \in casts => <<Node(p), Uid(q)>> \in casts'
            BY <1>2, <2>4
        <3> QED
            BY <1>2, <1>3, <2>2, <3>1 DEF WordReaches, At
    <2> QED
        BY <2>3, <2>4
<1> QED
    BY <1>3, <1>5, <1>6 DEF Kept, WordInv

LEMMA LoseKeeps ==
    ASSUME KnownInv, NEW c \in casts, Lose(c)
    PROVE  Kept
<1>1. /\ casts' = casts \ {c} /\ lost' = TRUE /\ Fails
      /\ UNCHANGED <<states, call, check, kicks, history>>
    BY DEF Lose
<1>2. RegisterTypes /\ HistoryInv'
    BY <1>1, RegisterStays DEF KnownInv, states
<1>3. TaskTypes /\ RoomTypes
    BY <1>1, RoomStays DEF TaskTypes, KnownInv, Shape, TypeOK, Tidy, states
<1> QED
    BY <1>1, <1>2, <1>3, ShapeFrom DEF Kept, WordInv

-----------------------------------------------------------------------------
(* CheckRoom.                                                               *)

\* A removal that goes on.
LEMMA Turns ==
    ASSUME Shape, NEW n \in Nodes, NEW place \in {"idle", "leave", "del", "empty"},
           NEW u \in Uids \cup {None}, place \in {"leave", "del"} => u \in Uids,
           Turn(n, place, u), UNCHANGED <<call, kicks, casts>>
    PROVE  TaskTypes
<1> DEFINE new == [at |-> place, uid |-> u]
<1>1. new \in Round /\ new.at = place /\ new.uid = u
    BY DEF Round
<1>2. check' = [check EXCEPT ![n] = new]
    BY DEF Turn
<1> HIDE DEF new
<1> QED
    BY <1>1, <1>2 DEF TaskTypes, Shape, TypeOK, Tidy

LEMMA CheckAskKeeps ==
    ASSUME KnownInv, NEW n \in Nodes, NEW u \in Uids, CheckAsk(n, u)
    PROVE  Kept
<1>1. /\ Works \/ Fails
      /\ Turn(n, "leave", u)
      /\ UNCHANGED <<states, call, kicks, casts, lost, history>>
    BY DEF CheckAsk, Gone
<1>2. TaskTypes
    BY <1>1, Turns DEF KnownInv
<1>3. RegisterTypes /\ HistoryInv' /\ Fewer
    BY <1>1, RegisterStays DEF KnownInv, states
<1>4. RoomTypes /\ NoEntry
    BY <1>1, RoomStays, NobodyEnters DEF KnownInv, states
<1> QED
    BY <1>1, <1>2, <1>3, <1>4, ElsewhereKeeps

LEMMA CheckDelKeeps ==
    ASSUME KnownInv, NEW n \in Nodes, CheckDel(n)
    PROVE  Kept
<1>1. check[n].uid \in Uids
    BY DEF CheckDel, Checks, KnownInv, Shape, Tidy
<1>2. /\ DelPeer(n, check[n].uid) /\ Turn(n, "idle", None)
      /\ UNCHANGED <<reg, room, up, call, kicks, casts, bounds, history>>
    BY DEF CheckDel
<1>3. TaskTypes
    BY <1>2, Turns DEF KnownInv
<1>4. RegisterTypes /\ HistoryInv' /\ Fewer
    BY <1>2, RegisterStays DEF KnownInv, bounds
<1>5. RoomTypes /\ NoEntry
    BY <1>1, <1>2, Deletes DEF RoomTypes, KnownInv, Shape, TypeOK
<1> QED
    BY <1>2, <1>3, <1>4, <1>5, ElsewhereKeeps DEF bounds

LEMMA CheckLenKeeps ==
    ASSUME KnownInv, NEW n \in Nodes, CheckLen(n)
    PROVE  Kept
<1>1. Turn(n, "empty", None) /\ UNCHANGED <<states, call, kicks, casts, bounds, history>>
    BY DEF CheckLen
<1>2. TaskTypes
    BY <1>1, Turns DEF KnownInv
<1>3. RegisterTypes /\ HistoryInv' /\ Fewer
    BY <1>1, RegisterStays DEF KnownInv, states, bounds
<1>4. RoomTypes /\ NoEntry
    BY <1>1, RoomStays, NobodyEnters DEF KnownInv, states
<1> QED
    BY <1>1, <1>2, <1>3, <1>4, ElsewhereKeeps DEF bounds

LEMMA CheckDropKeeps ==
    ASSUME KnownInv, NEW n \in Nodes, CheckDrop(n)
    PROVE  Kept
<1>1. /\ room' = room \ {n} /\ member' = [member EXCEPT ![n] = Nobody]
      /\ Turn(n, "idle", None)
      /\ UNCHANGED <<reg, up, call, kicks, casts, bounds, history>>
    BY DEF CheckDrop
<1>2. TaskTypes
    BY <1>1, Turns DEF KnownInv
<1>3. RegisterTypes /\ HistoryInv' /\ Fewer
    BY <1>1, RegisterStays DEF KnownInv, bounds
<1>4. RoomTypes /\ NoEntry
    BY <1>1, Empties DEF RoomTypes, KnownInv, Shape, TypeOK
<1> QED
    BY <1>1, <1>2, <1>3, <1>4, ElsewhereKeeps DEF bounds

\* The end of a process takes its rooms, so its clients neither hear nor are heard of
\* until they join again, and with them every join of theirs that is under way.
LEMMA EndKeeps ==
    ASSUME KnownInv, NEW n \in Nodes, End(n),
           Fewer, HistoryInv', RegisterTypes, UNCHANGED lost
    PROVE  Kept
<1>1. /\ RoomTypes /\ TaskTypes /\ NoEntry
      /\ \A p \in Peers : Node(p) = n => member'[n][Uid(p)] # p
      /\ \A h \in Handlers : call'[h] = call[h] \/ call'[h].at = "idle"
      /\ \A h \in Handlers : call'[h].at # "idle" => Node(call'[h].peer) # n
      /\ \A h \in Handlers :
            ~At(h, "idle") /\ Node(call[h].peer) # n => call'[h] = call[h]
    BY Ends DEF KnownInv
<1>2. Shape'
    BY <1>1, ShapeFrom DEF KnownInv, Shape, TypeOK
<1>3. ASSUME NEW p \in Peers, NEW q \in Peers,
             Heard(p)', Announced(q)', Uid(p) # Uid(q), ~lost'
      PROVE  WordReaches(p, q)'
    <2>1. /\ \A r \in Peers : Heard(r)' => Heard(r) /\ Node(r) # n /\ told'[r] = told[r]
          /\ q \in steady
        BY <1>1, <1>3 DEF Heard, Fewer, NoEntry, Announced
    <2>2. Announced(q) /\ Node(q) # n
        <3>1. CASE Heard(q)'
            BY <2>1, <3>1 DEF Announced
        <3>2. CASE \E h \in Handlers : At(h, "list")' /\ call'[h].peer = q
            <4>1. PICK h \in Handlers : call'[h].at = "list" /\ call'[h].peer = q
                BY <3>2 DEF At
            <4>2. call'[h] = call[h] /\ Node(q) # n
                BY <1>1, <4>1
            <4> QED
                BY <2>1, <4>1, <4>2 DEF Announced, At
        <3> QED
            BY <1>3, <3>1, <3>2 DEF Announced
    <2>3. Heard(p) /\ Node(p) # n /\ told'[p] = told[p]
        BY <1>3, <2>1
    <2>4. WordReaches(p, q)
        BY <1>3, <2>2, <2>3 DEF KnownInv, WordInv
    <2>5. CASE Uid(q) \in told[p]
        BY <2>3, <2>5 DEF WordReaches
    <2>6. CASE <<Node(p), Uid(q)>> \in casts
        BY <2>3, <2>6 DEF WordReaches, End
    <2>7. CASE \E h \in Handlers : At(h, "notify") /\ call[h].peer = q
        <3>1. PICK h \in Handlers : At(h, "notify") /\ call[h].peer = q
            BY <2>7
        <3>2. call'[h] = call[h]
            BY <1>1, <2>2, <3>1 DEF At
        <3> QED
            BY <3>1, <3>2 DEF WordReaches, At
    <2> QED
        BY <2>4, <2>5, <2>6, <2>7 DEF WordReaches
<1> QED
    BY <1>2, <1>3 DEF Kept, WordInv

LEMMA CheckLeaveKeeps ==
    ASSUME KnownInv, NEW n \in Nodes, NEW ok \in BOOLEAN, CheckLeave(n, ok)
    PROVE  Kept
<1>1. check[n].uid \in Uids
    BY DEF CheckLeave, Checks, KnownInv, Shape, Tidy
<1>2. Fewer /\ HistoryInv' /\ RegisterTypes
    BY <1>1, LeaveEffect DEF CheckLeave, KnownInv
<1>3. CASE ok
    BY <1>2, <1>3, EndKeeps DEF CheckLeave
<1>4. CASE ~ok
    <2>1. /\ Turn(n, "del", check[n].uid)
          /\ UNCHANGED <<room, member, up, call, kicks, casts>> /\ UNCHANGED lost
        BY <1>4 DEF CheckLeave
    <2>2. TaskTypes
        BY <1>1, <2>1, Turns DEF KnownInv
    <2>3. RoomTypes /\ NoEntry
        BY <2>1, RoomStays, NobodyEnters DEF KnownInv
    <2> QED
        BY <1>2, <2>1, <2>2, <2>3, ElsewhereKeeps
<1> QED
    BY <1>3, <1>4

-----------------------------------------------------------------------------
(* The environment.                                                         *)

LEMMA CrashKeeps ==
    ASSUME KnownInv, NEW n \in Nodes, Crash(n)
    PROVE  Kept
<1>1. RegisterTypes /\ HistoryInv' /\ Fewer
    BY RegisterStays DEF KnownInv, Crash
<1> QED
    BY <1>1, EndKeeps DEF Crash

LEMMA AddRoomKeeps ==
    ASSUME KnownInv, NEW n \in Nodes, AddRoom(n)
    PROVE  Kept
<1>1. RegisterTypes /\ HistoryInv' /\ Fewer
    BY RegisterStays DEF KnownInv, AddRoom, bounds
<1>2. TaskTypes
    BY TasksStay DEF KnownInv, AddRoom
<1>3. RoomTypes /\ NoEntry
    BY NobodyEnters DEF AddRoom, RoomTypes, KnownInv, Shape, TypeOK
<1> QED
    BY <1>1, <1>2, <1>3, ElsewhereKeeps DEF AddRoom, bounds, tasks

LEMMA RestartKeeps ==
    ASSUME KnownInv, NEW n \in Nodes, Restart(n)
    PROVE  Kept
<1>1. RegisterTypes /\ HistoryInv' /\ Fewer
    BY RegisterStays DEF KnownInv, Restart, bounds
<1>2. TaskTypes
    BY TasksStay DEF KnownInv, Restart
<1>3. RoomTypes /\ NoEntry
    BY NobodyEnters DEF Restart, RoomTypes, KnownInv, Shape, TypeOK
<1> QED
    BY <1>1, <1>2, <1>3, ElsewhereKeeps DEF Restart, bounds, tasks

LEMMA ExpireKeeps ==
    ASSUME KnownInv, NEW u \in Uids, Expire(u)
    PROVE  Kept
<1>1. Fewer /\ HistoryInv' /\ reg' \in [Uids -> Nodes \cup {None}]
    BY Forgets DEF KnownInv, Expire
<1>2. RegisterTypes
    BY <1>1 DEF RegisterTypes, Fewer, Expire, bounds, KnownInv, Shape, TypeOK
<1>3. TaskTypes
    BY TasksStay DEF KnownInv, Expire
<1>4. RoomTypes /\ NoEntry
    BY RoomStays, NobodyEnters DEF KnownInv, Expire
<1> QED
    BY <1>1, <1>2, <1>3, <1>4, ElsewhereKeeps DEF Expire, bounds, tasks

-----------------------------------------------------------------------------
(* The invariant.                                                           *)

LEMMA RequestKeeps ==
    ASSUME KnownInv, NEW h \in Handlers, Request(h)
    PROVE  Kept
BY JoinKeeps, LeaveKeeps, JoinKickKeeps, JoinAgainKeeps, JoinAgainLeaveKeeps, JoinEnterKeeps,
   JoinRegisterKeeps, JoinNotifyKeeps, JoinListKeeps, LeaveRegisterKeeps, LeaveDelKeeps
DEF Request

LEMMA RemoteKeeps ==
    ASSUME KnownInv, Remote
    PROVE  Kept
BY KickKeeps, KickLeaveKeeps, HandleBroadcastKeeps, LoseKeeps DEF Remote

LEMMA CheckRoomKeeps ==
    ASSUME KnownInv, NEW n \in Nodes, CheckRoom(n)
    PROVE  Kept
BY CheckAskKeeps, CheckLeaveKeeps, CheckDelKeeps, CheckLenKeeps, CheckDropKeeps DEF CheckRoom

LEMMA EnvironmentKeeps ==
    ASSUME KnownInv, Environment
    PROVE  Kept
BY AddRoomKeeps, CrashKeeps, RestartKeeps, ExpireKeeps DEF Environment

LEMMA StutterKeeps ==
    ASSUME KnownInv, UNCHANGED vars
    PROVE  Kept
<1>1. RegisterTypes /\ HistoryInv' /\ Fewer
    BY RegisterStays DEF KnownInv, vars, states, bounds
<1>2. TaskTypes /\ RoomTypes /\ NoEntry
    BY TasksStay, RoomStays, NobodyEnters DEF KnownInv, vars, states
<1> QED
    BY <1>1, <1>2, ElsewhereKeeps DEF vars, bounds, tasks

LEMMA KnownInit == Init => KnownInv
<1> SUFFICES ASSUME Init
             PROVE  KnownInv
    OBVIOUS
<1>1. Idle \in Task /\ Idle.at = "idle" /\ Resting \in Round /\ Resting.at = "idle"
    BY DEF Idle, Task, Places, Resting, Round
<1>2. Nobody \in [Uids -> Nodes \cup {None}] /\ Nobody \in [Uids -> Peers \cup {None}]
    BY DEF Nobody
<1>3. TypeOK
    <2>1. reg = Nobody /\ up = Nodes /\ room = {} /\ faults = 0 /\ lost = FALSE /\ steady = {}
        BY DEF Init
    <2>2. reg \in [Uids -> Nodes \cup {None}] /\ up \subseteq Nodes /\ room \subseteq up
        BY <1>2, <2>1
    <2>3. faults \in 0..MaxFaults
        BY <2>1, LimitsAssumption
    <2>4. lost \in BOOLEAN /\ steady \subseteq Peers
        BY <2>1
    <2>5. kicks \subseteq Nodes \X Uids \X {"streams", "leave"} /\ casts \subseteq Nodes \X Uids
        BY DEF Init
    <2>6. /\ member \in [Nodes -> [Uids -> Peers \cup {None}]]
          /\ \A n \in Nodes \ room : member[n] = Nobody
        BY <1>2 DEF Init
    <2>7. call \in [Handlers -> Task] /\ check \in [Nodes -> Round] /\ told \in [Peers -> SUBSET Uids]
        BY <1>1 DEF Init
    <2> QED
        BY <2>2, <2>3, <2>4, <2>5, <2>6, <2>7 DEF TypeOK
<1>4. Tidy
    BY <1>1 DEF Init, Tidy
<1>5. \A p \in Peers : told[p] = {}
    BY DEF Init
<1> QED
    BY <1>3, <1>4, <1>5 DEF Init, KnownInv, Shape, HistoryInv, SteadyRegistered, ToldSteady, WordInv, Heard

LEMMA KnownStep == KnownInv /\ [Next]_vars => KnownInv'
<1> SUFFICES ASSUME KnownInv, [Next]_vars
             PROVE  Kept
    BY DEF Kept, KnownInv
<1>1. CASE \E h \in Handlers : Request(h)
    BY <1>1, RequestKeeps
<1>2. CASE Remote
    BY <1>2, RemoteKeeps
<1>3. CASE \E n \in Nodes : CheckRoom(n)
    BY <1>3, CheckRoomKeeps
<1>4. CASE Environment
    BY <1>4, EnvironmentKeeps
<1>5. CASE UNCHANGED vars
    BY <1>5, StutterKeeps
<1> QED
    BY <1>1, <1>2, <1>3, <1>4, <1>5 DEF Next

LEMMA KnownAlways == Spec => []KnownInv
BY KnownInit, KnownStep, PTL DEF Spec

\* Every variable keeps its type; no server that has stopped has a room, and a room that
\* was dropped has no members.
THEOREM TypeCorrect == Spec => []TypeOK
<1>1. KnownInv => TypeOK
    BY DEF KnownInv, Shape
<1> QED
    BY <1>1, KnownAlways, PTL

\* A peer whose joins have ended is announced by nobody any more: it was.
LEMMA SettledKnown == KnownInv => MutuallyKnown
<1> SUFFICES ASSUME KnownInv, NEW p \in Peers, NEW q \in Peers,
                    Settled(p), Settled(q), Uid(p) # Uid(q), ~lost, <<Node(p), Uid(q)>> \notin casts
             PROVE  Uid(q) \in told[p]
    BY DEF MutuallyKnown
<1>1. Heard(p) /\ Heard(q)
    BY DEF Settled, Heard
<1>2. q \in steady
    BY <1>1 DEF KnownInv, HistoryInv, ToldSteady, Heard
<1>3. WordReaches(p, q)
    BY <1>1, <1>2 DEF KnownInv, WordInv, Announced
<1> QED
    BY <1>3 DEF WordReaches, Settled

\* Two clients in a room that several servers share, each accepted with a list of users
\* and registered ever since, have heard of each other wherever and in whichever order
\* they joined (handler.go:108-118), whatever failed, expired or was restarted meanwhile,
\* unless a broadcast was lost or is on its way.
THEOREM NeighboursKnown == Spec => []MutuallyKnown
BY KnownAlways, SettledKnown, PTL

=============================================================================
