------------------------------ MODULE Register ------------------------------
(***************************************************************************)
(* The register service (server/register): which signal server each user   *)
(* of a room is on, and which SFU holds each stream, kept in Redis under   *)
(* keys that expire.  Every request runs in a goroutine of its own         *)
(* (handleRPCMsg), so requests interleave between their Redis commands,    *)
(* also those of one user: the signal servers start a goroutine per        *)
(* message too.                                                            *)
(*                                                                         *)
(* A Redis command is one atomic step.  It may fail: the caller gets an    *)
(* error, or an empty answer from a read, and a write may have been        *)
(* applied all the same.                                                   *)
(***************************************************************************)
EXTENDS Naturals, Sequences, FiniteSets, MediaKeys

CONSTANTS
    Reqs,           \* goroutines of the requests that take several commands
    Rids, Uids,     \* rooms and users
    Mids,           \* stream ids, each <<publisher, suffix>>
    Signals, Sfus,  \* ids of signal servers and of SFUs
    None,           \* no value: the empty string
    Minfo,          \* the description of a stream's media, not looked into
    Short,          \* redisShort (60 s), in ticks
    Long,           \* redisKeyTTL (24 h), in ticks
    MaxFaults       \* bound: Redis commands that fail

NodeKeys  == {GetUserNodeKey(r, u) : r \in Rids, u \in Uids}
InfoKeys  == {GetMediaInfoKey(r, GetUIDFromMID(m), m) : r \in Rids, m \in Mids}
PubKeys   == {GetMediaPubKey(r, GetUIDFromMID(m), m) : r \in Rids, m \in Mids}
AllKeys   == NodeKeys \cup InfoKeys \cup PubKeys
Values    == Signals \cup Sfus \cup {None, Minfo}

ASSUME TtlAssumption == Short \in Nat \ {0} /\ Long \in Nat /\ Short <= Long
ASSUME MidsAssumption == \A m \in Mids : GetUIDFromMID(m) \in Uids
ASSUME FaultsAssumption == MaxFaults \in Nat
ASSUME NoneAssumption == None \notin Signals \cup Sfus \cup {Minfo} \cup Rids \cup Uids \cup Mids

VARIABLES
    val, ttl,   \* the store; a key with no time left does not exist
    req,        \* each goroutine's request: its place and its local variables
    used,       \* <<room, mid>> of the streams that streamAdd was called for
    faults

vars == <<val, ttl, req, used, faults>>

Places == {"idle", "leave", "add", "remove", "rest", "users", "pubs", "lookup", "found"}

\* rid, uid, mid, val: the request's parameters, None when it has none;
\* todo: keys its loop has still to visit; out: what it has found.
Call == [at : Places, rid : Rids \cup {None}, uid : Uids \cup {None},
         mid : Mids \cup {None}, val : Values,
         todo : SUBSET AllKeys, out : SUBSET (AllKeys \X Values)]

Idle == [at |-> "idle", rid |-> None, uid |-> None, mid |-> None, val |-> None,
         todo |-> {}, out |-> {}]

TypeOK ==
    /\ val \in [AllKeys -> Values]
    /\ ttl \in [AllKeys -> 0..Long]
    /\ \A k \in AllKeys : ttl[k] = 0 <=> val[k] = None
    /\ req \in [Reqs -> Call]
    /\ used \subseteq Rids \X Mids
    /\ faults \in 0..MaxFaults

Init ==
    /\ val = [k \in AllKeys |-> None] /\ ttl = [k \in AllKeys |-> 0]
    /\ req = [g \in Reqs |-> Idle]
    /\ used = {} /\ faults = 0

-----------------------------------------------------------------------------
(* Redis.                                                                  *)

Present == {k \in AllKeys : ttl[k] > 0}

Set(k, v, t) == val' = [val EXCEPT ![k] = v] /\ ttl' = [ttl EXCEPT ![k] = t]

Del(k) == Set(k, None, 0)

\* Mutant of Expire: it creates the key.
ExpireCreates(k, t) == ttl' = [ttl EXCEPT ![k] = t] /\ UNCHANGED val

\* EXPIRE of a key that does not exist answers 0, which is no error.
Expire(k, t) ==
    /\ ttl' = [ttl EXCEPT ![k] = IF k \in Present THEN t ELSE 0]
    /\ UNCHANGED val

Unchanged == UNCHANGED <<val, ttl>>

Works == UNCHANGED faults
Fails == faults < MaxFaults /\ faults' = faults + 1

\* A write is applied, or fails and is applied or not.
Write(effect) ==
    \/ Works /\ effect
    \/ Fails /\ (effect \/ Unchanged)

\* A read answers, or fails and seems to find nothing.
Read == Works \/ Fails

ReadKeys(match) == IF faults' = faults THEN match \cap Present ELSE {}
ReadVal(k) == IF faults' = faults THEN val[k] ELSE None

-----------------------------------------------------------------------------
(* Goroutines.                                                             *)

At(g, place) == req[g].at = place

Goto(g, call) == req' = [req EXCEPT ![g] = call]

\* accept, reject or a recovered panic.
Reply(g) == Goto(g, Idle)

Start(place, r, u, m, keys) ==
    [Idle EXCEPT !.at = place, !.rid = r, !.uid = u, !.mid = m, !.todo = keys]

-----------------------------------------------------------------------------
(* Requests of one command: clientJoin and keepalive.  ok: no error.       *)

Join(r, u, s, ok) ==
    LET set == Set(GetUserNodeKey(r, u), s, Short) IN
    /\ IF ok THEN Works /\ set ELSE Fails /\ (set \/ Unchanged)
    /\ UNCHANGED <<req, used>>

\* Mutant of Keepalive: it answers and does nothing.
KeepaliveIdle(r, u, ok) == ok /\ Works /\ Unchanged /\ UNCHANGED <<req, used>>

Keepalive(r, u, ok) ==
    LET expire == Expire(GetUserNodeKey(r, u), Short) IN
    /\ IF ok THEN Works /\ expire ELSE Fails /\ (expire \/ Unchanged)
    /\ UNCHANGED <<req, used>>

(* clientLeave: Get, then Del of a key that was found; its error is ignored. *)

Leave(g, r, u) ==
    LET k == GetUserNodeKey(r, u) IN
    /\ At(g, "idle") /\ Read
    /\ IF ReadVal(k) # None THEN Goto(g, Start("leave", r, u, None, {})) ELSE UNCHANGED req
    /\ UNCHANGED <<val, ttl, used>>

LeaveDel(g) ==
    LET k == GetUserNodeKey(req[g].rid, req[g].uid) IN
    /\ At(g, "leave")
    /\ Write(Del(k))
    /\ Reply(g)
    /\ UNCHANGED used

-----------------------------------------------------------------------------
(* streamAdd: Set of the media key, then of the pub key.  A mid is new, so  *)
(* it is called once for each.                                              *)

StreamAdd(g, r, m, s) ==
    LET set == Set(GetMediaInfoKey(r, GetUIDFromMID(m), m), Minfo, Long) IN
    /\ At(g, "idle") /\ <<r, m>> \notin used
    /\ used' = used \cup {<<r, m>>}
    /\ \/ Works /\ set /\ Goto(g, [Start("add", r, GetUIDFromMID(m), m, {}) EXCEPT !.val = s])
       \/ Fails /\ (set \/ Unchanged) /\ UNCHANGED req

StreamAddPub(g) ==
    LET c == req[g]
        set == Set(GetMediaPubKey(c.rid, c.uid, c.mid), c.val, Long) IN
    /\ At(g, "add")
    /\ Write(set)
    /\ Reply(g)
    /\ UNCHANGED used

-----------------------------------------------------------------------------
(* streamRemove: two rounds of Keys and Dels, "remove" and "rest".          *)

\* The keys of the two rounds.  With a mid, both rounds ask for its pub key.
\* Without one, for all streams of the user, under "/media/rid/" + rid and
\* "/pub/rid/" + rid.
RemoveKeys(r, u, m) ==
    IF m # None THEN {GetMediaPubKey(r, u, m)}
    ELSE {k \in AllKeys : Under(<< << >>, <<"media">>, <<"rid">>, <<r>>, <<"uid">>, <<u>>, <<"mid">> >>, k)}

RestKeys(r, u, m) ==
    IF m # None THEN {GetMediaPubKey(r, u, m)}
    ELSE {k \in AllKeys : Under(<< << >>, <<"pub">>, <<"rid">>, <<r>>, <<"uid">>, <<u>>, <<"mid">> >>, k)}

\* Mutant of StreamRemove: a mid is known before its streamAdd has ended.
StreamRemoveEarly(g, r, u, m) ==
    /\ At(g, "idle")
    /\ m # None => <<r, m>> \in used
    /\ Read
    /\ Goto(g, Start("remove", r, u, m, ReadKeys(RemoveKeys(r, u, m))))
    /\ UNCHANGED <<val, ttl, used>>

\* Of one stream, known from the answer to its publish on, and with the uid of whoever
\* unpublishes it (handler.go:303); or, when the user leaves or is found gone, of all
\* streams of the user (m = None).
StreamRemove(g, r, u, m) ==
    /\ At(g, "idle")
    /\ m # None => <<r, m>> \in used /\ \A h \in Reqs : ~(At(h, "add") /\ req[h].mid = m)
    /\ Read
    /\ Goto(g, Start("remove", r, u, m, ReadKeys(RemoveKeys(r, u, m))))
    /\ UNCHANGED <<val, ttl, used>>

RemoveDel(g, k) ==
    /\ At(g, "remove") /\ k \in req[g].todo
    /\ Write(Del(k))
    /\ Goto(g, [req[g] EXCEPT !.todo = @ \ {k}])
    /\ UNCHANGED used

RemoveRest(g) ==
    LET c == req[g] IN
    /\ At(g, "remove") /\ c.todo = {}
    /\ Read
    /\ Goto(g, [c EXCEPT !.at = "rest", !.todo = ReadKeys(RestKeys(c.rid, c.uid, c.mid))])
    /\ UNCHANGED <<val, ttl, used>>

\* The loop reads arr[7] of a key, which a pub key does not have, before its Del:
\* a recovered panic, without an answer.
RestPanic(g, k) ==
    /\ At(g, "rest") /\ k \in req[g].todo /\ ~HasPiece(k, 7)
    /\ Reply(g)
    /\ UNCHANGED <<val, ttl, used, faults>>

RemoveDone(g) ==
    /\ At(g, "rest") /\ req[g].todo = {}
    /\ Reply(g)
    /\ UNCHANGED <<val, ttl, used, faults>>

-----------------------------------------------------------------------------
(* Lookups: getUserOnlineByUid and getSfuByMid ask Keys, then Get.          *)

LookupKeys == NodeKeys \cup PubKeys

Lookup(g, k) ==
    /\ At(g, "idle") /\ k \in LookupKeys
    /\ Read
    /\ IF ReadKeys({k}) # {} THEN Goto(g, Start("lookup", None, None, None, {k}))
                             ELSE UNCHANGED req
    /\ UNCHANGED <<val, ttl, used>>

\* Mutant of LookupGet: its key has another prefix, under which nothing is stored.
LookupGetNone(g, k) ==
    /\ At(g, "lookup") /\ k \in req[g].todo
    /\ Read
    /\ Goto(g, [req[g] EXCEPT !.at = "found", !.todo = {}, !.out = {<<k, None>>}])
    /\ UNCHANGED <<val, ttl, used>>

LookupGet(g, k) ==
    /\ At(g, "lookup") /\ k \in req[g].todo
    /\ Read
    /\ Goto(g, [req[g] EXCEPT !.at = "found", !.todo = {}, !.out = {<<k, ReadVal(k)>>}])
    /\ UNCHANGED <<val, ttl, used>>

(* getRoomUsers: Keys of the room, then Get of each that is not the asker's. *)

UsersKeys(r) == {k \in AllKeys : Under(<< << >>, <<"node">>, <<"rid">>, <<r>>, <<"uid">> >>, k)}

GetRoomUsers(g, r, u) ==
    /\ At(g, "idle")
    /\ Read
    /\ Goto(g, Start("users", r, u, None, ReadKeys(UsersKeys(r))))
    /\ UNCHANGED <<val, ttl, used>>

\* Mutant of UsersSkip: break for continue.
UsersBreak(g, k) ==
    /\ At(g, "users") /\ k \in req[g].todo /\ Split(k)[6] = <<req[g].uid>>
    /\ Goto(g, [req[g] EXCEPT !.todo = {}])
    /\ UNCHANGED <<val, ttl, used, faults>>

\* arr[5] of the key is the user.
UsersSkip(g, k) ==
    /\ At(g, "users") /\ k \in req[g].todo /\ Split(k)[6] = <<req[g].uid>>
    /\ Goto(g, [req[g] EXCEPT !.todo = @ \ {k}])
    /\ UNCHANGED <<val, ttl, used, faults>>

\* Mutant of UsersGet: the asker is listed too.
UsersGetAll(g, k) ==
    /\ At(g, "users") /\ k \in req[g].todo
    /\ Read
    /\ Goto(g, [req[g] EXCEPT !.todo = @ \ {k}, !.out = @ \cup {<<k, ReadVal(k)>>}])
    /\ UNCHANGED <<val, ttl, used>>

UsersGet(g, k) ==
    /\ At(g, "users") /\ k \in req[g].todo /\ Split(k)[6] # <<req[g].uid>>
    /\ Read
    /\ Goto(g, [req[g] EXCEPT !.todo = @ \ {k}, !.out = @ \cup {<<k, ReadVal(k)>>}])
    /\ UNCHANGED <<val, ttl, used>>

(* getRoomPubs: Keys under "/pub/rid/" + rid.  The loop over them reads       *)
(* arr[7] first, so a key with fewer pieces ends it with a recovered panic.   *)

PubsKeys(r) == {k \in AllKeys : Under(<< << >>, <<"pub">>, <<"rid">>, <<r>>, <<"uid">> >>, k)}

GetRoomPubs(g, r, u) ==
    /\ At(g, "idle")
    /\ Read
    /\ LET keys == ReadKeys(PubsKeys(r)) IN
        IF \A k \in keys : HasPiece(k, 7)
        THEN Goto(g, Start("pubs", r, u, None, {}))
        ELSE UNCHANGED req
    /\ UNCHANGED <<val, ttl, used>>

\* The answers to lookups and lists are sent.
Answer(g) ==
    /\ req[g].at \in {"users", "pubs", "found"} /\ req[g].todo = {}
    /\ Reply(g)
    /\ UNCHANGED <<val, ttl, used, faults>>

-----------------------------------------------------------------------------
\* Mutant of Tick: a key that has expired stays one tick.
TickLate ==
    /\ ttl' = [k \in AllKeys |-> IF ttl[k] = 0 THEN 0 ELSE ttl[k] - 1]
    /\ val' = [k \in AllKeys |-> IF ttl[k] = 0 THEN None ELSE val[k]]
    /\ UNCHANGED <<req, used, faults>>

\* Time passes for every key.
Tick ==
    /\ ttl' = [k \in AllKeys |-> IF ttl[k] = 0 THEN 0 ELSE ttl[k] - 1]
    /\ val' = [k \in AllKeys |-> IF ttl[k] <= 1 THEN None ELSE val[k]]
    /\ UNCHANGED <<req, used, faults>>

Request(g, r) ==
    \/ \E u \in Uids : Leave(g, r, u) \/ GetRoomUsers(g, r, u) \/ GetRoomPubs(g, r, u)
    \/ \E u \in Uids : \E m \in Mids \cup {None} : StreamRemove(g, r, u, m)
    \/ \E m \in Mids, s \in Sfus : StreamAdd(g, r, m, s)

Step(g) ==
    \/ LeaveDel(g) \/ StreamAddPub(g) \/ RemoveRest(g) \/ RemoveDone(g) \/ Answer(g)
    \/ \E k \in AllKeys : RemoveDel(g, k) \/ RestPanic(g, k) \/ LookupGet(g, k)
                            \/ UsersSkip(g, k) \/ UsersGet(g, k)

Next ==
    \/ \E r \in Rids, u \in Uids, ok \in BOOLEAN :
        Keepalive(r, u, ok) \/ \E s \in Signals : Join(r, u, s, ok)
    \/ \E g \in Reqs : Step(g) \/ \E r \in Rids : Request(g, r)
    \/ \E g \in Reqs, k \in AllKeys : Lookup(g, k)
    \/ Tick

Spec == Init /\ [][Next]_vars

=============================================================================
