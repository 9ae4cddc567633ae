-------------------------- MODULE RegisterPromises --------------------------
(***************************************************************************)
(* What the register service promises its callers, the signal servers.     *)
(* The promises speak of what was stored while a request ran and of how    *)
(* long ago a user joined, so this module runs Register with history       *)
(* variables beside it; they restrict none of its steps.                   *)
(***************************************************************************)
EXTENDS Register

VARIABLES
    seen,   \* for each request: the <<key, value>> pairs stored since it began
    kept,   \* for each request: the keys present ever since it began; none
            \* once a Redis command has failed meanwhile
    sound,  \* for each request: no Redis command has failed since it began
    age,    \* for each user's key: ticks since a join or a timely keepalive was
            \* accepted; Short when nothing is promised
    left,   \* the keys of the users that left, and have not joined again
    gone    \* <<room, mid>> of the streams whose removal for their publisher was answered

history == <<seen, kept, sound, age, left, gone>>
allVars == <<vars, history>>

Stored == {<<k, val[k]>> : k \in Present}

HInit ==
    /\ Init
    /\ seen = [g \in Reqs |-> {}] /\ kept = [g \in Reqs |-> {}]
    /\ sound = [g \in Reqs |-> TRUE]
    /\ age = [k \in NodeKeys |-> Short]
    /\ left = {} /\ gone = {}

\* Reading: the places whose answers are watched.
Reading == {"users", "pubs", "lookup", "found"}

\* What every step does to the requests in flight.
Watch ==
    /\ seen' = [g \in Reqs |->
         IF req'[g].at \notin Reading THEN {}
         ELSE (IF At(g, "idle") THEN Stored ELSE seen[g]) \cup Stored']
    /\ kept' = [g \in Reqs |->
         IF req'[g].at \notin Reading \/ faults' # faults THEN {}
         ELSE (IF At(g, "idle") THEN Present ELSE kept[g]) \cap Present']
    /\ sound' = [g \in Reqs |->
         req'[g].at = "idle" \/ (sound[g] /\ faults' = faults)]

HJoin(r, u, s, ok) ==
    LET k == GetUserNodeKey(r, u) IN
    /\ Join(r, u, s, ok) /\ Watch
    /\ age' = [age EXCEPT ![k] = IF ok THEN 0 ELSE @]
    /\ left' = left \ {k}
    /\ UNCHANGED gone

\* Only a keepalive in time renews the promise.
HKeepalive(r, u, ok) ==
    LET k == GetUserNodeKey(r, u) IN
    /\ Keepalive(r, u, ok) /\ Watch
    /\ age' = [age EXCEPT ![k] = IF ok /\ @ < Short THEN 0 ELSE @]
    /\ UNCHANGED <<left, gone>>

HLeave(g, r, u) ==
    LET k == GetUserNodeKey(r, u) IN
    /\ Leave(g, r, u) /\ Watch
    /\ left' = IF req' = req /\ faults' = faults THEN left \cup {k} ELSE left
    /\ UNCHANGED <<age, gone>>

HLeaveDel(g) ==
    LET k == GetUserNodeKey(req[g].rid, req[g].uid) IN
    /\ LeaveDel(g) /\ Watch
    /\ left' = IF faults' = faults THEN left \cup {k} ELSE left
    /\ age' = [age EXCEPT ![k] = Short]
    /\ UNCHANGED gone

HRemoveDone(g) ==
    /\ RemoveDone(g) /\ Watch
    /\ gone' = IF req[g].mid # None /\ req[g].uid = GetUIDFromMID(req[g].mid) /\ sound[g]
               THEN gone \cup {<<req[g].rid, req[g].mid>>} ELSE gone
    /\ UNCHANGED <<age, left>>

HTick ==
    /\ Tick /\ Watch
    /\ age' = [k \in NodeKeys |-> IF age[k] < Short THEN age[k] + 1 ELSE Short]
    /\ UNCHANGED <<left, gone>>

\* The other steps.
HOther ==
    /\ \/ \E g \in Reqs :
            \/ StreamAddPub(g) \/ RemoveRest(g) \/ Answer(g)
            \/ \E k \in AllKeys : RemoveDel(g, k) \/ RestPanic(g, k) \/ Lookup(g, k)
                                    \/ LookupGet(g, k) \/ UsersSkip(g, k) \/ UsersGet(g, k)
       \/ \E g \in Reqs, r \in Rids :
            \/ \E u \in Uids : GetRoomUsers(g, r, u) \/ GetRoomPubs(g, r, u)
            \/ \E u \in Uids : \E m \in Mids \cup {None} : StreamRemove(g, r, u, m)
            \/ \E m \in Mids, s \in Sfus : StreamAdd(g, r, m, s)
    /\ Watch /\ UNCHANGED <<age, left, gone>>

HNext ==
    \/ \E r \in Rids, u \in Uids, ok \in BOOLEAN :
        HKeepalive(r, u, ok) \/ \E s \in Signals : HJoin(r, u, s, ok)
    \/ \E g \in Reqs, r \in Rids, u \in Uids : HLeave(g, r, u)
    \/ \E g \in Reqs : HLeaveDel(g) \/ HRemoveDone(g)
    \/ HTick \/ HOther

HSpec == HInit /\ [][HNext]_allVars

-----------------------------------------------------------------------------
\* A user whose join was accepted, who was kept alive in time ever since, and for
\* whom no leave has reached the store since then, is registered: neither a
\* failed command nor another request drops it before its time.
KeptAliveStays == \A k \in NodeKeys : age[k] < Short => k \in Present

\* A user who left is not registered until a new join, whatever keepalives and
\* queries of before are still running.
LeftStaysGone == left \cap Present = {}

\* The list of a room's users is complete: a user registered all the while the
\* request ran is in it, but for the asker, when Redis answered.
RoomUsersComplete ==
    \A g \in Reqs : At(g, "users") /\ req[g].todo = {} =>
        \A u \in Uids \ {req[g].uid} :
            GetUserNodeKey(req[g].rid, u) \in kept[g] =>
                \E v \in Values \ {None} : <<GetUserNodeKey(req[g].rid, u), v>> \in req[g].out

\* What a list or a lookup answers was true while it ran: every id it names was
\* stored under that key then.  It is empty only if the key went away meanwhile, or
\* Redis failed meanwhile (internal.go:234, 253); never for a key that was there
\* throughout.  A list names users of that room other than the asker.
AnswersWereTrue ==
    \A g \in Reqs : \A p \in req[g].out :
        /\ IF p[2] = None THEN p[1] \notin kept[g] ELSE p \in seen[g]
        /\ At(g, "users") =>
             \E u \in Uids \ {req[g].uid} : p[1] = GetUserNodeKey(req[g].rid, u)

\* A stream whose removal was answered to its publisher, with every command of it done,
\* has no SFU, whatever removals run for other clients.
RemovedHasNoSfu ==
    \A p \in gone : GetMediaPubKey(p[1], GetUIDFromMID(p[2]), p[2]) \notin Present

=============================================================================
