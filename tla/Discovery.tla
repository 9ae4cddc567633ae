------------------------------ MODULE Discovery ------------------------------
(***************************************************************************)
(* How a service is found (pkg/etcd, and the node table in server/signal): *)
(* the process of a service puts a key with a lease into etcd and keeps    *)
(* the lease alive; the signal server lists the keys, then watches them,   *)
(* and calls the services it has in its table.                             *)
(*                                                                         *)
(* One service and one signal server: keys of different services do not    *)
(* touch each other, and a watcher changes nothing.  Each registration     *)
(* runs in a goroutine, a task here: keepRegistered in the task Keeper,    *)
(* every updateRegistered in a task of its own.  Each call of etcd is a    *)
(* step.  ServiceNode.Close is never called while the service runs.        *)
(***************************************************************************)
EXTENDS Naturals, Sequences

CONSTANTS
    Updaters,   \* tasks that run updateRegistered (bound on those at work at once)
    Keeper,     \* the task that runs keepRegistered
    Info,       \* a node's fields, as a map
    Nil,        \* a map that is nil
    MaxLeases,  \* leases that exist at once (bound)
    MaxFaults,  \* calls of etcd that fail (bound)
    MaxLapses,  \* leases lost although the process runs (bound)
    MaxCrashes, \* crashes of the service (bound)
    MaxEvents   \* events the watcher may lag behind when an update starts (bound)

ASSUME TasksAssumption == Keeper \notin Updaters /\ Info # Nil
ASSUME LimitsAssumption == MaxLeases \in Nat /\ MaxFaults \in Nat /\ MaxLapses \in Nat
                           /\ MaxCrashes \in Nat /\ MaxEvents \in Nat

VARIABLES
    key,        \* etcd: the lease of the service's key; NoLease; or Absent
    live,       \* etcd: leases that have not expired
    up,         \* the service runs
    liveKeyID,  \* its Etcd.liveKeyID for the key; NoLease if there is none
    kept,       \* leases its client keeps alive
    pc,         \* where each task is
    own,        \* the lease each task holds
    watching,   \* the watcher: "list", "listed", "watch" or "off"
    events,     \* what etcd has sent it
    nodes,      \* the service is in ServiceWatcher.nodes
    rpcs,       \* the signal server has a Requestor for it
    faults, crashes, lapses,
    lapsed,     \* history: a lease this process held was lost
    early       \* history: an Update has run before a Keep of its process ended

etcdVars    == <<key, live>>
serviceVars == <<up, liveKeyID, kept, pc, own>>
watchVars   == <<watching, events, nodes, rpcs>>
boundVars   == <<faults, crashes, lapses, lapsed, early>>
vars == <<etcdVars, serviceVars, watchVars, boundVars>>

Tasks   == Updaters \cup {Keeper}
NoLease == 0
Absent  == MaxLeases + 1
Leases  == 1..MaxLeases

TypeOK ==
    /\ key \in Leases \cup {NoLease, Absent} /\ live \subseteq Leases
    /\ up \in BOOLEAN /\ liveKeyID \in Leases \cup {NoLease} /\ kept \subseteq live
    /\ pc \in [Tasks -> {"idle", "grant", "put", "alive", "store", "look", "update", "sleep"}]
    /\ own \in [Tasks -> Leases \cup {NoLease}]
    /\ watching \in {"list", "listed", "watch", "off"} /\ events \in Seq({"put", "delete"})
    /\ nodes \in BOOLEAN /\ rpcs \in BOOLEAN
    /\ faults \in 0..MaxFaults /\ crashes \in 0..MaxCrashes /\ lapses \in 0..MaxLapses
    /\ lapsed \in BOOLEAN /\ early \in BOOLEAN

Started(t) == IF t = Keeper THEN "grant" ELSE "idle"

\* The signal server has made its watcher.
NewServiceWatcher == watching = "list" /\ events = <<>> /\ nodes = FALSE /\ rpcs = FALSE

\* The service has been started: NewServiceNode and RegisterNode.
Init ==
    /\ NewServiceWatcher
    /\ key = Absent /\ live = {}
    /\ up = TRUE /\ liveKeyID = NoLease /\ kept = {}
    /\ pc = [t \in Tasks |-> Started(t)] /\ own = [t \in Tasks |-> NoLease]
    /\ faults = 0 /\ crashes = 0 /\ lapses = 0 /\ lapsed = FALSE /\ early = FALSE

-----------------------------------------------------------------------------
(* What a key holds.  A marshalled map is represented by the map.          *)

Empty == "empty"

\* A map that is not nil is not marshalled.
Encode(data) == IF data = Nil THEN data ELSE Empty

Decode(str) == IF str # Empty THEN str ELSE Nil

NodeValue == Encode(Info)

-----------------------------------------------------------------------------
(* etcd.                                                                   *)

\* The watcher is told of every change once its watch has begun.
Tell(e) == events' = IF watching = "watch" THEN Append(events, e) ELSE events

\* Leases of calls that have not got as far as KeepAlive.
Pending == {own[t] : t \in {u \in Tasks : pc[u] \in {"put", "alive"}}}

\* A lease expires and takes the key with it if it holds it.  One the process holds
\* expires only if the two do not reach each other for as long as it lasts.
Expire(l) ==
    /\ l \in live
    /\ IF l \in kept \cup Pending
       THEN lapses < MaxLapses /\ lapses' = lapses + 1 /\ lapsed' = TRUE
       ELSE UNCHANGED <<lapses, lapsed>>
    /\ live' = live \ {l} /\ kept' = kept \ {l}
    /\ IF key = l THEN key' = Absent /\ Tell("delete") ELSE UNCHANGED <<key, events>>
    /\ UNCHANGED <<up, liveKeyID, pc, own, watching, nodes, rpcs, faults, crashes, early>>

-----------------------------------------------------------------------------
(* Etcd.Keep, called by keepRegistered and by Update.                      *)

Goto(t, place) == pc' = [pc EXCEPT ![t] = place]

\* The call of t has ended with l in its hands.
Return(t, place, l) == Goto(t, place) /\ own' = [own EXCEPT ![t] = l]

Spare == Leases \ (live \cup {key, liveKeyID} \cup {own[t] : t \in Tasks})

Grant(t) ==
    /\ up /\ pc[t] = "grant"
    /\ \E l \in Spare :
        /\ \A k \in Spare : l <= k
        /\ live' = live \cup {l}
        /\ Return(t, "put", l)
    /\ UNCHANGED <<key, up, liveKeyID, kept, watchVars, boundVars>>

Put(t) ==
    /\ up /\ pc[t] = "put" /\ own[t] \in live
    /\ key' = own[t] /\ Tell("put")
    /\ Goto(t, "alive")
    /\ UNCHANGED <<live, up, liveKeyID, kept, own, watching, nodes, rpcs, boundVars>>

\* Mutant of KeepAlive: a lease that has expired counts as kept.
KeepAliveLost(t) ==
    /\ up /\ pc[t] = "alive"
    /\ kept' = kept \cup {own[t]}
    /\ Goto(t, "store")
    /\ UNCHANGED <<etcdVars, up, liveKeyID, own, watchVars, boundVars>>

\* It does not fail if the lease has expired: the channel is closed, and the goroutine
\* that reads it does not look.
KeepAlive(t) ==
    /\ up /\ pc[t] = "alive"
    /\ kept' = kept \cup ({own[t]} \cap live)
    /\ Goto(t, "store")
    /\ UNCHANGED <<etcdVars, up, liveKeyID, own, watchVars, boundVars>>

\* The end of Keep, of Update that called it, and of the task.
Store(t) ==
    /\ up /\ pc[t] = "store"
    /\ liveKeyID' = own[t]
    /\ Return(t, "idle", NoLease)
    /\ UNCHANGED <<etcdVars, up, kept, watchVars, boundVars>>

\* A call fails.
Fault == faults < MaxFaults /\ faults' = faults + 1

\* Put fails in any case if the lease has expired; if not it may have been done.
FailedPut(t) ==
    IF own[t] \in live \cup {NoLease}
    THEN /\ Fault
         /\ UNCHANGED <<key, events>> \/ (key' = own[t] /\ Tell("put"))
    ELSE UNCHANGED <<key, events, faults>>

\* Mutant of KeepFails: the task ends with Keep's error.
KeepFailsEnd(t) ==
    /\ up /\ pc[t] \in {"grant", "put", "alive"}
    /\ IF pc[t] = "put" THEN FailedPut(t) ELSE Fault /\ UNCHANGED <<key, events>>
    /\ Return(t, "idle", NoLease)
    /\ UNCHANGED <<live, up, liveKeyID, kept, watching, nodes, rpcs,
                   crashes, lapses, lapsed, early>>

KeepFails(t) ==
    /\ up /\ pc[t] \in {"grant", "put", "alive"}
    /\ IF pc[t] = "put" THEN FailedPut(t) ELSE Fault /\ UNCHANGED <<key, events>>
    /\ Return(t, "sleep", NoLease)
    /\ UNCHANGED <<live, up, liveKeyID, kept, watching, nodes, rpcs,
                   crashes, lapses, lapsed, early>>

\* keepRegistered and updateRegistered try again.
Awake(t) ==
    /\ up /\ pc[t] = "sleep"
    /\ Goto(t, IF t = Keeper THEN "grant" ELSE "look")
    /\ UNCHANGED <<etcdVars, up, liveKeyID, kept, own, watchVars, boundVars>>

-----------------------------------------------------------------------------
(* Etcd.Update, called by updateRegistered.                                *)

\* The payload has changed.
UpdateNodePayload(u) ==
    /\ up /\ pc[u] = "idle" /\ Len(events) <= MaxEvents
    /\ Goto(u, "look")
    /\ UNCHANGED <<etcdVars, up, liveKeyID, kept, own, watchVars, boundVars>>

Look(u) ==
    /\ up /\ pc[u] = "look"
    /\ Return(u, "update", liveKeyID)
    /\ early' = (early \/ liveKeyID = NoLease)
    /\ UNCHANGED <<etcdVars, up, liveKeyID, kept, watchVars, faults, crashes, lapses, lapsed>>

\* Mutant of UpdatePut: the lease is left out.
UpdatePutBare(u) ==
    /\ up /\ pc[u] = "update"
    /\ key' = NoLease /\ Tell("put")
    /\ Return(u, "idle", NoLease)
    /\ UNCHANGED <<live, up, liveKeyID, kept, watching, nodes, rpcs, boundVars>>

\* A key put without a lease, because the map has none, stays.
UpdatePut(u) ==
    /\ up /\ pc[u] = "update" /\ own[u] \in live \cup {NoLease}
    /\ key' = own[u] /\ Tell("put")
    /\ Return(u, "idle", NoLease)
    /\ UNCHANGED <<live, up, liveKeyID, kept, watching, nodes, rpcs, boundVars>>

\* Mutant of UpdateFails: the error is returned without a Keep, and ignored.
UpdateFailsEnd(u) ==
    /\ up /\ pc[u] = "update"
    /\ FailedPut(u)
    /\ Return(u, "idle", NoLease)
    /\ UNCHANGED <<live, up, liveKeyID, kept, watching, nodes, rpcs,
                   crashes, lapses, lapsed, early>>

\* The put fails: Keep is called.
UpdateFails(u) ==
    /\ up /\ pc[u] = "update"
    /\ FailedPut(u)
    /\ Return(u, "grant", NoLease)
    /\ UNCHANGED <<live, up, liveKeyID, kept, watching, nodes, rpcs,
                   crashes, lapses, lapsed, early>>

-----------------------------------------------------------------------------
(* The process of the service ends, and is started again.                  *)

Crash ==
    /\ up /\ crashes < MaxCrashes
    /\ up' = FALSE /\ crashes' = crashes + 1
    /\ kept' = {} /\ liveKeyID' = NoLease
    /\ pc' = [t \in Tasks |-> "idle"] /\ own' = [t \in Tasks |-> NoLease]
    /\ UNCHANGED <<etcdVars, watchVars, faults, lapses, lapsed, early>>

Restart ==
    /\ ~up
    /\ up' = TRUE /\ lapsed' = FALSE
    /\ pc' = [t \in Tasks |-> Started(t)]
    /\ UNCHANGED <<etcdVars, liveKeyID, kept, own, watchVars, faults, crashes, lapses, early>>

-----------------------------------------------------------------------------
(* ServiceWatcher, and the callback of the signal server.                  *)

\* The value of a key names its node.
Seen == Decode(NodeValue) # Nil

\* A Requestor is made for a node that is up, and deleted for one that is down.
watchServiceCallBack(isUp) == rpcs' = isUp

\* The table finds the service by its name, or by its id.
GetNodes    == nodes
GetNodeByID == nodes

ServerUp   == nodes' = TRUE /\ watchServiceCallBack(TRUE)
ServerDown == nodes' = FALSE /\ watchServiceCallBack(FALSE)

GetServiceNodes ==
    /\ watching = "list"
    /\ watching' = "listed"
    /\ IF key # Absent /\ Seen THEN ServerUp ELSE UNCHANGED <<nodes, rpcs>>
    /\ UNCHANGED <<etcdVars, serviceVars, events, boundVars>>

\* If the listing fails its nil answer is read, which ends the signal server.
ListFails ==
    /\ watching = "list" /\ Fault
    /\ watching' = "off"
    /\ UNCHANGED <<etcdVars, serviceVars, events, nodes, rpcs, crashes, lapses, lapsed, early>>

\* What changed since the listing is not told.
Watch ==
    /\ watching = "listed"
    /\ watching' = "watch"
    /\ UNCHANGED <<etcdVars, serviceVars, events, nodes, rpcs, boundVars>>

WatchNode ==
    /\ watching = "watch" /\ events # <<>>
    /\ events' = Tail(events)
    /\ IF Head(events) = "put" /\ Seen THEN ServerUp
       ELSE IF Head(events) = "delete" /\ GetNodeByID THEN ServerDown
       ELSE UNCHANGED <<nodes, rpcs>>
    /\ UNCHANGED <<etcdVars, serviceVars, watching, boundVars>>

\* The signal server has a Requestor of a service its table finds.
GetRPCHandlerByServiceName == GetNodes /\ rpcs

-----------------------------------------------------------------------------
TaskStep(t) ==
    Grant(t) \/ Put(t) \/ KeepAlive(t) \/ Store(t) \/ KeepFails(t) \/ Awake(t)
UpdateStep(u) == Look(u) \/ UpdatePut(u) \/ UpdateFails(u)
WatchStep == GetServiceNodes \/ Watch \/ WatchNode

Next ==
    \/ WatchStep \/ ListFails \/ Crash \/ Restart
    \/ \E l \in Leases : Expire(l)
    \/ \E t \in Tasks : TaskStep(t)
    \/ \E u \in Updaters : UpdateNodePayload(u) \/ UpdateStep(u)

Spec == Init /\ [][Next]_vars

(***************************************************************************)
(* Fairness.  A goroutine goes on, a lease that nobody keeps expires.  No  *)
(* payload needs to change, and nobody needs to restart the service.       *)
(***************************************************************************)
Fairness ==
    /\ WF_vars(WatchStep)
    /\ \A t \in Tasks : WF_vars(TaskStep(t))
    /\ \A u \in Updaters : WF_vars(UpdateStep(u))
    /\ \A l \in Leases : WF_vars(l \notin kept \cup Pending /\ Expire(l))

FairSpec == Spec /\ Fairness

-----------------------------------------------------------------------------
\* A service whose registration goroutines have all returned is registered, under
\* a lease that is kept or under none, unless a lease was lost: whatever calls
\* failed halfway, and however Keep and several Updates ran over each other, they do
\* not leave the key to a lease nobody keeps.
RegisteredAtRest ==
    up /\ ~lapsed /\ (\A t \in Tasks : pc[t] = "idle") => key = NoLease \/ key \in kept

\* A registration or an update that runs gets the service registered, also after the
\* lease was lost and after calls that failed.
Registers ==
    \A t \in Tasks : (up /\ pc[t] \in {"grant", "look"}) ~> (~up \/ key # Absent)

\* The key of a service that has crashed disappears, whichever of its puts were
\* under way, unless an Update put it without a lease before the first Keep ended.
CrashedNodeLeaves == (~up /\ ~early) ~> (up \/ key = Absent)

=============================================================================
