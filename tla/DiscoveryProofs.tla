--------------------------- MODULE DiscoveryProofs ---------------------------
(***************************************************************************)
(* Proofs about Discovery, for any number of tasks, leases, failing calls, *)
(* lost leases and crashes.                                                *)
(***************************************************************************)
EXTENDS Discovery, TLAPS

\* The places of a task that has a put before it.
Ahead == {"grant", "put", "look", "update", "sleep"}

\* What the tasks and the map hold of leases while none was lost.
HoldsOK ==
    /\ liveKeyID \in kept \cup {NoLease}
    /\ \A t \in Tasks :
        /\ pc[t] \in {"put", "alive"} => own[t] \in live
        /\ pc[t] = "store" => own[t] \in kept
        /\ pc[t] = "update" => own[t] \in kept \cup {NoLease}

\* The key is safe, or a task that has not returned will put it, or keep its lease.
KeyOK ==
    \/ key \in kept \cup {NoLease}
    \/ \E t \in Tasks : pc[t] \in Ahead \/ (pc[t] = "alive" /\ own[t] = key)

\* A process that does not run holds nothing.
DownOK == ~up => liveKeyID = NoLease /\ kept = {} /\ \A t \in Tasks : pc[t] = "idle"

RegInv == TypeOK /\ DownOK /\ (up /\ ~lapsed => HoldsOK /\ KeyOK)

USE DEF NoLease, Absent, Leases

\* A service that starts has its Keep before it.
LEMMA InitReg == Init => RegInv
  <1> SUFFICES ASSUME Init PROVE RegInv
    OBVIOUS
  <1> USE TasksAssumption, LimitsAssumption DEF Init, NewServiceWatcher, Started, Tasks
  <1>1. TypeOK
    <2>1. pc \in [Tasks -> {"idle", "grant", "put", "alive", "store", "look", "update", "sleep"}]
      OBVIOUS
    <2>2. /\ faults \in 0..MaxFaults /\ crashes \in 0..MaxCrashes
          /\ lapses \in 0..MaxLapses
      OBVIOUS
    <2>3. events \in Seq({"put", "delete"})
      OBVIOUS
    <2> QED
      BY <2>1, <2>2, <2>3 DEF TypeOK
  <1>2. DownOK /\ HoldsOK
    BY DEF DownOK, HoldsOK
  <1>3. KeyOK
    BY DEF KeyOK, Ahead
  <1> QED
    BY <1>1, <1>2, <1>3 DEF RegInv

\* What Tell does to the events.
LEMMA TellTyped ==
    ASSUME TypeOK, NEW e \in {"put", "delete"}, Tell(e)
    PROVE  events' \in Seq({"put", "delete"})
  BY DEF TypeOK, Tell

\* A failed put changes the key, if at all, to the lease in the task's hands.
LEMMA FailedPutTyped ==
    ASSUME TypeOK, NEW t \in Tasks, FailedPut(t)
    PROVE  /\ key' \in {key, own[t]}
           /\ events' \in Seq({"put", "delete"})
           /\ faults' \in 0..MaxFaults
  BY TellTyped, LimitsAssumption DEF FailedPut, Fault, TypeOK

\* The steps of Keep.
LEMMA KeepKeeps ==
    ASSUME RegInv, NEW t \in Tasks, TaskStep(t)
    PROVE  RegInv'
  <1> USE TasksAssumption, LimitsAssumption
       DEF RegInv, TypeOK, DownOK, HoldsOK, KeyOK, Ahead, Goto, Return,
           etcdVars, serviceVars, watchVars, boundVars
  <1>1. CASE Grant(t)
    BY <1>1 DEF Grant, Spare
  <1>2. CASE Put(t)
    <2>1. events' \in Seq({"put", "delete"})
      BY <1>2, TellTyped DEF Put
    <2> QED
      BY <1>2, <2>1 DEF Put
  <1>3. CASE KeepAlive(t)
    BY <1>3 DEF KeepAlive
  <1>4. CASE Store(t)
    BY <1>4 DEF Store
  <1>5. CASE KeepFails(t)
    <2>1. /\ key' \in {key, own[t]}
          /\ events' \in Seq({"put", "delete"})
          /\ faults' \in 0..MaxFaults
      BY <1>5, FailedPutTyped DEF KeepFails, Fault
    <2>2. pc' = [pc EXCEPT ![t] = "sleep"] /\ own' = [own EXCEPT ![t] = NoLease]
          /\ UNCHANGED <<live, up, liveKeyID, kept, watching, nodes, rpcs,
                         crashes, lapses, lapsed, early>>
      BY <1>5 DEF KeepFails
    <2>3. KeyOK' /\ DownOK'
      BY <1>5, <2>2 DEF KeepFails
    <2>4. TypeOK'
      BY <2>1, <2>2
    <2> QED
      BY <2>2, <2>3, <2>4
  <1>6. CASE Awake(t)
    BY <1>6 DEF Awake
  <1> QED
    BY <1>1, <1>2, <1>3, <1>4, <1>5, <1>6 DEF TaskStep

\* The steps of Update.
LEMMA UpdateKeeps ==
    ASSUME RegInv, NEW u \in Updaters, UpdateNodePayload(u) \/ UpdateStep(u)
    PROVE  RegInv'
  <1> USE TasksAssumption, LimitsAssumption
       DEF RegInv, TypeOK, DownOK, HoldsOK, KeyOK, Ahead, Goto, Return, Tasks,
           etcdVars, serviceVars, watchVars, boundVars
  <1>1. CASE UpdateNodePayload(u)
    BY <1>1 DEF UpdateNodePayload
  <1>2. CASE Look(u)
    BY <1>2 DEF Look
  <1>3. CASE UpdatePut(u)
    <2>1. events' \in Seq({"put", "delete"})
      BY <1>3, TellTyped DEF UpdatePut
    <2> QED
      BY <1>3, <2>1 DEF UpdatePut
  <1>4. CASE UpdateFails(u)
    <2>1. /\ key' \in {key, own[u]}
          /\ events' \in Seq({"put", "delete"})
          /\ faults' \in 0..MaxFaults
      BY <1>4, FailedPutTyped DEF UpdateFails
    <2>2. pc' = [pc EXCEPT ![u] = "grant"] /\ own' = [own EXCEPT ![u] = NoLease]
          /\ UNCHANGED <<live, up, liveKeyID, kept, watching, nodes, rpcs,
                         crashes, lapses, lapsed, early>>
      BY <1>4 DEF UpdateFails
    <2>3. KeyOK' /\ DownOK'
      BY <1>4, <2>2 DEF UpdateFails
    <2>4. TypeOK'
      BY <2>1, <2>2
    <2> QED
      BY <2>2, <2>3, <2>4
  <1> QED
    BY <1>1, <1>2, <1>3, <1>4 DEF UpdateStep

\* A lease that expires, and is not held, is not the one a task is about to keep.
LEMMA ExpireKeeps ==
    ASSUME RegInv, NEW l \in Leases, Expire(l)
    PROVE  RegInv'
  <1> USE TasksAssumption, LimitsAssumption DEF RegInv, Expire
  <1>1. events' \in Seq({"put", "delete"})
    BY TellTyped DEF TypeOK
  <1>2. TypeOK'
    <2>1. lapses' \in 0..MaxLapses /\ lapsed' \in BOOLEAN
      <3>1. CASE l \in kept \cup Pending
        BY <3>1 DEF TypeOK
      <3>2. CASE l \notin kept \cup Pending
        BY <3>2 DEF TypeOK
      <3> QED
        BY <3>1, <3>2
    <2>2. key' \in Leases \cup {NoLease, Absent}
      BY DEF TypeOK
    <2>3. live' \subseteq Leases /\ kept' \subseteq live'
      BY DEF TypeOK
    <2> QED
      BY <1>1, <2>1, <2>2, <2>3 DEF TypeOK
  <1>3. DownOK'
    BY DEF DownOK
  <1>4. ASSUME up', ~lapsed' PROVE HoldsOK' /\ KeyOK'
    <2>1. l \notin kept \cup Pending /\ ~lapsed /\ up
      BY <1>4 DEF TypeOK
    <2>2. HoldsOK'
      BY <2>1 DEF HoldsOK, Pending, TypeOK
    <2>3. KeyOK'
      BY <2>1 DEF KeyOK, Pending, TypeOK
    <2> QED
      BY <2>2, <2>3
  <1> QED
    BY <1>2, <1>3, <1>4

\* Crash, restart and the watcher.
LEMMA OthersKeep ==
    ASSUME RegInv, Crash \/ Restart \/ WatchStep \/ ListFails
    PROVE  RegInv'
  <1> USE TasksAssumption, LimitsAssumption
       DEF RegInv, TypeOK, DownOK, HoldsOK, KeyOK, Ahead, Started, Fault, ServerUp, ServerDown,
           watchServiceCallBack,
           etcdVars, serviceVars, watchVars, boundVars
  <1>1. CASE Crash
    <2>1. crashes' \in 0..MaxCrashes
      BY <1>1 DEF Crash
    <2>2. /\ pc' \in [Tasks -> {"idle", "grant", "put", "alive", "store", "look",
                                "update", "sleep"}]
          /\ own' \in [Tasks -> Leases \cup {NoLease}]
      BY <1>1 DEF Crash
    <2>3. DownOK' /\ ~up'
      BY <1>1 DEF Crash
    <2> QED
      BY <1>1, <2>1, <2>2, <2>3 DEF Crash
  <1>2. CASE Restart
    <2>1. pc'[Keeper] = "grant"
      BY <1>2 DEF Restart, Tasks
    <2>2. KeyOK'
      BY <2>1 DEF Tasks
    <2>3. HoldsOK' /\ DownOK'
      BY <1>2 DEF Restart
    <2>4. TypeOK'
      BY <1>2 DEF Restart
    <2> QED
      BY <2>2, <2>3, <2>4
  <1>3. CASE GetServiceNodes
    BY <1>3 DEF GetServiceNodes
  <1>4. CASE Watch
    BY <1>4 DEF Watch
  <1>5. CASE WatchNode
    <2>1. events' \in Seq({"put", "delete"})
      BY <1>5 DEF WatchNode
    <2>2. nodes' \in BOOLEAN /\ rpcs' \in BOOLEAN
      BY <1>5 DEF WatchNode
    <2> QED
      BY <1>5, <2>1, <2>2 DEF WatchNode
  <1>6. CASE ListFails
    BY <1>6 DEF ListFails
  <1> QED
    BY <1>1, <1>2, <1>3, <1>4, <1>5, <1>6 DEF WatchStep

\* Every step keeps the invariant.
LEMMA StepReg == RegInv /\ [Next]_vars => RegInv'
  <1> SUFFICES ASSUME RegInv, [Next]_vars PROVE RegInv'
    OBVIOUS
  <1>1. CASE UNCHANGED vars
    BY <1>1 DEF RegInv, TypeOK, DownOK, HoldsOK, KeyOK,
                vars, etcdVars, serviceVars, watchVars, boundVars
  <1>2. CASE Next
    BY <1>2, KeepKeeps, UpdateKeeps, ExpireKeeps, OthersKeep DEF Next
  <1> QED
    BY <1>1, <1>2

\* The lease map, the client's kept leases and the key fit together at every step of
\* every registration (etcd.go:48-99).
THEOREM RegAlways == Spec => []RegInv
  BY InitReg, StepReg, PTL DEF Spec

\* Every variable keeps its type; the client keeps only leases that are alive.
THEOREM DiscoveryTyped == Spec => []TypeOK
  BY RegAlways, PTL DEF RegInv

\* However many updates run over each other and over keepRegistered, and whatever
\* calls fail: once all have returned the service is registered (server.go:72-100).
THEOREM RegisteredWhenDone == Spec => []RegisteredAtRest
  <1>1. RegInv => RegisteredAtRest
    BY DEF RegInv, KeyOK, Ahead, RegisteredAtRest
  <1> QED
    BY <1>1, RegAlways, PTL

\* The signal server has no node in its table and no Requestor.
NothingSeen == nodes = FALSE /\ rpcs = FALSE

\* Encode gives the empty string for every map that is not nil (server.go:36), so no
\* value of a key names a node: whatever is registered, and in whatever order the listing
\* and the events arrive, GetRPCHandlerByServiceName (init.go:112) finds no service.
THEOREM NeverFound == Spec => []~GetRPCHandlerByServiceName
  <1>1. Init => NothingSeen
    BY DEF Init, NewServiceWatcher, NothingSeen
  <1>2. ~Seen
    BY TasksAssumption DEF Seen, Decode, NodeValue, Encode
  <1>3. ASSUME NothingSeen, [Next]_vars PROVE NothingSeen'
    <2> USE <1>2, <1>3 DEF NothingSeen, GetNodeByID,
                           vars, etcdVars, serviceVars, watchVars, boundVars
    <2>1. CASE UNCHANGED vars
      BY <2>1
    <2>2. CASE WatchStep \/ ListFails \/ Crash \/ Restart
      BY <2>2 DEF WatchStep, GetServiceNodes, Watch, WatchNode, ListFails, Crash, Restart
    <2>3. ASSUME NEW l \in Leases, Expire(l) PROVE NothingSeen'
      BY <2>3 DEF Expire
    <2>4. ASSUME NEW t \in Tasks, TaskStep(t) PROVE NothingSeen'
      BY <2>4 DEF TaskStep, Grant, Put, KeepAlive, Store, KeepFails, Awake
    <2>5. ASSUME NEW u \in Updaters, UpdateNodePayload(u) \/ UpdateStep(u) PROVE NothingSeen'
      BY <2>5 DEF UpdateNodePayload, UpdateStep, Look, UpdatePut, UpdateFails
    <2> QED
      BY <2>1, <2>2, <2>3, <2>4, <2>5 DEF Next
  <1>4. NothingSeen => ~GetRPCHandlerByServiceName
    BY DEF NothingSeen, GetRPCHandlerByServiceName, GetNodes
  <1> QED
    BY <1>1, <1>3, <1>4, PTL DEF Spec

=============================================================================
