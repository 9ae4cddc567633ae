------------------------------ MODULE SfuRouter ------------------------------
(***************************************************************************)
(* The SFU's table of routers (server/sfu/rtc, server/sfu/src): one router *)
(* per published stream, holding the publisher's connection and those of   *)
(* the subscribers.  The threads that share it are                         *)
(*   - the RPC handlers (Publish, UnPublish, SubScribe, UnSubscribe),      *)
(*   - CheckRouter, which every 5 s removes the routers it finds dead and  *)
(*     queues their ids in CleanRouter,                                    *)
(*   - CheckRTC, which drains CleanRouter and tells the signal servers,    *)
(*   - UpdatePaylaod, which counts the connections every 10 s,             *)
(*   - per router, DoAudioWork and DoVideoWork, which forward packets and  *)
(*     drop dead subscribers,                                              *)
(* with the callbacks of the WebRTC library as the environment.            *)
(*                                                                         *)
(* routerLock protects the table but not the routers in it: Router.Close   *)
(* runs without it in DelRouter and with it in CheckRouter.  A Go panic is *)
(* recovered in an RPC handler (utils.Recover) and ends the process        *)
(* anywhere else.                                                          *)
(***************************************************************************)
EXTENDS Naturals, Sequences, FiniteSets, MediaKeys

CONSTANTS
    Handlers,   \* goroutines that run RPC handlers
    Checker,    \* the CheckRouter goroutine
    Meter,      \* the UpdatePaylaod goroutine
    NoOne,      \* routerLock is free
    Mids,       \* stream ids, each names one router
    Sids,       \* subscription ids
    NoMid, NoSid,
    Rid, Uid,   \* the room and the publisher in the routers' keys
    PubKinds,   \* the kinds of track the publishers send
    Silent,     \* the kinds of which no packet may come for liveCycle
    MaxClean    \* capacity of the CleanRouter channel (maxCleanSize)

Kinds   == {"audio", "video"}
Threads == Handlers \cup {Checker}

ASSUME ThreadsAssumption ==
    /\ Checker \notin Handlers /\ Meter \notin Threads
    /\ NoOne \notin Threads \cup {Meter}
ASSUME IdsAssumption == NoMid \notin Mids /\ NoSid \notin Sids
ASSUME BoundsAssumption == PubKinds \cup Silent \subseteq Kinds /\ MaxClean \in Nat \ {0}

VARIABLES
    up,         \* the process runs
    lock,       \* holder of routerLock
    routers,    \* keys of the routers map
    stopped,    \* Router.stop
    hasPub,     \* Router.pub is not nil
    chans,      \* the publisher's RtpAudioCh and RtpVideoCh; "none": no Pub yet
    pubAlive,   \* Pub.alive
    tracks,     \* Pub.TrackAudio, Pub.TrackVideo: the kinds that arrived
    fresh,      \* kinds whose audioAlive / videoAlive is not in the past
    worker,     \* DoAudioWork and DoVideoWork of each router
    subs,       \* Router.subs
    sub,        \* each Sub: its stop and alive flags
    wedged,     \* routers whose own mutex a panic left locked
    pending,    \* ids CheckRouter's loop has still to visit
    clean,      \* the CleanRouter channel
    said,       \* ids CheckRTC announced to the signal servers
    pc, tgt,    \* each thread: where it is, the router it works on
    arg         \* each handler: the subscription it works on

tableVars  == <<lock, routers, stopped, wedged>>
pubVars    == <<hasPub, chans, pubAlive, tracks>>
mediaVars  == <<fresh, worker>>
subVars    == <<subs, sub>>
checkVars  == <<pending, clean, said>>
threadVars == <<pc, tgt, arg>>
vars == <<up, tableVars, pubVars, mediaVars, subVars, checkVars, threadVars>>

HandlerPC == {"idle", "addPub", "stop", "pub", "pubClose", "pubNil", "subs", "del",
              "tracks", "answer", "insert", "delSub"}
CheckerPC == {"idle", "scan", "stop", "pub", "pubClose", "pubNil", "subs", "del", "send"}
SubState  == {"free", "new", "live", "down", "broken", "closed"}

TypeOK ==
    /\ up \in BOOLEAN
    /\ lock \in {NoOne, Checker, Meter}
    /\ routers \subseteq Mids /\ stopped \subseteq Mids /\ wedged \subseteq Mids
    /\ hasPub \subseteq Mids /\ pubAlive \subseteq Mids
    /\ chans \in [Mids -> {"none", "open", "closed"}]
    /\ tracks \in [Mids -> SUBSET Kinds] /\ fresh \in [Mids -> SUBSET Kinds]
    /\ worker \in [Mids -> [Kinds -> {"off", "top", "read", "busy"}]]
    /\ subs \in [Mids -> SUBSET Sids] /\ sub \in [Sids -> SubState]
    /\ pending \subseteq Mids /\ clean \in Seq(Mids)
    /\ pc \in [Threads -> HandlerPC \cup CheckerPC]
    /\ tgt \in [Threads -> Mids \cup {NoMid}]
    /\ arg \in [Handlers -> Sids \cup {NoSid}]

Init ==
    /\ up = TRUE /\ lock = NoOne
    /\ routers = {} /\ stopped = {} /\ wedged = {} /\ hasPub = {} /\ pubAlive = {}
    /\ chans = [m \in Mids |-> "none"]
    /\ tracks = [m \in Mids |-> {}] /\ fresh = [m \in Mids |-> {}]
    /\ worker = [m \in Mids |-> [k \in Kinds |-> "off"]]
    /\ subs = [m \in Mids |-> {}] /\ sub = [s \in Sids |-> "free"]
    /\ pending = {} /\ clean = << >> /\ said = {}
    /\ pc = [t \in Threads |-> "idle"] /\ tgt = [t \in Threads |-> NoMid]
    /\ arg = [h \in Handlers |-> NoSid]

-----------------------------------------------------------------------------
(* Steps of a thread.                                                      *)

At(t, place) == up /\ pc[t] = place

Goto(t, place) == pc' = [pc EXCEPT ![t] = place] /\ UNCHANGED <<tgt, arg>>

\* Mutant of Begin: the stream and the subscription are swapped.
BeginSwapped(h, place, m, s) ==
    /\ pc' = [pc EXCEPT ![h] = place]
    /\ tgt' = [tgt EXCEPT ![h] = s]
    /\ arg' = [arg EXCEPT ![h] = m]

\* A handler takes up a request, or ends it: accept, reject and a recovered
\* panic all leave it idle.
Begin(h, place, m, s) ==
    /\ pc' = [pc EXCEPT ![h] = place]
    /\ tgt' = [tgt EXCEPT ![h] = m]
    /\ arg' = [arg EXCEPT ![h] = s]

Finish(h) == Begin(h, "idle", NoMid, NoSid)

\* Mutant of Panic: the handlers do not recover.
PanicUnrecovered(t) == up' = FALSE /\ UNCHANGED threadVars

\* A panic in a handler is recovered; in CheckRouter it ends the process.
Panic(t) ==
    \/ t \in Handlers /\ Finish(t) /\ UNCHANGED up
    \/ t = Checker /\ up' = FALSE /\ UNCHANGED threadVars

\* A Sub whose channels are closed: a second Close panics.
Closed(s) == sub[s] \in {"broken", "closed"}

CloseAll(S) == sub' = [s \in Sids |-> IF s \in S THEN "closed" ELSE sub[s]]

-----------------------------------------------------------------------------
(* RPC handlers: publish.                                                  *)

\* A router without publisher and subscribers starts with its kinds fresh.
NewRouter(m) == fresh' = [fresh EXCEPT ![m] = Kinds]

AddRouter(m) == lock = NoOne /\ NewRouter(m) /\ routers' = routers \cup {m}

GetNewRouter(m) == m \notin routers /\ AddRouter(m)

\* Publish draws a new mid, so GetNewRouter finds no router and adds one.
Publish(h, m) ==
    /\ At(h, "idle") /\ chans[m] = "none"
    /\ GetNewRouter(m)
    /\ Begin(h, "addPub", m, NoSid)
    /\ UNCHANGED <<up, lock, stopped, wedged, pubVars, worker, subVars, checkVars>>

\* AddPub: the connection is made and answered, the two workers start.
AddPub(h) ==
    /\ At(h, "addPub")
    /\ LET m == tgt[h] IN
        /\ hasPub' = hasPub \cup {m} /\ pubAlive' = pubAlive \cup {m}
        /\ chans' = [chans EXCEPT ![m] = "open"]
        /\ worker' = [worker EXCEPT ![m] = [k \in Kinds |-> "top"]]
    /\ Finish(h)
    /\ UNCHANGED <<up, tableVars, tracks, fresh, subVars, checkVars>>

\* NewPub or Answer fails: the request is rejected, the router stays.
AddPubFail(h) ==
    /\ At(h, "addPub")
    /\ Finish(h)
    /\ UNCHANGED <<up, tableVars, pubVars, mediaVars, subVars, checkVars>>

\* UnPublish of a stream whose mid a Publish returned: DelRouter finds it.
UnPublish(h, m) ==
    /\ At(h, "idle") /\ lock = NoOne
    /\ m \in routers /\ chans[m] # "none"
    /\ Begin(h, "stop", m, NoSid)
    /\ UNCHANGED <<up, tableVars, pubVars, mediaVars, subVars, checkVars>>

-----------------------------------------------------------------------------
(* Router.Close, run by an UnPublish handler or by CheckRouter.            *)

CloseStop(t) ==
    /\ At(t, "stop")
    /\ stopped' = stopped \cup {tgt[t]}
    /\ Goto(t, "pub")
    /\ UNCHANGED <<up, lock, routers, wedged, pubVars, mediaVars, subVars, checkVars>>

\* Mutant of CloseTestPub: the publisher is left to its peer.
CloseSkipPub(t) ==
    /\ At(t, "pub")
    /\ Goto(t, "subs")
    /\ UNCHANGED <<up, tableVars, pubVars, mediaVars, subVars, checkVars>>

\* if r.pub != nil: the pointer that is tested is the one that is closed.
CloseTestPub(t) ==
    /\ At(t, "pub")
    /\ Goto(t, IF tgt[t] \in hasPub THEN "pubClose" ELSE "subs")
    /\ UNCHANGED <<up, tableVars, pubVars, mediaVars, subVars, checkVars>>

\* Pub.Close closes both channels; closing a closed channel panics.
ClosePub(t) ==
    /\ At(t, "pubClose") /\ chans[tgt[t]] = "open"
    /\ chans' = [chans EXCEPT ![tgt[t]] = "closed"]
    /\ Goto(t, "pubNil")
    /\ UNCHANGED <<up, tableVars, hasPub, pubAlive, tracks, mediaVars, subVars, checkVars>>

ClosePubTwice(t) ==
    /\ At(t, "pubClose") /\ chans[tgt[t]] = "closed"
    /\ Panic(t)
    /\ UNCHANGED <<tableVars, pubVars, mediaVars, subVars, checkVars>>

CloseDropPub(t) ==
    /\ At(t, "pubNil")
    /\ hasPub' = hasPub \ {tgt[t]}
    /\ Goto(t, "subs")
    /\ UNCHANGED <<up, tableVars, chans, pubAlive, tracks, mediaVars, subVars, checkVars>>

\* Under the router's mutex every subscriber is closed and removed.
CloseSubs(t) ==
    /\ At(t, "subs")
    /\ LET m == tgt[t] IN
        /\ m \notin wedged /\ \A s \in subs[m] : ~Closed(s)
        /\ CloseAll(subs[m])
        /\ subs' = [subs EXCEPT ![m] = {}]
    /\ Goto(t, "del")
    /\ UNCHANGED <<up, tableVars, pubVars, mediaVars, checkVars>>

\* The loop meets a subscriber that is closed already, after some others: the
\* panic passes the Unlock, and the mutex stays locked.
CloseSubsTwice(t) ==
    /\ At(t, "subs")
    /\ LET m == tgt[t] IN
        /\ m \notin wedged /\ \E s \in subs[m] : Closed(s)
        /\ \E done \in SUBSET {s \in subs[m] : ~Closed(s)} :
            /\ CloseAll(done)
            /\ subs' = [subs EXCEPT ![m] = @ \ done]
        /\ wedged' = wedged \cup {m}
    /\ Panic(t)
    /\ UNCHANGED <<lock, routers, stopped, pubVars, mediaVars, checkVars>>

\* Mutants of DelRouter: without the second Lock; without the delete; with a notice of
\* its own, which CheckRouter gives too if it closed the router meanwhile.
DelRouterUnlocked(h) ==
    /\ At(h, "del")
    /\ routers' = routers \ {tgt[h]}
    /\ Finish(h)
    /\ UNCHANGED <<up, lock, stopped, wedged, pubVars, mediaVars, subVars, checkVars>>

DelRouterKept(h) ==
    /\ At(h, "del") /\ lock = NoOne
    /\ Finish(h)
    /\ UNCHANGED <<up, tableVars, pubVars, mediaVars, subVars, checkVars>>

DelRouterAnnounces(h) ==
    /\ At(h, "del") /\ lock = NoOne /\ Len(clean) < MaxClean
    /\ routers' = routers \ {tgt[h]} /\ clean' = Append(clean, tgt[h])
    /\ Finish(h)
    /\ UNCHANGED <<up, lock, stopped, wedged, pubVars, mediaVars, subVars, pending, said>>

\* DelRouter ends: the key is deleted under routerLock and the handler replies.
DelRouter(h) ==
    /\ At(h, "del") /\ lock = NoOne
    /\ routers' = routers \ {tgt[h]}
    /\ Finish(h)
    /\ UNCHANGED <<up, lock, stopped, wedged, pubVars, mediaVars, subVars, checkVars>>

-----------------------------------------------------------------------------
(* RPC handlers: subscribe.                                                *)

\* SubScribe draws a new sid and finds the router of a published stream.
SubScribe(h, m, s) ==
    /\ At(h, "idle") /\ lock = NoOne
    /\ m \in routers /\ chans[m] # "none" /\ sub[s] = "free"
    /\ sub' = [sub EXCEPT ![s] = "new"]
    /\ Begin(h, "tracks", m, s)
    /\ UNCHANGED <<up, tableVars, pubVars, mediaVars, subs, checkVars>>

\* AddSub adds the publisher's tracks; only a video track lets it go on.
AddSubTracks(h) ==
    /\ At(h, "tracks")
    /\ tgt[h] \in hasPub /\ "video" \in tracks[tgt[h]]
    /\ Goto(h, "answer")
    /\ UNCHANGED <<up, tableVars, pubVars, mediaVars, subVars, checkVars>>

\* NewSub or AddTrack fails, no video track, or r.pub became nil meanwhile
\* (a recovered panic): the Sub is dropped.
AddSubFail(h) ==
    /\ At(h, "tracks")
    /\ CloseAll({arg[h]})
    /\ Finish(h)
    /\ UNCHANGED <<up, tableVars, pubVars, mediaVars, subs, checkVars>>

\* Answer succeeds, or fails and closes the Sub; AddSub goes on either way.
AddSubAnswer(h, ok) ==
    /\ At(h, "answer")
    /\ sub' = [sub EXCEPT ![arg[h]] = IF ok THEN "live" ELSE "broken"]
    /\ Goto(h, "insert")
    /\ UNCHANGED <<up, tableVars, pubVars, mediaVars, subs, checkVars>>

AddSubInsert(h) ==
    /\ At(h, "insert") /\ tgt[h] \notin wedged
    /\ subs' = [subs EXCEPT ![tgt[h]] = @ \cup {arg[h]}]
    /\ Finish(h)
    /\ UNCHANGED <<up, tableVars, pubVars, mediaVars, sub, checkVars>>

UnSubscribe(h, m, s) ==
    /\ At(h, "idle") /\ lock = NoOne
    /\ m \in routers /\ s \in subs[m]
    /\ Begin(h, "delSub", m, s)
    /\ UNCHANGED <<up, tableVars, pubVars, mediaVars, subVars, checkVars>>

\* Mutant of DelSub: the closed Sub stays in the map.
DelSubKept(h) ==
    /\ At(h, "delSub") /\ tgt[h] \notin wedged
    /\ CloseAll({s \in subs[tgt[h]] \cap {arg[h]} : ~Closed(s)})
    /\ Finish(h)
    /\ UNCHANGED <<up, tableVars, pubVars, mediaVars, subs, checkVars>>

\* DelSub: nothing to do if the Sub has gone; closing it twice panics, with the
\* mutex released by the deferred Unlock and the Sub left in the map.
DelSub(h) ==
    /\ At(h, "delSub") /\ tgt[h] \notin wedged
    /\ LET m == tgt[h]
           gone == {s \in subs[m] \cap {arg[h]} : ~Closed(s)} IN
        /\ CloseAll(gone)
        /\ subs' = [subs EXCEPT ![m] = @ \ gone]
    /\ Finish(h)
    /\ UNCHANGED <<up, tableVars, pubVars, mediaVars, checkVars>>

-----------------------------------------------------------------------------
(* CheckRouter, CheckRTC and UpdatePaylaod.                                *)

\* Mutant of Alive: the publisher's connection is not looked at.
AliveUnconnected(m) ==
    /\ m \notin stopped
    /\ m \in hasPub => chans[m] = "open" /\ fresh[m] # Kinds

\* Router.Alive.  With a publisher that is connected it answers
\* !bAudio || !bVideo, where bAudio and bVideo tell that the kind is fresh.
Alive(m) ==
    /\ m \notin stopped
    /\ m \in hasPub => /\ chans[m] = "open" /\ m \in pubAlive
                       /\ ("audio" \notin fresh[m] \/ "video" \notin fresh[m])

Tick ==
    /\ At(Checker, "idle") /\ lock = NoOne
    /\ lock' = Checker /\ pending' = routers
    /\ Goto(Checker, "scan")
    /\ UNCHANGED <<up, routers, stopped, wedged, pubVars, mediaVars, subVars, clean, said>>

\* The next router of the map, in any order: left alone, or closed.
Visit(m) ==
    /\ At(Checker, "scan") /\ m \in pending
    /\ pending' = pending \ {m}
    /\ pc' = [pc EXCEPT ![Checker] = IF Alive(m) THEN "scan" ELSE "stop"]
    /\ tgt' = [tgt EXCEPT ![Checker] = IF Alive(m) THEN @ ELSE m]
    /\ UNCHANGED <<up, tableVars, pubVars, mediaVars, subVars, clean, said, arg>>

CleanDelete ==
    /\ At(Checker, "del")
    /\ routers' = routers \ {tgt[Checker]}
    /\ Goto(Checker, "send")
    /\ UNCHANGED <<up, lock, stopped, wedged, pubVars, mediaVars, subVars, checkVars>>

\* CleanRouter <- id waits for room in the channel, with routerLock held.
CleanSend ==
    /\ At(Checker, "send") /\ Len(clean) < MaxClean
    /\ clean' = Append(clean, tgt[Checker])
    /\ pc' = [pc EXCEPT ![Checker] = "scan"]
    /\ tgt' = [tgt EXCEPT ![Checker] = NoMid]
    /\ UNCHANGED <<up, tableVars, pubVars, mediaVars, subVars, pending, said, arg>>

\* Mutant of TickDone: the Unlock is forgotten.
TickDoneLocked ==
    /\ At(Checker, "scan") /\ pending = {}
    /\ Goto(Checker, "idle")
    /\ UNCHANGED <<up, tableVars, pubVars, mediaVars, subVars, checkVars>>

TickDone ==
    /\ At(Checker, "scan") /\ pending = {}
    /\ lock' = NoOne
    /\ Goto(Checker, "idle")
    /\ UNCHANGED <<up, routers, stopped, wedged, pubVars, mediaVars, subVars, checkVars>>

\* Mutant of CheckRTC: it looks for the router first, and so waits for routerLock.
CheckRTCLocked ==
    /\ up /\ lock = NoOne /\ clean # << >>
    /\ up' = FALSE /\ clean' = Tail(clean)
    /\ UNCHANGED <<tableVars, pubVars, mediaVars, subVars, pending, said, threadVars>>

\* CheckRTC splits the id and reads rid, uid and mid at 3, 5 and 7; its
\* goroutine recovers no panic.
CheckRTC ==
    /\ up /\ clean # << >>
    /\ LET id == GetMediaPubKey(Rid, Uid, Head(clean)) IN
        /\ up' = HasPiece(id, 7)
        /\ said' = IF HasPiece(id, 7) THEN said \cup {Head(clean)} ELSE said
    /\ clean' = Tail(clean)
    /\ UNCHANGED <<tableVars, pubVars, mediaVars, subVars, pending, threadVars>>

\* GetRouters takes routerLock, then each router's mutex in turn.
MeterLock ==
    /\ up /\ lock = NoOne
    /\ lock' = Meter
    /\ UNCHANGED <<up, routers, stopped, wedged, pubVars, mediaVars, subVars, checkVars, threadVars>>

MeterUnlock ==
    /\ up /\ lock = Meter /\ routers \cap wedged = {}
    /\ lock' = NoOne
    /\ UNCHANGED <<up, routers, stopped, wedged, pubVars, mediaVars, subVars, checkVars, threadVars>>

-----------------------------------------------------------------------------
(* DoAudioWork and DoVideoWork, k the kind of track.                       *)

WorkerAt(m, k, place) == up /\ worker[m][k] = place

WorkerGoto(m, k, place) == worker' = [worker EXCEPT ![m][k] = place]

\* Mutant of WorkerTop: only the connection is looked at.
WorkerTopConnected(m, k) ==
    /\ WorkerAt(m, k, "top")
    /\ IF m \notin pubAlive
       THEN WorkerGoto(m, k, "off")
       ELSE k \in tracks[m] /\ WorkerGoto(m, k, "read")
    /\ UNCHANGED <<up, tableVars, pubVars, fresh, subVars, checkVars, threadVars>>

\* Top of the loop: return if the router or its publisher has stopped or is not
\* connected, read if the track has arrived, else sleep and look again.
WorkerTop(m, k) ==
    /\ WorkerAt(m, k, "top")
    /\ IF m \in stopped \/ m \notin hasPub \/ chans[m] = "closed" \/ m \notin pubAlive
       THEN WorkerGoto(m, k, "off")
       ELSE k \in tracks[m] /\ WorkerGoto(m, k, "read")
    /\ UNCHANGED <<up, tableVars, pubVars, fresh, subVars, checkVars, threadVars>>

\* A packet, buffered ones of a closed channel included: the timer is pushed on.
WorkerRead(m, k) ==
    /\ WorkerAt(m, k, "read")
    /\ fresh' = [fresh EXCEPT ![m] = @ \cup {k}]
    /\ WorkerGoto(m, k, "busy")
    /\ UNCHANGED <<up, tableVars, pubVars, subVars, checkVars, threadVars>>

\* The channel is closed and empty.
WorkerReadEnd(m, k) ==
    /\ WorkerAt(m, k, "read") /\ chans[m] = "closed"
    /\ WorkerGoto(m, k, "top")
    /\ UNCHANGED <<up, tableVars, pubVars, fresh, subVars, checkVars, threadVars>>

\* Under the router's mutex: forward, and close and drop the subscribers that
\* have stopped or are not connected; one that is closed already is a panic.
WorkerSweep(m, k) ==
    /\ WorkerAt(m, k, "busy") /\ m \notin wedged
    /\ LET dead == {s \in subs[m] : Closed(s) \/ sub[s] = "down"} IN
        /\ up' = (\A s \in dead : ~Closed(s))
        /\ CloseAll({s \in dead : ~Closed(s)})
        /\ subs' = [subs EXCEPT ![m] = @ \ dead]
    /\ WorkerGoto(m, k, "top")
    /\ UNCHANGED <<tableVars, pubVars, fresh, checkVars, threadVars>>

-----------------------------------------------------------------------------
(* The WebRTC library's callbacks, and time.                               *)

\* OnTrackRemote
OnTrack(m, k) ==
    /\ up /\ chans[m] = "open" /\ k \in PubKinds \ tracks[m]
    /\ tracks' = [tracks EXCEPT ![m] = @ \cup {k}]
    /\ UNCHANGED <<up, tableVars, hasPub, chans, pubAlive, mediaVars, subVars, checkVars, threadVars>>

\* Pub.OnPeerConnect: connected, or disconnected and failed (and the end of a
\* track, seen by DoAudioRTP and DoVideoRTP).
PubConnect(m) ==
    /\ up /\ chans[m] = "open" /\ m \notin pubAlive
    /\ pubAlive' = pubAlive \cup {m}
    /\ UNCHANGED <<up, tableVars, hasPub, chans, tracks, mediaVars, subVars, checkVars, threadVars>>

PubDisconnect(m) ==
    /\ up /\ chans[m] = "open" /\ m \in pubAlive
    /\ pubAlive' = pubAlive \ {m}
    /\ UNCHANGED <<up, tableVars, hasPub, chans, tracks, mediaVars, subVars, checkVars, threadVars>>

\* Sub.OnPeerConnect
SubConnect(s) ==
    /\ up /\ sub[s] \in {"live", "down"}
    /\ sub' = [sub EXCEPT ![s] = IF @ = "live" THEN "down" ELSE "live"]
    /\ UNCHANGED <<up, tableVars, pubVars, mediaVars, subs, checkVars, threadVars>>

\* liveCycle passes without a packet of kind k.
Expire(m, k) ==
    /\ up /\ k \in Silent \cap fresh[m]
    /\ fresh' = [fresh EXCEPT ![m] = @ \ {k}]
    /\ UNCHANGED <<up, tableVars, pubVars, worker, subVars, checkVars, threadVars>>

-----------------------------------------------------------------------------
CloseStep(t) ==
    \/ CloseStop(t) \/ CloseTestPub(t) \/ ClosePub(t) \/ ClosePubTwice(t)
    \/ CloseDropPub(t) \/ CloseSubs(t) \/ CloseSubsTwice(t)

HandlerStep(h) ==
    \/ AddPub(h) \/ AddPubFail(h) \/ DelRouter(h)
    \/ AddSubTracks(h) \/ AddSubFail(h) \/ AddSubInsert(h) \/ DelSub(h)
    \/ \E ok \in BOOLEAN : AddSubAnswer(h, ok)

Request(h) ==
    \E m \in Mids :
        \/ Publish(h, m) \/ UnPublish(h, m)
        \/ \E s \in Sids : SubScribe(h, m, s) \/ UnSubscribe(h, m, s)

CheckerStep ==
    Tick \/ CleanDelete \/ CleanSend \/ TickDone \/ \E m \in Mids : Visit(m)

WorkerStep(m, k) ==
    WorkerTop(m, k) \/ WorkerRead(m, k) \/ WorkerReadEnd(m, k) \/ WorkerSweep(m, k)

Callback ==
    \/ \E m \in Mids : PubConnect(m) \/ PubDisconnect(m)
    \/ \E m \in Mids, k \in Kinds : OnTrack(m, k) \/ Expire(m, k)
    \/ \E s \in Sids : SubConnect(s)

Next ==
    \/ \E h \in Handlers : Request(h) \/ HandlerStep(h)
    \/ \E t \in Threads : CloseStep(t)
    \/ CheckerStep \/ CheckRTC \/ MeterLock \/ MeterUnlock
    \/ \E m \in Mids, k \in Kinds : WorkerStep(m, k)
    \/ Callback

Spec == Init /\ [][Next]_vars


(***************************************************************************)
(* Fairness.  A goroutine that can run does run; its blocking points are   *)
(* in the guards.  routerLock is a Go sync.Mutex, whose starvation mode    *)
(* hands it to a goroutine that waits: the two waits that others can       *)
(* interrupt for ever, DelRouter's second Lock and CheckRouter's, get      *)
(* strong fairness.  Requests, callbacks and lost packets get none.        *)
(***************************************************************************)
Fairness ==
    /\ \A t \in Threads : WF_vars(CloseStep(t))
    /\ \A h \in Handlers : WF_vars(HandlerStep(h)) /\ SF_vars(DelRouter(h))
    /\ WF_vars(CheckerStep) /\ SF_vars(Tick)
    /\ WF_vars(CheckRTC) /\ WF_vars(MeterUnlock)
    /\ \A m \in Mids, k \in Kinds :
        WF_vars(WorkerTop(m, k) \/ WorkerReadEnd(m, k) \/ WorkerSweep(m, k))

FairSpec == Spec /\ Fairness

-----------------------------------------------------------------------------
(* What makes the table correct.                                           *)

Closing == {"pub", "pubClose", "pubNil", "subs", "del"}

\* Thread t is inside Close or DelRouter of m and no step before the deletion
\* can panic on the publisher: it will delete m if the subscribers let it.
Owner(t, m) ==
    /\ tgt[t] = m
    /\ \/ pc[t] \in {"pubNil", "subs", "del"}
       \/ pc[t] = "pubClose" /\ chans[m] = "open"
       \/ pc[t] = "pub" /\ (m \notin hasPub \/ chans[m] = "open")

\* A router that is marked stopped but still in the table is in the hands of a
\* thread that is going to delete it, however the two closers (an unpublish and
\* CheckRouter) interleave and whichever of them panics; the exception is a
\* router whose mutex a panic left locked.
StoppedHasOwner ==
    up => \A m \in routers \cap stopped :
            m \in wedged \/ \E t \in Threads : Owner(t, m)

\* Whoever closes a subscription takes it out of its router in the same critical
\* section, so no sweep, unsubscribe or Close meets a closed one; the exception
\* is the one that AddSub closed before it inserted it.
OnlyBrokenSubsClosed == \A m \in Mids : \A s \in subs[m] : sub[s] # "closed"

\* An id is queued for announcement once, and only after its router has left the
\* table: a signal server that hears of the removal and asks finds nothing.
CleanedOnce ==
    /\ \A i, j \in 1..Len(clean) : clean[i] = clean[j] => i = j
    /\ \A i \in 1..Len(clean) : clean[i] \notin routers

\* CheckRouter iterates over the table while it closes routers and waits for
\* room in CleanRouter: every router it has still to visit, and the one it is
\* closing, is in the table, so nobody added or deleted one behind its back.
ScanSeesTable ==
    /\ lock = Checker <=> pc[Checker] # "idle"
    /\ pending \subseteq routers
    /\ pc[Checker] \in Closing \cup {"stop"} => tgt[Checker] \in routers \ pending

\* What ends the process: an id reaches CheckRTC; a subscription that AddSub
\* closed itself is met by a worker or by CheckRouter; or CheckRouter closes the
\* publisher of a router that an unpublish is closing too.  No other schedule of
\* the two closers, the workers and the subscribe handlers can.
KnownCrash ==
    [][up /\ ~up' =>
         \/ clean # << >>
         \/ \E m \in Mids : \E s \in subs[m] : sub[s] = "broken"
         \/ pc[Checker] = "pubClose" /\
            \E h \in Handlers : tgt[h] = tgt[Checker] /\ pc[h] \in {"pubNil", "subs", "del"}]_vars

\* The table keeps the promise of StreamLife.  A notice is due between the two
\* steps of CheckRouter that delete a router and queue its id.
Life == INSTANCE StreamLife WITH
    table <- routers, media <- chans,
    due   <- IF pc[Checker] = "send" THEN {tgt[Checker]} ELSE {},
    queue <- {clean[i] : i \in 1..Len(clean)}

ImplementsLife == Life!Spec

\* CheckRouter's log says of the router it closes that it "is dead" (rtc.go:128):
\* it was stopped, or its publisher is not connected, or some kind is silent.
DeadIsSilent ==
    [][\A m \in Mids : pc[Checker] = "scan" /\ pc'[Checker] = "stop" /\ tgt'[Checker] = m =>
         m \in stopped \/ chans[m] = "closed" \/ m \notin pubAlive \/ fresh[m] # Kinds]_vars

\* Progress is promised while the process runs and no panic has left a router's
\* mutex locked.
Stuck == ~up \/ wedged # {}

\* A router that Close has marked leaves the table.
StoppedLeaves == \A m \in Mids : m \in routers \cap stopped ~> m \notin routers \/ Stuck

\* A router whose publisher lost its connection leaves the table, unless the
\* publisher comes back.
DeadPubLeaves ==
    \A m \in Mids : m \in routers \cap hasPub /\ m \notin pubAlive
                      ~> m \notin routers \/ m \in pubAlive \/ Stuck

\* The two workers of a router end after its publisher was closed, also when
\* they wait for a packet or for a track.
WorkersEnd ==
    \A m \in Mids : chans[m] = "closed"
                      ~> (\A k \in Kinds : worker[m][k] = "off") \/ Stuck

\* Every request is answered, or the process ends: no handler waits for ever for
\* routerLock, which CheckRouter holds across Close and across its send to a full
\* CleanRouter (rtc.go:131).
HandlerReturns == \A h \in Handlers : pc[h] # "idle" ~> pc[h] = "idle" \/ Stuck

=============================================================================
