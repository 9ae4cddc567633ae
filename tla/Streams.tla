------------------------------- MODULE Streams -------------------------------
(***************************************************************************)
(* The life of streams between the signal servers, the SFUs and the        *)
(* register: publish, unpublish and subscribe (server/signal/src/          *)
(* handler.go), which call an SFU first and the register second, with      *)
(* everything else happening meanwhile.                                    *)
(*                                                                         *)
(* SfuRouter has the inside of an SFU's request and Register the commands  *)
(* of the register's; here each call is one step, which may fail, done or  *)
(* not done.  A client names the SFU that publish answered, or leaves it   *)
(* to the register (GetSFURPCHandlerByMID), which stored the same.         *)
(*                                                                         *)
(* The two ends of an unpublish do not mean the same stream.  The SFU      *)
(* finds its router by the publisher's uid, which is in the mid; the       *)
(* register is asked for the key of the client that unpublishes.  Any      *)
(* client may: its unpublish of another's stream empties the SFU, is       *)
(* accepted, and leaves the stream registered.                             *)
(*                                                                         *)
(* Left out because they change nothing here: unsubscribe, requests that   *)
(* are rejected before their first call, and the notices, which nobody     *)
(* gets: publish passes a value SendNotifyByUids skips, and streamRemove   *)
(* of one stream answers no rmPubs.                                        *)
(***************************************************************************)
EXTENDS Naturals

CONSTANTS
    Mids,       \* streams; the SFU draws a new id for each publish
    Uids,       \* clients
    Uid(_),     \* the publisher of a stream, which its mid names (GetUIDFromMID)
    Sfus,       \* SFU servers
    Handlers,   \* goroutines of requests
    None,       \* no SFU, no stream, no client
    MaxFaults   \* bound: calls that fail, signal servers that end

ASSUME NoneAssumption == None \notin Sfus \cup Mids \cup Uids
ASSUME UidAssumption == \A m \in Mids : Uid(m) \in Uids
ASSUME LimitAssumption == MaxFaults \in Nat

VARIABLES
    home,       \* the SFU each stream was published at
    live,       \* streams with a router in their SFU's table
    pub,        \* the register: the SFU of each stream
    up,         \* SFUs that run
    call,       \* each goroutine's request: its place, its stream, who asks
    faults,
    accepted,   \* history: streams whose publish was accepted
    gone,       \* history: <<client, stream>> of the unpublishes that were accepted
    lapsed,     \* history: streams whose registration expired
    refused,    \* history: live streams to which a subscription failed
    ended,      \* history: live streams that their SFU dropped, or that ended with it
    failed      \* history: streams about which a call failed, or a request was cut short

history == <<accepted, gone, lapsed, refused, ended, failed>>
vars == <<home, live, pub, up, call, faults, history>>

Places == {"idle", "add", "drop", "refuse"}
Task == [at : Places, mid : Mids \cup {None}, uid : Uids \cup {None}]
Idle == [at |-> "idle", mid |-> None, uid |-> None]

TypeOK ==
    /\ home \in [Mids -> Sfus \cup {None}] /\ up \subseteq Sfus
    /\ live \subseteq {m \in Mids : home[m] \in up}
    /\ \A m \in Mids : pub[m] \in {None, home[m]}
    /\ pub \in [Mids -> Sfus \cup {None}]
    /\ call \in [Handlers -> Task]
    /\ faults \in 0..MaxFaults
    /\ accepted \subseteq Mids /\ gone \subseteq Uids \X Mids /\ lapsed \subseteq Mids
    /\ refused \subseteq Mids /\ ended \subseteq Mids /\ failed \subseteq Mids

Init ==
    /\ home = [m \in Mids |-> None] /\ pub = home
    /\ live = {} /\ up = Sfus
    /\ call = [h \in Handlers |-> Idle]
    /\ faults = 0
    /\ accepted = {} /\ gone = {} /\ lapsed = {} /\ refused = {} /\ ended = {} /\ failed = {}

-----------------------------------------------------------------------------
Works == UNCHANGED <<faults, failed>>
Fails(m) == faults < MaxFaults /\ faults' = faults + 1 /\ failed' = failed \cup {m}

At(h, place) == call[h].at = place
Start(h, place, m, u) == call' = [call EXCEPT ![h] = [at |-> place, mid |-> m, uid |-> u]]
Return(h) == call' = [call EXCEPT ![h] = Idle]

\* A client has heard of a stream: publish answered it, or the register lists it.
Known(m) == m \in accepted \/ pub[m] # None

\* A call of streamRemove with a mid and a uid.  It answers, with its Redis command done
\* or failed, or it fails and is done or not.  Another uid than the publisher's makes the
\* key of no stream, and nothing is removed.
CallRemove(m, u, ok) ==
    LET done == pub' = IF u = Uid(m) THEN [pub EXCEPT ![m] = None] ELSE pub IN
    \/ ok /\ Works /\ done
    \/ ok /\ Fails(m) /\ UNCHANGED pub
    \/ ~ok /\ Fails(m) /\ (done \/ UNCHANGED pub)

-----------------------------------------------------------------------------
(* publish                                                                  *)

\* The SFU's part.  One that fails may leave a router behind: the answer was lost, or
\* AddPub failed (SfuRouter).
Publish(h, m, s) ==
    /\ At(h, "idle") /\ home[m] = None /\ s \in up
    /\ home' = [home EXCEPT ![m] = s]
    /\ \/ Works /\ live' = live \cup {m} /\ Start(h, "add", m, Uid(m))
       \/ Fails(m) /\ (live' = live \cup {m} \/ UNCHANGED live) /\ UNCHANGED call
    /\ UNCHANGED <<pub, up, accepted, gone, lapsed, refused, ended>>

\* The register's part.  If it fails the request is rejected, and the stream stays.
PublishAdd(h) ==
    LET m == call[h].mid
        done == pub' = [pub EXCEPT ![m] = home[m]] IN
    /\ At(h, "add") /\ Return(h)
    /\ \/ Works /\ done /\ accepted' = accepted \cup {m}
       \/ Fails(m) /\ (done \/ UNCHANGED pub) /\ UNCHANGED accepted
    /\ UNCHANGED <<home, live, up, gone, lapsed, refused, ended>>

-----------------------------------------------------------------------------
(* unpublish                                                                *)

\* Mutant of Unpublish: nothing is asked of the SFU.
UnpublishLive(h, m, u) ==
    /\ At(h, "idle") /\ Known(m) /\ home[m] \in up
    /\ Start(h, "drop", m, u)
    /\ UNCHANGED <<home, live, pub, up, faults, history>>

\* Mutant of Unpublish: it returns without asking the register.
UnpublishForgets(h, m, u) ==
    /\ At(h, "idle") /\ Known(m) /\ home[m] \in up
    /\ live' = live \ {m}
    /\ UNCHANGED <<home, pub, up, call, faults, history>>

\* UnPublish of the SFU removes the router if there is one and answers either way: it
\* does not hear who asks.
Unpublish(h, m, u) ==
    /\ At(h, "idle") /\ Known(m) /\ home[m] \in up
    /\ \/ Works /\ live' = live \ {m} /\ Start(h, "drop", m, u)
       \/ Fails(m) /\ (live' = live \ {m} \/ UNCHANGED live) /\ UNCHANGED call
    /\ UNCHANGED <<home, pub, up, accepted, gone, lapsed, refused, ended>>

\* Mutant of UnpublishDrop: it is accepted without asking the register.
UnpublishDropNone(h) ==
    /\ At(h, "drop") /\ Return(h)
    /\ gone' = gone \cup {<<call[h].uid, call[h].mid>>}
    /\ UNCHANGED <<home, live, pub, up, faults, accepted, lapsed, refused, ended, failed>>

\* The register is asked with the uid of the client that unpublishes (handler.go:303, 331).
UnpublishDrop(h) ==
    LET m == call[h].mid
        u == call[h].uid IN
    /\ At(h, "drop") /\ Return(h)
    /\ \/ CallRemove(m, u, TRUE) /\ gone' = gone \cup {<<u, m>>}
       \/ CallRemove(m, u, FALSE) /\ UNCHANGED gone
    /\ UNCHANGED <<home, live, up, accepted, lapsed, refused, ended>>

-----------------------------------------------------------------------------
(* subscribe, when the SFU answers 403; any other answer changes nothing.    *)

\* The SFU has no router, or has one whose AddSub fails (sfu internal.go:117, 122).
Subscribe(h, m) ==
    /\ At(h, "idle") /\ Known(m) /\ home[m] \in up
    /\ Start(h, "refuse", m, Uid(m))
    /\ refused' = refused \cup ({m} \cap live)
    /\ UNCHANGED <<home, live, pub, up, faults, accepted, gone, lapsed, ended, failed>>

\* "The stream does not exist": it is removed from the register, with the publisher's uid
\* (handler.go:396).  The answer ends in a panic, or is a rejection.
SubscribeDrop(h) ==
    LET m == call[h].mid IN
    /\ At(h, "refuse") /\ Return(h)
    /\ \E ok \in BOOLEAN : CallRemove(m, call[h].uid, ok)
    /\ UNCHANGED <<home, live, up, accepted, gone, lapsed, refused, ended>>

-----------------------------------------------------------------------------
(* The environment.                                                          *)

\* CheckRouter takes a stream off its SFU.  Nobody is told, for CheckRTC panics.
SfuCleans(m) ==
    /\ m \in live
    /\ live' = live \ {m} /\ ended' = ended \cup {m}
    /\ UNCHANGED <<home, pub, up, call, faults, accepted, gone, lapsed, refused, failed>>

\* Mutant of SfuEnds: the streams outlive it.
SfuEndsLive(s) ==
    /\ s \in up /\ up' = up \ {s}
    /\ UNCHANGED <<home, live, pub, call, faults, history>>

\* The SFU ends, by that panic or from outside, and all of its streams with it.
SfuEnds(s) ==
    LET lost == {m \in live : home[m] = s} IN
    /\ s \in up /\ up' = up \ {s}
    /\ live' = live \ lost /\ ended' = ended \cup lost
    /\ UNCHANGED <<home, pub, call, faults, accepted, gone, lapsed, refused, failed>>

SfuStarts(s) ==
    /\ s \in Sfus \ up /\ up' = up \cup {s}
    /\ UNCHANGED <<home, live, pub, call, faults, history>>

\* Nothing renews a stream's registration.
Expire(m) ==
    /\ pub[m] # None
    /\ pub' = [pub EXCEPT ![m] = None] /\ lapsed' = lapsed \cup {m}
    /\ UNCHANGED <<home, live, up, call, faults, accepted, gone, refused, ended, failed>>

\* The signal server of a request ends before the request does.
SignalEnds(h) ==
    /\ ~At(h, "idle") /\ Fails(call[h].mid) /\ Return(h)
    /\ UNCHANGED <<home, live, pub, up, accepted, gone, lapsed, refused, ended>>

-----------------------------------------------------------------------------
Request(h) ==
    \/ \E m \in Mids : \/ \E s \in Sfus : Publish(h, m, s)
                       \/ \E u \in Uids : Unpublish(h, m, u)
                       \/ Subscribe(h, m)
    \/ PublishAdd(h) \/ UnpublishDrop(h) \/ SubscribeDrop(h)

Environment ==
    \/ \E s \in Sfus : SfuEnds(s) \/ SfuStarts(s)
    \/ \E m \in Mids : SfuCleans(m) \/ Expire(m)
    \/ \E h \in Handlers : SignalEnds(h)

Next == (\E h \in Handlers : Request(h)) \/ Environment

Spec == Init /\ [][Next]_vars

-----------------------------------------------------------------------------
\* A request at this place of this stream.
Runs(place, m) == \E h \in Handlers : call[h].at = place /\ call[h].mid = m

\* Its unpublish by another client than its publisher was accepted.
TakenByOther(m) == \E u \in Uids \ {Uid(m)} : <<u, m>> \in gone

\* What the register lists can be subscribed to: publish creates the stream before it
\* registers it (handler.go:258-273), and what takes the stream off its SFU takes it
\* out of the register too, or a call failed, or the SFU dropped it or ended, or a
\* client who is not its publisher unpublished it (handler.go:331).
RegisteredIsLive ==
    \A m \in Mids : pub[m] # None =>
        \/ m \in live \cup ended \cup failed
        \/ Runs("drop", m) \/ Runs("refuse", m)
        \/ TakenByOther(m)

\* A stream on an SFU can be found: it is registered or about to be, unless its
\* registration expired, a call about it failed, or a failed subscription (403,
\* handler.go:397) unregistered it.
LiveIsRegistered ==
    \A m \in live : pub[m] = home[m] \/ Runs("add", m) \/ m \in lapsed \cup refused \cup failed

\* A stream whose unpublish was accepted is on no SFU, whoever asked; if its publisher
\* did, it is in no register either, unless a Redis command was lost, whatever other
\* requests and retries do (handler.go:297-341).
UnpublishedIsGone ==
    \A u \in Uids, m \in Mids : <<u, m>> \in gone =>
        /\ m \notin live
        /\ u = Uid(m) => pub[m] = None \/ m \in failed

=============================================================================
