----------------------------- MODULE RouterMedia -----------------------------
(***************************************************************************)
(* The path of the video packets through one router of the SFU             *)
(* (server/sfu/rtc), and of the subscribers' feedback back to it:          *)
(*                                                                         *)
(*   publisher -> Pub.DoVideoRTP -> RtpVideoCh -> Router.DoVideoWork       *)
(*             -> the buffer and every Sub                                 *)
(*   subscriber -> Sub.DoVideoRtcp -> RtcpVideoCh -> Router.DoRTCPWork     *)
(*             -> the Sub, out of the buffer, or the publisher             *)
(*                                                                         *)
(* with Router.Close against all of them.  The audio path is the first     *)
(* line without the buffer.  None of these goroutines recovers a panic.    *)
(*                                                                         *)
(* A channel is a count: what it carries is chosen when it is taken out.   *)
(* Router.Close runs once; what a second closer does is SfuRouter's.       *)
(***************************************************************************)
EXTENDS Naturals, FiniteSets

CONSTANTS
    Subs,       \* subscriptions
    Connects,   \* of each, the times its peer connects (bound)
    Seqs,       \* sequence numbers of the packets
    ChanSize,   \* capacity of RtpVideoCh (maxRTCChanSize)
    RtcpSize,   \* capacity of RtcpVideoCh (maxRTCPChanSize)
    Pli         \* feedback: a picture loss; the others, in Seqs, ask for a packet

ASSUME SizesAssumption == ChanSize \in Nat \ {0} /\ RtcpSize \in Nat \ {0}
ASSUME PliAssumption == Pli \notin Seqs

VARIABLES
    up,         \* the process runs
    stop,       \* Router.stop
    pub,        \* Router.pub: "open", "closed" by Pub.Close, or "nil"
    closing,    \* Router.Close: what it does next
    alive,      \* Pub.alive
    reader,     \* DoVideoRTP; "none" until the track arrives
    ch,         \* packets in RtpVideoCh
    worker,     \* DoVideoWork
    pkt,        \* the packet DoVideoWork forwards
    buffer,     \* sequence numbers in Router.pktBuffer
    subs,       \* Router.subs
    sub,        \* each Sub's stop and alive
    rtcp,       \* packets in each RtcpVideoCh
    readers,    \* each Sub's DoVideoRtcp goroutines, one for each connect
    rtcpWorker, \* DoRTCPWork of each Sub
    asked,      \* the feedback DoRTCPWork handles; Pli when it handles none
    got         \* Subs the packet DoVideoWork forwards was written to

closeVars == <<stop, pub, closing>>
pubVars   == <<alive, reader, ch>>
workVars  == <<worker, pkt, buffer>>
subVars   == <<subs, sub, got>>
rtcpVars  == <<rtcp, readers, rtcpWorker, asked>>
vars == <<up, closeVars, pubVars, workVars, subVars, rtcpVars>>

Feedback == Seqs \cup {Pli}
Reader   == {"none", "test", "read", "send", "off"}

TypeOK ==
    /\ up \in BOOLEAN /\ stop \in BOOLEAN /\ alive \in BOOLEAN
    /\ pub \in {"open", "closed", "nil"}
    /\ closing \in {"no", "pub", "nil", "subs", "buffer", "done"}
    /\ reader \in Reader /\ ch \in 0..ChanSize
    /\ worker \in {"top", "read", "write", "sweep", "off"}
    /\ pkt \in Seqs /\ buffer \subseteq Seqs
    /\ subs \subseteq Subs /\ sub \in [Subs -> {"new", "live", "down", "closed"}]
    /\ rtcp \in [Subs -> 0..RtcpSize]
    /\ readers \in [Subs -> [Connects -> Reader]]
    /\ rtcpWorker \in [Subs -> {"none", "top", "read", "handle", "ask", "off"}]
    /\ asked \in [Subs -> Feedback]
    /\ got \subseteq Subs

\* The stream has been published: AddPub has started DoVideoWork.
Init ==
    /\ up = TRUE /\ stop = FALSE /\ pub = "open" /\ closing = "no"
    /\ alive = TRUE /\ reader = "none" /\ ch = 0
    /\ worker = "top" /\ pkt \in Seqs /\ buffer = {}
    /\ subs = {} /\ sub = [s \in Subs |-> "new"] /\ got = {}
    /\ rtcp = [s \in Subs |-> 0]
    /\ readers = [s \in Subs |-> [i \in Connects |-> "none"]]
    /\ rtcpWorker = [s \in Subs |-> "none"]
    /\ asked = [s \in Subs |-> Pli]

-----------------------------------------------------------------------------
(* The publisher: its connection's callbacks and DoVideoRTP.               *)

OnTrack ==
    /\ up /\ pub = "open" /\ reader = "none"
    /\ reader' = "test"
    /\ UNCHANGED <<up, closeVars, alive, ch, workVars, subVars, rtcpVars>>

OnPeerConnect ==
    /\ up /\ pub = "open"
    /\ alive' = ~alive
    /\ UNCHANGED <<up, closeVars, reader, ch, workVars, subVars, rtcpVars>>

\* Mutant of ReaderTest: a closed publisher is not noticed.
ReaderTestAlive ==
    /\ up /\ reader = "test"
    /\ reader' = IF ~alive THEN "off" ELSE "read"
    /\ UNCHANGED <<up, closeVars, alive, ch, workVars, subVars, rtcpVars>>

ReaderTest ==
    /\ up /\ reader = "test"
    /\ reader' = IF pub # "open" \/ ~alive THEN "off" ELSE "read"
    /\ UNCHANGED <<up, closeVars, alive, ch, workVars, subVars, rtcpVars>>

\* A packet, and the test that follows ReadRTP.
ReaderPacket ==
    /\ up /\ reader = "read"
    /\ reader' = IF pub # "open" \/ ~alive THEN "off" ELSE "send"
    /\ UNCHANGED <<up, closeVars, alive, ch, workVars, subVars, rtcpVars>>

\* ReadRTP fails: at the end of the track the publisher is no longer alive.
ReaderFail(eof) ==
    /\ up /\ reader = "read"
    /\ alive' = (alive /\ ~eof)
    /\ reader' = "test"
    /\ UNCHANGED <<up, closeVars, ch, workVars, subVars, rtcpVars>>

\* Mutant of ReaderSend: a full channel is not waited for.
ReaderSendFull ==
    /\ up /\ reader = "send"
    /\ up' = (pub = "open")
    /\ ch' = IF pub = "open" THEN ch + 1 ELSE ch
    /\ reader' = "test"
    /\ UNCHANGED <<closeVars, alive, workVars, subVars, rtcpVars>>

\* It waits for room in the channel; a channel that is closed before or
\* meanwhile is a panic.
ReaderSend ==
    /\ up /\ reader = "send"
    /\ up' = (pub = "open")
    /\ pub = "open" => ch < ChanSize
    /\ ch' = IF pub = "open" THEN ch + 1 ELSE ch
    /\ reader' = "test"
    /\ UNCHANGED <<closeVars, alive, workVars, subVars, rtcpVars>>

-----------------------------------------------------------------------------
(* Router.DoVideoWork.                                                     *)

\* Mutant of WorkerTop: it does not read while nobody subscribes.
WorkerTopIdle ==
    /\ up /\ worker = "top"
    /\ IF stop \/ pub # "open" \/ ~alive
       THEN worker' = "off"
       ELSE reader # "none" /\ subs # {} /\ worker' = "read"
    /\ got' = {}
    /\ UNCHANGED <<up, closeVars, pubVars, pkt, buffer, subs, sub, rtcpVars>>

WorkerTop ==
    /\ up /\ worker = "top"
    /\ IF stop \/ pub # "open" \/ ~alive
       THEN worker' = "off"
       ELSE reader # "none" /\ worker' = "read"
    /\ got' = {}
    /\ UNCHANGED <<up, closeVars, pubVars, pkt, buffer, subs, sub, rtcpVars>>

WorkerRead(q) ==
    /\ up /\ worker = "read" /\ ch > 0
    /\ ch' = ch - 1
    /\ pkt' = q
    /\ worker' = "write"
    /\ UNCHANGED <<up, closeVars, alive, reader, buffer, subVars, rtcpVars>>

\* The channel is closed and empty.
WorkerReadEnd ==
    /\ up /\ worker = "read" /\ ch = 0 /\ pub # "open"
    /\ worker' = "top"
    /\ UNCHANGED <<up, closeVars, pubVars, pkt, buffer, subVars, rtcpVars>>

\* The packet goes into the buffer, a Go map that no lock protects.
WorkerBuffer ==
    /\ up /\ worker = "write"
    /\ buffer' = buffer \cup {pkt}
    /\ worker' = "sweep"
    /\ UNCHANGED <<up, closeVars, pubVars, pkt, subVars, rtcpVars>>

\* WriteVideoRTP writes if the Sub is neither stopped nor alive.
Writes(s, state) == state[s] = "down"

\* Sub.Close of each of S.
Shut(S) == sub' = [s \in Subs |-> IF s \in S THEN "closed" ELSE sub[s]]

\* Mutant of WorkerSweep: the subscribers it closes stay in the map.
WorkerSweepKept(lost) ==
    /\ up /\ worker = "sweep"
    /\ LET dead == {s \in subs : sub[s] # "live"} IN
        /\ lost \subseteq subs \ dead
        /\ up' = (\A s \in dead : sub[s] = "down")
        /\ Shut(dead)
    /\ worker' = "top"
    /\ UNCHANGED <<closeVars, pubVars, pkt, buffer, subs, got, rtcpVars>>

\* Under the router's mutex: the subscribers that are not connected are closed
\* and removed, the others get the packet; one that is closed already would be a
\* panic.  lost: those whose connection ends between the sweep's test of alive and
\* the one in WriteVideoRTP.
WorkerSweep(lost) ==
    /\ up /\ worker = "sweep"
    /\ LET dead == {s \in subs : sub[s] # "live"} IN
        /\ lost \subseteq subs \ dead
        /\ up' = (\A s \in dead : sub[s] = "down")
        /\ subs' = subs \ dead
        /\ sub' = [s \in Subs |-> IF s \in dead THEN "closed"
                                  ELSE IF s \in lost THEN "down" ELSE sub[s]]
        /\ got' = {s \in subs' : Writes(s, sub')}
    /\ worker' = "top"
    /\ UNCHANGED <<closeVars, pubVars, pkt, buffer, rtcpVars>>

-----------------------------------------------------------------------------
(* Subscribers: AddSub's last steps, the callbacks and DoVideoRtcp.        *)

\* A Sub that has answered; it is alive before its peer connects.  It may be
\* inserted into a router that was closed after SubScribe found it.
AddSub(s) ==
    /\ up /\ sub[s] = "new" /\ reader # "none"
    /\ sub' = [sub EXCEPT ![s] = "live"]
    /\ subs' = subs \cup {s}
    /\ rtcpWorker' = [rtcpWorker EXCEPT ![s] = "top"]
    /\ UNCHANGED <<up, closeVars, pubVars, workVars, got, rtcp, readers, asked>>

\* An unsubscription, under the router's mutex.
DelSub(s) ==
    /\ up /\ s \in subs
    /\ up' = (sub[s] # "closed")
    /\ Shut({s}) /\ subs' = subs \ {s}
    /\ UNCHANGED <<closeVars, pubVars, workVars, got, rtcpVars>>

\* Sub.OnPeerConnect: every connect starts a DoVideoRtcp.
SubConnect(s, i) ==
    /\ up /\ sub[s] \in {"live", "down"} /\ readers[s][i] = "none"
    /\ sub' = [sub EXCEPT ![s] = "live"]
    /\ readers' = [readers EXCEPT ![s][i] = "test"]
    /\ UNCHANGED <<up, closeVars, pubVars, workVars, subs, got, rtcp, rtcpWorker, asked>>

SubDisconnect(s) ==
    /\ up /\ sub[s] = "live"
    /\ sub' = [sub EXCEPT ![s] = "down"]
    /\ UNCHANGED <<up, closeVars, pubVars, workVars, subs, got, rtcpVars>>

RtcpTest(s, i) ==
    /\ up /\ readers[s][i] = "test"
    /\ readers' = [readers EXCEPT ![s][i] = IF sub[s] = "live" THEN "read" ELSE "off"]
    /\ UNCHANGED <<up, closeVars, pubVars, workVars, subVars, rtcp, rtcpWorker, asked>>

\* A feedback packet, and the test that follows ReadRTCP.
RtcpPacket(s, i) ==
    /\ up /\ readers[s][i] = "read"
    /\ readers' = [readers EXCEPT ![s][i] = IF sub[s] = "live" THEN "send" ELSE "off"]
    /\ UNCHANGED <<up, closeVars, pubVars, workVars, subVars, rtcp, rtcpWorker, asked>>

RtcpFail(s, i, eof) ==
    /\ up /\ readers[s][i] = "read"
    /\ sub' = [sub EXCEPT ![s] = IF eof /\ @ = "live" THEN "down" ELSE @]
    /\ readers' = [readers EXCEPT ![s][i] = "test"]
    /\ UNCHANGED <<up, closeVars, pubVars, workVars, subs, got, rtcp, rtcpWorker, asked>>

RtcpSend(s, i) ==
    /\ up /\ readers[s][i] = "send"
    /\ up' = (sub[s] # "closed")
    /\ sub[s] # "closed" => rtcp[s] < RtcpSize
    /\ rtcp' = [rtcp EXCEPT ![s] = IF sub[s] # "closed" THEN @ + 1 ELSE @]
    /\ readers' = [readers EXCEPT ![s][i] = "test"]
    /\ UNCHANGED <<closeVars, pubVars, workVars, subVars, rtcpWorker, asked>>

-----------------------------------------------------------------------------
(* Router.DoRTCPWork of a Sub.                                             *)

RtcpGoto(s, place) == rtcpWorker' = [rtcpWorker EXCEPT ![s] = place]

RtcpDone(s) == RtcpGoto(s, "top") /\ asked' = [asked EXCEPT ![s] = Pli]

\* Mutant of RtcpWorkTop: only the router's end is noticed.
RtcpWorkTopRouter(s) ==
    /\ up /\ rtcpWorker[s] = "top"
    /\ RtcpGoto(s, IF stop THEN "off" ELSE "read")
    /\ UNCHANGED <<up, closeVars, pubVars, workVars, subVars, rtcp, readers, asked>>

RtcpWorkTop(s) ==
    /\ up /\ rtcpWorker[s] = "top"
    /\ RtcpGoto(s, IF stop \/ sub[s] # "live" THEN "off" ELSE "read")
    /\ UNCHANGED <<up, closeVars, pubVars, workVars, subVars, rtcp, readers, asked>>

RtcpWorkRead(s, f) ==
    /\ up /\ rtcpWorker[s] = "read" /\ rtcp[s] > 0
    /\ rtcp' = [rtcp EXCEPT ![s] = @ - 1]
    /\ asked' = [asked EXCEPT ![s] = f]
    /\ RtcpGoto(s, "handle")
    /\ UNCHANGED <<up, closeVars, pubVars, workVars, subVars, readers>>

RtcpWorkReadEnd(s) ==
    /\ up /\ rtcpWorker[s] = "read" /\ rtcp[s] = 0 /\ sub[s] = "closed"
    /\ RtcpGoto(s, "top")
    /\ UNCHANGED <<up, closeVars, pubVars, workVars, subVars, rtcp, readers, asked>>

\* A picture loss is passed to the publisher; of a router without publisher
\* everything is ignored.
RtcpPli(s) ==
    /\ up /\ rtcpWorker[s] = "handle" /\ (pub = "nil" \/ asked[s] = Pli)
    /\ RtcpDone(s)
    /\ UNCHANGED <<up, closeVars, pubVars, workVars, subVars, rtcp, readers>>

\* The packet is looked up in the buffer and written to the Sub if it is there.
\* While DoVideoWork writes the map the runtime may end the process.
RtcpNack(s) ==
    /\ up /\ rtcpWorker[s] = "handle" /\ pub # "nil" /\ asked[s] # Pli
    /\ up' \in (IF worker = "write" THEN BOOLEAN ELSE {TRUE})
    /\ IF asked[s] \in buffer THEN RtcpDone(s) ELSE RtcpGoto(s, "ask") /\ UNCHANGED asked
    /\ UNCHANGED <<closeVars, pubVars, workVars, subVars, rtcp, readers>>

\* Otherwise the publisher is asked; r.pub is loaded again, and may be nil.
RtcpAsk(s) ==
    /\ up /\ rtcpWorker[s] = "ask"
    /\ up' = (pub # "nil")
    /\ RtcpDone(s)
    /\ UNCHANGED <<closeVars, pubVars, workVars, subVars, rtcp, readers>>

-----------------------------------------------------------------------------
(* Router.Close.                                                           *)

CloseStop ==
    /\ up /\ closing = "no"
    /\ stop' = TRUE /\ closing' = "pub"
    /\ UNCHANGED <<up, pub, pubVars, workVars, subVars, rtcpVars>>

ClosePub ==
    /\ up /\ closing = "pub"
    /\ pub' = "closed" /\ closing' = "nil"
    /\ UNCHANGED <<up, stop, pubVars, workVars, subVars, rtcpVars>>

CloseDropPub ==
    /\ up /\ closing = "nil"
    /\ pub' = "nil" /\ closing' = "subs"
    /\ UNCHANGED <<up, stop, pubVars, workVars, subVars, rtcpVars>>

CloseSubs ==
    /\ up /\ closing = "subs"
    /\ up' = (\A s \in subs : sub[s] # "closed")
    /\ Shut(subs) /\ subs' = {} /\ closing' = "buffer"
    /\ UNCHANGED <<stop, pub, pubVars, workVars, got, rtcpVars>>

CloseBuffer ==
    /\ up /\ closing = "buffer"
    /\ buffer' = {} /\ closing' = "done"
    /\ UNCHANGED <<up, stop, pub, pubVars, worker, pkt, subVars, rtcpVars>>

-----------------------------------------------------------------------------
ReaderStep == ReaderTest \/ ReaderSend \/ (pub # "open" /\ ReaderFail(TRUE))
WorkerStep ==
    \/ WorkerTop \/ WorkerReadEnd \/ WorkerBuffer
    \/ \E q \in Seqs : WorkerRead(q)
    \/ \E lost \in SUBSET Subs : WorkerSweep(lost)
RtcpReaderStep(s, i) ==
    RtcpTest(s, i) \/ RtcpSend(s, i) \/ (sub[s] = "closed" /\ RtcpFail(s, i, TRUE))
RtcpWorkStep(s) ==
    \/ RtcpWorkTop(s) \/ RtcpWorkReadEnd(s) \/ RtcpPli(s) \/ RtcpNack(s) \/ RtcpAsk(s)
    \/ \E f \in Feedback : RtcpWorkRead(s, f)
CloseStep == CloseStop \/ ClosePub \/ CloseDropPub \/ CloseSubs \/ CloseBuffer

Network ==
    \/ OnTrack \/ OnPeerConnect \/ ReaderPacket \/ \E eof \in BOOLEAN : ReaderFail(eof)
    \/ \E s \in Subs :
        \/ AddSub(s) \/ DelSub(s) \/ SubDisconnect(s)
        \/ \E i \in Connects :
            \/ SubConnect(s, i) \/ RtcpPacket(s, i)
            \/ \E eof \in BOOLEAN : RtcpFail(s, i, eof)

Next ==
    \/ ReaderStep \/ WorkerStep \/ CloseStep \/ Network
    \/ \E s \in Subs : RtcpWorkStep(s) \/ \E i \in Connects : RtcpReaderStep(s, i)

Spec == Init /\ [][Next]_vars

(***************************************************************************)
(* Fairness.  A goroutine that can run does run, and a read from a         *)
(* connection that was closed returns.  Nothing is assumed of packets,     *)
(* callbacks and clients, nor that anybody closes the router; a Close that *)
(* has begun goes on.                                                      *)
(***************************************************************************)
Fairness ==
    /\ WF_vars(ReaderStep) /\ WF_vars(WorkerStep)
    /\ WF_vars(closing # "no" /\ CloseStep)
    /\ \A s \in Subs : WF_vars(RtcpWorkStep(s))
    /\ \A s \in Subs, i \in Connects : WF_vars(RtcpReaderStep(s, i))

FairSpec == Spec /\ Fairness

-----------------------------------------------------------------------------
\* What ends the process: a goroutine that sends to a channel Close has closed, of
\* the publisher or of a subscriber, also if it was waiting there; a packet looked
\* up while the buffer is written; a request for a packet that finds no publisher.
\* Nothing else does, in particular neither a sweep nor Close nor an unsubscription
\* meets a subscriber that was closed before.
KnownMediaCrash ==
    [][up /\ ~up' =>
         \/ reader = "send" /\ pub # "open"
         \/ \E s \in Subs, i \in Connects : readers[s][i] = "send" /\ sub[s] = "closed"
         \/ \E s \in Subs : rtcpWorker[s] = "handle" /\ worker = "write"
         \/ \E s \in Subs : rtcpWorker[s] = "ask" /\ pub = "nil"]_vars

\* A publisher's packets do not get stuck: DoVideoRTP waits for room in the
\* channel only as long as DoVideoWork has work, whoever subscribes, unless
\* DoVideoWork has returned.
PacketsDrain == reader = "send" ~> reader # "send" \/ worker = "off" \/ ~up

\* DoVideoRTP ends after its publisher was closed, wherever it was.
ReaderEnds == pub # "open" ~> reader \in {"none", "off"} \/ ~up

\* All goroutines of a subscriber that was closed end, those of its earlier
\* connections included.
SubEnds ==
    \A s \in Subs : sub[s] = "closed" ~>
        (rtcpWorker[s] = "off" /\ \A i \in Connects : readers[s][i] \in {"none", "off"}) \/ ~up

=============================================================================
