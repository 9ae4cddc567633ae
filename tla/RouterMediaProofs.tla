------------------------- MODULE RouterMediaProofs -------------------------
(***************************************************************************)
(* Proofs about RouterMedia, for any number of subscriptions and of        *)
(* connects of each, any packets and any capacities of the channels.       *)
(***************************************************************************)
EXTENDS RouterMedia, TLAPS

\* A Sub in the map is connected or not, but never closed.
SubsOpen == \A s \in subs : sub[s] \in {"live", "down"}

MediaInv == TypeOK /\ SubsOpen

\* Before the track arrives there are no packets and no subscribers.
LEMMA InitMedia == Init => MediaInv
  <1> SUFFICES ASSUME Init PROVE MediaInv
    OBVIOUS
  <1> USE DEF Init
  <1>1. ch \in 0..ChanSize /\ rtcp \in [Subs -> 0..RtcpSize]
    BY SizesAssumption
  <1>2. /\ readers \in [Subs -> [Connects -> Reader]]
        /\ asked \in [Subs -> Feedback]
    BY DEF Reader, Feedback
  <1> QED
    BY <1>1, <1>2 DEF MediaInv, TypeOK, SubsOpen, Reader

\* The publisher's steps.
LEMMA PublisherKeeps ==
    ASSUME MediaInv, ReaderStep \/ OnTrack \/ OnPeerConnect \/ ReaderPacket
                       \/ \E eof \in BOOLEAN : ReaderFail(eof)
    PROVE  MediaInv'
  <1> USE SizesAssumption
       DEF MediaInv, TypeOK, SubsOpen, Reader, closeVars, pubVars, workVars, subVars, rtcpVars
  <1>1. CASE ReaderTest
    BY <1>1 DEF ReaderTest
  <1>2. CASE ReaderSend
    <2>1. up' \in BOOLEAN /\ ch' \in 0..ChanSize
      BY <1>2 DEF ReaderSend
    <2> QED
      BY <1>2, <2>1 DEF ReaderSend
  <1>3. ASSUME NEW eof \in BOOLEAN, ReaderFail(eof) PROVE MediaInv'
    <2>1. alive' \in BOOLEAN
      BY <1>3, Zenon DEF ReaderFail
    <2> QED
      BY <1>3, <2>1 DEF ReaderFail
  <1>4. CASE OnTrack
    BY <1>4 DEF OnTrack
  <1>5. CASE OnPeerConnect
    BY <1>5 DEF OnPeerConnect
  <1>6. CASE ReaderPacket
    BY <1>6 DEF ReaderPacket
  <1> QED
    BY <1>1, <1>2, <1>3, <1>4, <1>5, <1>6, TRUE \in BOOLEAN DEF ReaderStep

\* The steps of DoVideoWork: the subscribers a sweep closes leave the map.
LEMMA WorkerKeeps ==
    ASSUME MediaInv, WorkerStep
    PROVE  MediaInv'
  <1> USE DEF MediaInv, TypeOK, SubsOpen, closeVars, pubVars, workVars, subVars, rtcpVars
  <1>1. CASE WorkerTop
    BY <1>1 DEF WorkerTop
  <1>2. CASE WorkerReadEnd
    BY <1>2 DEF WorkerReadEnd
  <1>3. CASE WorkerBuffer
    BY <1>3 DEF WorkerBuffer
  <1>4. ASSUME NEW q \in Seqs, WorkerRead(q) PROVE MediaInv'
    BY <1>4, SizesAssumption DEF WorkerRead
  <1>5. ASSUME NEW lost \in SUBSET Subs, WorkerSweep(lost) PROVE MediaInv'
    <2>1. up' \in BOOLEAN
      BY <1>5 DEF WorkerSweep
    <2>2. subs' \subseteq Subs /\ got' \subseteq Subs
      BY <1>5 DEF WorkerSweep
    <2>3. sub' \in [Subs -> {"new", "live", "down", "closed"}]
      BY <1>5 DEF WorkerSweep
    <2>4. SubsOpen'
      BY <1>5 DEF WorkerSweep
    <2> QED
      BY <1>5, <2>1, <2>2, <2>3, <2>4 DEF WorkerSweep
  <1> QED
    BY <1>1, <1>2, <1>3, <1>4, <1>5 DEF WorkerStep

\* The steps of a subscriber and its DoVideoRtcp goroutines.
LEMMA SubscriberKeeps ==
    ASSUME MediaInv, NEW s \in Subs,
           \/ AddSub(s) \/ DelSub(s) \/ SubDisconnect(s)
           \/ \E i \in Connects :
                \/ SubConnect(s, i) \/ RtcpPacket(s, i) \/ RtcpReaderStep(s, i)
                \/ \E eof \in BOOLEAN : RtcpFail(s, i, eof)
    PROVE  MediaInv'
  <1> USE DEF MediaInv, TypeOK, SubsOpen, Reader, closeVars, pubVars, workVars, subVars, rtcpVars
  <1>1. CASE AddSub(s)
    BY <1>1 DEF AddSub
  <1>2. CASE SubDisconnect(s)
    BY <1>2 DEF SubDisconnect
  <1>3. ASSUME NEW i \in Connects, SubConnect(s, i) PROVE MediaInv'
    BY <1>3 DEF SubConnect
  <1>4. ASSUME NEW i \in Connects, RtcpPacket(s, i) PROVE MediaInv'
    BY <1>4 DEF RtcpPacket
  <1>5. ASSUME NEW i \in Connects, RtcpTest(s, i) PROVE MediaInv'
    BY <1>5 DEF RtcpTest
  <1>6. ASSUME NEW i \in Connects, RtcpSend(s, i) PROVE MediaInv'
    <2>1. up' \in BOOLEAN
      BY <1>6 DEF RtcpSend
    <2>2. rtcp' \in [Subs -> 0..RtcpSize]
      BY <1>6, SizesAssumption DEF RtcpSend
    <2> QED
      BY <1>6, <2>1, <2>2 DEF RtcpSend
  <1>7. ASSUME NEW i \in Connects, NEW eof \in BOOLEAN, RtcpFail(s, i, eof) PROVE MediaInv'
    BY <1>7 DEF RtcpFail
  <1>8. CASE DelSub(s)
    BY <1>8 DEF DelSub, Shut
  <1> QED
    BY <1>1, <1>2, <1>3, <1>4, <1>5, <1>6, <1>7, <1>8, TRUE \in BOOLEAN DEF RtcpReaderStep

\* The steps of DoRTCPWork.
LEMMA RtcpWorkKeeps ==
    ASSUME MediaInv, NEW s \in Subs, RtcpWorkStep(s)
    PROVE  MediaInv'
  <1> USE DEF MediaInv, TypeOK, SubsOpen, RtcpGoto, RtcpDone, Feedback,
              closeVars, pubVars, workVars, subVars, rtcpVars
  <1>1. CASE RtcpWorkTop(s)
    BY <1>1 DEF RtcpWorkTop
  <1>2. CASE RtcpWorkReadEnd(s)
    BY <1>2 DEF RtcpWorkReadEnd
  <1>3. CASE RtcpPli(s)
    BY <1>3 DEF RtcpPli
  <1>4. CASE RtcpNack(s)
    <2>1. up' \in BOOLEAN
      BY <1>4 DEF RtcpNack
    <2> QED
      BY <1>4, <2>1 DEF RtcpNack
  <1>5. CASE RtcpAsk(s)
    <2>1. up' \in BOOLEAN
      BY <1>5 DEF RtcpAsk
    <2> QED
      BY <1>5, <2>1 DEF RtcpAsk
  <1>6. ASSUME NEW f \in Feedback, RtcpWorkRead(s, f) PROVE MediaInv'
    <2>1. rtcp' \in [Subs -> 0..RtcpSize]
      BY <1>6, SizesAssumption DEF RtcpWorkRead
    <2> QED
      BY <1>6, <2>1 DEF RtcpWorkRead
  <1> QED
    BY <1>1, <1>2, <1>3, <1>4, <1>5, <1>6 DEF RtcpWorkStep

\* The steps of Router.Close: the subscribers it closes leave the map.
LEMMA CloseKeeps ==
    ASSUME MediaInv, CloseStep
    PROVE  MediaInv'
  <1> USE DEF MediaInv, TypeOK, SubsOpen, closeVars, pubVars, workVars, subVars, rtcpVars
  <1>1. CASE CloseStop
    BY <1>1 DEF CloseStop
  <1>2. CASE ClosePub
    BY <1>2 DEF ClosePub
  <1>3. CASE CloseDropPub
    BY <1>3 DEF CloseDropPub
  <1>4. CASE CloseSubs
    BY <1>4 DEF CloseSubs, Shut
  <1>5. CASE CloseBuffer
    BY <1>5 DEF CloseBuffer
  <1> QED
    BY <1>1, <1>2, <1>3, <1>4, <1>5 DEF CloseStep

\* Every step keeps the invariant.
LEMMA StepMedia == MediaInv /\ [Next]_vars => MediaInv'
  <1> SUFFICES ASSUME MediaInv, [Next]_vars PROVE MediaInv'
    OBVIOUS
  <1>1. CASE UNCHANGED vars
    BY <1>1 DEF MediaInv, TypeOK, SubsOpen, vars, closeVars, pubVars, workVars, subVars, rtcpVars
  <1>2. CASE Next
    BY <1>2, PublisherKeeps, WorkerKeeps, SubscriberKeeps, RtcpWorkKeeps, CloseKeeps
       DEF Next, Network
  <1> QED
    BY <1>1, <1>2

\* The media path keeps its types and never has a closed Sub in the map of a router
\* that runs its own sweeps and Close (router.go:179-258).
THEOREM MediaAlways == Spec => []MediaInv
  BY InitMedia, StepMedia, PTL DEF Spec

\* Every variable of the media path keeps its type: in particular no channel holds
\* more than its capacity, whatever goroutines fill it (rtcpub.go:159, rtcsub.go:74).
THEOREM MediaTypeCorrect == Spec => []TypeOK
  BY MediaAlways, PTL DEF MediaInv

\* What can end the process is one of the four known causes, whatever the number of
\* subscriptions, of their reconnections, and the capacities (router.go:179-300).
THEOREM MediaCrashKnown == Spec => KnownMediaCrash
  <1> DEFINE Known ==
         \/ reader = "send" /\ pub # "open"
         \/ \E s \in Subs, i \in Connects : readers[s][i] = "send" /\ sub[s] = "closed"
         \/ \E s \in Subs : rtcpWorker[s] = "handle" /\ worker = "write"
         \/ \E s \in Subs : rtcpWorker[s] = "ask" /\ pub = "nil"
  <1>1. ASSUME MediaInv, Next, up, ~up' PROVE Known
    <2> USE <1>1 DEF closeVars, pubVars, workVars, subVars, rtcpVars
    <2>1. CASE ReaderStep
      BY <2>1 DEF ReaderStep, ReaderTest, ReaderSend, ReaderFail
    <2>2. CASE WorkerStep
      <3>1. ASSUME NEW lost \in SUBSET Subs, WorkerSweep(lost) PROVE up'
        BY <3>1 DEF WorkerSweep, MediaInv, SubsOpen
      <3> QED
        BY <2>2, <3>1 DEF WorkerStep, WorkerTop, WorkerReadEnd, WorkerBuffer, WorkerRead
    <2>3. CASE CloseStep
      BY <2>3 DEF CloseStep, CloseStop, ClosePub, CloseDropPub, CloseSubs, CloseBuffer,
                  MediaInv, SubsOpen
    <2>4. CASE Network
      BY <2>4 DEF MediaInv, SubsOpen, Network, OnTrack, OnPeerConnect, ReaderPacket,
                  ReaderFail, AddSub, DelSub, SubDisconnect, SubConnect, RtcpPacket, RtcpFail
    <2>5. ASSUME NEW s \in Subs, RtcpWorkStep(s) PROVE Known
      <3>1. CASE RtcpNack(s)
        BY <3>1 DEF RtcpNack
      <3>2. CASE RtcpAsk(s)
        BY <3>2 DEF RtcpAsk
      <3> QED
        BY <2>5, <3>1, <3>2 DEF RtcpWorkStep, RtcpWorkTop, RtcpWorkReadEnd, RtcpPli, RtcpWorkRead
    <2>6. ASSUME NEW s \in Subs, NEW i \in Connects, RtcpReaderStep(s, i) PROVE Known
      BY <2>6 DEF RtcpReaderStep, RtcpTest, RtcpSend, RtcpFail
    <2> QED
      BY <2>1, <2>2, <2>3, <2>4, <2>5, <2>6 DEF Next
  <1>2. MediaInv /\ [Next]_vars => [up /\ ~up' => Known]_vars
    BY <1>1 DEF vars
  <1> QED
    BY <1>2, MediaAlways, PTL DEF Spec, KnownMediaCrash

\* Who gets a packet in this step is not connected any more.
OnlyLate == \A s \in Subs : s \in got' \ got => sub'[s] # "live"

\* No packet is written to a subscriber that is connected: WriteVideoRTP writes only to
\* those that are not (rtcsub.go:215), and DoVideoWork closes these first (router.go:246).
THEOREM NobodyLiveGets == Spec => [][OnlyLate]_vars
  <1>1. ASSUME Next PROVE OnlyLate
    <2> USE DEF OnlyLate, subVars, closeVars, pubVars, workVars, rtcpVars
    <2>1. CASE WorkerStep
      BY <2>1 DEF WorkerStep, WorkerTop, WorkerRead, WorkerReadEnd, WorkerBuffer,
                  WorkerSweep, Writes
    <2>2. CASE ReaderStep
      BY <2>2 DEF ReaderStep, ReaderTest, ReaderSend, ReaderFail
    <2>3. CASE CloseStep
      BY <2>3 DEF CloseStep, CloseStop, ClosePub, CloseDropPub, CloseSubs, CloseBuffer
    <2>4. CASE Network
      BY <2>4 DEF Network, OnTrack, OnPeerConnect, ReaderPacket, ReaderFail, AddSub, DelSub,
                  SubDisconnect, SubConnect, RtcpPacket, RtcpFail
    <2>5. ASSUME NEW s \in Subs, RtcpWorkStep(s) PROVE OnlyLate
      BY <2>5 DEF RtcpWorkStep, RtcpWorkTop, RtcpWorkReadEnd, RtcpWorkRead, RtcpPli, RtcpNack,
                  RtcpAsk, RtcpGoto, RtcpDone
    <2>6. ASSUME NEW s \in Subs, NEW i \in Connects, RtcpReaderStep(s, i) PROVE OnlyLate
      BY <2>6 DEF RtcpReaderStep, RtcpTest, RtcpSend, RtcpFail
    <2> HIDE DEF OnlyLate
    <2> QED
      BY <1>1, <2>1, <2>2, <2>3, <2>4, <2>5, <2>6 DEF Next
  <1> QED
    BY <1>1, PTL DEF Spec

=============================================================================
