---------------------------- MODULE StreamsProofs ----------------------------
(***************************************************************************)
(* Proofs about Streams, for any streams, SFUs, goroutines and faults.     *)
(*                                                                         *)
(* The three safety properties rest on what a request may assume of its    *)
(* stream while it waits: a stream that publish is about to register is    *)
(* nobody else's yet (Adding), one that unpublish is about to remove is on *)
(* no SFU any more (Dropping), and one that subscribe is about to remove,  *)
(* with its publisher's uid, is on none or was refused (Refusing).         *)
(***************************************************************************)
EXTENDS Streams, TLAPS

Adding ==
    \A h \in Handlers : call[h].at = "add" =>
        LET m == call[h].mid IN
        /\ m \in live \cup ended /\ m \notin accepted /\ pub[m] = None
        /\ \A u \in Uids : <<u, m>> \notin gone
        /\ \A g \in Handlers : call[g].mid = m => g = h

Dropping == \A h \in Handlers : call[h].at = "drop" => call[h].mid \notin live

Refusing ==
    \A h \in Handlers : call[h].at = "refuse" =>
        /\ call[h].uid = Uid(call[h].mid)
        /\ call[h].mid \in live => call[h].mid \in refused

\* A stream not yet drawn is nowhere, and a request has a stream that was, and a client.
Drawn ==
    /\ accepted \cup ended \subseteq {m \in Mids : home[m] # None}
    /\ \A u \in Uids, m \in Mids : <<u, m>> \in gone => home[m] # None
    /\ \A h \in Handlers :
           IF call[h].at = "idle" THEN call[h].mid = None
           ELSE call[h].mid \in Mids /\ home[call[h].mid] # None /\ call[h].uid \in Uids

IInv ==
    /\ TypeOK /\ Adding /\ Dropping /\ Refusing /\ Drawn
    /\ RegisteredIsLive /\ LiveIsRegistered /\ UnpublishedIsGone

\* Every action keeps the types.
LEMMA TypeOKStep == TypeOK /\ Drawn /\ Next => TypeOK'
<1> SUFFICES ASSUME TypeOK, Drawn, Next PROVE TypeOK'
    OBVIOUS
<1> USE NoneAssumption, UidAssumption, LimitAssumption
    DEF TypeOK, Drawn, Task, Places, Idle, At, Start, Return, Works, Fails, history
<1>1. ASSUME NEW h \in Handlers, NEW m \in Mids, NEW s \in Sfus, Publish(h, m, s) PROVE TypeOK'
    BY <1>1 DEF Publish
<1>2. ASSUME NEW h \in Handlers, PublishAdd(h) PROVE TypeOK'
    BY <1>2 DEF PublishAdd
<1>3. ASSUME NEW h \in Handlers, NEW m \in Mids, NEW u \in Uids, Unpublish(h, m, u) PROVE TypeOK'
    BY <1>3 DEF Unpublish
<1>4. ASSUME NEW h \in Handlers, UnpublishDrop(h) PROVE TypeOK'
    BY <1>4 DEF UnpublishDrop, CallRemove
<1>5. ASSUME NEW h \in Handlers, NEW m \in Mids, Subscribe(h, m) PROVE TypeOK'
    BY <1>5 DEF Subscribe
<1>6. ASSUME NEW h \in Handlers, SubscribeDrop(h) PROVE TypeOK'
    BY <1>6 DEF SubscribeDrop, CallRemove
<1>7. ASSUME NEW m \in Mids, SfuCleans(m) \/ Expire(m) PROVE TypeOK'
    BY <1>7 DEF SfuCleans, Expire
<1>8. ASSUME NEW s \in Sfus, SfuEnds(s) \/ SfuStarts(s) PROVE TypeOK'
    BY <1>8 DEF SfuEnds, SfuStarts
<1>9. ASSUME NEW h \in Handlers, SignalEnds(h) PROVE TypeOK'
    BY <1>9 DEF SignalEnds
<1> QED BY <1>1, <1>2, <1>3, <1>4, <1>5, <1>6, <1>7, <1>8, <1>9 DEF Next, Request, Environment

\* What the requests assume, kept by every action.
LEMMA RequestsStep ==
    TypeOK /\ Adding /\ Dropping /\ Refusing /\ Drawn /\ Next => (Adding /\ Dropping /\ Refusing /\ Drawn)'
<1> SUFFICES ASSUME TypeOK, Adding, Dropping, Refusing, Drawn, Next
             PROVE  (Adding /\ Dropping /\ Refusing /\ Drawn)'
    OBVIOUS
<1> USE NoneAssumption, UidAssumption DEF TypeOK, Adding, Dropping, Refusing, Drawn, Task, Places, Idle, At, Start, Return, Works, Fails, history
<1>1. ASSUME NEW h \in Handlers, NEW m \in Mids, NEW s \in Sfus, Publish(h, m, s)
      PROVE  (Adding /\ Dropping /\ Refusing /\ Drawn)'
    BY <1>1 DEF Publish
<1>2. ASSUME NEW h \in Handlers, PublishAdd(h) PROVE (Adding /\ Dropping /\ Refusing /\ Drawn)'
    BY <1>2 DEF PublishAdd
<1>3. ASSUME NEW h \in Handlers, NEW m \in Mids, NEW u \in Uids, Unpublish(h, m, u) PROVE (Adding /\ Dropping /\ Refusing /\ Drawn)'
    BY <1>3 DEF Unpublish, Known
<1>4. ASSUME NEW h \in Handlers, UnpublishDrop(h) PROVE (Adding /\ Dropping /\ Refusing /\ Drawn)'
    BY <1>4 DEF UnpublishDrop, CallRemove
<1>5. ASSUME NEW h \in Handlers, NEW m \in Mids, Subscribe(h, m) PROVE (Adding /\ Dropping /\ Refusing /\ Drawn)'
    BY <1>5 DEF Subscribe, Known
<1>6. ASSUME NEW h \in Handlers, SubscribeDrop(h) PROVE (Adding /\ Dropping /\ Refusing /\ Drawn)'
    BY <1>6 DEF SubscribeDrop, CallRemove
<1>7. ASSUME NEW m \in Mids, SfuCleans(m) \/ Expire(m) PROVE (Adding /\ Dropping /\ Refusing /\ Drawn)'
    BY <1>7 DEF SfuCleans, Expire
<1>8. ASSUME NEW s \in Sfus, SfuEnds(s) \/ SfuStarts(s) PROVE (Adding /\ Dropping /\ Refusing /\ Drawn)'
    BY <1>8 DEF SfuEnds, SfuStarts
<1>9. ASSUME NEW h \in Handlers, SignalEnds(h) PROVE (Adding /\ Dropping /\ Refusing /\ Drawn)'
    BY <1>9 DEF SignalEnds
<1> QED BY <1>1, <1>2, <1>3, <1>4, <1>5, <1>6, <1>7, <1>8, <1>9 DEF Next, Request, Environment

\* What another client has taken off its SFU stays so.
LEMMA TakenStays == ASSUME gone \subseteq gone', NEW m \in Mids, TakenByOther(m) PROVE TakenByOther(m)'
    BY DEF TakenByOther

LEMMA TakenNow ==
    ASSUME NEW m \in Mids, NEW u \in Uids, u # Uid(m), <<u, m>> \in gone'
    PROVE  TakenByOther(m)'
    BY DEF TakenByOther

\* A request that ends breaks nothing if it leaves its own stream unregistered, or
\* excused, and touches no other.
LEMMA ReturnKeeps ==
    ASSUME RegisteredIsLive, NEW m \in Mids,
           live' = live, ended' = ended, failed \subseteq failed',
           \A n \in Mids : TakenByOther(n) => TakenByOther(n)',
           pub'[m] = None \/ m \in failed' \/ TakenByOther(m)',
           \A n \in Mids \ {m} : /\ pub'[n] = pub[n]
                                 /\ Runs("drop", n) => Runs("drop", n)'
                                 /\ Runs("refuse", n) => Runs("refuse", n)'
    PROVE  RegisteredIsLive'
    BY DEF RegisteredIsLive

\* What is registered stays live, or somebody is about to remove it.
LEMMA RegisteredStep == TypeOK /\ Adding /\ Refusing /\ Drawn /\ RegisteredIsLive /\ Next => RegisteredIsLive'
<1> SUFFICES ASSUME TypeOK, Adding, Refusing, Drawn, RegisteredIsLive, Next PROVE RegisteredIsLive'
    OBVIOUS
<1>0. gone \subseteq gone'
    BY DEF Next, Request, Environment, Publish, PublishAdd, Unpublish, UnpublishDrop, Subscribe, SubscribeDrop,
           SfuCleans, Expire, SfuEnds, SfuStarts, SignalEnds, history
<1>t. \A m \in Mids : TakenByOther(m) => TakenByOther(m)'
    BY <1>0, TakenStays
<1> USE NoneAssumption, UidAssumption DEF RegisteredIsLive, Runs, Adding, TypeOK, Drawn, Task, Places, Idle, At, Start, Return, Works, Fails, history
<1>1. ASSUME NEW h \in Handlers, NEW m \in Mids, NEW s \in Sfus, Publish(h, m, s) PROVE RegisteredIsLive'
    BY <1>t, <1>1 DEF Publish
<1>2. ASSUME NEW h \in Handlers, PublishAdd(h) PROVE RegisteredIsLive'
    BY <1>t, <1>2 DEF PublishAdd
<1>3. ASSUME NEW h \in Handlers, NEW m \in Mids, NEW u \in Uids, Unpublish(h, m, u) PROVE RegisteredIsLive'
    <2>1. CASE failed' = failed
        BY <1>t, <1>3, <2>1 DEF Unpublish, Known
    <2>2. CASE failed' # failed
        BY <1>t, <1>3, <2>2 DEF Unpublish, Known
    <2> QED BY <2>1, <2>2
<1>4. ASSUME NEW h \in Handlers, UnpublishDrop(h) PROVE RegisteredIsLive'
    <2>0. PICK m \in Mids, u \in Uids : m = call[h].mid /\ u = call[h].uid
        BY <1>4 DEF UnpublishDrop
    <2>1. call' = [call EXCEPT ![h] = Idle] /\ live' = live /\ ended' = ended
        BY <1>4 DEF UnpublishDrop
    <2>2. pub'[m] = None \/ m \in failed' \/ TakenByOther(m)'
        <3>1. CASE u = Uid(m)
            BY <1>4, <2>0, <3>1 DEF UnpublishDrop, CallRemove
        <3>2. CASE u # Uid(m)
            <4>1. m \in failed' \/ <<u, m>> \in gone'
                BY <1>4, <2>0 DEF UnpublishDrop, CallRemove
            <4> QED BY <3>2, <4>1, TakenNow
        <3> QED BY <3>1, <3>2
    <2>3. failed \subseteq failed' /\ \A n \in Mids \ {m} : pub'[n] = pub[n]
        BY <1>4, <2>0 DEF UnpublishDrop, CallRemove
    <2>4. \A n \in Mids \ {m} : (Runs("drop", n) => Runs("drop", n)') /\ (Runs("refuse", n) => Runs("refuse", n)')
        BY <2>0, <2>1
    <2> HIDE DEF Runs, RegisteredIsLive
    <2> QED BY <1>t, <2>1, <2>2, <2>3, <2>4, ReturnKeeps
<1>5. ASSUME NEW h \in Handlers, NEW m \in Mids, Subscribe(h, m) PROVE RegisteredIsLive'
    BY <1>t, <1>5 DEF Subscribe, Known
<1>6. ASSUME NEW h \in Handlers, SubscribeDrop(h) PROVE RegisteredIsLive'
    <2>0. PICK m \in Mids : m = call[h].mid
        BY <1>6 DEF SubscribeDrop
    <2>1. call' = [call EXCEPT ![h] = Idle] /\ live' = live /\ ended' = ended
        BY <1>6 DEF SubscribeDrop
    <2>2. pub'[m] = None \/ m \in failed'
        BY <1>6, <2>0 DEF SubscribeDrop, CallRemove, Refusing
    <2>3. failed \subseteq failed' /\ \A n \in Mids \ {m} : pub'[n] = pub[n]
        BY <1>6, <2>0 DEF SubscribeDrop, CallRemove
    <2>4. \A n \in Mids \ {m} : (Runs("drop", n) => Runs("drop", n)') /\ (Runs("refuse", n) => Runs("refuse", n)')
        BY <2>0, <2>1
    <2> HIDE DEF Runs, RegisteredIsLive
    <2> QED BY <1>t, <2>1, <2>2, <2>3, <2>4, ReturnKeeps
<1>7. ASSUME NEW m \in Mids, SfuCleans(m) \/ Expire(m) PROVE RegisteredIsLive'
    BY <1>t, <1>7 DEF SfuCleans, Expire
<1>8. ASSUME NEW s \in Sfus, SfuEnds(s) \/ SfuStarts(s) PROVE RegisteredIsLive'
    BY <1>t, <1>8 DEF SfuEnds, SfuStarts
<1>9. ASSUME NEW h \in Handlers, SignalEnds(h) PROVE RegisteredIsLive'
    BY <1>t, <1>9 DEF SignalEnds
<1> QED BY <1>1, <1>2, <1>3, <1>4, <1>5, <1>6, <1>7, <1>8, <1>9 DEF Next, Request, Environment

\* What is live stays registered, or has a reason not to be.
LEMMA LiveStep == TypeOK /\ Adding /\ Dropping /\ Refusing /\ Drawn /\ LiveIsRegistered /\ Next => LiveIsRegistered'
<1> SUFFICES ASSUME TypeOK, Adding, Dropping, Refusing, Drawn, LiveIsRegistered, Next PROVE LiveIsRegistered'
    OBVIOUS
<1> USE NoneAssumption, UidAssumption DEF LiveIsRegistered, Runs, Adding, Dropping, Refusing, TypeOK, Drawn, Task, Places, Idle, At, Start, Return, Works, Fails, history
<1>1. ASSUME NEW h \in Handlers, NEW m \in Mids, NEW s \in Sfus, Publish(h, m, s) PROVE LiveIsRegistered'
    BY <1>1 DEF Publish
<1>2. ASSUME NEW h \in Handlers, PublishAdd(h) PROVE LiveIsRegistered'
    BY <1>2 DEF PublishAdd
<1>3. ASSUME NEW h \in Handlers, NEW m \in Mids, NEW u \in Uids, Unpublish(h, m, u) PROVE LiveIsRegistered'
    BY <1>3 DEF Unpublish, Known
<1>4. ASSUME NEW h \in Handlers, UnpublishDrop(h) PROVE LiveIsRegistered'
    BY <1>4 DEF UnpublishDrop, CallRemove
<1>5. ASSUME NEW h \in Handlers, NEW m \in Mids, Subscribe(h, m) PROVE LiveIsRegistered'
    BY <1>5 DEF Subscribe, Known
<1>6. ASSUME NEW h \in Handlers, SubscribeDrop(h) PROVE LiveIsRegistered'
    BY <1>6 DEF SubscribeDrop, CallRemove
<1>7. ASSUME NEW m \in Mids, SfuCleans(m) \/ Expire(m) PROVE LiveIsRegistered'
    BY <1>7 DEF SfuCleans, Expire
<1>8. ASSUME NEW s \in Sfus, SfuEnds(s) \/ SfuStarts(s) PROVE LiveIsRegistered'
    BY <1>8 DEF SfuEnds, SfuStarts
<1>9. ASSUME NEW h \in Handlers, SignalEnds(h) PROVE LiveIsRegistered'
    BY <1>9 DEF SignalEnds
<1> QED BY <1>1, <1>2, <1>3, <1>4, <1>5, <1>6, <1>7, <1>8, <1>9 DEF Next, Request, Environment

\* What was unpublished does not come back.
LEMMA GoneStep == TypeOK /\ Adding /\ Dropping /\ Drawn /\ UnpublishedIsGone /\ Next => UnpublishedIsGone'
<1> SUFFICES ASSUME TypeOK, Adding, Dropping, Drawn, UnpublishedIsGone, Next PROVE UnpublishedIsGone'
    OBVIOUS
<1> USE NoneAssumption, UidAssumption DEF UnpublishedIsGone, Adding, Dropping, TypeOK, Drawn, Task, Places, Idle, At, Start, Return, Works, Fails, history
<1>1. ASSUME NEW h \in Handlers, NEW m \in Mids, NEW s \in Sfus, Publish(h, m, s) PROVE UnpublishedIsGone'
    BY <1>1 DEF Publish
<1>2. ASSUME NEW h \in Handlers, PublishAdd(h) PROVE UnpublishedIsGone'
    BY <1>2 DEF PublishAdd
<1>3. ASSUME NEW h \in Handlers, NEW m \in Mids, NEW u \in Uids, Unpublish(h, m, u) PROVE UnpublishedIsGone'
    BY <1>3 DEF Unpublish, Known
<1>4. ASSUME NEW h \in Handlers, UnpublishDrop(h) PROVE UnpublishedIsGone'
    BY <1>4 DEF UnpublishDrop, CallRemove
<1>5. ASSUME NEW h \in Handlers, NEW m \in Mids, Subscribe(h, m) PROVE UnpublishedIsGone'
    BY <1>5 DEF Subscribe, Known
<1>6. ASSUME NEW h \in Handlers, SubscribeDrop(h) PROVE UnpublishedIsGone'
    BY <1>6 DEF SubscribeDrop, CallRemove
<1>7. ASSUME NEW m \in Mids, SfuCleans(m) \/ Expire(m) PROVE UnpublishedIsGone'
    BY <1>7 DEF SfuCleans, Expire
<1>8. ASSUME NEW s \in Sfus, SfuEnds(s) \/ SfuStarts(s) PROVE UnpublishedIsGone'
    BY <1>8 DEF SfuEnds, SfuStarts
<1>9. ASSUME NEW h \in Handlers, SignalEnds(h) PROVE UnpublishedIsGone'
    BY <1>9 DEF SignalEnds
<1> QED BY <1>1, <1>2, <1>3, <1>4, <1>5, <1>6, <1>7, <1>8, <1>9 DEF Next, Request, Environment

LEMMA InitInv == Init => IInv
    BY NoneAssumption, LimitAssumption
    DEF Init, IInv, TypeOK, Adding, Dropping, Refusing, Drawn, Task, Places, Idle,
        RegisteredIsLive, LiveIsRegistered, UnpublishedIsGone

LEMMA StutterInv == IInv /\ UNCHANGED vars => IInv'
    BY DEF IInv, TypeOK, Adding, Dropping, Refusing, Drawn, Runs, vars, history,
        RegisteredIsLive, TakenByOther, LiveIsRegistered, UnpublishedIsGone

LEMMA StepInv == IInv /\ [Next]_vars => IInv'
    BY StutterInv, TypeOKStep, RequestsStep, RegisteredStep, LiveStep, GoneStep DEF IInv

LEMMA Invariance == Spec => []IInv
    BY InitInv, StepInv, PTL DEF Spec

THEOREM StreamsTyped == Spec => []TypeOK
<1>1. IInv => TypeOK
    BY DEF IInv
<1> QED BY <1>1, Invariance, PTL

\* However publish, unpublish and subscribe of many clients interleave, and whichever
\* calls fail, the register lists no stream that is gone, unless a call failed, the SFU
\* dropped the stream or ended, or a client other than its publisher unpublished it.
THEOREM NothingDeadListed == Spec => []RegisteredIsLive
<1>1. IInv => RegisteredIsLive
    BY DEF IInv
<1> QED BY <1>1, Invariance, PTL

\* ... nor does an SFU keep a stream that the register does not list.
THEOREM NothingLiveHidden == Spec => []LiveIsRegistered
<1>1. IInv => LiveIsRegistered
    BY DEF IInv
<1> QED BY <1>1, Invariance, PTL

\* An unpublish that was accepted is final: the stream is on no SFU again, whoever asked,
\* and if its publisher did it is in no register again either, but for a lost command.
THEOREM UnpublishIsFinal == Spec => []UnpublishedIsGone
<1>1. IInv => UnpublishedIsGone
    BY DEF IInv
<1> QED BY <1>1, Invariance, PTL

=============================================================================
