-------------------------- MODULE SfuRouterProofs --------------------------
(***************************************************************************)
(* Proofs about SfuRouter, for any number of handlers, streams and         *)
(* subscriptions and any capacity of CleanRouter.                          *)
(***************************************************************************)
EXTENDS SfuRouter, TLAPS

\* Where each thread can be, and that it has a router and a subscription to
\* work on when it is there.
PlaceOK ==
    /\ \A h \in Handlers : pc[h] \in HandlerPC
    /\ pc[Checker] \in CheckerPC
    /\ \A t \in Threads : pc[t] \notin {"idle", "scan"} => tgt[t] \in Mids
    /\ \A h \in Handlers :
         pc[h] \in {"tracks", "answer", "insert", "delSub"} => arg[h] \in Sids

TypeInv == TypeOK /\ PlaceOK

LEMMA InitTyped == Init => TypeInv
  <1> SUFFICES ASSUME Init PROVE TypeInv
    OBVIOUS
  <1> USE ThreadsAssumption, IdsAssumption DEF Init
  <1>1. TypeOK
    BY DEF TypeOK, Threads, Kinds, SubState, HandlerPC, CheckerPC
  <1>2. PlaceOK
    BY DEF PlaceOK, Threads, HandlerPC, CheckerPC
  <1> QED
    BY <1>1, <1>2 DEF TypeInv

\* The steps of a request's handler keep the types.
LEMMA HandlerTyped ==
    ASSUME TypeInv, NEW h \in Handlers, Request(h) \/ HandlerStep(h)
    PROVE  TypeInv'
  <1> USE ThreadsAssumption, IdsAssumption
       DEF TypeInv, TypeOK, PlaceOK, Threads, HandlerPC, CheckerPC, At, Goto, Begin, Finish,
           tableVars, pubVars, mediaVars, subVars, checkVars, threadVars
  <1>1. ASSUME NEW m \in Mids, Publish(h, m) PROVE TypeInv'
    BY <1>1 DEF Publish, GetNewRouter, AddRouter, NewRouter, Kinds
  <1>2. CASE AddPub(h)
    BY <1>2 DEF AddPub
  <1>3. CASE AddPubFail(h)
    BY <1>3 DEF AddPubFail
  <1>4. ASSUME NEW m \in Mids, UnPublish(h, m) PROVE TypeInv'
    BY <1>4 DEF UnPublish
  <1>5. CASE DelRouter(h)
    BY <1>5 DEF DelRouter
  <1>6. ASSUME NEW m \in Mids, NEW s \in Sids, SubScribe(h, m, s) PROVE TypeInv'
    BY <1>6 DEF SubScribe, SubState
  <1>7. CASE AddSubTracks(h)
    BY <1>7 DEF AddSubTracks
  <1>8. CASE AddSubFail(h)
    BY <1>8 DEF AddSubFail, CloseAll, SubState
  <1>9. ASSUME NEW ok \in BOOLEAN, AddSubAnswer(h, ok) PROVE TypeInv'
    BY <1>9 DEF AddSubAnswer, SubState
  <1>10. CASE AddSubInsert(h)
    BY <1>10 DEF AddSubInsert
  <1>11. ASSUME NEW m \in Mids, NEW s \in Sids, UnSubscribe(h, m, s) PROVE TypeInv'
    BY <1>11 DEF UnSubscribe
  <1>12. CASE DelSub(h)
    BY <1>12 DEF DelSub, CloseAll, SubState
  <1> QED
    BY <1>1, <1>2, <1>3, <1>4, <1>5, <1>6, <1>7, <1>8, <1>9, <1>10, <1>11, <1>12
       DEF Request, HandlerStep

\* A panic keeps the type of up, and moves the thread to idle or nowhere.
LEMMA PanicEffect ==
    ASSUME TypeInv, NEW t \in Threads, Panic(t)
    PROVE  /\ up' \in BOOLEAN
           /\ (t \in Handlers /\ Finish(t)) \/ UNCHANGED threadVars
  BY Zenon DEF Panic, TypeInv, TypeOK

\* Router.Close keeps the types.
LEMMA CloseTyped ==
    ASSUME TypeInv, NEW t \in Threads, CloseStep(t)
    PROVE  TypeInv'
  <1> USE ThreadsAssumption, IdsAssumption
       DEF TypeInv, TypeOK, PlaceOK, Threads, HandlerPC, CheckerPC, At, Goto, Begin, Finish,
           tableVars, pubVars, mediaVars, subVars, checkVars, threadVars
  <1>1. CASE CloseStop(t)
    BY <1>1 DEF CloseStop
  <1>2. CASE CloseTestPub(t)
    BY <1>2 DEF CloseTestPub
  <1>3. CASE ClosePub(t)
    BY <1>3 DEF ClosePub
  <1>4. CASE ClosePubTwice(t)
    <2>1. UNCHANGED <<tableVars, pubVars, mediaVars, subVars, checkVars>> /\ Panic(t)
      BY <1>4, Zenon DEF ClosePubTwice
    <2>2. up' \in BOOLEAN /\ ((t \in Handlers /\ Finish(t)) \/ UNCHANGED threadVars)
      BY <2>1, PanicEffect, Zenon
    <2>3. CASE t \in Handlers /\ Finish(t)
      BY <2>1, <2>2, <2>3
    <2>4. CASE UNCHANGED threadVars
      BY <2>1, <2>2, <2>4
    <2> QED
      BY <2>2, <2>3, <2>4
  <1>5. CASE CloseDropPub(t)
    BY <1>5 DEF CloseDropPub
  <1>6. CASE CloseSubs(t)
    BY <1>6 DEF CloseSubs, CloseAll, SubState
  <1>7. CASE CloseSubsTwice(t)
    <2>1. sub' \in [Sids -> SubState] /\ subs' \in [Mids -> SUBSET Sids]
      BY <1>7 DEF CloseSubsTwice, CloseAll, SubState
    <2>2. wedged' \subseteq Mids
      <3>1. pc[t] = "subs" /\ wedged' = wedged \cup {tgt[t]}
        BY <1>7, Zenon DEF CloseSubsTwice
      <3> QED
        BY <3>1
    <2>3. UNCHANGED <<lock, routers, stopped, pubVars, mediaVars, checkVars>> /\ Panic(t)
      BY <1>7, Zenon DEF CloseSubsTwice
    <2>4. up' \in BOOLEAN /\ ((t \in Handlers /\ Finish(t)) \/ UNCHANGED threadVars)
      BY <2>3, PanicEffect, Zenon
    <2>5. CASE t \in Handlers /\ Finish(t)
      BY <2>1, <2>2, <2>3, <2>4, <2>5
    <2>6. CASE UNCHANGED threadVars
      BY <2>1, <2>2, <2>3, <2>4, <2>6
    <2> QED
      BY <2>4, <2>5, <2>6
  <1> QED
    BY <1>1, <1>2, <1>3, <1>4, <1>5, <1>6, <1>7 DEF CloseStep

\* CheckRouter, CheckRTC and UpdatePaylaod keep the types.
LEMMA CheckerTyped ==
    ASSUME TypeInv, CheckerStep \/ CheckRTC \/ MeterLock \/ MeterUnlock
    PROVE  TypeInv'
  <1> USE ThreadsAssumption, IdsAssumption
       DEF TypeInv, TypeOK, PlaceOK, Threads, HandlerPC, CheckerPC, At, Goto,
           tableVars, pubVars, mediaVars, subVars, checkVars, threadVars
  <1>1. CASE Tick
    BY <1>1 DEF Tick
  <1>2. ASSUME NEW m \in Mids, Visit(m) PROVE TypeInv'
    BY <1>2 DEF Visit
  <1>3. CASE CleanDelete
    BY <1>3 DEF CleanDelete
  <1>4. CASE CleanSend
    <2>1. Append(clean, tgt[Checker]) \in Seq(Mids)
      BY <1>4 DEF CleanSend
    <2> QED
      BY <1>4, <2>1 DEF CleanSend
  <1>5. CASE TickDone
    BY <1>5 DEF TickDone
  <1>6. CASE CheckRTC
    <2>1. clean \in Seq(Mids) /\ clean # << >> => Tail(clean) \in Seq(Mids)
      OBVIOUS
    <2>2. up' \in BOOLEAN
      BY <1>6 DEF CheckRTC, HasPiece
    <2> QED
      BY <1>6, <2>1, <2>2 DEF CheckRTC
  <1>7. CASE MeterLock
    BY <1>7 DEF MeterLock
  <1>8. CASE MeterUnlock
    BY <1>8 DEF MeterUnlock
  <1> QED
    BY <1>1, <1>2, <1>3, <1>4, <1>5, <1>6, <1>7, <1>8 DEF CheckerStep

\* The workers and the callbacks keep the types.
LEMMA WorkerTyped ==
    ASSUME TypeInv,
           (\E m \in Mids, k \in Kinds : WorkerStep(m, k)) \/ Callback
    PROVE  TypeInv'
  <1> USE DEF TypeInv, TypeOK, PlaceOK, WorkerAt, WorkerGoto,
              tableVars, pubVars, mediaVars, subVars, checkVars, threadVars
  <1>1. ASSUME NEW m \in Mids, NEW k \in Kinds, WorkerTop(m, k) PROVE TypeInv'
    <2>1. worker' = [worker EXCEPT ![m][k] = "off"] \/ worker' = [worker EXCEPT ![m][k] = "read"]
      BY <1>1 DEF WorkerTop
    <2>2. worker' \in [Mids -> [Kinds -> {"off", "top", "read", "busy"}]]
      <3>1. worker[m] \in [Kinds -> {"off", "top", "read", "busy"}]
        OBVIOUS
      <3>2. \A p \in {"off", "read"} :
              [worker[m] EXCEPT ![k] = p] \in [Kinds -> {"off", "top", "read", "busy"}]
        BY <3>1
      <3> QED
        BY <2>1, <3>2
    <2> QED
      BY <1>1, <2>2 DEF WorkerTop
  <1>2. ASSUME NEW m \in Mids, NEW k \in Kinds, WorkerRead(m, k) PROVE TypeInv'
    BY <1>2 DEF WorkerRead
  <1>3. ASSUME NEW m \in Mids, NEW k \in Kinds, WorkerReadEnd(m, k) PROVE TypeInv'
    BY <1>3 DEF WorkerReadEnd
  <1>4. ASSUME NEW m \in Mids, NEW k \in Kinds, WorkerSweep(m, k) PROVE TypeInv'
    BY <1>4 DEF WorkerSweep, CloseAll, SubState
  <1>5. ASSUME NEW m \in Mids, NEW k \in Kinds, OnTrack(m, k) PROVE TypeInv'
    BY <1>5 DEF OnTrack
  <1>6. ASSUME NEW m \in Mids, PubConnect(m) \/ PubDisconnect(m) PROVE TypeInv'
    BY <1>6 DEF PubConnect, PubDisconnect
  <1>7. ASSUME NEW s \in Sids, SubConnect(s) PROVE TypeInv'
    BY <1>7 DEF SubConnect, SubState
  <1>8. ASSUME NEW m \in Mids, NEW k \in Kinds, Expire(m, k) PROVE TypeInv'
    BY <1>8 DEF Expire
  <1> QED
    BY <1>1, <1>2, <1>3, <1>4, <1>5, <1>6, <1>7, <1>8 DEF WorkerStep, Callback

LEMMA StepTyped == TypeInv /\ [Next]_vars => TypeInv'
  <1> SUFFICES ASSUME TypeInv, [Next]_vars PROVE TypeInv'
    OBVIOUS
  <1>1. CASE UNCHANGED vars
    BY <1>1 DEF TypeInv, TypeOK, PlaceOK, vars, tableVars, pubVars, mediaVars, subVars,
                checkVars, threadVars
  <1>2. CASE Next
    BY <1>2, HandlerTyped, CloseTyped, CheckerTyped, WorkerTyped DEF Next
  <1> QED
    BY <1>1, <1>2

\* Every variable keeps its type, and no thread loses track of the router it works
\* on: CheckRouter and the handlers never act on a nil router.
THEOREM TypeCorrect == Spec => []TypeOK
  <1>1. TypeInv => TypeOK
    BY DEF TypeInv
  <1> QED
    BY <1>1, InitTyped, StepTyped, PTL DEF Spec

-----------------------------------------------------------------------------
(***************************************************************************)
(* StoppedHasOwner.  It is not inductive: a second closer may come between *)
(* Close's test of r.pub and its nil assignment.  PubInv says that a       *)
(* publisher whose channels are closed is still in its router only while   *)
(* the thread that closed it is about to drop it, and that nobody closes a *)
(* router before its publisher was added.                                  *)
(***************************************************************************)
PubInv ==
    /\ \A m \in hasPub \cup stopped : chans[m] # "none"
    /\ \A t \in Threads : pc[t] \in Closing \cup {"stop"} => chans[tgt[t]] # "none"
    /\ \A t \in Threads : pc[t] = "addPub" => tgt[t] \in routers /\ chans[tgt[t]] = "none"
    /\ \A t, u \in Threads :
         pc[t] = "addPub" /\ pc[u] = "addPub" /\ tgt[t] = tgt[u] => t = u
    /\ \A m \in hasPub : chans[m] = "closed" =>
         \E t \in Threads : pc[t] = "pubNil" /\ tgt[t] = m

OwnInv == PubInv /\ StoppedHasOwner

\* What OwnInv speaks of.
ownVars == <<routers, stopped, wedged, hasPub, chans, pc, tgt>>

LEMMA OwnFrame ==
    ASSUME OwnInv, UNCHANGED ownVars, up' => up
    PROVE  OwnInv'
  BY DEF OwnInv, PubInv, StoppedHasOwner, Owner, ownVars

\* A thread that is neither in Close nor adding a publisher goes to another such
\* place.
LEMMA OwnMove ==
    ASSUME TypeInv, OwnInv, NEW t \in Threads, NEW place, NEW m,
           pc' = [pc EXCEPT ![t] = place], tgt' = [tgt EXCEPT ![t] = m],
           UNCHANGED <<up, routers, stopped, wedged, hasPub, chans>>,
           pc[t] \notin Closing \ {"pub"},
           pc[t] # "pub" \/ (tgt[t] \in hasPub /\ chans[tgt[t]] = "closed"),
           place \notin Closing \cup {"stop", "addPub"}
    PROVE  OwnInv'
  <1> USE DEF TypeInv, TypeOK, Closing
  <1>1. PubInv'
    BY DEF OwnInv, PubInv
  <1>2. StoppedHasOwner'
    BY DEF OwnInv, PubInv, StoppedHasOwner, Owner
  <1> QED
    BY <1>1, <1>2 DEF OwnInv

LEMMA InitOwn == Init => OwnInv
  BY DEF Init, OwnInv, PubInv, StoppedHasOwner, Closing

\* A request's handler keeps the stopped routers owned.
LEMMA HandlerOwn ==
    ASSUME TypeInv, OwnInv, NEW h \in Handlers, Request(h) \/ HandlerStep(h)
    PROVE  OwnInv'
  <1> USE ThreadsAssumption
       DEF Begin, Finish, At, Goto, tableVars, pubVars, mediaVars, subVars, checkVars, threadVars
  <1>0. h \in Threads /\ tgt = [tgt EXCEPT ![h] = tgt[h]]
    BY DEF Threads, TypeInv, TypeOK
  <1>1. ASSUME NEW m \in Mids, Publish(h, m) PROVE OwnInv'
    <2> USE <1>0, <1>1 DEF Publish, GetNewRouter, AddRouter, NewRouter, TypeInv, TypeOK,
                           OwnInv, PubInv, Closing
    <2>1. PubInv'
      OBVIOUS
    <2>2. m \notin stopped
      OBVIOUS
    <2>3. ASSUME up, NEW n \in routers \cap stopped, n \notin wedged
          PROVE  \E u \in Threads : Owner(u, n)'
      <3>1. PICK u \in Threads : Owner(u, n)
        BY <2>3 DEF StoppedHasOwner
      <3>2. u # h
        BY <3>1 DEF Owner
      <3> QED
        BY <3>1, <3>2 DEF Owner
    <2> QED
      BY <2>1, <2>2, <2>3 DEF StoppedHasOwner
  <1>2. CASE AddPub(h)
    <2> USE <1>0, <1>2 DEF AddPub, TypeInv, TypeOK, OwnInv, PubInv, Closing
    <2>1. PubInv'
      OBVIOUS
    <2>2. ASSUME up, NEW n \in routers \cap stopped, n \notin wedged
          PROVE  \E u \in Threads : Owner(u, n)'
      <3>1. PICK u \in Threads : Owner(u, n)
        BY <2>2 DEF StoppedHasOwner
      <3>2. u # h /\ n # tgt[h]
        BY <3>1 DEF Owner
      <3> QED
        BY <3>1, <3>2 DEF Owner
    <2> QED
      BY <2>1, <2>2 DEF StoppedHasOwner
  <1>3. CASE AddPubFail(h)
    BY <1>0, <1>3, OwnMove DEF AddPubFail, Closing
  <1>4. ASSUME NEW m \in Mids, UnPublish(h, m) PROVE OwnInv'
    <2> USE <1>0, <1>4 DEF UnPublish, TypeInv, TypeOK, OwnInv, PubInv, Closing
    <2>1. PubInv'
      OBVIOUS
    <2>2. StoppedHasOwner'
      BY DEF StoppedHasOwner, Owner
    <2> QED
      BY <2>1, <2>2
  <1>5. CASE DelRouter(h)
    <2> USE <1>0, <1>5 DEF DelRouter, TypeInv, TypeOK, OwnInv, PubInv, Closing
    <2>1. PubInv'
      OBVIOUS
    <2>2. StoppedHasOwner'
      BY DEF StoppedHasOwner, Owner
    <2> QED
      BY <2>1, <2>2
  <1>6. ASSUME NEW m \in Mids, NEW s \in Sids, SubScribe(h, m, s) \/ UnSubscribe(h, m, s)
        PROVE OwnInv'
    BY <1>0, <1>6, OwnMove DEF SubScribe, UnSubscribe, Closing
  <1>7. CASE AddSubTracks(h)
    BY <1>0, <1>7, OwnMove DEF AddSubTracks, Closing
  <1>8. CASE AddSubFail(h)
    BY <1>0, <1>8, OwnMove DEF AddSubFail, Closing
  <1>9. ASSUME NEW ok \in BOOLEAN, AddSubAnswer(h, ok) PROVE OwnInv'
    BY <1>0, <1>9, OwnMove DEF AddSubAnswer, Closing
  <1>10. CASE AddSubInsert(h)
    BY <1>0, <1>10, OwnMove DEF AddSubInsert, Closing
  <1>11. CASE DelSub(h)
    BY <1>0, <1>11, OwnMove DEF DelSub, Closing
  <1> QED
    BY <1>1, <1>2, <1>3, <1>4, <1>5, <1>6, <1>7, <1>8, <1>9, <1>10, <1>11
       DEF Request, HandlerStep

\* Router.Close keeps the stopped routers owned: whoever closes the publisher
\* goes on to delete the router, and whoever finds it closed by another panics
\* while that other one still has to drop it.
LEMMA CloseOwn ==
    ASSUME TypeInv, OwnInv, NEW t \in Threads, CloseStep(t)
    PROVE  OwnInv'
  <1> USE ThreadsAssumption
       DEF At, Goto, tableVars, pubVars, mediaVars, subVars, checkVars, threadVars
  <1>0. tgt = [tgt EXCEPT ![t] = tgt[t]] /\ (pc[t] \notin {"idle", "scan"} => tgt[t] \in Mids)
    BY DEF TypeInv, TypeOK, PlaceOK
  <1>1. CASE CloseStop(t)
    <2> USE <1>0, <1>1 DEF CloseStop, TypeInv, TypeOK, OwnInv, PubInv, Closing
    <2>1. PubInv'
      OBVIOUS
    <2>2. ASSUME NEW m \in routers \cap stopped' PROVE m \in wedged \/ \E u \in Threads : Owner(u, m)'
      <3>1. CASE m \in stopped
        BY <3>1 DEF StoppedHasOwner, Owner
      <3>2. CASE m = tgt[t]
        BY <3>2 DEF Owner
      <3> QED
        BY <3>1, <3>2
    <2> QED
      BY <2>1, <2>2 DEF StoppedHasOwner
  <1>2. CASE CloseTestPub(t)
    <2> USE <1>0, <1>2 DEF CloseTestPub, TypeInv, TypeOK, OwnInv, PubInv, Closing
    <2>1. PubInv'
      OBVIOUS
    <2>2. StoppedHasOwner'
      BY DEF StoppedHasOwner, Owner
    <2> QED
      BY <2>1, <2>2
  <1>3. CASE ClosePub(t)
    <2> USE <1>0, <1>3 DEF ClosePub, TypeInv, TypeOK, OwnInv, PubInv, Closing
    <2>1. PubInv'
      OBVIOUS
    <2>2. StoppedHasOwner'
      BY DEF StoppedHasOwner, Owner
    <2> QED
      BY <2>1, <2>2
  <1>4. CASE ClosePubTwice(t)
    <2>1. UNCHANGED <<routers, stopped, wedged, hasPub, chans>> /\ Panic(t)
          /\ pc[t] = "pubClose" /\ chans[tgt[t]] = "closed"
      BY <1>4, Zenon DEF ClosePubTwice
    <2>2. CASE t \in Handlers /\ Finish(t) /\ UNCHANGED up
      <3> USE <1>0, <2>1, <2>2
          DEF Finish, Begin, TypeInv, TypeOK, OwnInv, PubInv, Closing
      <3>1. PubInv'
        OBVIOUS
      <3>2. ASSUME up, NEW m \in routers \cap stopped, m \notin wedged
            PROVE  \E u \in Threads : Owner(u, m)'
        <4>1. PICK u \in Threads : Owner(u, m)
          BY <3>2 DEF StoppedHasOwner
        <4>2. u # t
          BY <4>1 DEF Owner
        <4> QED
          BY <4>1, <4>2 DEF Owner
      <3> QED
        BY <3>1, <3>2 DEF StoppedHasOwner
    <2>3. CASE ~up' /\ UNCHANGED threadVars
      BY <2>1, <2>3, OwnFrame DEF ownVars
    <2> QED
      BY <2>1, <2>2, <2>3, Zenon DEF Panic
  <1>5. CASE CloseDropPub(t)
    <2> USE <1>0, <1>5 DEF CloseDropPub, TypeInv, TypeOK, OwnInv, PubInv, Closing
    <2>1. PubInv'
      OBVIOUS
    <2>2. StoppedHasOwner'
      BY DEF StoppedHasOwner, Owner
    <2> QED
      BY <2>1, <2>2
  <1>6. CASE CloseSubs(t)
    <2> USE <1>0, <1>6 DEF CloseSubs, TypeInv, TypeOK, OwnInv, PubInv, Closing
    <2>1. PubInv'
      OBVIOUS
    <2>2. StoppedHasOwner'
      BY DEF StoppedHasOwner, Owner
    <2> QED
      BY <2>1, <2>2
  <1>7. CASE CloseSubsTwice(t)
    <2>1. UNCHANGED <<routers, stopped, hasPub, chans>> /\ Panic(t)
          /\ pc[t] = "subs" /\ wedged' = wedged \cup {tgt[t]}
      BY <1>7, Zenon DEF CloseSubsTwice
    <2>2. CASE t \in Handlers /\ Finish(t) /\ UNCHANGED up
      <3> USE <1>0, <2>1, <2>2
          DEF Finish, Begin, TypeInv, TypeOK, OwnInv, PubInv, Closing
      <3>1. PubInv'
        OBVIOUS
      <3>2. ASSUME up, NEW m \in routers \cap stopped, m \notin wedged'
            PROVE  \E u \in Threads : Owner(u, m)'
        <4>1. PICK u \in Threads : Owner(u, m)
          BY <3>2 DEF StoppedHasOwner
        <4>2. u # t
          BY <3>2, <4>1 DEF Owner
        <4> QED
          BY <4>1, <4>2 DEF Owner
      <3> QED
        BY <3>1, <3>2 DEF StoppedHasOwner
    <2>3. CASE ~up' /\ UNCHANGED threadVars
      BY <2>1, <2>3 DEF OwnInv, PubInv, StoppedHasOwner
    <2> QED
      BY <2>1, <2>2, <2>3, Zenon DEF Panic
  <1> QED
    BY <1>1, <1>2, <1>3, <1>4, <1>5, <1>6, <1>7 DEF CloseStep

\* CheckRouter, CheckRTC and UpdatePaylaod keep the stopped routers owned.
LEMMA CheckerOwn ==
    ASSUME TypeInv, OwnInv, CheckerStep \/ CheckRTC \/ MeterLock \/ MeterUnlock
    PROVE  OwnInv'
  <1> USE ThreadsAssumption
       DEF At, Goto, tableVars, pubVars, mediaVars, subVars, checkVars, threadVars
  <1>0. Checker \in Threads /\ tgt = [tgt EXCEPT ![Checker] = tgt[Checker]]
    BY DEF Threads, TypeInv, TypeOK
  <1>1. CASE Tick
    BY <1>0, <1>1, OwnMove DEF Tick, Closing
  <1>2. ASSUME NEW m \in Mids, Visit(m) PROVE OwnInv'
    <2> USE <1>0, <1>2 DEF Visit
    <2>1. CASE Alive(m)
      BY <2>1, OwnMove DEF Closing
    <2>2. CASE ~Alive(m)
      <3> USE <2>2 DEF TypeInv, TypeOK, OwnInv, PubInv, Closing
      <3>1. chans[m] # "none"
        BY DEF Alive
      <3>2. PubInv'
        BY <3>1
      <3>3. StoppedHasOwner'
        BY DEF StoppedHasOwner, Owner
      <3> QED
        BY <3>2, <3>3
    <2> QED
      BY <2>1, <2>2
  <1>3. CASE CleanDelete
    <2> USE <1>0, <1>3 DEF CleanDelete, TypeInv, TypeOK, OwnInv, PubInv, Closing
    <2>1. PubInv'
      OBVIOUS
    <2>2. StoppedHasOwner'
      BY DEF StoppedHasOwner, Owner
    <2> QED
      BY <2>1, <2>2
  <1>4. CASE CleanSend
    BY <1>0, <1>4, OwnMove DEF CleanSend, Closing
  <1>5. CASE TickDone
    BY <1>0, <1>5, OwnMove DEF TickDone, Closing
  <1>6. CASE CheckRTC
    BY <1>6, OwnFrame DEF CheckRTC, ownVars
  <1>7. CASE MeterLock \/ MeterUnlock
    BY <1>7, OwnFrame DEF MeterLock, MeterUnlock, ownVars
  <1> QED
    BY <1>1, <1>2, <1>3, <1>4, <1>5, <1>6, <1>7 DEF CheckerStep

\* The workers and the callbacks touch nothing that ownership depends on.
LEMMA WorkerOwn ==
    ASSUME OwnInv, (\E m \in Mids, k \in Kinds : WorkerStep(m, k)) \/ Callback
    PROVE  OwnInv'
  <1>1. UNCHANGED ownVars /\ (up' => up)
    BY DEF WorkerStep, WorkerAt, WorkerTop, WorkerRead, WorkerReadEnd, WorkerSweep,
           Callback, OnTrack, PubConnect, PubDisconnect, SubConnect, Expire, ownVars,
           tableVars, pubVars, mediaVars, subVars, checkVars, threadVars
  <1> QED
    BY <1>1, OwnFrame

LEMMA StepOwn == TypeInv /\ OwnInv /\ [Next]_vars => OwnInv'
  <1> SUFFICES ASSUME TypeInv, OwnInv, [Next]_vars PROVE OwnInv'
    OBVIOUS
  <1>1. CASE UNCHANGED vars
    BY <1>1, OwnFrame DEF ownVars, vars, tableVars, pubVars, threadVars
  <1>2. CASE Next
    BY <1>2, HandlerOwn, CloseOwn, CheckerOwn, WorkerOwn DEF Next
  <1> QED
    BY <1>1, <1>2

\* However many unpublish requests race CheckRouter for a router, one thread is
\* going to delete it once it is marked stopped, unless its mutex is lost.
THEOREM StoppedOwned == Spec => []StoppedHasOwner
  <1>1. OwnInv => StoppedHasOwner
    BY DEF OwnInv
  <1> QED
    BY <1>1, InitTyped, StepTyped, InitOwn, StepOwn, PTL DEF Spec

-----------------------------------------------------------------------------
(***************************************************************************)
(* ScanSeesTable.  It is inductive once it is added that CheckRouter has   *)
(* visited every router when it gives routerLock back.                     *)
(***************************************************************************)
ScanInv ==
    /\ ScanSeesTable
    /\ pc[Checker] = "idle" => pending = {}

\* What ScanInv speaks of.
scanVars == <<lock, routers, pending, pc[Checker], tgt[Checker]>>

LEMMA ScanFrame == ASSUME ScanInv, UNCHANGED scanVars PROVE ScanInv'
  BY DEF ScanInv, ScanSeesTable, Closing, scanVars

LEMMA InitScan == Init => ScanInv
  BY ThreadsAssumption DEF Init, ScanInv, ScanSeesTable, Closing, Threads

\* What a handler's step does to what CheckRouter sees: nothing but a change of
\* the table while nobody holds routerLock.
LEMMA HandlerScan ==
    ASSUME TypeInv, ScanInv, NEW h \in Handlers, Request(h) \/ HandlerStep(h)
    PROVE  ScanInv'
  <1>1. UNCHANGED <<lock, pending, pc[Checker], tgt[Checker]>>
    BY ThreadsAssumption
       DEF Request, HandlerStep, Publish, GetNewRouter, AddRouter, NewRouter, AddPub, AddPubFail,
           UnPublish, DelRouter, SubScribe, AddSubTracks, AddSubFail, AddSubAnswer, AddSubInsert,
           UnSubscribe, DelSub, Begin, Finish, Goto, TypeInv, TypeOK, Threads,
           tableVars, checkVars, threadVars
  <1>2. UNCHANGED routers \/ lock = NoOne
    BY DEF Request, HandlerStep, Publish, GetNewRouter, AddRouter, AddPub, AddPubFail,
           UnPublish, DelRouter, SubScribe, AddSubTracks, AddSubFail, AddSubAnswer, AddSubInsert,
           UnSubscribe, DelSub, tableVars
  <1>3. CASE UNCHANGED routers
    BY <1>1, <1>3, ScanFrame DEF scanVars
  <1>4. CASE lock = NoOne
    <2>1. pc[Checker] = "idle" /\ pending = {}
      BY <1>4, ThreadsAssumption DEF ScanInv, ScanSeesTable, Threads
    <2> QED
      BY <1>1, <2>1 DEF ScanInv, ScanSeesTable, Closing
  <1> QED
    BY <1>2, <1>3, <1>4

\* Router.Close moves CheckRouter inside the part where it holds routerLock.
LEMMA CloseScan ==
    ASSUME TypeInv, ScanInv, NEW t \in Threads, CloseStep(t)
    PROVE  ScanInv'
  <1>1. UNCHANGED <<lock, routers, pending>>
    BY DEF CloseStep, CloseStop, CloseTestPub, ClosePub, ClosePubTwice, CloseDropPub, CloseSubs,
           CloseSubsTwice, tableVars, checkVars
  <1>2. CASE UNCHANGED <<pc[Checker], tgt[Checker]>>
    BY <1>1, <1>2, ScanFrame DEF scanVars
  <1>3. CASE pc[Checker] \in Closing \cup {"stop"} /\ pc[Checker]' \in Closing /\ UNCHANGED tgt[Checker]
    BY <1>1, <1>3 DEF ScanInv, ScanSeesTable, Closing
  <1>4. ASSUME NEW place, Goto(t, place), pc[t] \in Closing \cup {"stop"}, place \in Closing
        PROVE  ScanInv'
    <2>1. CASE t = Checker
      BY <1>3, <1>4, <2>1 DEF Goto, TypeInv, TypeOK
    <2>2. CASE t # Checker
      BY <1>2, <1>4, <2>2 DEF Goto, TypeInv, TypeOK
    <2> QED
      BY <2>1, <2>2
  <1>5. ASSUME Panic(t) PROVE ScanInv'
    <2>1. CASE t \in Handlers /\ Finish(t)
      BY <1>2, <2>1, ThreadsAssumption DEF Finish, Begin, TypeInv, TypeOK, Threads
    <2>2. CASE UNCHANGED threadVars
      BY <1>2, <2>2 DEF threadVars
    <2> QED
      BY <1>5, <2>1, <2>2, PanicEffect
  <1>6. CASE CloseStop(t)
    BY <1>4, <1>6 DEF CloseStop, At, Closing
  <1>7. CASE CloseTestPub(t)
    BY <1>4, <1>7 DEF CloseTestPub, At, Closing
  <1>8. CASE ClosePub(t)
    BY <1>4, <1>8 DEF ClosePub, At, Closing
  <1>9. CASE ClosePubTwice(t)
    BY <1>5, <1>9, Zenon DEF ClosePubTwice
  <1>10. CASE CloseDropPub(t)
    BY <1>4, <1>10 DEF CloseDropPub, At, Closing
  <1>11. CASE CloseSubs(t)
    BY <1>4, <1>11 DEF CloseSubs, At, Closing
  <1>12. CASE CloseSubsTwice(t)
    BY <1>5, <1>12, Zenon DEF CloseSubsTwice
  <1> QED
    BY <1>6, <1>7, <1>8, <1>9, <1>10, <1>11, <1>12 DEF CloseStep

\* CheckRouter's own steps, and those of the two that only take the lock or the
\* queue.
LEMMA CheckerScan ==
    ASSUME TypeInv, ScanInv, CheckerStep \/ CheckRTC \/ MeterLock \/ MeterUnlock
    PROVE  ScanInv'
  <1> USE ThreadsAssumption
       DEF TypeInv, TypeOK, Threads, At, Goto, ScanInv, ScanSeesTable, Closing,
           tableVars, checkVars, threadVars
  <1>1. CASE Tick
    BY <1>1 DEF Tick
  <1>2. ASSUME NEW m \in Mids, Visit(m) PROVE ScanInv'
    BY <1>2 DEF Visit
  <1>3. CASE CleanDelete
    BY <1>3 DEF CleanDelete
  <1>4. CASE CleanSend
    BY <1>4 DEF CleanSend
  <1>5. CASE TickDone
    BY <1>5 DEF TickDone
  <1>6. CASE CheckRTC
    BY <1>6 DEF CheckRTC
  <1>7. CASE MeterLock
    BY <1>7 DEF MeterLock
  <1>8. CASE MeterUnlock
    BY <1>8 DEF MeterUnlock
  <1> QED
    BY <1>1, <1>2, <1>3, <1>4, <1>5, <1>6, <1>7, <1>8 DEF CheckerStep

\* The workers and the callbacks never touch the table, the lock or the queue.
LEMMA WorkerQuiet ==
    ASSUME (\E m \in Mids, k \in Kinds : WorkerStep(m, k)) \/ Callback
    PROVE  UNCHANGED <<lock, routers, stopped, wedged, hasPub, chans, checkVars, threadVars>>
  BY DEF WorkerStep, WorkerTop, WorkerRead, WorkerReadEnd, WorkerSweep,
         Callback, OnTrack, PubConnect, PubDisconnect, SubConnect, Expire,
         tableVars, pubVars, mediaVars, subVars

LEMMA StepScan == TypeInv /\ ScanInv /\ [Next]_vars => ScanInv'
  <1> SUFFICES ASSUME TypeInv, ScanInv, [Next]_vars PROVE ScanInv'
    OBVIOUS
  <1>1. CASE UNCHANGED vars
    BY <1>1, ScanFrame DEF scanVars, vars, tableVars, checkVars, threadVars
  <1>2. CASE (\E m \in Mids, k \in Kinds : WorkerStep(m, k)) \/ Callback
    BY <1>2, WorkerQuiet, ScanFrame DEF scanVars, checkVars, threadVars
  <1>3. CASE Next
    BY <1>2, <1>3, HandlerScan, CloseScan, CheckerScan DEF Next
  <1> QED
    BY <1>1, <1>3

\* CheckRouter iterates over a table that nobody changes under it, though it
\* closes routers and waits for room in CleanRouter meanwhile.
THEOREM ScanUndisturbed == Spec => []ScanSeesTable
  <1>1. ScanInv => ScanSeesTable
    BY DEF ScanInv
  <1> QED
    BY <1>1, InitTyped, StepTyped, InitScan, StepScan, PTL DEF Spec

-----------------------------------------------------------------------------
(***************************************************************************)
(* CleanedOnce and ImplementsLife.  LifeInv ties the table, the publishers *)
(* and the queue together: a publisher that is open is in its router and   *)
(* its router is in the table, nobody goes past r.pub in Close before the  *)
(* channels are closed, and an id that is queued or about to be is of a    *)
(* closed router that has left the table, and is there once.               *)
(***************************************************************************)
LifeInv ==
    /\ \A m \in Mids : chans[m] = "open" => m \in routers \cap hasPub
    /\ \A t \in Threads :
         pc[t] \in {"pubNil", "subs", "del", "send"} => chans[tgt[t]] = "closed"
    /\ CleanedOnce
    /\ \A i \in 1..Len(clean) : chans[clean[i]] = "closed"
    /\ pc[Checker] = "send" =>
         /\ tgt[Checker] \notin routers
         /\ \A i \in 1..Len(clean) : clean[i] # tgt[Checker]

\* What LifeInv speaks of.
lifeVars == <<routers, hasPub, chans, clean, pc, tgt>>

LEMMA LifeFrame == ASSUME LifeInv, UNCHANGED lifeVars PROVE LifeInv'
  BY DEF LifeInv, CleanedOnce, lifeVars

LEMMA InitLife == Init => LifeInv
  BY ThreadsAssumption DEF Init, LifeInv, CleanedOnce, Threads

\* A thread that goes to a place where nothing is known of its router.
LEMMA LifeMove ==
    ASSUME TypeInv, LifeInv, NEW t \in Threads, NEW place, NEW m,
           pc' = [pc EXCEPT ![t] = place], tgt' = [tgt EXCEPT ![t] = m],
           UNCHANGED <<routers, hasPub, chans, clean>>,
           place \in {"pubNil", "subs", "del"} => chans[m] = "closed",
           place # "send"
    PROVE  LifeInv'
  BY DEF TypeInv, TypeOK, LifeInv, CleanedOnce

\* The ids in the queue are streams.
LEMMA CleanIds ==
    ASSUME TypeInv, NEW i \in 1..Len(clean)
    PROVE  clean[i] \in Mids
  BY DEF TypeInv, TypeOK

\* A request's handler: a new router's id was never queued, and DelRouter
\* deletes a router whose publisher is closed.
LEMMA HandlerLife ==
    ASSUME TypeInv, OwnInv, ScanInv, LifeInv, NEW h \in Handlers, Request(h) \/ HandlerStep(h)
    PROVE  LifeInv'
  <1> USE ThreadsAssumption
       DEF Begin, Finish, At, Goto, tableVars, pubVars, mediaVars, subVars, checkVars, threadVars
  <1>0. /\ h \in Threads /\ h # Checker /\ tgt = [tgt EXCEPT ![h] = tgt[h]]
        /\ clean \in Seq(Mids) /\ (pc[h] \notin {"idle", "scan"} => tgt[h] \in Mids)
    BY DEF Threads, TypeInv, TypeOK, PlaceOK
  <1>1. ASSUME NEW m \in Mids, Publish(h, m) PROVE LifeInv'
    <2> USE <1>0, <1>1 DEF Publish, GetNewRouter, AddRouter, NewRouter, TypeInv, TypeOK, LifeInv
    <2>1. pc[Checker] = "idle"
      BY DEF ScanInv, ScanSeesTable, Threads
    <2>2. CleanedOnce'
      BY DEF CleanedOnce
    <2> QED
      BY <2>1, <2>2
  <1>2. CASE AddPub(h)
    <2> USE <1>0, <1>2 DEF AddPub, TypeInv, TypeOK, LifeInv, OwnInv, PubInv
    <2>1. tgt[h] \in routers /\ chans[tgt[h]] = "none"
      OBVIOUS
    <2>2. CleanedOnce'
      BY DEF CleanedOnce
    <2> QED
      BY <2>1, <2>2
  <1>3. CASE AddPubFail(h)
    BY <1>0, <1>3, LifeMove DEF AddPubFail
  <1>4. ASSUME NEW m \in Mids, UnPublish(h, m) PROVE LifeInv'
    BY <1>0, <1>4, LifeMove DEF UnPublish
  <1>5. CASE DelRouter(h)
    <2> USE <1>0, <1>5 DEF DelRouter, TypeInv, TypeOK, LifeInv
    <2>1. pc[Checker] = "idle"
      BY DEF ScanInv, ScanSeesTable, Threads
    <2>2. chans[tgt[h]] = "closed"
      OBVIOUS
    <2>3. CleanedOnce'
      BY DEF CleanedOnce
    <2> QED
      BY <2>1, <2>2, <2>3
  <1>6. ASSUME NEW m \in Mids, NEW s \in Sids, SubScribe(h, m, s) \/ UnSubscribe(h, m, s)
        PROVE LifeInv'
    BY <1>0, <1>6, LifeMove DEF SubScribe, UnSubscribe
  <1>7. CASE AddSubTracks(h)
    BY <1>0, <1>7, LifeMove DEF AddSubTracks
  <1>8. CASE AddSubFail(h)
    BY <1>0, <1>8, LifeMove DEF AddSubFail
  <1>9. ASSUME NEW ok \in BOOLEAN, AddSubAnswer(h, ok) PROVE LifeInv'
    BY <1>0, <1>9, LifeMove DEF AddSubAnswer
  <1>10. CASE AddSubInsert(h)
    BY <1>0, <1>10, LifeMove DEF AddSubInsert
  <1>11. CASE DelSub(h)
    BY <1>0, <1>11, LifeMove DEF DelSub
  <1> QED
    BY <1>1, <1>2, <1>3, <1>4, <1>5, <1>6, <1>7, <1>8, <1>9, <1>10, <1>11
       DEF Request, HandlerStep

\* Router.Close: whoever finds no publisher in a published router, or closes it,
\* leaves closed channels behind.
LEMMA CloseLife ==
    ASSUME TypeInv, OwnInv, LifeInv, NEW t \in Threads, CloseStep(t)
    PROVE  LifeInv'
  <1> USE DEF At, Goto, tableVars, pubVars, mediaVars, subVars, checkVars, threadVars
  <1>0. /\ tgt = [tgt EXCEPT ![t] = tgt[t]] /\ clean \in Seq(Mids)
        /\ (pc[t] \notin {"idle", "scan"} => tgt[t] \in Mids)
    BY DEF TypeInv, TypeOK, PlaceOK
  <1>1. CASE CloseStop(t)
    BY <1>0, <1>1, LifeMove DEF CloseStop
  <1>2. CASE CloseTestPub(t)
    <2>1. tgt[t] \in Mids /\ (tgt[t] \notin hasPub => chans[tgt[t]] = "closed")
      BY <1>0, <1>2 DEF CloseTestPub, LifeInv, OwnInv, PubInv, Closing, TypeInv, TypeOK
    <2> QED
      BY <1>0, <1>2, <2>1, LifeMove DEF CloseTestPub
  <1>3. CASE ClosePub(t)
    <2> USE <1>0, <1>3 DEF ClosePub, TypeInv, TypeOK, LifeInv
    <2>1. CleanedOnce'
      BY DEF CleanedOnce
    <2> QED
      BY <2>1
  <1>4. CASE CloseDropPub(t)
    <2> USE <1>0, <1>4 DEF CloseDropPub, TypeInv, TypeOK, LifeInv
    <2>1. CleanedOnce'
      BY DEF CleanedOnce
    <2> QED
      BY <2>1
  <1>5. CASE CloseSubs(t)
    BY <1>0, <1>5, LifeMove DEF CloseSubs, LifeInv
  <1>6. ASSUME Panic(t), UNCHANGED <<routers, hasPub, chans, clean>> PROVE LifeInv'
    <2>1. CASE t \in Handlers /\ Finish(t)
      BY <1>6, <2>1, LifeMove DEF Finish, Begin
    <2>2. CASE UNCHANGED threadVars
      BY <1>6, <2>2, LifeFrame DEF lifeVars
    <2> QED
      BY <1>6, <2>1, <2>2, PanicEffect
  <1>7. CASE ClosePubTwice(t)
    <2>1. Panic(t) /\ UNCHANGED <<tableVars, pubVars, checkVars>>
      BY <1>7, Zenon DEF ClosePubTwice
    <2> QED
      BY <1>6, <2>1
  <1>8. CASE CloseSubsTwice(t)
    <2>1. Panic(t) /\ UNCHANGED <<routers, pubVars, checkVars>>
      BY <1>8, Zenon DEF CloseSubsTwice
    <2> QED
      BY <1>6, <2>1
  <1> QED
    BY <1>1, <1>2, <1>3, <1>4, <1>5, <1>7, <1>8 DEF CloseStep

\* What the channel holds after a send and after a receive.
LEMMA Sent ==
    ASSUME clean \in Seq(Mids), NEW m \in Mids
    PROVE  /\ Len(Append(clean, m)) = Len(clean) + 1
           /\ \A i \in 1..Len(clean) : Append(clean, m)[i] = clean[i]
           /\ Append(clean, m)[Len(clean) + 1] = m
  OBVIOUS

LEMMA Received ==
    ASSUME clean \in Seq(Mids), clean # << >>
    PROVE  /\ Len(clean) \in Nat \ {0} /\ Len(Tail(clean)) = Len(clean) - 1
           /\ \A i \in 1..Len(Tail(clean)) : i + 1 \in 1..Len(clean) /\ Tail(clean)[i] = clean[i + 1]
           /\ Head(clean) = clean[1]
  OBVIOUS

\* CheckRouter, CheckRTC and UpdatePaylaod.
LEMMA CheckerLife ==
    ASSUME TypeInv, OwnInv, ScanInv, LifeInv, CheckerStep \/ CheckRTC \/ MeterLock \/ MeterUnlock
    PROVE  LifeInv'
  <1> USE ThreadsAssumption
       DEF At, Goto, tableVars, pubVars, mediaVars, subVars, checkVars, threadVars
  <1>0. /\ Checker \in Threads /\ tgt = [tgt EXCEPT ![Checker] = tgt[Checker]]
        /\ clean \in Seq(Mids) /\ Len(clean) \in Nat
        /\ (pc[Checker] \notin {"idle", "scan"} => tgt[Checker] \in Mids)
    BY DEF Threads, TypeInv, TypeOK, PlaceOK
  <1>1. CASE Tick
    BY <1>0, <1>1, LifeMove DEF Tick
  <1>2. ASSUME NEW m \in Mids, Visit(m) PROVE LifeInv'
    <2> USE <1>0, <1>2 DEF Visit
    <2>1. CASE Alive(m)
      BY <2>1, LifeMove
    <2>2. CASE ~Alive(m)
      BY <2>2, LifeMove
    <2> QED
      BY <2>1, <2>2
  <1>3. CASE CleanDelete
    <2> USE <1>0, <1>3 DEF CleanDelete, TypeInv, TypeOK, LifeInv
    <2>1. tgt[Checker] \in routers /\ chans[tgt[Checker]] = "closed"
      BY DEF ScanInv, ScanSeesTable, Closing
    <2>2. CleanedOnce' /\ \A i \in 1..Len(clean) : clean[i] # tgt[Checker]
      BY <2>1 DEF CleanedOnce
    <2> QED
      BY <2>1, <2>2
  <1>4. CASE CleanSend
    <2> DEFINE m == tgt[Checker]
    <2>1. /\ m \in Mids /\ m \notin routers /\ chans[m] = "closed"
          /\ \A i \in 1..Len(clean) : clean[i] # m
          /\ clean' = Append(clean, m) /\ UNCHANGED <<routers, hasPub, chans>>
      BY <1>0, <1>4 DEF CleanSend, LifeInv
    <2> HIDE DEF m
    <2>2. /\ Len(clean') = Len(clean) + 1
          /\ \A i \in 1..Len(clean') : clean'[i] = IF i = Len(clean) + 1 THEN m ELSE clean[i]
      BY <1>0, <2>1, Sent
    <2>3. CleanedOnce'
      BY <1>0, <2>1, <2>2 DEF LifeInv, CleanedOnce
    <2>4. \A i \in 1..Len(clean') : chans'[clean'[i]] = "closed"
      BY <1>0, <2>1, <2>2 DEF LifeInv
    <2>5. pc' = [pc EXCEPT ![Checker] = "scan"] /\ tgt' = [tgt EXCEPT ![Checker] = NoMid]
      BY <1>4 DEF CleanSend
    <2> QED
      BY <1>0, <2>1, <2>3, <2>4, <2>5 DEF LifeInv, TypeInv, TypeOK
  <1>5. CASE TickDone
    BY <1>0, <1>5, LifeMove DEF TickDone
  <1>6. CASE CheckRTC
    <2>1. clean # << >> /\ clean' = Tail(clean)
          /\ UNCHANGED <<routers, hasPub, chans, pc, tgt>>
      BY <1>6 DEF CheckRTC
    <2>2. /\ Len(clean') = Len(clean) - 1
          /\ \A i \in 1..Len(clean') : i + 1 \in 1..Len(clean) /\ clean'[i] = clean[i + 1]
      BY <1>0, <2>1, Received
    <2>3. CleanedOnce'
      BY <1>0, <2>1, <2>2 DEF LifeInv, CleanedOnce
    <2> QED
      BY <1>0, <2>1, <2>2, <2>3 DEF LifeInv
  <1>7. CASE MeterLock \/ MeterUnlock
    BY <1>7, LifeFrame DEF MeterLock, MeterUnlock, lifeVars
  <1> QED
    BY <1>1, <1>2, <1>3, <1>4, <1>5, <1>6, <1>7 DEF CheckerStep

LEMMA StepLife == TypeInv /\ OwnInv /\ ScanInv /\ LifeInv /\ [Next]_vars => LifeInv'
  <1> SUFFICES ASSUME TypeInv, OwnInv, ScanInv, LifeInv, [Next]_vars PROVE LifeInv'
    OBVIOUS
  <1>1. CASE UNCHANGED vars
    BY <1>1, LifeFrame DEF lifeVars, vars, tableVars, pubVars, checkVars, threadVars
  <1>2. CASE (\E m \in Mids, k \in Kinds : WorkerStep(m, k)) \/ Callback
    BY <1>2, WorkerQuiet, LifeFrame DEF lifeVars, checkVars, threadVars
  <1>3. CASE Next
    BY <1>2, <1>3, HandlerLife, CloseLife, CheckerLife DEF Next
  <1> QED
    BY <1>1, <1>3

\* The signal servers are told of a removed router once, and after it has left
\* the table, whatever the capacity of CleanRouter and however unpublish races
\* CheckRouter.
THEOREM CleanedOnceHolds == Spec => []CleanedOnce
  <1>1. LifeInv => CleanedOnce
    BY DEF LifeInv
  <1> QED
    BY <1>1, InitTyped, StepTyped, InitOwn, StepOwn, InitScan, StepScan, InitLife, StepLife, PTL
       DEF Spec

-----------------------------------------------------------------------------
(***************************************************************************)
(* The refinement.  Every step of the SFU is a step of StreamLife or       *)
(* leaves the four things it speaks of alone.                              *)
(***************************************************************************)
due   == IF pc[Checker] = "send" THEN {tgt[Checker]} ELSE {}
queue == {clean[i] : i \in 1..Len(clean)}

LEMMA InitImplements == Init => Life!Init
  BY ThreadsAssumption DEF Init, Life!Init, Threads

\* A step that leaves the table, the channels and the queue alone and does not
\* move CheckRouter to or from its send.
LEMMA Stutters ==
    ASSUME UNCHANGED <<routers, chans, clean>>,
           \/ UNCHANGED <<pc[Checker], tgt[Checker]>>
           \/ pc[Checker] # "send" /\ pc'[Checker] # "send"
    PROVE  UNCHANGED Life!vars
  BY DEF Life!vars

LEMMA HandlerImplements ==
    ASSUME TypeInv, OwnInv, LifeInv, NEW h \in Handlers, Request(h) \/ HandlerStep(h)
    PROVE  [Life!Next]_(Life!vars)
  <1> USE ThreadsAssumption
       DEF Begin, Finish, At, Goto, tableVars, pubVars, mediaVars, subVars, checkVars, threadVars
  <1>0. /\ h \in Threads /\ h # Checker /\ Checker \in Threads
        /\ (pc[h] \notin {"idle", "scan"} => tgt[h] \in Mids)
    BY DEF Threads, TypeInv, TypeOK, PlaceOK
  <1>1. UNCHANGED <<pc[Checker], tgt[Checker]>>
    BY <1>0 DEF Request, HandlerStep, Publish, AddPub, AddPubFail, UnPublish, DelRouter, SubScribe,
           AddSubTracks, AddSubFail, AddSubAnswer, AddSubInsert, UnSubscribe, DelSub,
           TypeInv, TypeOK
  <1>2. UNCHANGED clean
    BY DEF Request, HandlerStep, Publish, AddPub, AddPubFail, UnPublish, DelRouter, SubScribe,
           AddSubTracks, AddSubFail, AddSubAnswer, AddSubInsert, UnSubscribe, DelSub
  <1>3. ASSUME NEW m \in Mids, Publish(h, m) PROVE Life!Next
    <2>1. Life!Create(m)
      BY <1>1, <1>2, <1>3 DEF Publish, GetNewRouter, AddRouter, Life!Create
    <2> QED
      BY <2>1 DEF Life!Next
  <1>4. CASE AddPub(h)
    <2>1. tgt[h] \in Mids /\ tgt[h] \in routers /\ chans[tgt[h]] = "none"
      BY <1>0, <1>4 DEF AddPub, OwnInv, PubInv
    <2>2. Life!Open(tgt[h])
      BY <1>1, <1>2, <1>4, <2>1 DEF AddPub, Life!Open
    <2> QED
      BY <2>1, <2>2 DEF Life!Next
  <1>5. CASE DelRouter(h)
    <2>1. tgt[h] \in Mids /\ chans[tgt[h]] = "closed"
      BY <1>0, <1>5 DEF DelRouter, LifeInv
    <2>2. CASE tgt[h] \in routers
      <3>1. Life!Remove(tgt[h])
        BY <1>1, <1>2, <1>5, <2>1, <2>2 DEF DelRouter, Life!Remove
      <3> QED
        BY <2>1, <3>1 DEF Life!Next
    <2>3. CASE tgt[h] \notin routers
      BY <1>1, <1>2, <1>5, <2>3, Stutters DEF DelRouter
    <2> QED
      BY <2>2, <2>3
  <1>6. ASSUME UNCHANGED <<routers, chans>> PROVE UNCHANGED Life!vars
    BY <1>1, <1>2, <1>6, Stutters
  <1>7. CASE \E m \in Mids : UnPublish(h, m) \/ \E s \in Sids : SubScribe(h, m, s) \/ UnSubscribe(h, m, s)
    BY <1>6, <1>7 DEF UnPublish, SubScribe, UnSubscribe
  <1>8. CASE AddPubFail(h) \/ AddSubTracks(h) \/ AddSubFail(h) \/ AddSubInsert(h) \/ DelSub(h)
             \/ \E ok \in BOOLEAN : AddSubAnswer(h, ok)
    BY <1>6, <1>8 DEF AddPubFail, AddSubTracks, AddSubFail, AddSubInsert, DelSub, AddSubAnswer
  <1> QED
    BY <1>3, <1>4, <1>5, <1>7, <1>8 DEF Request, HandlerStep

LEMMA CloseImplements ==
    ASSUME TypeInv, LifeInv, NEW t \in Threads, CloseStep(t)
    PROVE  [Life!Next]_(Life!vars)
  <1> USE DEF At, Goto, tableVars, pubVars, mediaVars, subVars, checkVars, threadVars
  <1>1. ASSUME NEW place, Goto(t, place), place # "send", pc[t] # "send"
        PROVE  \/ UNCHANGED <<pc[Checker], tgt[Checker]>>
               \/ pc[Checker] # "send" /\ pc'[Checker] # "send"
    BY <1>1 DEF TypeInv, TypeOK
  <1>2. CASE ClosePub(t)
    <2>1. tgt[t] \in Mids /\ chans[tgt[t]] = "open" /\ tgt[t] \in routers
      BY <1>2 DEF ClosePub, TypeInv, PlaceOK, LifeInv
    <2>2. UNCHANGED due
      BY <1>1, <1>2 DEF ClosePub, due
    <2>3. Life!Shut(tgt[t])
      BY <1>2, <2>1, <2>2 DEF ClosePub, Life!Shut, due
    <2> QED
      BY <2>1, <2>3 DEF Life!Next
  <1>3. CASE CloseStop(t) \/ CloseTestPub(t) \/ CloseDropPub(t) \/ CloseSubs(t)
    BY <1>1, <1>3, Stutters DEF CloseStop, CloseTestPub, CloseDropPub, CloseSubs
  <1>4. ASSUME Panic(t), UNCHANGED <<routers, chans, clean>> PROVE UNCHANGED Life!vars
    <2>1. CASE t \in Handlers /\ Finish(t)
      BY <1>4, <2>1, Stutters, ThreadsAssumption DEF Finish, Begin, TypeInv, TypeOK, Threads
    <2>2. CASE UNCHANGED threadVars
      BY <1>4, <2>2, Stutters
    <2> QED
      BY <1>4, <2>1, <2>2, PanicEffect
  <1>5. CASE ClosePubTwice(t)
    <2>1. Panic(t) /\ UNCHANGED <<tableVars, pubVars, checkVars>>
      BY <1>5, Zenon DEF ClosePubTwice
    <2> QED
      BY <1>4, <2>1
  <1>6. CASE CloseSubsTwice(t)
    <2>1. Panic(t) /\ UNCHANGED <<routers, pubVars, checkVars>>
      BY <1>6, Zenon DEF CloseSubsTwice
    <2> QED
      BY <1>4, <2>1
  <1> QED
    BY <1>2, <1>3, <1>5, <1>6 DEF CloseStep

LEMMA CheckerImplements ==
    ASSUME TypeInv, ScanInv, LifeInv, CheckerStep \/ CheckRTC \/ MeterLock \/ MeterUnlock
    PROVE  [Life!Next]_(Life!vars)
  <1> USE ThreadsAssumption
       DEF At, Goto, tableVars, pubVars, mediaVars, subVars, checkVars, threadVars
  <1>0. /\ Checker \in Threads /\ clean \in Seq(Mids) /\ Len(clean) \in Nat
        /\ (pc[Checker] \notin {"idle", "scan"} => tgt[Checker] \in Mids)
    BY DEF Threads, TypeInv, TypeOK, PlaceOK
  <1>1. CASE Tick \/ TickDone
    BY <1>0, <1>1, Stutters DEF Tick, TickDone, TypeInv, TypeOK
  <1>2. ASSUME NEW m \in Mids, Visit(m) PROVE UNCHANGED Life!vars
    <2>1. pc'[Checker] # "send" /\ pc[Checker] # "send"
      BY <1>0, <1>2 DEF Visit, TypeInv, TypeOK
    <2> QED
      BY <1>2, <2>1, Stutters DEF Visit
  <1>3. CASE CleanDelete
    <2> DEFINE m == tgt[Checker]
    <2>1. m \in Mids /\ m \in routers /\ chans[m] = "closed"
      BY <1>0, <1>3 DEF CleanDelete, ScanInv, ScanSeesTable, Closing, LifeInv
    <2>2. due = {} /\ due' = {m}
      BY <1>0, <1>3 DEF CleanDelete, due, TypeInv, TypeOK
    <2>3. Life!Remove(m)
      BY <1>3, <2>1, <2>2 DEF CleanDelete, Life!Remove, due
    <2> QED
      BY <2>1, <2>3 DEF Life!Next
  <1>4. CASE CleanSend
    <2> DEFINE m == tgt[Checker]
    <2>1. m \in Mids /\ clean' = Append(clean, m) /\ UNCHANGED <<routers, chans>>
      BY <1>0, <1>4 DEF CleanSend
    <2>2. due = {m} /\ due' = {}
      BY <1>0, <1>4 DEF CleanSend, due, TypeInv, TypeOK
    <2>3. queue' = queue \cup {m}
      <3> HIDE DEF m
      <3>1. /\ Len(clean') = Len(clean) + 1
            /\ \A i \in 1..Len(clean) : clean'[i] = clean[i]
            /\ clean'[Len(clean) + 1] = m
        BY <1>0, <2>1, Sent
      <3>2. 1..Len(clean') = (1..Len(clean)) \cup {Len(clean) + 1}
        BY <1>0, <3>1
      <3> QED
        BY <3>1, <3>2 DEF queue
    <2>4. \E n \in Mids : Life!Queue(n)
      BY <2>1, <2>2, <2>3 DEF Life!Queue, due, queue
    <2> QED
      BY <2>4 DEF Life!Next
  <1>5. CASE CheckRTC
    <2> DEFINE m == Head(clean)
    <2>1. clean # << >> /\ clean' = Tail(clean) /\ UNCHANGED <<routers, chans, pc, tgt>>
      BY <1>5 DEF CheckRTC
    <2>2. /\ Len(clean) \in Nat \ {0} /\ Len(clean') = Len(clean) - 1 /\ m = clean[1]
          /\ \A i \in 1..Len(clean') : i + 1 \in 1..Len(clean) /\ clean'[i] = clean[i + 1]
      BY <1>0, <2>1, Received
    <2>3. m \in Mids
      BY <2>2, CleanIds
    <2> HIDE DEF m
    <2>4. m \in queue
      BY <2>2 DEF queue
    <2>5. queue' \subseteq queue \ {m}
      BY <2>2 DEF queue, LifeInv, CleanedOnce
    <2>6. queue \ {m} \subseteq queue'
      <3> SUFFICES ASSUME NEW i \in 1..Len(clean), clean[i] # m
                   PROVE  \E j \in 1..Len(clean') : clean'[j] = clean[i]
        BY DEF queue
      <3>1. i - 1 \in 1..Len(clean')
        BY <2>2
      <3>2. clean'[i - 1] = clean[i]
        BY <2>2, <3>1
      <3> QED
        BY <3>1, <3>2
    <2>7. queue' = queue \ {m}
      BY <2>5, <2>6
    <2>8. \E n \in Mids : Life!Take(n)
      BY <2>1, <2>3, <2>4, <2>7 DEF Life!Take, queue
    <2> QED
      BY <2>8 DEF Life!Next
  <1>6. CASE MeterLock \/ MeterUnlock
    BY <1>6, Stutters DEF MeterLock, MeterUnlock
  <1> QED
    BY <1>1, <1>2, <1>3, <1>4, <1>5, <1>6 DEF CheckerStep

LEMMA StepImplements ==
    TypeInv /\ OwnInv /\ ScanInv /\ LifeInv /\ [Next]_vars => [Life!Next]_(Life!vars)
  <1> SUFFICES ASSUME TypeInv, OwnInv, ScanInv, LifeInv, [Next]_vars
               PROVE  [Life!Next]_(Life!vars)
    OBVIOUS
  <1>1. CASE UNCHANGED vars
    BY <1>1, Stutters DEF vars, tableVars, pubVars, checkVars, threadVars
  <1>2. CASE (\E m \in Mids, k \in Kinds : WorkerStep(m, k)) \/ Callback
    BY <1>2, WorkerQuiet, Stutters DEF checkVars, threadVars
  <1>3. CASE Next
    BY <1>2, <1>3, HandlerImplements, CloseImplements, CheckerImplements DEF Next
  <1> QED
    BY <1>1, <1>3

\* The SFU keeps the promise of StreamLife, with any number of requests, streams
\* and subscriptions, panics and the end of the process included: a stream enters
\* the table once, leaves it only with its media closed, for ever, and owes the
\* signal servers at most one notice of that.
THEOREM Implementation == Spec => ImplementsLife
  BY InitTyped, StepTyped, InitOwn, StepOwn, InitScan, StepScan, InitLife, StepLife,
     InitImplements, StepImplements, PTL DEF Spec, ImplementsLife, Life!Spec

\* What follows from StreamLife's promise for any stream follows for the SFU's.
Lives == INSTANCE StreamLifeProofs WITH
    table <- routers, media <- chans,
    due   <- IF pc[Checker] = "send" THEN {tgt[Checker]} ELSE {},
    queue <- {clean[i] : i \in 1..Len(clean)}

\* A stream that was unpublished or cleaned up, its tracks' channels closed, is
\* never in the table of routers again: no late request or subscription, and no
\* failed publish, brings it back under its id.
THEOREM GoneForGood == Spec => Life!NoReturn
  <1>1. Life!Init => Lives!Init
    BY DEF Life!Init, Lives!Init
  <1>2. [Life!Next]_(Life!vars) => [Lives!Next]_(Lives!vars)
    BY DEF Life!Next, Life!Create, Life!Open, Life!Shut, Life!Remove, Life!Queue, Life!Take, Life!vars,
           Lives!Next, Lives!Create, Lives!Open, Lives!Shut, Lives!Remove, Lives!Queue, Lives!Take, Lives!vars
  <1>3. Lives!Spec => Lives!NoReturn
    BY Lives!RemovedForGood
  <1>4. Spec => Lives!Spec
    BY <1>1, <1>2, Implementation, PTL DEF ImplementsLife, Life!Spec, Lives!Spec
  <1>5. Spec => Lives!NoReturn
    BY <1>3, <1>4, PTL
  <1> QED
    BY <1>5, PTL DEF Life!NoReturn, Lives!NoReturn, Life!vars, Lives!vars

-----------------------------------------------------------------------------
(***************************************************************************)
(* OnlyBrokenSubsClosed.  SubInv says that a subscription has one owner:   *)
(* the handler that is adding it, and no other, or the one router that it  *)
(* was inserted in; so whoever closes one closes it for everybody.         *)
(***************************************************************************)
Joining  == {"tracks", "answer", "insert"}
Answered == {"live", "down", "broken"}

SubInv ==
    /\ \A m \in Mids : \A s \in subs[m] : sub[s] \in Answered
    /\ \A m, n \in Mids : m # n => subs[m] \cap subs[n] = {}
    /\ \A h \in Handlers : pc[h] \in {"tracks", "answer"} => sub[arg[h]] = "new"
    /\ \A h \in Handlers : pc[h] = "insert" => sub[arg[h]] \in Answered
    /\ \A h \in Handlers : pc[h] \in Joining => \A m \in Mids : arg[h] \notin subs[m]
    /\ \A h, g \in Handlers :
         pc[h] \in Joining /\ pc[g] \in Joining /\ arg[h] = arg[g] => h = g

LEMMA SubFrame == ASSUME SubInv, UNCHANGED <<subs, sub, pc, arg>> PROVE SubInv'
  BY DEF SubInv

LEMMA InitSub == Init => SubInv
  BY DEF Init, SubInv, Joining, Threads

\* A thread that goes to a place where it adds no subscription.
LEMMA SubMove ==
    ASSUME TypeInv, SubInv, NEW t \in Threads, NEW place,
           pc' = [pc EXCEPT ![t] = place], \A h \in Handlers \ {t} : arg'[h] = arg[h],
           UNCHANGED <<subs, sub>>, place \notin Joining
    PROVE  SubInv'
  BY DEF TypeInv, TypeOK, SubInv, Joining

\* Some subscriptions of one router are closed and taken out of it.
LEMMA SubClose ==
    ASSUME TypeInv, SubInv, NEW m \in Mids, NEW S, S \subseteq subs[m], CloseAll(S),
           NEW D, S \subseteq D, subs' = [subs EXCEPT ![m] = @ \ D], UNCHANGED <<pc, arg>>
    PROVE  SubInv'
  <1> USE DEF TypeInv, TypeOK, CloseAll
  <1>1. \A s \in Sids \ S : sub'[s] = sub[s]
    OBVIOUS
  <1>2. \A n \in Mids : subs'[n] \subseteq subs[n] \ S
    BY DEF SubInv
  <1>3. \A h \in Handlers : pc[h] \in Joining => arg[h] \in Sids \ S
    BY DEF SubInv, PlaceOK, Joining
  <1> QED
    BY <1>1, <1>2, <1>3 DEF SubInv, Joining

\* The same while the thread goes elsewhere.
LEMMA SubCloseMove ==
    ASSUME TypeInv, SubInv, NEW t \in Threads, NEW place,
           pc' = [pc EXCEPT ![t] = place], \A h \in Handlers \ {t} : arg'[h] = arg[h],
           place \notin Joining,
           NEW m \in Mids, NEW S, S \subseteq subs[m], CloseAll(S),
           NEW D, S \subseteq D, subs' = [subs EXCEPT ![m] = @ \ D]
    PROVE  SubInv'
  <1> USE DEF TypeInv, TypeOK, CloseAll
  <1>1. \A s \in Sids \ S : sub'[s] = sub[s]
    OBVIOUS
  <1>2. \A n \in Mids : subs'[n] \subseteq subs[n] \ S
    BY DEF SubInv
  <1>3. \A h \in Handlers : pc'[h] \in Joining =>
            h # t /\ pc'[h] = pc[h] /\ arg'[h] = arg[h] /\ arg[h] \in Sids \ S
    BY DEF SubInv, PlaceOK, Joining
  <1> QED
    BY <1>1, <1>2, <1>3 DEF SubInv, Joining

LEMMA HandlerSub ==
    ASSUME TypeInv, SubInv, NEW h \in Handlers, Request(h) \/ HandlerStep(h)
    PROVE  SubInv'
  <1> USE DEF Begin, Finish, At, Goto, subVars, threadVars
  <1>0. /\ h \in Threads /\ arg \in [Handlers -> Sids \cup {NoSid}]
        /\ (pc[h] \notin {"idle", "scan"} => tgt[h] \in Mids)
        /\ (pc[h] \in {"tracks", "answer", "insert", "delSub"} => arg[h] \in Sids)
    BY DEF Threads, TypeInv, TypeOK, PlaceOK
  <1>1. ASSUME NEW m \in Mids, Publish(h, m) \/ UnPublish(h, m) PROVE SubInv'
    BY <1>0, <1>1, SubMove DEF Publish, UnPublish, Joining
  <1>2. CASE AddPub(h) \/ AddPubFail(h) \/ DelRouter(h)
    BY <1>0, <1>2, SubMove DEF AddPub, AddPubFail, DelRouter, Joining
  <1>3. ASSUME NEW m \in Mids, NEW s \in Sids, SubScribe(h, m, s) PROVE SubInv'
    <2>1. /\ sub[s] = "free" /\ sub' = [sub EXCEPT ![s] = "new"] /\ UNCHANGED subs
          /\ pc' = [pc EXCEPT ![h] = "tracks"] /\ arg' = [arg EXCEPT ![h] = s]
      BY <1>3 DEF SubScribe
    <2>2. /\ \A m1 \in Mids : s \notin subs[m1]
          /\ \A g \in Handlers : pc[g] \in Joining => arg[g] # s
      BY <2>1 DEF SubInv, Joining, Answered
    <2>3. /\ \A u \in Sids \ {s} : sub'[u] = sub[u]
          /\ sub'[s] = "new"
          /\ \A g \in Handlers \ {h} : pc'[g] = pc[g] /\ arg'[g] = arg[g]
          /\ pc'[h] = "tracks" /\ arg'[h] = s
      BY <1>0, <2>1 DEF TypeInv, TypeOK
    <2>4. \A g \in Handlers : pc[g] \in Joining => arg[g] \in Sids \ {s}
      BY <2>2 DEF TypeInv, PlaceOK, Joining
    <2>5. \A m1 \in Mids : subs[m1] \subseteq Sids \ {s}
      BY <2>2 DEF TypeInv, TypeOK
    <2> QED
      BY <2>1, <2>2, <2>3, <2>4, <2>5 DEF SubInv, Joining
  <1>4. CASE AddSubTracks(h)
    BY <1>0, <1>4 DEF AddSubTracks, TypeInv, TypeOK, SubInv, Joining
  <1>5. CASE AddSubFail(h)
    <2>1. sub' = [s \in Sids |-> IF s = arg[h] THEN "closed" ELSE sub[s]]
      BY <1>5 DEF AddSubFail, CloseAll
    <2> QED
      BY <1>0, <1>5, <2>1 DEF AddSubFail, TypeInv, TypeOK, PlaceOK, SubInv, Joining
  <1>6. ASSUME NEW ok \in BOOLEAN, AddSubAnswer(h, ok) PROVE SubInv'
    <2>1. PICK v \in {"live", "broken"} : sub' = [sub EXCEPT ![arg[h]] = v]
      BY <1>6 DEF AddSubAnswer
    <2> QED
      BY <1>0, <1>6, <2>1 DEF AddSubAnswer, TypeInv, TypeOK, PlaceOK, SubInv, Joining, Answered
  <1>7. CASE AddSubInsert(h)
    BY <1>0, <1>7 DEF AddSubInsert, TypeInv, TypeOK, PlaceOK, SubInv, Joining
  <1>8. ASSUME NEW m \in Mids, NEW s \in Sids, UnSubscribe(h, m, s) PROVE SubInv'
    BY <1>0, <1>8, SubMove DEF UnSubscribe, Joining
  <1>9. CASE DelSub(h)
    BY <1>0, <1>9, SubCloseMove DEF DelSub, Joining
  <1> QED
    BY <1>1, <1>2, <1>3, <1>4, <1>5, <1>6, <1>7, <1>8, <1>9 DEF Request, HandlerStep

\* Router.Close closes subscriptions of its own router only, and those that it
\* closed before it panics are out of the map.
LEMMA CloseSub ==
    ASSUME TypeInv, SubInv, NEW t \in Threads, CloseStep(t)
    PROVE  SubInv'
  <1> USE DEF Begin, Finish, At, Goto, subVars, threadVars
  <1>0. pc[t] \notin {"idle", "scan"} => tgt[t] \in Mids
    BY DEF TypeInv, TypeOK, PlaceOK
  <1>1. CASE CloseStop(t) \/ CloseTestPub(t) \/ ClosePub(t) \/ CloseDropPub(t)
    BY <1>1, SubMove DEF CloseStop, CloseTestPub, ClosePub, CloseDropPub, Joining
  <1>2. CASE ClosePubTwice(t)
    <2>1. Panic(t) /\ UNCHANGED subVars
      BY <1>2, Zenon DEF ClosePubTwice
    <2>2. CASE t \in Handlers /\ Finish(t)
      BY <2>1, <2>2, SubMove DEF TypeInv, TypeOK, Joining
    <2>3. CASE UNCHANGED threadVars
      BY <2>1, <2>3, SubFrame
    <2> QED
      BY <2>1, <2>2, <2>3, PanicEffect
  <1>3. CASE CloseSubs(t)
    <2>1. tgt[t] \in Mids /\ CloseAll(subs[tgt[t]]) /\ subs' = [subs EXCEPT ![tgt[t]] = {}]
      BY <1>0, <1>3 DEF CloseSubs
    <2>2. subs' = [subs EXCEPT ![tgt[t]] = @ \ subs[tgt[t]]]
      BY <2>1
    <2> QED
      BY <1>3, <2>1, <2>2, SubCloseMove DEF CloseSubs, Joining
  <1>4. CASE CloseSubsTwice(t)
    <2>1. pc[t] = "subs" /\ Panic(t)
          /\ \E done \in SUBSET {s \in subs[tgt[t]] : ~Closed(s)} :
               CloseAll(done) /\ subs' = [subs EXCEPT ![tgt[t]] = @ \ done]
      BY <1>4, Zenon DEF CloseSubsTwice
    <2>2. PICK done : done \subseteq subs[tgt[t]] /\ CloseAll(done)
                      /\ subs' = [subs EXCEPT ![tgt[t]] = @ \ done]
      BY <2>1
    <2>3. tgt[t] \in Mids
      BY <1>0, <2>1
    <2>4. CASE t \in Handlers /\ Finish(t)
      BY <2>2, <2>3, <2>4, SubCloseMove DEF TypeInv, TypeOK, Joining
    <2>5. CASE UNCHANGED threadVars
      BY <2>2, <2>3, <2>5, SubClose
    <2> QED
      BY <2>1, <2>4, <2>5, PanicEffect
  <1> QED
    BY <1>1, <1>2, <1>3, <1>4 DEF CloseStep

LEMMA CheckerSub ==
    ASSUME TypeInv, SubInv, CheckerStep \/ CheckRTC \/ MeterLock \/ MeterUnlock
    PROVE  SubInv'
  <1>1. UNCHANGED <<subs, sub, arg>>
    BY DEF CheckerStep, Tick, Visit, CleanDelete, CleanSend, TickDone, CheckRTC, MeterLock,
           MeterUnlock, Goto, subVars, threadVars
  <1>2. \A h \in Handlers : pc'[h] = pc[h]
    BY ThreadsAssumption
       DEF CheckerStep, Tick, Visit, CleanDelete, CleanSend, TickDone, CheckRTC, MeterLock,
           MeterUnlock, Goto, threadVars, TypeInv, TypeOK, Threads
  <1> QED
    BY <1>1, <1>2 DEF SubInv

\* A worker's sweep closes subscriptions of its own router and drops them.
LEMMA WorkerSub ==
    ASSUME TypeInv, SubInv, (\E m \in Mids, k \in Kinds : WorkerStep(m, k)) \/ Callback
    PROVE  SubInv'
  <1>1. UNCHANGED <<pc, arg>>
    BY WorkerQuiet DEF threadVars
  <1>2. ASSUME NEW m \in Mids, NEW k \in Kinds, WorkerSweep(m, k) PROVE SubInv'
    <2> DEFINE dead == {s \in subs[m] : Closed(s) \/ sub[s] = "down"}
    <2> DEFINE S == {s \in dead : ~Closed(s)}
    <2>1. CloseAll(S) /\ subs' = [subs EXCEPT ![m] = @ \ dead]
      BY <1>2, Zenon DEF WorkerSweep
    <2>2. S \subseteq dead /\ S \subseteq subs[m]
      OBVIOUS
    <2> HIDE DEF S, dead
    <2> QED
      BY <1>1, <2>1, <2>2, SubClose
  <1>3. ASSUME NEW s \in Sids, SubConnect(s) PROVE SubInv'
    <2>1. PICK v \in {"live", "down"} : sub' = [sub EXCEPT ![s] = v]
      BY <1>3 DEF SubConnect
    <2> QED
      BY <1>1, <1>3, <2>1 DEF SubConnect, TypeInv, TypeOK, SubInv, Answered
  <1>4. ASSUME UNCHANGED subVars PROVE SubInv'
    BY <1>1, <1>4, SubFrame DEF subVars
  <1>5. ASSUME NEW m \in Mids, NEW k \in Kinds,
               WorkerTop(m, k) \/ WorkerRead(m, k) \/ WorkerReadEnd(m, k)
               \/ OnTrack(m, k) \/ Expire(m, k)
        PROVE  SubInv'
    BY <1>4, <1>5 DEF WorkerTop, WorkerRead, WorkerReadEnd, OnTrack, Expire
  <1>6. ASSUME NEW m \in Mids, PubConnect(m) \/ PubDisconnect(m) PROVE SubInv'
    BY <1>4, <1>6 DEF PubConnect, PubDisconnect
  <1> QED
    BY <1>2, <1>3, <1>5, <1>6 DEF WorkerStep, Callback

LEMMA StepSub == TypeInv /\ SubInv /\ [Next]_vars => SubInv'
  <1> SUFFICES ASSUME TypeInv, SubInv, [Next]_vars PROVE SubInv'
    OBVIOUS
  <1>1. CASE UNCHANGED vars
    BY <1>1, SubFrame DEF vars, subVars, threadVars
  <1>2. CASE Next
    BY <1>2, HandlerSub, CloseSub, CheckerSub, WorkerSub DEF Next
  <1> QED
    BY <1>1, <1>2

\* However sweeps, unsubscribes, closers and their panics interleave, no
\* subscription that one of them closed is left for another to close again.
THEOREM SubsClosedOnce == Spec => []OnlyBrokenSubsClosed
  <1>1. SubInv => OnlyBrokenSubsClosed
    BY DEF SubInv, Answered, OnlyBrokenSubsClosed
  <1> QED
    BY <1>1, InitTyped, StepTyped, InitSub, StepSub, PTL DEF Spec

-----------------------------------------------------------------------------
(***************************************************************************)
(* KnownCrash.  CrashInv says why CheckRouter finds the publisher it tested *)
(* closed: an unpublish is between closing it and deleting the router, or  *)
(* it panicked over a broken subscription, which is still there because    *)
(* the router's mutex is lost with it.                                     *)
(***************************************************************************)
Past(h, m) == tgt[h] = m /\ pc[h] \in {"pubNil", "subs", "del"}

CrashInv ==
    /\ \A m \in wedged : \E s \in subs[m] : sub[s] = "broken"
    /\ pc[Checker] = "pubClose" /\ chans[tgt[Checker]] = "closed" =>
         tgt[Checker] \in wedged \/ \E h \in Handlers : Past(h, tgt[Checker])

\* What CrashInv speaks of.
crashVars == <<wedged, subs, sub, chans, pc, tgt>>

LEMMA CrashFrame == ASSUME CrashInv, UNCHANGED crashVars PROVE CrashInv'
  BY DEF CrashInv, Past, crashVars

LEMMA InitCrash == Init => CrashInv
  BY ThreadsAssumption DEF Init, CrashInv, Threads

\* The broken subscriptions of a wedged router stay where they are.
Kept ==
    \A m \in wedged : \A s \in subs[m] : sub[s] = "broken" => s \in subs'[m] /\ sub'[s] = "broken"

LEMMA WedgedKept ==
    ASSUME TypeInv, SubInv, CrashInv, NEW m \in Mids, m \notin wedged,
           NEW S, S \subseteq subs[m], CloseAll(S),
           NEW D, subs' = [subs EXCEPT ![m] = @ \ D]
    PROVE  Kept
  <1> USE DEF TypeInv, TypeOK, CloseAll
  <1>1. ASSUME NEW n \in wedged, NEW s \in subs[n] PROVE s \in subs'[n] /\ sub'[s] = sub[s]
    <2>1. n \in Mids /\ n # m /\ s \notin S /\ s \in Sids
      BY <1>1 DEF SubInv
    <2> QED
      BY <2>1
  <1> QED
    BY <1>1 DEF Kept

\* A step that keeps them and does not move CheckRouter, nor close a publisher,
\* nor take a handler out of DelRouter.
LEMMA CrashKept ==
    ASSUME TypeInv, CrashInv, Kept, UNCHANGED <<wedged, chans, pc[Checker], tgt[Checker]>>,
           \A h \in Handlers : Past(h, tgt[Checker]) => Past(h, tgt[Checker])'
    PROVE  CrashInv'
  BY DEF CrashInv, Kept

LEMMA HandlerCrash ==
    ASSUME TypeInv, OwnInv, ScanInv, SubInv, CrashInv, NEW h \in Handlers, Request(h) \/ HandlerStep(h)
    PROVE  CrashInv'
  <1> USE ThreadsAssumption
       DEF Begin, Finish, At, Goto, tableVars, pubVars, subVars, threadVars
  <1>0. /\ h \in Threads /\ h # Checker /\ Checker \in Threads
        /\ (pc[h] \notin {"idle", "scan"} => tgt[h] \in Mids)
        /\ (pc[h] \in {"tracks", "answer", "insert", "delSub"} => arg[h] \in Sids)
    BY DEF Threads, TypeInv, TypeOK, PlaceOK
  <1>1. UNCHANGED <<wedged, pc[Checker], tgt[Checker]>>
    BY <1>0 DEF Request, HandlerStep, Publish, AddPub, AddPubFail, UnPublish, DelRouter, SubScribe,
           AddSubTracks, AddSubFail, AddSubAnswer, AddSubInsert, UnSubscribe, DelSub,
           TypeInv, TypeOK
  <1>2. \A g \in Handlers \ {h} : pc'[g] = pc[g] /\ tgt'[g] = tgt[g]
    BY <1>0 DEF Request, HandlerStep, Publish, AddPub, AddPubFail, UnPublish, DelRouter, SubScribe,
           AddSubTracks, AddSubFail, AddSubAnswer, AddSubInsert, UnSubscribe, DelSub,
           TypeInv, TypeOK, Threads
  <1>3. CASE DelRouter(h)
    <2>1. pc[Checker] = "idle" /\ UNCHANGED <<wedged, subs, sub>>
      BY <1>3 DEF DelRouter, ScanInv, ScanSeesTable, Threads
    <2> QED
      BY <1>1, <2>1 DEF CrashInv
  <1>4. CASE AddPub(h)
    <2>1. /\ UNCHANGED <<subs, sub>> /\ chans' = [chans EXCEPT ![tgt[h]] = "open"]
          /\ chans[tgt[h]] = "none" /\ pc[h] = "addPub"
      BY <1>0, <1>4 DEF AddPub, OwnInv, PubInv
    <2>2. \A m \in Mids : chans'[m] = "closed" => chans[m] = "closed"
      BY <1>0, <2>1 DEF TypeInv, TypeOK
    <2>3. pc[Checker] = "pubClose" => tgt[Checker] \in Mids
      BY <1>0 DEF TypeInv, PlaceOK
    <2> QED
      BY <1>1, <1>2, <2>1, <2>2, <2>3 DEF CrashInv, Past
  <1>5. ASSUME UNCHANGED chans, pc[h] \notin {"pubNil", "subs", "del"}, Kept PROVE CrashInv'
    BY <1>1, <1>2, <1>5, CrashKept DEF Past
  <1>6. ASSUME UNCHANGED subVars PROVE Kept
    BY <1>6 DEF Kept
  <1>7. ASSUME NEW m \in Mids,
               Publish(h, m) \/ UnPublish(h, m) \/ \E s \in Sids : UnSubscribe(h, m, s)
        PROVE  CrashInv'
    BY <1>5, <1>6, <1>7 DEF Publish, UnPublish, UnSubscribe
  <1>8. CASE AddPubFail(h) \/ AddSubTracks(h)
    BY <1>5, <1>6, <1>8 DEF AddPubFail, AddSubTracks
  <1>9. ASSUME NEW m \in Mids, NEW s \in Sids, SubScribe(h, m, s) PROVE CrashInv'
    <2>1. UNCHANGED subs /\ sub[s] = "free" /\ sub' = [sub EXCEPT ![s] = "new"]
      BY <1>9 DEF SubScribe
    <2>2. Kept
      BY <2>1 DEF Kept, TypeInv, TypeOK
    <2> QED
      BY <1>5, <1>9, <2>2 DEF SubScribe
  <1>10. CASE AddSubFail(h)
    <2>1. UNCHANGED subs /\ sub[arg[h]] = "new" /\ \A s \in Sids : s # arg[h] => sub'[s] = sub[s]
      BY <1>0, <1>10 DEF AddSubFail, CloseAll, SubInv
    <2>2. Kept
      BY <2>1 DEF Kept, TypeInv, TypeOK
    <2> QED
      BY <1>5, <1>10, <2>2 DEF AddSubFail
  <1>11. ASSUME NEW ok \in BOOLEAN, AddSubAnswer(h, ok) PROVE CrashInv'
    <2>1. UNCHANGED subs /\ sub[arg[h]] = "new" /\ \A s \in Sids : s # arg[h] => sub'[s] = sub[s]
      BY <1>0, <1>11 DEF AddSubAnswer, SubInv, TypeInv, TypeOK
    <2>2. Kept
      BY <2>1 DEF Kept, TypeInv, TypeOK
    <2> QED
      BY <1>5, <1>11, <2>2 DEF AddSubAnswer
  <1>12. CASE AddSubInsert(h)
    <2>1. UNCHANGED sub /\ subs' = [subs EXCEPT ![tgt[h]] = @ \cup {arg[h]}]
      BY <1>12 DEF AddSubInsert
    <2>2. Kept
      BY <2>1 DEF Kept, TypeInv, TypeOK
    <2> QED
      BY <1>5, <1>12, <2>2 DEF AddSubInsert
  <1>13. CASE DelSub(h)
    <2>1. Kept
      BY <1>0, <1>13, WedgedKept DEF DelSub
    <2> QED
      BY <1>5, <1>13, <2>1 DEF DelSub
  <1> QED
    BY <1>3, <1>4, <1>7, <1>8, <1>9, <1>10, <1>11, <1>12, <1>13 DEF Request, HandlerStep

\* Router.Close: CheckRouter tests the publisher before the channels are closed,
\* or while the one that closed them still has to drop it.
LEMMA CloseCrash ==
    ASSUME TypeInv, OwnInv, SubInv, CrashInv, NEW t \in Threads, CloseStep(t)
    PROVE  CrashInv'
  <1> USE ThreadsAssumption
       DEF Begin, Finish, At, Goto, tableVars, pubVars, subVars, threadVars
  <1>0. /\ Checker \in Threads
        /\ \A u \in Threads : pc[u] \notin {"idle", "scan"} => tgt[u] \in Mids
    BY DEF Threads, TypeInv, TypeOK, PlaceOK
  <1>1. CASE CloseStop(t)
    BY <1>1 DEF CloseStop, CrashInv, Past, TypeInv, TypeOK, Threads
  <1>2. CASE CloseTestPub(t)
    <2>1. UNCHANGED <<wedged, subs, sub, chans, tgt>> /\ pc[t] = "pub"
      BY <1>2 DEF CloseTestPub
    <2>2. \A u \in Threads \ {t} : pc'[u] = pc[u]
      BY <1>2 DEF CloseTestPub, TypeInv, TypeOK
    <2>3. \A h \in Handlers, m \in Mids : Past(h, m) => Past(h, m)'
      BY <2>1, <2>2 DEF Past, Threads
    <2>4. CASE t = Checker
      <3>1. pc'[Checker] = "pubClose" => tgt[Checker] \in hasPub
        BY <1>2, <2>4 DEF CloseTestPub, TypeInv, TypeOK
      <3>2. ASSUME pc'[Checker] = "pubClose", chans[tgt[Checker]] = "closed"
            PROVE  \E h \in Handlers : Past(h, tgt[Checker])
        <4>1. PICK u \in Threads : pc[u] = "pubNil" /\ tgt[u] = tgt[Checker]
          BY <3>1, <3>2 DEF OwnInv, PubInv
        <4>2. u \in Handlers
          BY <2>1, <2>4, <4>1 DEF Threads
        <4> QED
          BY <4>1, <4>2 DEF Past
      <3> QED
        BY <1>0, <2>1, <2>3, <2>4, <3>2 DEF CrashInv, Past
    <2>5. CASE t # Checker
      BY <1>0, <2>1, <2>2, <2>3, <2>5 DEF CrashInv
    <2> QED
      BY <2>4, <2>5
  <1>3. CASE ClosePub(t)
    <2>1. /\ UNCHANGED <<wedged, subs, sub, tgt>> /\ pc[t] = "pubClose" /\ tgt[t] \in Mids
          /\ pc' = [pc EXCEPT ![t] = "pubNil"] /\ chans' = [chans EXCEPT ![tgt[t]] = "closed"]
      BY <1>0, <1>3 DEF ClosePub
    <2>2. CASE t = Checker
      BY <1>0, <2>1, <2>2 DEF CrashInv, TypeInv, TypeOK
    <2>3. CASE t # Checker
      <3>1. t \in Handlers /\ Past(t, tgt[t])' /\ pc'[Checker] = pc[Checker]
        BY <1>0, <2>1, <2>3 DEF Past, Threads, TypeInv, TypeOK
      <3>2. \A h \in Handlers, m \in Mids : Past(h, m) => Past(h, m)'
        BY <2>1 DEF Past, Threads, TypeInv, TypeOK
      <3>3. \A m \in Mids : chans'[m] = "closed" => m = tgt[t] \/ chans[m] = "closed"
        BY <2>1 DEF TypeInv, TypeOK
      <3> QED
        BY <1>0, <2>1, <3>1, <3>2, <3>3 DEF CrashInv
    <2> QED
      BY <2>2, <2>3
  <1>4. CASE ClosePubTwice(t)
    <2>1. UNCHANGED <<wedged, subs, sub, chans>> /\ Panic(t) /\ pc[t] = "pubClose"
      BY <1>4, Zenon DEF ClosePubTwice
    <2>2. CASE t \in Handlers /\ Finish(t)
      <3>1. UNCHANGED <<pc[Checker], tgt[Checker]>>
        BY <1>0, <2>2 DEF TypeInv, TypeOK
      <3>2. \A h \in Handlers, m \in Mids : Past(h, m) => Past(h, m)'
        BY <2>1, <2>2 DEF Past, Threads, TypeInv, TypeOK
      <3> QED
        BY <1>0, <2>1, <3>1, <3>2 DEF CrashInv
    <2>3. CASE UNCHANGED threadVars
      BY <2>1, <2>3, CrashFrame DEF crashVars
    <2> QED
      BY <2>1, <2>2, <2>3, PanicEffect
  <1>5. CASE CloseDropPub(t)
    <2>1. UNCHANGED <<wedged, subs, sub, chans, tgt>> /\ pc[t] = "pubNil"
          /\ pc' = [pc EXCEPT ![t] = "subs"]
      BY <1>5 DEF CloseDropPub
    <2> QED
      BY <1>0, <2>1 DEF CrashInv, Past, Threads, TypeInv, TypeOK
  <1>6. CASE CloseSubs(t)
    <2>1. /\ tgt[t] \in Mids \ wedged /\ CloseAll(subs[tgt[t]])
          /\ subs' = [subs EXCEPT ![tgt[t]] = {}]
          /\ pc' = [pc EXCEPT ![t] = "del"] /\ pc[t] = "subs" /\ UNCHANGED <<wedged, chans, tgt>>
      BY <1>0, <1>6 DEF CloseSubs
    <2>2. subs' = [subs EXCEPT ![tgt[t]] = @ \ subs[tgt[t]]]
      BY <2>1
    <2>3. Kept
      BY <2>1, <2>2, WedgedKept
    <2>4. \A h \in Handlers, m \in Mids : Past(h, m) => Past(h, m)'
      BY <2>1 DEF Past, Threads, TypeInv, TypeOK
    <2>5. pc'[Checker] = "pubClose" => pc[Checker] = "pubClose"
      BY <1>0, <2>1 DEF TypeInv, TypeOK
    <2> QED
      BY <1>0, <2>1, <2>3, <2>4, <2>5 DEF CrashInv, Kept
  <1>7. CASE CloseSubsTwice(t)
    <2>1. /\ pc[t] = "subs" /\ Panic(t) /\ UNCHANGED chans
          /\ tgt[t] \notin wedged /\ (\E s \in subs[tgt[t]] : Closed(s))
          /\ wedged' = wedged \cup {tgt[t]}
          /\ \E done \in SUBSET {s \in subs[tgt[t]] : ~Closed(s)} :
               CloseAll(done) /\ subs' = [subs EXCEPT ![tgt[t]] = @ \ done]
      BY <1>7, Zenon DEF CloseSubsTwice
    <2>2. PICK done \in SUBSET {s \in subs[tgt[t]] : ~Closed(s)} :
            CloseAll(done) /\ subs' = [subs EXCEPT ![tgt[t]] = @ \ done]
      BY <2>1
    <2>3. tgt[t] \in Mids \ wedged
      BY <1>0, <2>1
    <2>4. Kept
      BY <2>2, <2>3, WedgedKept
    <2>5. \E s \in subs[tgt[t]] : sub[s] = "broken" /\ s \in subs'[tgt[t]] /\ sub'[s] = "broken"
      <3>1. PICK s \in subs[tgt[t]] : Closed(s)
        BY <2>1
      <3>2. sub[s] = "broken" /\ s \in Sids /\ s \notin done
        BY <2>2, <2>3, <3>1 DEF Closed, SubInv, Answered, TypeInv, TypeOK
      <3> QED
        BY <2>2, <2>3, <3>1, <3>2 DEF CloseAll, TypeInv, TypeOK
    <2>6. \A m \in wedged' : \E s \in subs'[m] : sub'[s] = "broken"
      BY <2>1, <2>4, <2>5 DEF CrashInv, Kept
    <2>7. CASE t \in Handlers /\ Finish(t)
      <3>1. UNCHANGED <<pc[Checker], tgt[Checker]>>
        BY <1>0, <2>7 DEF TypeInv, TypeOK
      <3>2. \A h \in Handlers, m \in Mids : Past(h, m) => h = t \/ Past(h, m)'
        BY <2>7 DEF Past, Threads, TypeInv, TypeOK
      <3>3. \A m : Past(t, m) => m \in wedged'
        BY <2>1 DEF Past
      <3> QED
        BY <1>0, <2>1, <2>6, <3>1, <3>2, <3>3 DEF CrashInv
    <2>8. CASE UNCHANGED threadVars
      BY <2>1, <2>6, <2>8 DEF CrashInv, Past
    <2> QED
      BY <2>1, <2>7, <2>8, PanicEffect
  <1> QED
    BY <1>1, <1>2, <1>3, <1>4, <1>5, <1>6, <1>7 DEF CloseStep

LEMMA CheckerCrash ==
    ASSUME TypeInv, CrashInv, CheckerStep \/ CheckRTC \/ MeterLock \/ MeterUnlock
    PROVE  CrashInv'
  <1>0. Checker \in Threads
    BY DEF Threads
  <1>1. CASE CheckerStep
    <2>1. UNCHANGED <<wedged, subs, sub, chans>>
      BY <1>1 DEF CheckerStep, Tick, Visit, CleanDelete, CleanSend, TickDone,
                  tableVars, pubVars, subVars
    <2>2. pc'[Checker] # "pubClose"
      BY <1>0, <1>1 DEF CheckerStep, Tick, Visit, CleanDelete, CleanSend, TickDone, Goto,
                        TypeInv, TypeOK
    <2> QED
      BY <2>1, <2>2 DEF CrashInv
  <1>2. CASE CheckRTC \/ MeterLock \/ MeterUnlock
    BY <1>2, CrashFrame DEF CheckRTC, MeterLock, MeterUnlock, crashVars,
                            tableVars, pubVars, subVars, threadVars
  <1> QED
    BY <1>1, <1>2

LEMMA WorkerCrash ==
    ASSUME TypeInv, SubInv, CrashInv, (\E m \in Mids, k \in Kinds : WorkerStep(m, k)) \/ Callback
    PROVE  CrashInv'
  <1>1. UNCHANGED <<wedged, chans, pc, tgt>>
    BY WorkerQuiet DEF threadVars
  <1>2. ASSUME Kept PROVE CrashInv'
    BY <1>1, <1>2, CrashKept DEF Past
  <1>3. ASSUME NEW m \in Mids, NEW k \in Kinds, WorkerSweep(m, k) PROVE Kept
    <2> DEFINE dead == {s \in subs[m] : Closed(s) \/ sub[s] = "down"}
    <2> DEFINE S == {s \in dead : ~Closed(s)}
    <2>1. m \notin wedged /\ CloseAll(S) /\ subs' = [subs EXCEPT ![m] = @ \ dead]
      BY <1>3, Zenon DEF WorkerSweep
    <2>2. S \subseteq subs[m]
      OBVIOUS
    <2> HIDE DEF S, dead
    <2> QED
      BY <2>1, <2>2, WedgedKept
  <1>4. ASSUME NEW s \in Sids, SubConnect(s) PROVE Kept
    BY <1>4 DEF SubConnect, Kept, TypeInv, TypeOK
  <1>5. ASSUME UNCHANGED subVars PROVE Kept
    BY <1>5 DEF subVars, Kept
  <1>6. ASSUME NEW m \in Mids, NEW k \in Kinds,
               WorkerTop(m, k) \/ WorkerRead(m, k) \/ WorkerReadEnd(m, k)
               \/ OnTrack(m, k) \/ Expire(m, k)
        PROVE  Kept
    BY <1>5, <1>6 DEF WorkerTop, WorkerRead, WorkerReadEnd, OnTrack, Expire
  <1>7. ASSUME NEW m \in Mids, PubConnect(m) \/ PubDisconnect(m) PROVE Kept
    BY <1>5, <1>7 DEF PubConnect, PubDisconnect
  <1> QED
    BY <1>2, <1>3, <1>4, <1>6, <1>7 DEF WorkerStep, Callback

LEMMA StepCrash ==
    TypeInv /\ OwnInv /\ ScanInv /\ SubInv /\ CrashInv /\ [Next]_vars => CrashInv'
  <1> SUFFICES ASSUME TypeInv, OwnInv, ScanInv, SubInv, CrashInv, [Next]_vars PROVE CrashInv'
    OBVIOUS
  <1>1. CASE UNCHANGED vars
    BY <1>1, CrashFrame DEF crashVars, vars, tableVars, pubVars, subVars, threadVars
  <1>2. CASE Next
    BY <1>2, HandlerCrash, CloseCrash, CheckerCrash, WorkerCrash DEF Next
  <1> QED
    BY <1>1, <1>2

\* The steps that end the process.
LEMMA StepEnds ==
    ASSUME TypeInv, OwnInv, SubInv, CrashInv, Next, up, ~up'
    PROVE  \/ clean # << >>
           \/ \E m \in Mids : \E s \in subs[m] : sub[s] = "broken"
           \/ pc[Checker] = "pubClose" /\
              \E h \in Handlers : tgt[h] = tgt[Checker] /\ pc[h] \in {"pubNil", "subs", "del"}
  <1> USE ThreadsAssumption
  <1>0. \A m \in Mids : \A s \in subs[m] : Closed(s) => sub[s] = "broken"
    BY DEF SubInv, Answered, Closed
  <1>1. ASSUME NEW h \in Handlers, Request(h) \/ HandlerStep(h) PROVE FALSE
    BY <1>1 DEF Request, HandlerStep, Publish, AddPub, AddPubFail, UnPublish, DelRouter, SubScribe,
           AddSubTracks, AddSubFail, AddSubAnswer, AddSubInsert, UnSubscribe, DelSub
  <1>2. ASSUME NEW t \in Threads, ClosePubTwice(t)
        PROVE  pc[Checker] = "pubClose" /\ chans[tgt[Checker]] = "closed" /\ tgt[Checker] \in Mids
    <2>1. pc[t] = "pubClose" /\ chans[tgt[t]] = "closed" /\ Panic(t)
      BY <1>2, Zenon DEF ClosePubTwice, At
    <2>2. t = Checker
      BY <2>1, Zenon DEF Panic
    <2> QED
      BY <1>2, <2>1, <2>2 DEF TypeInv, PlaceOK
  <1>3. ASSUME NEW t \in Threads, CloseSubsTwice(t)
        PROVE  \E m \in Mids : \E s \in subs[m] : sub[s] = "broken"
    <2>1. pc[t] = "subs" /\ \E s \in subs[tgt[t]] : Closed(s)
      BY <1>3, Zenon DEF CloseSubsTwice, At
    <2>2. tgt[t] \in Mids
      BY <2>1 DEF TypeInv, PlaceOK
    <2> QED
      BY <1>0, <2>1, <2>2
  <1>4. ASSUME NEW t \in Threads,
               CloseStop(t) \/ CloseTestPub(t) \/ ClosePub(t) \/ CloseDropPub(t) \/ CloseSubs(t)
        PROVE  FALSE
    BY <1>4 DEF CloseStop, CloseTestPub, ClosePub, CloseDropPub, CloseSubs
  <1>5. ASSUME CheckerStep \/ MeterLock \/ MeterUnlock PROVE FALSE
    BY <1>5 DEF CheckerStep, Tick, Visit, CleanDelete, CleanSend, TickDone, MeterLock, MeterUnlock
  <1>6. ASSUME CheckRTC PROVE clean # << >>
    BY <1>6 DEF CheckRTC
  <1>7. ASSUME NEW m \in Mids, NEW k \in Kinds, WorkerSweep(m, k)
        PROVE  \E s \in subs[m] : sub[s] = "broken"
    <2>1. up' = (\A s \in {u \in subs[m] : Closed(u) \/ sub[u] = "down"} : ~Closed(s))
      BY <1>7, Zenon DEF WorkerSweep
    <2>2. \E s \in subs[m] : Closed(s)
      BY <2>1, Zenon
    <2> QED
      BY <1>0, <2>2
  <1>8. ASSUME NEW m \in Mids, NEW k \in Kinds,
               WorkerTop(m, k) \/ WorkerRead(m, k) \/ WorkerReadEnd(m, k)
        PROVE  FALSE
    BY <1>8 DEF WorkerTop, WorkerRead, WorkerReadEnd
  <1>9. ASSUME Callback PROVE FALSE
    BY <1>9 DEF Callback, OnTrack, PubConnect, PubDisconnect, SubConnect, Expire
  <1>10. CASE \E t \in Threads : ClosePubTwice(t)
    <2>1. /\ pc[Checker] = "pubClose" /\ tgt[Checker] \in Mids
          /\ tgt[Checker] \in wedged \/ \E h \in Handlers : Past(h, tgt[Checker])
      BY <1>2, <1>10 DEF CrashInv
    <2> QED
      BY <2>1 DEF CrashInv, Past
  <1> QED
    BY <1>1, <1>3, <1>4, <1>5, <1>6, <1>7, <1>8, <1>9, <1>10 DEF Next, CloseStep, WorkerStep

\* Nothing else ends the process: no schedule of closers, sweeps, requests and
\* callbacks does, unless an id was queued, a broken subscription is in a
\* router, or CheckRouter and an unpublish are closing the same publisher.
THEOREM CrashKnown == Spec => KnownCrash
  <1>1. TypeInv /\ OwnInv /\ SubInv /\ CrashInv /\ [Next]_vars =>
          [up /\ ~up' =>
             \/ clean # << >>
             \/ \E m \in Mids : \E s \in subs[m] : sub[s] = "broken"
             \/ pc[Checker] = "pubClose" /\
                \E h \in Handlers : tgt[h] = tgt[Checker] /\ pc[h] \in {"pubNil", "subs", "del"}]_vars
    BY StepEnds
  <1> QED
    BY <1>1, InitTyped, StepTyped, InitOwn, StepOwn, InitScan, StepScan, InitSub, StepSub,
       InitCrash, StepCrash, PTL DEF Spec, KnownCrash

=============================================================================
