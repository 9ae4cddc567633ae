# goRTCServer in TLA+

A verification development of goRTCServer, a WebRTC conference server in Go: a
signal server that clients talk to over a websocket, a register service that
keeps users and streams in Redis, and an SFU that forwards media. The services
find each other through etcd and call each other over NATS. Everything here is
translated from the sources under `src/`; a definition's lines are in
`PROJECT.json` ("map").

## 1. The system

| part | code | state | operations |
|---|---|---|---|
| SFU router table | `server/sfu/rtc/rtc.go`, `router.go`, `server/sfu/src` | `routers` under `routerLock`; per router `stop`, `pub`, `subs` under the router's mutex, two freshness timers; the channel `CleanRouter` | publish, unpublish, subscribe, unsubscribe (RPC); `CheckRouter` every 5 s; `CheckRTC`; `UpdatePaylaod` every 10 s; two forwarding workers per router |
| SFU connections | `server/sfu/rtc/rtcpub.go`, `rtcsub.go` | `stop`, `alive`, tracks, packet channels of each `Pub` and `Sub` | callbacks of the WebRTC library; reader goroutines; `Close` |
| register service | `server/register/src` | none of its own: Redis keys for users (60 s) and streams (24 h) | nine requests, each a goroutine that sends one to many Redis commands |
| keys | `pkg/proto/proto.go` | - | build and take apart `/node/rid/..`, `/media/rid..`, `/pub/rid..` and stream ids |
| discovery | `pkg/etcd` | etcd: a key with a lease per node; per watcher the table of nodes it has seen | register, update payload, keep the lease, list and watch, pick a node |
| signal server | `server/signal/src` | `rpcs`, one RPC handle per node seen | ten client requests and the notices of other services, each a sequence of RPCs |
| rooms and peers | `server/signal/ws` | rooms and the peers in each, under mutexes | add, delete, look up, broadcast, close |

Interactions: a client's message makes the signal server call the SFU
(`publish`, ...) and the register (`join`, `stream_add`, ...); the SFU broadcasts
`stream removed` to the signal servers; each service reads etcd's node table.

Hard behaviour, in one sentence each (all of it is in `PROJECT.json`, "hazards",
with its line): two threads may close the same router; `routerLock` is held across a
blocking channel send; a panic is harmless in an RPC handler and fatal in any other
goroutine; mutexes are leaked by panics; a subscription that was closed is inserted
nevertheless; Redis requests interleave between their commands, and keys expire
under them; what one service concludes from another is stale when it is used; channels are closed under goroutines that wait in a send; a
subscriber's reader outlives the goroutine that drains it; a registration's calls of etcd
fail halfway, overlap with updates, and outlive the process.

What makes each part correct:

- *router table*: a router once marked stopped is removed; nobody else changes the
  table during `CheckRouter`'s loop; a removal notice follows the removal, once; a
  closed subscription is in no router; handlers return, workers end.
- *SFU connections*: a packet read is forwarded; a full channel is drained; every goroutine
  of a publisher or subscriber ends after its close; only known races end the process.
- *register*: a registration lasts while it is kept alive and ends with a leave;
  lists and lookups answer what was stored while they ran; a stream its publisher removed is not found.
- *discovery*: a running service is registered once its calls are done, an update brings it
  back, its key goes when it crashes, and a watcher finds it.
- *signal server*: users of a room know of each other; a user the register has forgotten leaves the room;
  the register lists the streams that are on an SFU, and no others, but for exceptions that `Streams` names.
- *rooms*: a peer that joined is in the room others see; a closed room is not found; no circle of waiting.

## 2. Modules

| module | models |
|---|---|
| `MediaKeys` | keys and stream ids as sequences of path pieces, so that the missing slash in `"/pub/rid" + rid` costs a piece, and indexing and pattern matching fail where the code's do |
| `StreamLife` | abstract: what the SFU promises about one stream: created once, media opens once, removed only after its media closed, noticed at most once and after |
| `SfuRouter` | the router table with all its threads; implements `StreamLife` |
| `RouterMedia` | the goroutines that carry packets and feedback through one router, against disconnections, sweeps, unsubscription and `Router.Close` |
| `Register` | the nine requests of the register service, one Redis command per step |
| `RegisterPromises` | `Register` with history variables, and the properties that need them |
| `Discovery` | a service's key, lease and registration goroutines, and the node table of a watcher |
| `Rooms` | the rooms of one signal server and their peers, under their two kinds of mutex, with CheckRoom's loops |
| `Session` | the life of users in a room that several signal servers share: join, leave, kick, broadcast, CheckRoom |
| `Streams` | the life of streams between signal servers, SFUs and the register: publish, unpublish, subscribe |
| `MCSfuRouter`, `MCRouterMedia`, `MCRegister`, `MCDiscovery`, `MCRooms`, `MCSession`, `MCStreams` | instances for TLC |
| `SfuRouterProofs`, `StreamLifeProofs`, `RouterMediaProofs`, `RegisterProofs`, `DiscoveryProofs`, `RoomsProofs`, `SessionProofs`, `StreamsProofs` | theorems, checked by TLAPS |

The modules meet where one service calls another, and each looks at a call at the grain its
question needs. `SfuRouter` has every critical section of an SFU's request and `Register`
every Redis command of the register's; `Session` and `Streams`, which interleave the requests of several servers,
take such a request as one step that may fail, done or not done, and rest on what the
finer modules show of it: that a registration lasts and ends as `RegisterPromises` says, that `streamRemove`
without a mid removes nothing (`RegisterProofs`), that a failed `AddPub` may leave a router and that
`CheckRTC` never sends its notice (`SfuRouter`). `Rooms` has the mutexes of a room, whose operations are steps of `Session`.

### SfuRouter

One action per critical section, or per step between two points where another
goroutine can change what the step reads. `Router.Close` is seven actions
(`CloseStop` ... `CloseSubsTwice`) because it runs without `routerLock` in `DelRouter`;
they take the thread as a parameter and are shared by the RPC handlers and
`CheckRouter`. `pc[t]`, `tgt[t]`, `arg[t]` are a thread's place, router and subscription.

- `routers` is the table (a key names its router: mids are drawn fresh), `lock` the
  holder of `routerLock` when it is held over several steps (`CheckRouter`,
  `UpdatePaylaod`); a section that takes and releases it at once is an action with the guard `lock = NoOne`.
- `hasPub` is `Router.pub != nil`; `chans` the state of `RtpAudioCh` and `RtpVideoCh`,
  which also stands for `Pub.stop` (both change in `Pub.Close`).
- A router's own mutex is held over no interleaving point, so it is not a variable,
  except for `wedged`: routers whose mutex a panic left locked.
- `sub[s]` joins `Sub.stop` and `Sub.alive`: `new` (being set up), `live`, `down`
  (disconnected), `broken` (closed by `AddSub` when its answer failed, and inserted all
  the same), `closed`.
- `fresh` holds the kinds whose timer is not in the past; time is the action `Expire`. The constant `Silent`
  bounds which kinds it comes to.
- A handler that waits for `routerLock` stays at its place while `lock` is another's.
- A panic (`Panic`) ends the request in a handler and the process (`up`) in any other goroutine.

`Alive` is written as the code has it, with the negated result of `router.go:174`.

### RouterMedia

`SfuRouter` looks at many routers and asks who owns, closes and removes them; this module
looks at one and at what its channels carry. `reader` is `DoVideoRTP`, `worker` is
`DoVideoWork`, `readers[s]` the `DoVideoRtcp` goroutines of a subscriber, one for each
connect, and `rtcpWorker[s]` its `DoRTCPWork`. Each value is a place in the code where
the goroutine can be overtaken: before the test of `stop` and `alive` ("test"), in the
blocking read ("read"), before or in the send ("send"). A send waits for room; if the
channel is or gets closed it panics, and as none of these goroutines recovers, `up` ends.
A channel is a count, and what it carried is chosen when it is read. The lookup in
`pktBuffer` may end the process while `DoVideoWork` is at its write: Go maps detect that,
but not always. The audio path is the same without the buffer and is not repeated.

### Register

A Redis command is atomic; it may fail (`MaxFaults`), and then a read looks empty and
a write may have been applied. The requests that send one command (`Join`,
`Keepalive`) are single actions; the others run in a goroutine `req[g]` with the
local variables that survive between two commands. `Tick` lets time pass. Streams are
`<<publisher, suffix>>`, and `streamAdd` is called once for each, because a mid is new
and the signal server sends it once. Any client may ask for the removal of a stream by its mid, once the
publisher has had the answer to its publish, which follows the `streamAdd` (`handler.go:273-285`); the key is made of
the asker's uid (`handler.go:303`, `internal.go:195`), so only the publisher's own removes anything.
A leave, a keepalive and a join of the same user run in any order.

### Discovery

`key` is etcd's view of the service's key: the lease it hangs on, `NoLease` (0, as in etcd) or
`Absent`. A task is a goroutine of `keepRegistered` or `updateRegistered`; its place names the next
call of etcd. A call may fail before or after it took effect (`MaxFaults`). A lease that the
client keeps alive, or that a task is about to, is lost only if etcd is out of reach for its 5 s
(`MaxLapses`); any other expires when etcd likes. `lapsed` and `early` are history variables.
`Encode` is written as it stands in `node.go:21`, so the value of every key is empty and
the watcher's table never changes: theorem `NeverFound`. Payloads are therefore not told apart.

### Rooms

`roomMap` and `peers` are the two kinds of map, `mutex` and `peersMutex` who holds their
mutexes. A critical section that writes in its middle is two actions, one that takes
the mutex and one at the write, so that the loops of `CheckRoom`, which take no mutex, can meet the write: `MapRace`
is the Go runtime that notices and ends the process. A goroutine keeps in `my[t]` the
`*Room` it was given, which may have left the map since. `then` says where `DelPeer` returns to, since a request,
`AddPeer` and `CheckRoom` call it. `lost` is history: peers that one of the four races named at
`AddedIsKept` dropped without a `Close`.

### Session

A peer is one connection of a user to one server. `call[h]` is a goroutine of a client's
request, `kicks` the requests of one server to another, `casts` the broadcasts under way, `check[n]` the
`CheckRoom` goroutine of a server. Each step is the code between two calls of another service.
The code is modelled as it is written, and several of its paths end early:

- A second join at the same server always panics: a `streamRemove` that succeeds is taken for a
  failure, whose reason is nil (`handler.go:84`), and after one that failed `rmPubs` is missing (`handler.go:93`).
- `peerKick` panics in the same way before its `DelPeer` (`internal.go:87`, `:96`), so a user who moves
  to another server stays in the room of the first until `CheckRoom` there finds it unregistered.
- `leave` answers nobody and its notices are empty, as `rmPubs` always is.
- `CheckRoom` reads the reason of a nil error after each leave that succeeds (`init.go:276`), outside any
  recovery: the process ends (`End`). Only a leave that fails lets it go on to `DelPeer`.
- A join that the register rejects leaves its peer in the room.

`AddRoom` has no caller in the code; it is an action of the environment here, for without it every
join panics at a nil room. `steady` and `told` are history: who has been registered ever since its join, and of
whom it was told.

### Streams

`home[m]` is the SFU of a stream, `live` the streams in their SFU's table, `pub` what the
register has. A request is two steps, one for each service, and keeps the client that asks (`uid`). An unpublish names
its stream twice: the SFU finds the router by the publisher's uid in the mid (`sfu/src/internal.go:84`), the register
is asked with `peer.ID()` (`handler.go:303`, `:331`). If the client is not the publisher they disagree: the SFU obeys,
the register finds no such key, and the request is accepted. `gone` therefore remembers who unpublished what, and
`UnpublishedIsGone` says less of another's unpublish than of the publisher's. `subscribe` takes every 403 of the SFU for a
missing stream and unregisters it with the publisher's uid (`handler.go:396`), also the 403 of an `AddSub` that failed
(`server/sfu/src/internal.go:122`): `refused`. Nothing renews a stream's key: `lapsed`. On success `subscribe`
answers nobody, and the notice of a new stream is raw bytes that `SendNotifyByUids` skips; both are
left out because no state depends on them.

## 3. Runs

TLC's results; `CHECK_DEADLOCK FALSE` in the runs of one process (`Sfu...`, `MediaPath`, `RoomsOps`)
because it may end (`up = FALSE`) and nothing restarts it.

| run | instance | shows |
|---|---|---|
| `SfuOneStream` | 1 stream, 2 handlers, 2 subscriptions, both kinds, `CleanRouter` of two places | types; a stopped router has an owner; only subscriptions `AddSub` broke are closed and still listed; a removal is queued once and after it; the process dies of the three known causes only |
| `SfuTwoStreams` | 2 streams, 1 handler, `CleanRouter` of one place, fairness | the loop of `CheckRouter` is undisturbed; `StreamLife` is implemented; a handler returns, also one that waits for `routerLock` while `CheckRouter` waits for room in `CleanRouter` |
| `SfuProgress` | 1 stream, 1 handler, 1 subscription, fairness | removal of stopped and dead routers, end of workers |
| `SfuDeadRouter` | violation | a live, fresh router is closed as dead |
| `MediaPath` | 1 subscriber with 1 connect, all channels of one place, fairness | types; the process ends by four known races only; packets drain; every goroutine ends after its close |
| `RegUsers` | 2 users, 2 requests, 1 failing command | registrations and lists of users |
| `RegStreams` | 1 stream, 2 users, 2 SFUs, 2 requests, 1 failing command | lookups, and removal of streams by their publisher and by another |
| `RoomsOps` | 1 room, 2 room objects, 2 users, 2 connections of one, 2 goroutines and `CheckRoom` | peers are kept but for four races; a closed room is hidden; broadcasts reach members; no circle of waiting |
| `SesKnown` | 2 servers with a user each, 2 requests, 1 fault | of two users who stay, each has heard of the other |
| `SesStale` | 2 servers, 1 user with a connection to each, 1 request, 1 fault, fairness | a user the register does not know leaves the room or registers again |
| `StrLife` | 2 streams of one client, 2 clients, 2 SFUs, 2 requests, 2 faults | what is registered is live, what is live is registered, what was unpublished is neither, but for the exceptions named |
| `DiscKeep` | `Keep` and one `Update`, 2 failing calls, 1 lost lease, 1 crash and restart, fairness | registered at rest; an update restores; a crashed service leaves |

Bounds. Routers share only `routerLock` and `CleanRouter`, so two streams show every way
one router affects another, and one place in the channel makes it full at once: the first removal fills it and the
second waits, with `routerLock` held. That run leaves subscriptions and tracks out and lets the timer of one kind only
run out (`Silent`), which is what ends a router; those are in `SfuOneStream`, whose two places leave room for an id to be
queued twice. Two handlers and `CheckRouter` are three closers of one router, one more than a double close
takes; two subscriptions let a loop meet a closed one after an open one. In the register
every key is independent of the others but for the lists: two users give a list with and
without the asker, two requests an interleaving, and one failing command each single
fault. `Short` = 2 ticks leaves a keepalive in time and one too late. The streams' run has no signal servers, for users'
keys and streams' keys never meet, and two users, of whom one did not publish. In the media path one packet fills a channel, and the one subscriber disconnects
before it connects, so that its `DoRTCPWork` has ended when its reader starts; a second connect (765,000 states)
is too much for the liveness properties, and `MediaCrashKnown` proves the safety property for any number.
In the rooms two objects let one `AddRoom` store over another's, and two connections of a user
let one `AddPeer` overtake another; `CheckRoom` is the third goroutine. In the session a user at each of two servers
gives every order of two joins across a broadcast, and two goroutines a leave or a second join meanwhile; a user with
two servers gives the kick. One fault is each single lost call, broadcast or crash. Two clients ask about two streams of
the first, so that an unpublish meets its retry, another client's, or a refused subscription on one stream.
In the discovery one fault makes `Update` call `Keep` and a second makes that fail after its
put; five leases are never all in use. Symmetry is used for
handlers, streams, subscriptions, requests, users; never in the run with liveness.

Fairness (`SfuRouter!Fairness`). A goroutine that can run does run (weak fairness of each
thread's steps). `DelRouter`'s second `Lock` and `CheckRouter`'s can be overtaken again and
again by other users of `routerLock`; Go's mutex switches to handing over after 1 ms of waiting, so they
get strong fairness. Nothing is assumed of clients, packets, callbacks or expiry. The
`CheckRTC` runs too, so a full `CleanRouter` is read: its first notice ends the process, and that is how the handlers
waiting behind `CheckRouter` end (`HandlerReturns`). The
progress properties hold while the process runs and no mutex was leaked (`Stuck`): both
ways of getting stuck are in the model, reachable, and bounded by `KnownCrash` and
`StoppedHasOwner`.

`RouterMedia!Fairness`: each goroutine goes on, a read from a connection that was closed
returns, a `Close` that has begun goes on; nobody needs to send packets or to close.
`Session!Fairness`: the ticker of `CheckRoom` comes and its goroutine runs (weak fairness), and each round
asks for every member, whatever an earlier round ended with (strong fairness of `CheckAsk`, which is disabled while
another user is being removed). Clients and the register need do nothing.
`Discovery!Fairness`: each registration goroutine goes on (calls of etcd return), the
watcher reads, and etcd drops a lease nobody keeps.

## 4. Proofs

`TypeCorrect` (`Spec => []TypeOK`). `TypeInv` adds to `TypeOK` where each thread's
`tgt` and `arg` are set, so that an update at `tgt[t]` stays in its function's domain; one lemma
per group of actions.

`StoppedOwned` (`Spec => []StoppedHasOwner`). By itself the invariant is not inductive: a
thread that owns a router at `pub` loses it when it finds the channels closed by
another. `OwnInv` adds `PubInv` (channels are open only while `hasPub` holds, and closed
channels with `hasPub` mean that some thread is at `pubNil` of that router): the thread that
panics on a closed channel leaves the router to the one that closed it. The proof splits
on the action; `OwnFrame` covers the actions that touch no owner, `OwnMove` the steps along `Close`.

`ScanUndisturbed` (`Spec => []ScanSeesTable`). `ScanInv` adds that `CheckRouter` has visited every
router when it gives `routerLock` back; the rest is that whoever changes the table needs the lock.

`CleanedOnceHolds` (`Spec => []CleanedOnce`) needs to know what an id in the queue says of the rest of the state.
`LifeInv` ties the three together: a publisher that is open is in its router and the router in the table; a thread
past the publisher in `Close` leaves closed channels; an id that is queued, or about to be, is of a closed
router that has left the table, and is there once. The queue is a sequence, and `Received` and its like say what `Append` and `Tail` do to it.

`Implementation` (`Spec => ImplementsLife`): the refinement of `StreamLife`, step by step. `HandlerImplements`,
`CloseImplements` and `CheckerImplements` name the abstract action of each step (`Create` is a publish's `AddRouter`, `Open` a publisher
that was set, `Shut` the close of its channels, `Remove` either deletion, `Queue` the send, `Take` the receipt) or show that nothing
abstract changes. The guards of the abstract actions are what `LifeInv` is for: without it `Remove` could find an open stream, and
a receipt that takes one of two equal ids would be no `Take`. `StreamLifeProofs` draws two consequences of the abstract specification alone; by the refinement the SFU has them,
and `GoneForGood` states the second of it: a stream that was removed is never in the table again.

`SubsClosedOnce` (`Spec => []OnlyBrokenSubsClosed`). `SubInv` says that a subscription has one owner, the handler that
is adding it or the router it is in, and no second of either; so whoever closes one takes it from the only place it is in.

`CrashKnown` (`Spec => KnownCrash`, an action property). A step that ends the process in a state with no broken subscription and no
queued id must be `CheckRouter`'s second close of a publisher. `CrashInv` says who closed it before: an unpublish that has
not deleted the router yet, or one that panicked over a broken subscription and took the router's mutex with it.

`MediaTypeCorrect` and `MediaCrashKnown` (`Spec => []TypeOK`, `Spec => KnownMediaCrash`). The
second needs `SubsOpen`: no subscriber in the map is closed, for else a sweep, `DelSub` or
`Close` would close its channels again, a fifth way to end. It is kept because whoever
closes a subscriber removes it under the same lock.

`DiscoveryTyped` and `RegisteredWhenDone` (`Spec => []RegisteredAtRest`). At rest the key must hang
on a lease that is kept; on the way it may hang on one whose `Keep` is not done, or be
absent. `KeyOK` says that then some task has a put before it, or holds just that lease; `HoldsOK`
that the map names kept leases only, and that tasks hold live ones, so that the put which
ends a task leaves the key safe.

`NobodyLiveGets` (`Spec => [][OnlyLate]_vars`): whenever the worker writes a packet to a subscriber, that
subscriber is not alive. The sweep passes only subscribers that are alive and `WriteVideoRTP` writes only to
those that are not (`rtcsub.go:215`, `:207`), so a packet gets through only if the connection is
lost between the two tests.

`NeverFound` (`Spec => []~GetRPCHandlerByServiceName`): `Encode` answers "" for every map that is not nil
(`node.go:21`), so a watcher's table stays empty.

`RegisterProofs`. `RegInv` says of each running request what its loop still has to visit:
a `streamRemove` visits pub keys only, and none without a mid. `UnderPieces` and `KeyPieces` reduce a match to
single pieces of path: the patterns of `streamRemove` and `getRoomPubs` have the room in a piece of
its own, and the keys have `"rid" + rid`. From it `RegisterTyped`, `LeaverKeepsStreams`, `PubsNeverListed`. `UserInv`
adds that the age of a registration and its time left sum up to the key's lifetime at least
(`AgeOK`), and that the key of a user who left has no time left (`LeftOK`): `KeptAlive`, `LeaversStayGone`. Each
action touches one key, which is all most of the cases need.
The lists need the loop and the history side by side (`AnswerInv`): of each key that was there all the while a request ran, the
request has yet to visit it or has listed it, and what it has listed was there: an id it found was stored, and an empty one is of a key
that was not there all the while, or a command failed (`Told`). `UsersKeysExactly` says that the pattern of a room's users matches the
keys of that room's users and nothing else. `AnswersTrue` and `UsersListed` follow.
`RemovalInv` says the same of a removal for the publisher: if no command of it failed, the pub key is gone or still to be visited; and nobody
stores it again, for the one `streamAdd` of the stream has ended (`Settled`). Hence `RemovedStaysGone`.

`RoomsProofs`. `Held` says who holds which mutex at which place. `Once` says a room object is in the map once
at most, and one that was closed only until it is erased; `Closing` and `Dropping` what `DelRoom` and `DelPeer` have closed.
Together they give `RoomsTyped`, `MutexesOrdered`, `ClosedNeverFound`, `BroadcastsToMembers`, and `PeersKept`, whose
cases are the ways in which a peer can drop out of its room or a room out of the map.

`SessionProofs`. `MutuallyKnown` speaks of clients that make no request any more, so no step of a join keeps it. `WordInv` speaks of
every client from its registration on: if it has notified the others and has a list of users or is about to ask for one (`Announced`),
its word is with everybody who hears (`Heard`), under way to their server, or a join of the same client is about to send it once more. The last case is what makes it inductive:
a client may join twice at the same time, and a crash of its server between the two ends its membership, so that it is not `Announced`. A client that
asks for the list later finds all who are announced, because they are registered (`SteadyRegistered`); this is where the order of `handler.go:108-118`,
register, notify, list, is used. `Silent` gathers what the other actions have in common. `TypeCorrect` and `NeighboursKnown` follow.

`StreamsProofs`. The three invariants about SFU and register need what each running request may assume of its
stream: a publish that registers has created it, and no other request knows it yet (`Adding`, `Drawn`); an unpublish that goes on to
the register has removed it at the SFU (`Dropping`); a subscription that was refused a live stream is in `refused`, and asks the register with the
publisher's uid (`Refusing`). An unpublish that ends leaves its stream unregistered, or a call failed, or the client was
not the publisher: the last is the exception `TakenByOther` of `NothingDeadListed`, and why `UnpublishIsFinal` promises the register for the publisher's only.

Assumptions: the thread names are distinct, `NoMid` and `NoSid` are no ids, `MaxClean` is
positive (`ThreadsAssumption`, `IdsAssumption`, `BoundsAssumption`), channels hold at least one
packet (`SizesAssumption`), a picture loss is no sequence number (`PliAssumption`), the keeper is no
updater and a map of fields is not nil (`TasksAssumption`), bounds are naturals (`LimitsAssumption`), keys live for at least one tick and streams no shorter than users (`TtlAssumption`), a stream's id names one of the users (`MidsAssumption`), a
connection has one user and a stream one publisher (`UidAssumption`), which is at one server (`PeersAssumption`), and nil is no server, user or connection (`NoneAssumption`).

Every invariant and every safety property of a step that a passing run checks is a theorem. Model-checked only: liveness, which needs `ENABLED`
(`StoppedLeaves`, `DeadPubLeaves`, `WorkersEnd`, `HandlerReturns`, `PacketsDrain`, `ReaderEnds`, `SubEnds`, `Registers`, `CrashedNodeLeaves`, `StaleLeaves`).
The theorems say nothing of how the modules fit together: that `Session` and `Streams` may take a request of the register or of an SFU as one step is
argued above (section 2), not proved.

## 5. Abstractions

- Two loads of one field without a call in between are one load: the compiler merges them, and the code's
  tests (`r.pub != nil`, then `r.pub.stop`) rely on it.
- mids and sids are fresh. `RandStr` draws digits from a `math/rand` that nobody seeds (`pkg/utils/utils.go:89`, go 1.18), so
  another SFU, or one that has restarted, may draw the same suffixes again, for the same user the same mid; a repeated
  id is not modelled. Ids contain none of `/`, `*`, `#`.
- `NewRouter`'s branch that records audio to an Ogg file is off by default and left out.
- `CheckRoom` tells the others of a user only when the register's leave failed (`init.go:272`). That notice changes no state of
  `Session`, and in `Rooms` it would hold a room's mutex, and no other, as the broadcasts of requests do; both leave it out.
- Session descriptions, codecs and logging carry no state.
- `handleRPCRequest` of the SFU is registered without a `go` (`init.go:38`), so whether two handlers
  run at once depends on the NATS library; runs use one and two.
- The environment is open: clients may send any request at any time about what they were told.

- In the media path a publisher has one video track, `Router.Close` runs once and a subscriber's answer
  succeeds; two closers and broken subscriptions are `SfuRouter`'s.
- In the discovery one service and one watcher stand for all: keys do not touch each other.

- In `Session` there is one room (rooms share nothing but `CheckRoom`'s loop) and the register is always
  reachable through discovery; a call that fails stands for the rest.

## 6. What the code does not do

Facts the models show and the proofs settle, which a reader of the code should know:

- No request of a client can run in this version: `Peer.On` calls itself (`ws/peer.go:24`) and overflows
  the stack, `Rooms.AddRoom` has no caller, and no service is ever found (`NeverFound`). `Rooms`, `Session` and `Streams` model the code behind that.
- `CheckRouter` closes routers that are alive and fresh (`SfuDeadRouter`).
- No removal of a stream is announced: `CheckRTC` reads index 7 of 7 pieces and ends the process (one of the causes in `KnownCrash`).
- Connected subscribers get no packets (`NobodyLiveGets`).
- `getRoomPubs` answers nothing and a leaver's streams stay until they expire (`PubsNeverListed`, `LeaverKeepsStreams`).
- `streamRemove` keeps the media key of a stream (`register/src/internal.go:195` and `:206` name the pub key twice).
- A subscription whose `AddSub` fails unregisters the stream for everybody (`refused` in `Streams`).
- An unpublish by a client other than the publisher is accepted, takes the stream off its SFU, and leaves it registered until the key
  expires or a subscription to it is refused (`handler.go:303`, `:331`; `register/src/internal.go:195`; `sfu/src/internal.go:84`; `TakenByOther` in `Streams`).
- The success of `keepalive` is handled as its failure, and panics (`handler.go:204`); the key is renewed all the same.

## 7. Not modelled

Configuration, logging, the main programs and the websocket library's glue have no protocol state. Of the
signal server: `keepalive`, `unsubscribe`, `broadcast`, `getusers` and `getpubs` change no state of their own
(they call `Register`'s or `SfuRouter`'s requests, or only read), and `sfuRemoveStream` waits for a notice nobody sends. `Stop` of each
service is deferred behind an endless select. Operations without a caller (`Room.MapPeers`, the hash commands of Redis, `Etcd.Delete`)
are left out. `PROJECT.json` ("components") has the details.

What could follow: an abstract register that `Register` implements, so that the one-step requests of `Session` and `Streams`
rest on a theorem.
