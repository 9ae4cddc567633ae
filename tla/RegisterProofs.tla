--------------------------- MODULE RegisterProofs ---------------------------
(***************************************************************************)
(* Proofs about the register service, for any number of requests at work,  *)
(* rooms, users, streams, servers and failing commands, and any lifetimes  *)
(* of the keys.                                                            *)
(*                                                                         *)
(* The keys are told apart by their pieces: no pattern that streamRemove   *)
(* or getRoomPubs asks for without a mid matches any key, and the key of a *)
(* user is written by joins, keepalives and leaves alone.                  *)
(***************************************************************************)
EXTENDS RegisterPromises, TLAPS, SequenceTheorems

-----------------------------------------------------------------------------
(* Keys and patterns.                                                        *)

LEMMA UnderPieces ==
    ASSUME NEW S, NEW p \in Seq(S), NEW T, NEW k \in Seq(T), Under(p, k)
    PROVE  \A i \in 1..Len(p) : k[i] = p[i]
<1>1. p \in Seq(S \cup T) /\ k \in Seq(S \cup T)
    OBVIOUS
<1> QED
    BY <1>1, SubSeqProperties DEF Under

\* The second piece names the kind of a key; only in a user's key does "rid" stand alone.
LEMMA KeyPieces ==
    ASSUME NEW k \in AllKeys
    PROVE  /\ \E T : k \in Seq(T)
           /\ Len(k) \in {6, 7}
           /\ k \in NodeKeys => k[2] = <<"node">>
           /\ k \in InfoKeys => k[2] = <<"media">> /\ \E q \in Rids : k[3] = <<"rid", q>>
           /\ k \in PubKeys => k[2] = <<"pub">> /\ \E q \in Rids : k[3] = <<"rid", q>>
<1>1. CASE k \in NodeKeys
    <2>1. PICK r \in Rids, u \in Uids : k = GetUserNodeKey(r, u)
        BY <1>1 DEF NodeKeys
    <2>2. k \in Seq({<< >>, <<"node">>, <<"rid">>, <<r>>, <<"uid">>, <<u>>}) /\ Len(k) = 6 /\ k[2] = <<"node">>
        BY <2>1 DEF GetUserNodeKey
    <2>3. <<"node">> # <<"media">> /\ <<"node">> # <<"pub">>
        OBVIOUS
    <2>4. ASSUME NEW q, NEW m PROVE k # GetMediaInfoKey(q, GetUIDFromMID(m), m) /\ k # GetMediaPubKey(q, GetUIDFromMID(m), m)
        BY <2>2, <2>3 DEF GetMediaInfoKey, GetMediaPubKey
    <2> QED
        BY <2>2, <2>4 DEF InfoKeys, PubKeys
<1>2. CASE k \in InfoKeys
    <2>1. PICK q \in Rids, m \in Mids : k = GetMediaInfoKey(q, GetUIDFromMID(m), m)
        BY <1>2 DEF InfoKeys
    <2> DEFINE u == GetUIDFromMID(m)
    <2>2. k \in Seq({<< >>, <<"media">>, <<"rid", q>>, <<"uid">>, <<u>>, <<"mid">>, <<m>>}) /\ Len(k) = 7
          /\ k[2] = <<"media">> /\ k[3] = <<"rid", q>>
        BY <2>1 DEF GetMediaInfoKey
    <2>3. <<"node">> # <<"media">> /\ <<"media">> # <<"pub">>
        OBVIOUS
    <2>4. ASSUME NEW r, NEW v, NEW n PROVE k # GetUserNodeKey(r, v) /\ k # GetMediaPubKey(r, v, n)
        BY <2>2, <2>3 DEF GetUserNodeKey, GetMediaPubKey
    <2> QED
        BY <2>2, <2>4 DEF NodeKeys, PubKeys
<1>3. CASE k \in PubKeys
    <2>1. PICK q \in Rids, m \in Mids : k = GetMediaPubKey(q, GetUIDFromMID(m), m)
        BY <1>3 DEF PubKeys
    <2> DEFINE u == GetUIDFromMID(m)
    <2>2. k \in Seq({<< >>, <<"pub">>, <<"rid", q>>, <<"uid">>, <<u>>, <<"mid">>, <<m>>}) /\ Len(k) = 7
          /\ k[2] = <<"pub">> /\ k[3] = <<"rid", q>>
        BY <2>1 DEF GetMediaPubKey
    <2>3. <<"node">> # <<"pub">> /\ <<"media">> # <<"pub">>
        OBVIOUS
    <2>4. ASSUME NEW r, NEW v, NEW n PROVE k # GetUserNodeKey(r, v) /\ k # GetMediaInfoKey(r, v, n)
        BY <2>2, <2>3 DEF GetUserNodeKey, GetMediaInfoKey
    <2> QED
        BY <2>2, <2>4 DEF NodeKeys, InfoKeys
<1> QED
    BY <1>1, <1>2, <1>3 DEF AllKeys

\* The keys of users, of media and of publications are different.
LEMMA KindsApart ==
    NodeKeys \cap InfoKeys = {} /\ NodeKeys \cap PubKeys = {} /\ InfoKeys \cap PubKeys = {}
<1>1. <<"node">> # <<"media">> /\ <<"node">> # <<"pub">> /\ <<"media">> # <<"pub">>
    OBVIOUS
<1> QED
    BY <1>1, KeyPieces DEF AllKeys

\* A key of the form of a publication's is one, whoever's uid it was made of.
LEMMA PubKeyKind ==
    ASSUME NEW r, NEW u, NEW m, GetMediaPubKey(r, u, m) \in AllKeys
    PROVE  GetMediaPubKey(r, u, m) \in PubKeys
<1>1. GetMediaPubKey(r, u, m)[2] = <<"pub">>
    BY DEF GetMediaPubKey
<1>2. <<"node">> # <<"pub">> /\ <<"media">> # <<"pub">>
    OBVIOUS
<1> QED
    BY <1>1, <1>2, KeyPieces DEF AllKeys

\* A pattern in which "rid" and the room are two pieces matches no key of a stream.
LEMMA NoKeyUnder ==
    ASSUME NEW w \in {"media", "pub"}, NEW S, NEW p \in Seq(S), Len(p) >= 3,
           p[2] = <<w>>, p[3] = <<"rid">>, NEW k \in AllKeys
    PROVE  ~Under(p, k)
<1>1. <<"node">> # <<w>> /\ \A q : <<"rid">> # <<"rid", q>>
    OBVIOUS
<1>2. PICK T : k \in Seq(T)
    BY KeyPieces
<1>3. k[2] # p[2] \/ k[3] # p[3]
    BY <1>1, KeyPieces DEF AllKeys
<1>4. 2 \in 1..Len(p) /\ 3 \in 1..Len(p)
    BY LenProperties
<1> QED
    BY <1>2, <1>3, <1>4, UnderPieces

LEMMA PatternsMatchNothing ==
    ASSUME NEW r, NEW u
    PROVE  PubsKeys(r) = {} /\ RemoveKeys(r, u, None) = {} /\ RestKeys(r, u, None) = {}
<1> DEFINE pubs == << << >>, <<"pub">>, <<"rid">>, <<r>>, <<"uid">> >>
           media(w) == << << >>, <<w>>, <<"rid">>, <<r>>, <<"uid">>, <<u>>, <<"mid">> >>
           S == {<< >>, <<"pub">>, <<"media">>, <<"rid">>, <<r>>, <<"uid">>, <<u>>, <<"mid">>}
<1>1. pubs \in Seq(S) /\ Len(pubs) >= 3 /\ pubs[2] = <<"pub">> /\ pubs[3] = <<"rid">>
    OBVIOUS
<1>2. ASSUME NEW w \in {"media", "pub"}
      PROVE  media(w) \in Seq(S) /\ Len(media(w)) >= 3 /\ media(w)[2] = <<w>> /\ media(w)[3] = <<"rid">>
    OBVIOUS
<1> HIDE DEF pubs, media, S
<1>3. ASSUME NEW k \in AllKeys PROVE ~Under(pubs, k) /\ ~Under(media("media"), k) /\ ~Under(media("pub"), k)
    BY <1>1, <1>2, NoKeyUnder
<1> QED
    BY <1>3 DEF pubs, media, PubsKeys, RemoveKeys, RestKeys

-----------------------------------------------------------------------------
(* Types.                                                                    *)

StoreOK ==
    /\ val \in [AllKeys -> Values] /\ ttl \in [AllKeys -> 0..Long]
    /\ \A k \in AllKeys : ttl[k] = 0 <=> val[k] = None

\* What a goroutine keeps of its request at each place.
CallOK(c) ==
    /\ c \in Call
    /\ c.at \in {"leave", "add", "remove", "rest"} => c.rid \in Rids /\ c.uid \in Uids
    /\ c.at = "add" => c.mid \in Mids /\ c.uid = GetUIDFromMID(c.mid) /\ c.val \in Sfus
    /\ c.at \in {"remove", "rest"} =>
        /\ c.todo \subseteq PubKeys
        /\ c.mid = None => c.todo = {}
        /\ c.mid # None => c.mid \in Mids
    /\ c.at = "users" => c.todo \subseteq NodeKeys /\ c.uid \in Uids /\ c.rid \in Rids

RegInv == TypeOK /\ \A g \in Reqs : CallOK(req[g])

LEMMA NodeKeyIn ==
    ASSUME NEW r \in Rids, NEW u \in Uids
    PROVE  GetUserNodeKey(r, u) \in NodeKeys /\ GetUserNodeKey(r, u) \in AllKeys
    BY DEF NodeKeys, AllKeys

LEMMA MediaKeysIn ==
    ASSUME NEW r \in Rids, NEW m \in Mids
    PROVE  /\ GetMediaInfoKey(r, GetUIDFromMID(m), m) \in InfoKeys
           /\ GetMediaPubKey(r, GetUIDFromMID(m), m) \in PubKeys
           /\ GetMediaInfoKey(r, GetUIDFromMID(m), m) \in AllKeys
           /\ GetMediaPubKey(r, GetUIDFromMID(m), m) \in AllKeys
    BY DEF InfoKeys, PubKeys, AllKeys

\* Redis commands keep the types of the store and touch one key.
Touches(k) ==
    /\ StoreOK'
    /\ \A j \in AllKeys : j # k => ttl'[j] = ttl[j] /\ val'[j] = val[j]

LEMMA SetTouches ==
    ASSUME StoreOK, NEW k \in AllKeys, NEW v \in Signals \cup Sfus \cup {Minfo},
           NEW t \in {Short, Long}, Set(k, v, t)
    PROVE  Touches(k) /\ ttl'[k] = t
    BY TtlAssumption, NoneAssumption DEF StoreOK, Touches, Set, Values

LEMMA DelTouches ==
    ASSUME StoreOK, NEW k \in AllKeys, Del(k)
    PROVE  Touches(k) /\ ttl'[k] = 0
    BY TtlAssumption DEF StoreOK, Touches, Del, Set, Values

LEMMA ExpireTouches ==
    ASSUME StoreOK, NEW k \in AllKeys, Expire(k, Short)
    PROVE  Touches(k) /\ ttl'[k] = IF ttl[k] > 0 THEN Short ELSE 0
    BY TtlAssumption DEF StoreOK, Touches, Expire, Present

LEMMA SameTouches ==
    ASSUME StoreOK, Unchanged, NEW k
    PROVE  Touches(k)
    BY DEF StoreOK, Touches, Unchanged

LEMMA FaultsOK ==
    ASSUME faults \in 0..MaxFaults, Works \/ Fails
    PROVE  faults' \in 0..MaxFaults
    BY FaultsAssumption DEF Works, Fails

\* A request goes on with its new place and locals.
LEMMA GotoKeeps ==
    ASSUME RegInv, NEW g \in Reqs, NEW c, CallOK(c), Goto(g, c)
    PROVE  req' \in [Reqs -> Call] /\ \A h \in Reqs : CallOK(req'[h])
<1> DEFINE OK(h) == CallOK(req'[h])
<1>1. req' = [req EXCEPT ![g] = c] /\ req \in [Reqs -> Call]
    BY DEF Goto, RegInv, TypeOK
<1>2. \A h \in Reqs : req'[h] = IF h = g THEN c ELSE req[h]
    BY <1>1
<1>3. c \in Call
    BY DEF CallOK
<1>4. \A h \in Reqs : CallOK(req[h])
    BY DEF RegInv
<1> QED
    BY <1>1, <1>2, <1>3, <1>4

LEMMA IdleOK == CallOK(Idle)
    BY DEF CallOK, Idle, Call, Places, Values

\* Steps that leave the keys of the users alone.
NodesKept == \A k \in NodeKeys : ttl'[k] = ttl[k]

LEMMA Assemble ==
    ASSUME StoreOK', faults' \in 0..MaxFaults, used' \subseteq Rids \X Mids,
           req' \in [Reqs -> Call], \A g \in Reqs : CallOK(req'[g])
    PROVE  RegInv'
    BY DEF RegInv, TypeOK, StoreOK

LEMMA Parts ==
    ASSUME RegInv
    PROVE  /\ StoreOK /\ faults \in 0..MaxFaults /\ used \subseteq Rids \X Mids
           /\ req \in [Reqs -> Call] /\ \A g \in Reqs : CallOK(req[g])
    BY DEF RegInv, TypeOK, StoreOK

\* A step that only reads.
LEMMA ReadKeeps ==
    ASSUME RegInv, NEW g \in Reqs, NEW c, CallOK(c),
           Goto(g, c) \/ UNCHANGED req, Works \/ Fails, UNCHANGED <<val, ttl, used>>
    PROVE  RegInv' /\ NodesKept
<1>1. req' \in [Reqs -> Call] /\ \A h \in Reqs : CallOK(req'[h])
    BY GotoKeeps, Parts
<1>2. StoreOK' /\ NodesKept
    BY Parts DEF StoreOK, NodesKept
<1> QED
    BY <1>1, <1>2, Parts, FaultsOK, Assemble

\* A step that writes or deletes one key, or fails to.
LEMMA WriteKeeps ==
    ASSUME RegInv, NEW g \in Reqs, NEW c, CallOK(c),
           Goto(g, c) \/ UNCHANGED req, Works \/ Fails, UNCHANGED used,
           NEW k \in AllKeys, Touches(k)
    PROVE  RegInv' /\ (k \notin NodeKeys => NodesKept)
<1>1. req' \in [Reqs -> Call] /\ \A h \in Reqs : CallOK(req'[h])
    BY GotoKeeps, Parts
<1>2. StoreOK' /\ (k \notin NodeKeys => NodesKept)
    BY DEF Touches, NodesKept, AllKeys
<1> QED
    BY <1>1, <1>2, Parts, FaultsOK, Assemble

LEMMA StartOK ==
    ASSUME NEW place \in {"users", "pubs", "lookup", "leave", "remove"},
           NEW r \in Rids \cup {None}, NEW u \in Uids \cup {None}, NEW m \in Mids \cup {None},
           NEW keys \in SUBSET AllKeys,
           place \in {"leave", "remove", "users"} => r \in Rids /\ u \in Uids,
           place = "remove" => keys \subseteq PubKeys /\ (m = None => keys = {}),
           place = "users" => keys \subseteq NodeKeys
    PROVE  CallOK(Start(place, r, u, m, keys))
    BY NoneAssumption DEF CallOK, Start, Idle, Call, Places, Values

\* Requests begin.
LEMMA LeaveKeeps ==
    ASSUME RegInv, NEW g \in Reqs, NEW r \in Rids, NEW u \in Uids, Leave(g, r, u)
    PROVE  RegInv' /\ NodesKept
<1>1. CallOK(Start("leave", r, u, None, {}))
    BY StartOK
<1> QED
    BY <1>1, ReadKeeps DEF Leave, Read

LEMMA UsersKeysOf ==
    ASSUME NEW r \in Rids
    PROVE  UsersKeys(r) \subseteq NodeKeys
<1> DEFINE p == << << >>, <<"node">>, <<"rid">>, <<r>>, <<"uid">> >>
           S == {<< >>, <<"node">>, <<"rid">>, <<r>>, <<"uid">>}
<1>1. p \in Seq(S) /\ 2 \in 1..Len(p) /\ p[2] = <<"node">>
    OBVIOUS
<1>2. <<"node">> # <<"media">> /\ <<"node">> # <<"pub">>
    OBVIOUS
<1> HIDE DEF p, S
<1>3. ASSUME NEW k \in AllKeys, Under(p, k) PROVE k \in NodeKeys
    <2>1. PICK T : k \in Seq(T)
        BY KeyPieces
    <2>2. k[2] = <<"node">>
        BY <1>1, <1>3, <2>1, UnderPieces
    <2> QED
        BY <1>2, <2>2, KeyPieces DEF AllKeys
<1> QED
    BY <1>3 DEF UsersKeys, p

LEMMA GetRoomUsersKeeps ==
    ASSUME RegInv, NEW g \in Reqs, NEW r \in Rids, NEW u \in Uids, GetRoomUsers(g, r, u)
    PROVE  RegInv' /\ NodesKept
<1> DEFINE keys == ReadKeys(UsersKeys(r))
<1>1. keys \subseteq NodeKeys
    BY UsersKeysOf DEF ReadKeys
<1>2. CallOK(Start("users", r, u, None, keys))
    BY <1>1, StartOK DEF AllKeys
<1> QED
    BY <1>2, ReadKeeps DEF GetRoomUsers, Read

LEMMA GetRoomPubsKeeps ==
    ASSUME RegInv, NEW g \in Reqs, NEW r \in Rids, NEW u \in Uids, GetRoomPubs(g, r, u)
    PROVE  RegInv' /\ NodesKept
<1>1. CallOK(Start("pubs", r, u, None, {}))
    BY StartOK
<1> QED
    BY <1>1, ReadKeeps DEF GetRoomPubs, Read

LEMMA StreamRemoveKeeps ==
    ASSUME RegInv, NEW g \in Reqs, NEW r \in Rids, NEW u \in Uids, NEW m \in Mids \cup {None},
           StreamRemove(g, r, u, m)
    PROVE  RegInv' /\ NodesKept
<1> DEFINE keys == ReadKeys(RemoveKeys(r, u, m))
<1>1. keys \subseteq PubKeys /\ (m = None => keys = {})
    <2>1. CASE m = None
        BY <2>1, PatternsMatchNothing DEF ReadKeys
    <2>2. CASE m # None
        BY <2>2, PubKeyKind DEF ReadKeys, RemoveKeys, Present
    <2> QED
        BY <2>1, <2>2
<1>2. CallOK(Start("remove", r, u, m, keys))
    <2>1. keys \subseteq AllKeys
        BY <1>1 DEF AllKeys
    <2> HIDE DEF keys
    <2> QED
        BY <1>1, <2>1, StartOK
<1> QED
    BY <1>2, ReadKeeps DEF StreamRemove, Read

LEMMA LookupKeeps ==
    ASSUME RegInv, NEW g \in Reqs, NEW k \in AllKeys, Lookup(g, k)
    PROVE  RegInv' /\ NodesKept
<1>1. CallOK(Start("lookup", None, None, None, {k}))
    BY StartOK
<1> QED
    BY <1>1, ReadKeeps DEF Lookup, Read

LEMMA StreamAddKeeps ==
    ASSUME RegInv, NEW g \in Reqs, NEW r \in Rids, NEW m \in Mids, NEW s \in Sfus, StreamAdd(g, r, m, s)
    PROVE  RegInv' /\ NodesKept
<1> DEFINE k == GetMediaInfoKey(r, GetUIDFromMID(m), m)
           c == [Start("add", r, GetUIDFromMID(m), m, {}) EXCEPT !.val = s]
<1>1. k \in InfoKeys /\ k \in AllKeys /\ k \notin NodeKeys
    BY MediaKeysIn, KindsApart
<1>2. CallOK(c)
    BY MidsAssumption DEF CallOK, Start, Idle, Call, Places, Values
<1>3. Touches(k)
    BY <1>1, Parts, SetTouches, SameTouches DEF StreamAdd
<1>4. StoreOK' /\ NodesKept
    BY <1>1, <1>3 DEF Touches, NodesKept, AllKeys
<1>5. req' \in [Reqs -> Call] /\ \A h \in Reqs : CallOK(req'[h])
    BY <1>2, GotoKeeps, Parts DEF StreamAdd
<1>6. used' \subseteq Rids \X Mids /\ faults' \in 0..MaxFaults
    BY Parts, FaultsOK DEF StreamAdd
<1> QED
    BY <1>4, <1>5, <1>6, Assemble

\* Requests go on.
LEMMA LeaveDelKeeps ==
    ASSUME RegInv, NEW g \in Reqs, LeaveDel(g)
    PROVE  /\ RegInv' /\ req[g].rid \in Rids /\ req[g].uid \in Uids
           /\ Touches(GetUserNodeKey(req[g].rid, req[g].uid))
           /\ faults' = faults => ttl'[GetUserNodeKey(req[g].rid, req[g].uid)] = 0
<1> DEFINE k == GetUserNodeKey(req[g].rid, req[g].uid)
<1>1. req[g].rid \in Rids /\ req[g].uid \in Uids
    BY Parts DEF LeaveDel, At, CallOK
<1>2. k \in AllKeys
    BY <1>1, NodeKeyIn
<1>3. Touches(k)
    BY <1>2, Parts, DelTouches, SameTouches DEF LeaveDel, Write
<1>4. faults' = faults => Del(k)
    BY Parts, FaultsAssumption DEF LeaveDel, Write, Fails
<1>5. RegInv'
    BY <1>2, <1>3, IdleOK, WriteKeeps DEF LeaveDel, Write, Reply
<1> QED
    BY <1>1, <1>2, <1>3, <1>4, <1>5, Parts, DelTouches

LEMMA StreamAddPubKeeps ==
    ASSUME RegInv, NEW g \in Reqs, StreamAddPub(g)
    PROVE  RegInv' /\ NodesKept
<1> DEFINE c == req[g]
           k == GetMediaPubKey(c.rid, c.uid, c.mid)
<1>1. c.rid \in Rids /\ c.mid \in Mids /\ c.uid = GetUIDFromMID(c.mid) /\ c.val \in Sfus
    BY Parts DEF StreamAddPub, At, CallOK
<1>2. k \in AllKeys /\ k \notin NodeKeys
    BY <1>1, MediaKeysIn, KindsApart
<1>3. Touches(k)
    BY <1>1, <1>2, Parts, SetTouches, SameTouches DEF StreamAddPub, Write
<1> QED
    BY <1>2, <1>3, IdleOK, WriteKeeps DEF StreamAddPub, Write, Reply

LEMMA RemoveDelKeeps ==
    ASSUME RegInv, NEW g \in Reqs, NEW k \in AllKeys, RemoveDel(g, k)
    PROVE  RegInv' /\ NodesKept
<1> DEFINE c == [req[g] EXCEPT !.todo = @ \ {k}]
<1>1. CallOK(req[g]) /\ req[g].at = "remove" /\ k \in PubKeys
    BY Parts DEF RemoveDel, At, CallOK
<1>2. k \notin NodeKeys
    BY <1>1, KindsApart
<1>3. CallOK(c)
    BY <1>1 DEF CallOK, Call
<1>4. Touches(k)
    BY Parts, DelTouches, SameTouches DEF RemoveDel, Write
<1> QED
    BY <1>2, <1>3, <1>4, WriteKeeps DEF RemoveDel, Write

LEMMA RemoveRestKeeps ==
    ASSUME RegInv, NEW g \in Reqs, RemoveRest(g)
    PROVE  RegInv' /\ NodesKept
<1> DEFINE old == req[g]
           keys == ReadKeys(RestKeys(old.rid, old.uid, old.mid))
           c == [old EXCEPT !.at = "rest", !.todo = keys]
<1>1. CallOK(old) /\ old.at = "remove"
    BY Parts DEF RemoveRest, At
<1>2. keys \subseteq PubKeys /\ (old.mid = None => keys = {})
    <2>1. CASE old.mid = None
        BY <2>1, PatternsMatchNothing DEF ReadKeys
    <2>2. CASE old.mid # None
        BY <2>2, PubKeyKind DEF ReadKeys, RestKeys, Present
    <2> QED
        BY <2>1, <2>2
<1> HIDE DEF keys
<1>3. CallOK(c)
    BY <1>1, <1>2 DEF CallOK, Call, Places, AllKeys
<1> QED
    BY <1>3, ReadKeeps DEF RemoveRest, Read, keys

LEMMA RepliesKeep ==
    ASSUME RegInv, NEW g \in Reqs,
           RemoveDone(g) \/ Answer(g) \/ \E k \in AllKeys : RestPanic(g, k)
    PROVE  RegInv' /\ NodesKept
    BY IdleOK, ReadKeeps DEF RestPanic, RemoveDone, Answer, Reply, Works

LEMMA LookupGetKeeps ==
    ASSUME RegInv, NEW g \in Reqs, NEW k \in AllKeys, LookupGet(g, k)
    PROVE  RegInv' /\ NodesKept
<1> DEFINE found == {<<k, ReadVal(k)>>}
           c == [req[g] EXCEPT !.at = "found", !.todo = {}, !.out = found]
<1>1. CallOK(req[g])
    BY Parts
<1>2. found \in SUBSET (AllKeys \X Values)
    BY Parts DEF ReadVal, StoreOK, Values
<1> HIDE DEF found
<1>3. CallOK(c)
    BY <1>1, <1>2 DEF CallOK, Call, Places
<1> QED
    BY <1>3, ReadKeeps DEF LookupGet, Read, found

LEMMA UsersKeep ==
    ASSUME RegInv, NEW g \in Reqs, NEW k \in AllKeys, UsersSkip(g, k) \/ UsersGet(g, k)
    PROVE  RegInv' /\ NodesKept
<1> DEFINE skip == [req[g] EXCEPT !.todo = @ \ {k}]
           found == {<<k, ReadVal(k)>>}
           get == [req[g] EXCEPT !.todo = @ \ {k}, !.out = @ \cup found]
<1>1. CallOK(req[g]) /\ req[g].at = "users"
    BY Parts DEF UsersSkip, UsersGet, At
<1>2. found \in SUBSET (AllKeys \X Values)
    BY Parts DEF ReadVal, StoreOK, Values
<1> HIDE DEF found
<1>3. CallOK(skip)
    BY <1>1 DEF CallOK, Call
<1>4. CallOK(get)
    BY <1>1, <1>2 DEF CallOK, Call
<1>5. CASE UsersSkip(g, k)
    BY <1>3, <1>5, ReadKeeps DEF UsersSkip, Works
<1>6. CASE UsersGet(g, k)
    BY <1>4, <1>6, ReadKeeps DEF UsersGet, Read, found
<1> QED
    BY <1>5, <1>6

\* Joins, keepalives and time.
LEMMA JoinKeeps ==
    ASSUME RegInv, NEW r \in Rids, NEW u \in Uids, NEW s \in Signals, NEW ok \in BOOLEAN, Join(r, u, s, ok)
    PROVE  /\ RegInv' /\ Touches(GetUserNodeKey(r, u))
           /\ ttl'[GetUserNodeKey(r, u)] \in {Short, ttl[GetUserNodeKey(r, u)]}
           /\ ok => ttl'[GetUserNodeKey(r, u)] = Short
<1> DEFINE k == GetUserNodeKey(r, u)
<1>1. k \in AllKeys
    BY NodeKeyIn
<1>2. Set(k, s, Short) \/ (~ok /\ Unchanged)
    BY DEF Join
<1>3. Touches(k) /\ ttl'[k] \in {Short, ttl[k]} /\ (ok => ttl'[k] = Short)
    BY <1>1, <1>2, Parts, SetTouches, SameTouches DEF Unchanged
<1>4. StoreOK'
    BY <1>3 DEF Touches
<1>5. faults' \in 0..MaxFaults /\ UNCHANGED <<req, used>>
    BY Parts, FaultsOK DEF Join
<1> QED
    BY <1>3, <1>4, <1>5, Parts, Assemble

LEMMA KeepaliveKeeps ==
    ASSUME RegInv, NEW r \in Rids, NEW u \in Uids, NEW ok \in BOOLEAN, Keepalive(r, u, ok)
    PROVE  /\ RegInv' /\ Touches(GetUserNodeKey(r, u))
           /\ ttl'[GetUserNodeKey(r, u)] \in {Short, ttl[GetUserNodeKey(r, u)]}
           /\ ttl[GetUserNodeKey(r, u)] = 0 => ttl'[GetUserNodeKey(r, u)] = 0
           /\ ok /\ ttl[GetUserNodeKey(r, u)] > 0 => ttl'[GetUserNodeKey(r, u)] = Short
<1> DEFINE k == GetUserNodeKey(r, u)
<1>1. k \in AllKeys
    BY NodeKeyIn
<1>2. Expire(k, Short) \/ (~ok /\ Unchanged)
    BY DEF Keepalive
<1>0. ttl[k] \in Nat
    BY <1>1, Parts, TtlAssumption DEF StoreOK
<1>3. /\ Touches(k) /\ ttl'[k] \in {Short, ttl[k]} /\ (ttl[k] = 0 => ttl'[k] = 0)
      /\ ok /\ ttl[k] > 0 => ttl'[k] = Short
    BY <1>0, <1>1, <1>2, Parts, ExpireTouches, SameTouches DEF Unchanged
<1>4. StoreOK'
    BY <1>3 DEF Touches
<1>5. faults' \in 0..MaxFaults /\ UNCHANGED <<req, used>>
    BY Parts, FaultsOK DEF Keepalive
<1> QED
    BY <1>3, <1>4, <1>5, Parts, Assemble

LEMMA TickKeeps ==
    ASSUME RegInv, Tick
    PROVE  RegInv'
<1>1. StoreOK'
    BY Parts, TtlAssumption DEF Tick, StoreOK, Values
<1> QED
    BY <1>1, Parts, Assemble DEF Tick

LEMMA InitReg == Init => RegInv
<1> SUFFICES ASSUME Init PROVE RegInv
    OBVIOUS
<1>1. Idle \in Call
    BY IdleOK DEF CallOK
<1> QED
    BY <1>1, IdleOK, TtlAssumption, FaultsAssumption DEF Init, RegInv, TypeOK, Values

LEMMA StepReg == RegInv /\ [Next]_vars => RegInv'
<1> SUFFICES ASSUME RegInv, [Next]_vars PROVE RegInv'
    OBVIOUS
<1>1. CASE UNCHANGED vars
    BY <1>1 DEF vars, RegInv, TypeOK
<1>2. ASSUME NEW g \in Reqs, Step(g) PROVE RegInv'
    BY <1>2, LeaveDelKeeps, StreamAddPubKeeps, RemoveDelKeeps, RemoveRestKeeps, RepliesKeep,
       LookupGetKeeps, UsersKeep DEF Step
<1>3. ASSUME NEW g \in Reqs, NEW r \in Rids, Request(g, r) PROVE RegInv'
    <2>1. ASSUME NEW u \in Uids, NEW m \in Mids \cup {None}, StreamRemove(g, r, u, m) PROVE RegInv'
        BY <2>1, StreamRemoveKeeps
    <2> QED
        BY <1>3, <2>1, LeaveKeeps, GetRoomUsersKeeps, GetRoomPubsKeeps, StreamAddKeeps DEF Request
<1>4. ASSUME NEW g \in Reqs, NEW k \in AllKeys, Lookup(g, k) PROVE RegInv'
    BY <1>4, LookupKeeps
<1>5. ASSUME NEW r \in Rids, NEW u \in Uids, NEW ok \in BOOLEAN,
             Keepalive(r, u, ok) \/ \E s \in Signals : Join(r, u, s, ok)
      PROVE  RegInv'
    BY <1>5, KeepaliveKeeps, JoinKeeps
<1>6. CASE Tick
    BY <1>6, TickKeeps
<1> QED
    BY <1>1, <1>2, <1>3, <1>4, <1>5, <1>6 DEF Next

LEMMA RegAlways == Spec => []RegInv
    BY InitReg, StepReg, PTL DEF Spec

\* The store and the requests keep their types: no key has a time left without a value, and
\* whatever commands fail, a loop visits keys of its own kind (internal.go:60-318).
THEOREM RegisterTyped == Spec => []TypeOK
<1>1. RegInv => TypeOK
    BY DEF RegInv
<1> QED
    BY <1>1, RegAlways, PTL

\* A user who leaves, or is found gone, keeps its streams: without a mid streamRemove
\* visits no key at all, since its patterns have the room in a piece of its own and the
\* keys have not (internal.go:169-192).
RemovesNone == \A g \in Reqs : req[g].at \in {"remove", "rest"} /\ req[g].mid = None => req[g].todo = {}

THEOREM LeaverKeepsStreams == Spec => []RemovesNone
<1>1. RegInv => RemovesNone
    BY DEF RegInv, CallOK, RemovesNone
<1> QED
    BY <1>1, RegAlways, PTL

\* Nor does getRoomPubs find a stream, of any room at any time (internal.go:298); and the
\* second round of streamRemove of one stream ends at the first key it visits, which has
\* no eighth piece (internal.go:211).
NoPubListed ==
    /\ \A r \in Rids : PubsKeys(r) \cap Present = {}
    /\ \A g \in Reqs : req[g].at = "rest" => \A k \in req[g].todo : ~HasPiece(k, 7)

THEOREM PubsNeverListed == Spec => []NoPubListed
<1>1. ASSUME NEW k \in AllKeys PROVE ~HasPiece(k, 7)
    <2>1. Len(k) \in {6, 7}
        BY KeyPieces
    <2>2. \A n \in {6, 7} : ~(n > 7)
        OBVIOUS
    <2> QED
        BY <2>1, <2>2, Zenon DEF HasPiece, Split
<1>2. RegInv => NoPubListed
    BY <1>1, PatternsMatchNothing DEF RegInv, CallOK, NoPubListed, AllKeys
<1> QED
    BY <1>2, RegAlways, PTL

-----------------------------------------------------------------------------
(* The promises about users.                                                 *)

AgeOK ==
    /\ age \in [NodeKeys -> 0..Short]
    /\ \A k \in NodeKeys : age[k] < Short => ttl[k] + age[k] >= Short

LeftOK == left \subseteq NodeKeys /\ \A k \in left : ttl[k] = 0

UserInv == RegInv /\ AgeOK /\ LeftOK

LEMMA InitUsers == HInit => UserInv
<1> SUFFICES ASSUME HInit PROVE UserInv
    OBVIOUS
<1>1. RegInv
    BY InitReg DEF HInit
<1> QED
    BY <1>1, TtlAssumption DEF HInit, UserInv, AgeOK, LeftOK

\* The times left are numbers.
LEMMA Times ==
    ASSUME RegInv
    PROVE  /\ Short \in Nat \ {0} /\ NodeKeys \subseteq AllKeys
           /\ \A k \in NodeKeys : ttl[k] \in Nat
    BY Parts, TtlAssumption DEF StoreOK, AllKeys

\* Steps on other keys.
LEMMA OthersKeepUsers ==
    ASSUME UserInv, RegInv', NodesKept, UNCHANGED <<age, left>>
    PROVE  UserInv'
    BY DEF UserInv, AgeOK, LeftOK, NodesKept

LEMMA LeaveKeepsUsers ==
    ASSUME UserInv, NEW g \in Reqs, NEW r \in Rids, NEW u \in Uids, HLeave(g, r, u)
    PROVE  UserInv'
<1> DEFINE k == GetUserNodeKey(r, u)
<1>1. RegInv' /\ NodesKept
    BY LeaveKeeps DEF HLeave, UserInv
<1>2. k \in NodeKeys
    BY NodeKeyIn
<1>3. AgeOK'
    BY <1>1 DEF HLeave, UserInv, AgeOK, NodesKept
<1>4. req' = req /\ faults' = faults => ttl[k] = 0
    <2> SUFFICES ASSUME req' = req, faults' = faults PROVE ttl[k] = 0
        OBVIOUS
    <2>1. req[g].at = "idle" /\ (ReadVal(k) # None => Goto(g, Start("leave", r, u, None, {})))
        BY DEF HLeave, Leave, At
    <2>2. ReadVal(k) = None
        <3> SUFFICES ASSUME ReadVal(k) # None PROVE FALSE
            OBVIOUS
        <3>1. req[g] = Start("leave", r, u, None, {})
            BY <2>1, Parts DEF Goto, UserInv
        <3>2. Start("leave", r, u, None, {}).at = "leave"
            BY DEF Start, Idle
        <3> QED
            BY <2>1, <3>1, <3>2
    <2> QED
        BY <1>2, <2>2, Parts DEF ReadVal, UserInv, StoreOK, AllKeys
<1>5. LeftOK'
    BY <1>1, <1>2, <1>4 DEF HLeave, UserInv, LeftOK, NodesKept
<1> QED
    BY <1>1, <1>3, <1>5 DEF UserInv

LEMMA LeaveDelKeepsUsers ==
    ASSUME UserInv, NEW g \in Reqs, HLeaveDel(g)
    PROVE  UserInv'
<1> DEFINE k == GetUserNodeKey(req[g].rid, req[g].uid)
<1>1. RegInv' /\ Touches(k) /\ k \in NodeKeys /\ (faults' = faults => ttl'[k] = 0)
    BY LeaveDelKeeps, NodeKeyIn DEF HLeaveDel, UserInv
<1>2. age' = [age EXCEPT ![k] = Short] /\ left' = IF faults' = faults THEN left \cup {k} ELSE left
    BY DEF HLeaveDel
<1>3. AgeOK'
    BY <1>1, <1>2, Times DEF UserInv, AgeOK, Touches
<1>4. k \in left /\ faults' # faults => ttl'[k] = 0
    <2> SUFFICES ASSUME k \in left PROVE ttl'[k] = 0
        OBVIOUS
    <2>1. Del(k) \/ Unchanged
        BY DEF HLeaveDel, LeaveDel, Write
    <2>2. ttl[k] = 0 /\ k \in AllKeys /\ StoreOK
        BY <1>1, Parts DEF UserInv, LeftOK, AllKeys
    <2> QED
        BY <2>1, <2>2, DelTouches DEF Unchanged
<1>5. LeftOK'
    BY <1>1, <1>2, <1>4 DEF UserInv, LeftOK, Touches, AllKeys
<1> QED
    BY <1>1, <1>3, <1>5 DEF UserInv

LEMMA JoinKeepsUsers ==
    ASSUME UserInv, NEW r \in Rids, NEW u \in Uids, NEW s \in Signals, NEW ok \in BOOLEAN, HJoin(r, u, s, ok)
    PROVE  UserInv'
<1> DEFINE k == GetUserNodeKey(r, u)
<1>1. /\ RegInv' /\ Touches(k) /\ k \in NodeKeys
      /\ ttl'[k] \in {Short, ttl[k]} /\ (ok => ttl'[k] = Short)
    BY JoinKeeps, NodeKeyIn DEF HJoin, UserInv
<1>2. age' = [age EXCEPT ![k] = IF ok THEN 0 ELSE @] /\ left' = left \ {k}
    BY DEF HJoin
<1> HIDE DEF k
<1>3. AgeOK'
    <2>1. age' \in [NodeKeys -> 0..Short]
        BY <1>1, <1>2, Times DEF UserInv, AgeOK
    <2>2. ASSUME NEW j \in NodeKeys, age'[j] < Short PROVE ttl'[j] + age'[j] >= Short
        <3>1. CASE j # k
            BY <1>1, <1>2, <2>2, <3>1, Times DEF UserInv, AgeOK, Touches
        <3>2. CASE j = k
            <4>1. age[k] \in 0..Short /\ ttl[k] \in Nat
                BY <1>1, Times DEF UserInv, AgeOK
            <4> QED
                BY <1>1, <1>2, <2>2, <3>2, <4>1, Times DEF UserInv, AgeOK
        <3> QED
            BY <3>1, <3>2
    <2> QED
        BY <2>1, <2>2 DEF AgeOK
<1>4. LeftOK'
    BY <1>1, <1>2 DEF UserInv, LeftOK, Touches, AllKeys
<1> QED
    BY <1>1, <1>3, <1>4 DEF UserInv

LEMMA KeepaliveKeepsUsers ==
    ASSUME UserInv, NEW r \in Rids, NEW u \in Uids, NEW ok \in BOOLEAN, HKeepalive(r, u, ok)
    PROVE  UserInv'
<1> DEFINE k == GetUserNodeKey(r, u)
<1>1. /\ RegInv' /\ Touches(k) /\ k \in NodeKeys
      /\ ttl'[k] \in {Short, ttl[k]} /\ (ttl[k] = 0 => ttl'[k] = 0)
      /\ ok /\ ttl[k] > 0 => ttl'[k] = Short
    BY KeepaliveKeeps, NodeKeyIn DEF HKeepalive, UserInv
<1>2. age' = [age EXCEPT ![k] = IF ok /\ @ < Short THEN 0 ELSE @] /\ left' = left
    BY DEF HKeepalive
<1> HIDE DEF k
<1>3. AgeOK'
    <2>1. age' \in [NodeKeys -> 0..Short]
        BY <1>1, <1>2, Times DEF UserInv, AgeOK
    <2>2. ASSUME NEW j \in NodeKeys, age'[j] < Short PROVE ttl'[j] + age'[j] >= Short
        <3>1. CASE j # k
            BY <1>1, <1>2, <2>2, <3>1, Times DEF UserInv, AgeOK, Touches
        <3>2. CASE j = k
            <4>1. age[k] \in 0..Short /\ ttl[k] \in Nat
                BY <1>1, Times DEF UserInv, AgeOK
            <4>2. age'[k] = (IF ok /\ age[k] < Short THEN 0 ELSE age[k]) /\ age[k] < Short
                BY <1>1, <1>2, <2>2, <3>2, <4>1 DEF UserInv, AgeOK
            <4>3. ttl[k] + age[k] >= Short /\ ttl[k] > 0
                BY <1>1, <4>1, <4>2, Times DEF UserInv, AgeOK
            <4> QED
                <5>1. CASE ok
                    <6>1. ttl'[k] = Short
                        <7>1. ttl[k] > 0
                            BY <4>3
                        <7> QED
                            BY <1>1, <5>1, <7>1, Zenon
                    <6>2. age'[k] = 0
                        <7>1. age[k] < Short
                            BY <4>2
                        <7> QED
                            BY <4>2, <5>1, <7>1, Zenon
                    <6> QED
                        BY <3>2, <6>1, <6>2, Times, SMT DEF UserInv
                <5>2. CASE ~ok
                    <6>1. age'[k] = age[k]
                        BY <4>2, <5>2, Zenon
                    <6>2. ttl'[k] = Short \/ ttl'[k] = ttl[k]
                        BY <1>1, Zenon
                    <6> QED
                        BY <3>2, <4>1, <4>3, <6>1, <6>2, Times, SMT DEF UserInv
                <5> QED
                    BY <5>1, <5>2
        <3> QED
            BY <3>1, <3>2
    <2> QED
        BY <2>1, <2>2 DEF AgeOK
<1>4. LeftOK'
    BY <1>1, <1>2 DEF UserInv, LeftOK, Touches, AllKeys
<1> QED
    BY <1>1, <1>3, <1>4 DEF UserInv

LEMMA TickKeepsUsers ==
    ASSUME UserInv, HTick
    PROVE  UserInv'
<1>1. RegInv'
    BY TickKeeps DEF HTick, UserInv
<1>2. \A k \in NodeKeys : ttl'[k] = IF ttl[k] = 0 THEN 0 ELSE ttl[k] - 1
    BY DEF HTick, Tick, AllKeys
<1>3. age' = [k \in NodeKeys |-> IF age[k] < Short THEN age[k] + 1 ELSE Short] /\ left' = left
    BY DEF HTick
<1>4. AgeOK'
    BY <1>2, <1>3, Times DEF UserInv, AgeOK
<1>5. LeftOK'
    BY <1>2, <1>3 DEF UserInv, LeftOK
<1> QED
    BY <1>1, <1>4, <1>5 DEF UserInv

LEMMA HOtherKeepsUsers ==
    ASSUME UserInv, HOther \/ \E g \in Reqs : HRemoveDone(g)
    PROVE  UserInv'
<1> SUFFICES RegInv' /\ NodesKept
    BY OthersKeepUsers DEF HOther, HRemoveDone
<1>0. RegInv
    BY DEF UserInv
<1>1. ASSUME NEW g \in Reqs,
             \/ StreamAddPub(g) \/ RemoveRest(g) \/ Answer(g) \/ RemoveDone(g)
             \/ \E k \in AllKeys : RemoveDel(g, k) \/ RestPanic(g, k) \/ Lookup(g, k)
                                     \/ LookupGet(g, k) \/ UsersSkip(g, k) \/ UsersGet(g, k)
      PROVE  RegInv' /\ NodesKept
    BY <1>0, <1>1, StreamAddPubKeeps, RemoveRestKeeps, RepliesKeep, RemoveDelKeeps, LookupKeeps,
       LookupGetKeeps, UsersKeep
<1>2. ASSUME NEW g \in Reqs, NEW r \in Rids,
             \/ \E u \in Uids : GetRoomUsers(g, r, u) \/ GetRoomPubs(g, r, u)
             \/ \E m \in Mids, s \in Sfus : StreamAdd(g, r, m, s)
      PROVE  RegInv' /\ NodesKept
    BY <1>0, <1>2, GetRoomUsersKeeps, GetRoomPubsKeeps, StreamAddKeeps
<1>3. ASSUME NEW g \in Reqs, NEW r \in Rids, NEW u \in Uids, NEW m \in Mids \cup {None},
             StreamRemove(g, r, u, m)
      PROVE  RegInv' /\ NodesKept
    BY <1>0, <1>3, StreamRemoveKeeps
<1> QED
    BY <1>1, <1>2, <1>3 DEF HOther, HRemoveDone

LEMMA StepUsers == UserInv /\ [HNext]_allVars => UserInv'
<1> SUFFICES ASSUME UserInv, [HNext]_allVars PROVE UserInv'
    OBVIOUS
<1>1. CASE UNCHANGED allVars
    BY <1>1, StepReg DEF allVars, vars, history, UserInv, AgeOK, LeftOK
<1>2. CASE HNext
    BY <1>2, LeaveKeepsUsers, LeaveDelKeepsUsers, JoinKeepsUsers, KeepaliveKeepsUsers,
       TickKeepsUsers, HOtherKeepsUsers DEF HNext
<1> QED
    BY <1>1, <1>2

LEMMA UsersAlways == HSpec => []UserInv
    BY InitUsers, StepUsers, PTL DEF HSpec

\* A user whose join was accepted and who is kept alive in time stays registered, with any
\* number of requests between, until a leave reaches the store (internal.go:60-120).
THEOREM KeptAlive == HSpec => []KeptAliveStays
<1>1. UserInv => KeptAliveStays
    BY Times, Parts DEF UserInv, AgeOK, KeptAliveStays, Present, StoreOK, AllKeys
<1> QED
    BY <1>1, UsersAlways, PTL

\* A user who left is not registered before it joins again (internal.go:83-98).
THEOREM LeaversStayGone == HSpec => []LeftStaysGone
<1>1. UserInv => LeftStaysGone
    BY Times DEF UserInv, LeftOK, LeftStaysGone, Present
<1> QED
    BY <1>1, UsersAlways, PTL

-----------------------------------------------------------------------------
(***************************************************************************)
(* The promises about answers.  AnswerOK says what a list or a lookup has  *)
(* found so far, c being its request, S what was stored and K what was     *)
(* there all the while it ran: what it has found was stored (Told), and a  *)
(* user who was there all the while is listed or still to be visited.      *)
(***************************************************************************)
RoomKeys(r) == {GetUserNodeKey(r, u) : u \in Uids}

OneOfOthers(c, k) == \E u \in Uids \ {c.uid} : k = GetUserNodeKey(c.rid, u)

Listed(c, k) == \E v \in Values \ {None} : <<k, v>> \in c.out

Told(p, S, K) == IF p[2] = None THEN p[1] \notin K ELSE p \in S

AnswerOK(c, S, K) ==
    /\ c.at \notin Reading => c.out = {}
    /\ \A p \in c.out : Told(p, S, K)
    /\ c.at = "users" =>
         /\ c.todo \subseteq RoomKeys(c.rid)
         /\ \A p \in c.out : OneOfOthers(c, p[1])
         /\ \A k \in K : OneOfOthers(c, k) => k \in c.todo \/ Listed(c, k)

AnswerInv == \A g \in Reqs : AnswerOK(req[g], seen[g], kept[g])

\* A pattern of getRoomUsers matches the keys of that room's users, and they
\* match it.
LEMMA UsersKeysExactly ==
    ASSUME NEW r \in Rids
    PROVE  UsersKeys(r) = RoomKeys(r)
<1> DEFINE p == << << >>, <<"node">>, <<"rid">>, <<r>>, <<"uid">> >>
<1>1. ASSUME NEW u \in Uids PROVE Under(p, GetUserNodeKey(r, u))
    <2> DEFINE k == GetUserNodeKey(r, u)
    <2>1. Len(k) = 6 /\ Len(p) = 5
        BY DEF GetUserNodeKey
    <2>2. SubSeq(k, 1, 5) = p
        <3> DEFINE S == {<< >>, <<"node">>, <<"rid">>, <<r>>, <<"uid">>, <<u>>}
        <3>1. k \in Seq(S) /\ p \in Seq(S)
            BY DEF GetUserNodeKey
        <3>2. \A i \in 1..5 : k[i] = p[i]
            BY DEF GetUserNodeKey
        <3> HIDE DEF S, k, p
        <3>3. 1..5 \subseteq 1..Len(k)
            BY <2>1
        <3>4. \A i \in 1..5 : k[i] \in S
            BY <3>1, <3>3, ElementOfSeq
        <3>5. /\ SubSeq(k, 1, 5) \in Seq(S) /\ Len(SubSeq(k, 1, 5)) = 5
              /\ \A i \in 1..(5 - 1 + 1) : SubSeq(k, 1, 5)[i] = k[1 + i - 1]
            BY <3>4, SubSeqProperties
        <3>6. \A i \in 1..5 : SubSeq(k, 1, 5)[i] = k[i]
            BY <3>5
        <3> QED
            BY <2>1, <3>1, <3>2, <3>5, <3>6, SeqEqual
    <2> QED
        BY <2>1, <2>2 DEF Under
<1>2. ASSUME NEW q \in Rids, NEW u \in Uids, Under(p, GetUserNodeKey(q, u)) PROVE q = r
    <2> DEFINE k == GetUserNodeKey(q, u)
               S == {<< >>, <<"node">>, <<"rid">>, <<r>>, <<"uid">>}
               T == {<< >>, <<"node">>, <<"rid">>, <<q>>, <<"uid">>, <<u>>}
    <2>1. p \in Seq(S) /\ 4 \in 1..Len(p) /\ p[4] = <<r>>
        OBVIOUS
    <2>2. k \in Seq(T) /\ k[4] = <<q>>
        BY DEF GetUserNodeKey
    <2>3. k[4] = p[4]
        <3> HIDE DEF p, k, S, T
        <3> QED
            BY <1>2, <2>1, <2>2, UnderPieces DEF k
    <2> QED
        BY <2>1, <2>2, <2>3
<1>3. UsersKeys(r) = {k \in AllKeys : Under(p, k)}
    BY DEF UsersKeys
<1> HIDE DEF p
<1>4. UsersKeys(r) \subseteq RoomKeys(r)
    BY <1>2, <1>3, UsersKeysOf DEF NodeKeys, RoomKeys
<1>5. RoomKeys(r) \subseteq UsersKeys(r)
    BY <1>1, <1>3, NodeKeyIn DEF RoomKeys
<1> QED
    BY <1>4, <1>5

\* A user's key tells the room and the user.
LEMMA NodeKeyApart ==
    ASSUME NEW r, NEW u, NEW q, NEW v, GetUserNodeKey(r, u) = GetUserNodeKey(q, v)
    PROVE  r = q /\ u = v
    BY DEF GetUserNodeKey

LEMMA SixthPiece ==
    ASSUME NEW r, NEW u
    PROVE  Split(GetUserNodeKey(r, u))[6] = <<u>>
    BY DEF Split, GetUserNodeKey

\* What is watched of a request grows and shrinks one way while it runs.
LEMMA WatchedOn ==
    ASSUME Watch, NEW h \in Reqs, req'[h].at \in Reading
    PROVE  /\ Stored' \subseteq seen'[h]
           /\ kept'[h] \subseteq Present'
           /\ faults' # faults => kept'[h] = {}
           /\ req[h].at # "idle" => seen[h] \subseteq seen'[h] /\ kept'[h] \subseteq kept[h]
           /\ req[h].at = "idle" => kept'[h] \subseteq Present
    BY DEF Watch, At

\* What was told of a key stays true when more has been seen and fewer keys kept.
LEMMA ToldOn ==
    ASSUME NEW p, NEW S, NEW K, NEW T, NEW L, Told(p, S, K), S \subseteq T, L \subseteq K
    PROVE  Told(p, T, L)
    BY DEF Told

LEMMA GotoOthers ==
    ASSUME RegInv, NEW g \in Reqs, NEW c, Goto(g, c)
    PROVE  req'[g] = c /\ \A h \in Reqs \ {g} : req'[h] = req[h]
    BY Parts DEF Goto

\* A request that has found nothing yet, and lists no users.
LEMMA NothingFound ==
    ASSUME NEW c, c.out = {}, c.at # "users", NEW S, NEW K
    PROVE  AnswerOK(c, S, K)
    BY DEF AnswerOK

\* A request that does not move has still found what it had.
LEMMA AnswerStays ==
    ASSUME AnswerInv, Watch, NEW h \in Reqs, req'[h] = req[h]
    PROVE  AnswerOK(req[h], seen'[h], kept'[h])
<1>1. AnswerOK(req[h], seen[h], kept[h])
    BY DEF AnswerInv
<1>2. CASE req[h].at \in Reading
    <2>1. req[h].at # "idle"
        BY <1>2 DEF Reading
    <2>2. seen[h] \subseteq seen'[h] /\ kept'[h] \subseteq kept[h]
        BY <1>2, <2>1, WatchedOn
    <2>3. \A p \in req[h].out : Told(p, seen'[h], kept'[h])
        BY <1>1, <2>2, ToldOn DEF AnswerOK
    <2> QED
        BY <1>1, <2>2, <2>3 DEF AnswerOK
<1>3. CASE req[h].at \notin Reading
    <2>1. req[h].out = {} /\ req[h].at # "users"
        BY <1>1, <1>3 DEF AnswerOK, Reading
    <2> QED
        BY <2>1, NothingFound
<1> QED
    BY <1>2, <1>3

\* One request moves, or none.
LEMMA AnswerMove ==
    ASSUME RegInv, AnswerInv, Watch, NEW g \in Reqs, NEW c, Goto(g, c), AnswerOK(c, seen'[g], kept'[g])
    PROVE  AnswerInv'
<1>1. req'[g] = c /\ \A h \in Reqs \ {g} : req'[h] = req[h]
    BY GotoOthers
<1>2. \A h \in Reqs \ {g} : AnswerOK(req'[h], seen'[h], kept'[h])
    BY <1>1, AnswerStays
<1>3. \A h \in Reqs : AnswerOK(req'[h], seen'[h], kept'[h])
    BY <1>1, <1>2
<1> QED
    BY <1>3 DEF AnswerInv

LEMMA AnswerFrame ==
    ASSUME AnswerInv, Watch, UNCHANGED req
    PROVE  AnswerInv'
    BY AnswerStays DEF AnswerInv

\* A request ends, or starts on something that is not a list of users.
LEMMA AnswerQuiet ==
    ASSUME RegInv, AnswerInv, Watch, NEW g \in Reqs, NEW c, c.out = {}, c.at # "users",
           Goto(g, c) \/ UNCHANGED req
    PROVE  AnswerInv'
    BY AnswerMove, AnswerFrame, NothingFound

LEMMA StartFields ==
    ASSUME NEW place, NEW r, NEW u, NEW m, NEW keys
    PROVE  /\ Start(place, r, u, m, keys).at = place
           /\ Start(place, r, u, m, keys).rid = r
           /\ Start(place, r, u, m, keys).uid = u
           /\ Start(place, r, u, m, keys).mid = m
           /\ Start(place, r, u, m, keys).todo = keys
           /\ Start(place, r, u, m, keys).out = {}
    BY DEF Start, Idle

LEMMA IdleFields == Idle.at = "idle" /\ Idle.out = {} /\ Idle.mid = None
    BY DEF Idle

\* What Get answers was stored.
LEMMA ReadStored ==
    ASSUME RegInv, NEW k \in AllKeys, UNCHANGED <<val, ttl>>
    PROVE  /\ ReadVal(k) \in Values /\ (ReadVal(k) # None => <<k, ReadVal(k)>> \in Stored')
           /\ k \in Present' /\ faults' = faults => ReadVal(k) # None
<1>1. StoreOK
    BY Parts
<1>2. ttl[k] \in Nat /\ val[k] \in Values
    BY <1>1, TtlAssumption DEF StoreOK
<1>3. val[k] # None => k \in Present'
    BY <1>1, <1>2 DEF StoreOK, Present
<1>4. k \in Present' => val[k] # None
    BY <1>1, <1>2 DEF StoreOK, Present
<1> QED
    BY <1>2, <1>3, <1>4 DEF ReadVal, Stored, Values

\* So is what a request makes of it.
LEMMA ReadTold ==
    ASSUME RegInv, Watch, NEW g \in Reqs, NEW k \in AllKeys, UNCHANGED <<val, ttl>>, req'[g].at \in Reading
    PROVE  Told(<<k, ReadVal(k)>>, seen'[g], kept'[g])
<1>1. /\ ReadVal(k) # None => <<k, ReadVal(k)>> \in Stored'
      /\ k \in Present' /\ faults' = faults => ReadVal(k) # None
    BY ReadStored
<1>2. Stored' \subseteq seen'[g] /\ kept'[g] \subseteq Present' /\ (faults' # faults => kept'[g] = {})
    BY WatchedOn
<1> QED
    BY <1>1, <1>2 DEF Told

\* Requests begin.
LEMMA UsersBegin ==
    ASSUME RegInv, AnswerInv, Watch, NEW g \in Reqs, NEW r \in Rids, NEW u \in Uids, GetRoomUsers(g, r, u)
    PROVE  AnswerInv'
<1> DEFINE keys == ReadKeys(UsersKeys(r))
           c == Start("users", r, u, None, keys)
<1>1. Goto(g, c) /\ req[g].at = "idle"
    BY DEF GetRoomUsers, At
<1>2. c.at = "users" /\ c.rid = r /\ c.uid = u /\ c.todo = keys /\ c.out = {}
    BY StartFields
<1>3. keys \subseteq RoomKeys(r)
    BY UsersKeysExactly DEF ReadKeys
<1>4. \A k \in kept'[g] : OneOfOthers(c, k) => k \in keys
    <2>1. req'[g].at \in Reading
        BY <1>1, <1>2, GotoOthers DEF Reading
    <2>2. kept'[g] \subseteq Present /\ (faults' # faults => kept'[g] = {})
        BY <1>1, <2>1, WatchedOn
    <2>3. \A k : OneOfOthers(c, k) => k \in UsersKeys(r)
        BY <1>2, UsersKeysExactly DEF OneOfOthers, RoomKeys
    <2> QED
        BY <2>2, <2>3 DEF ReadKeys
<1>5. AnswerOK(c, seen'[g], kept'[g])
    <2> HIDE DEF c, keys
    <2> QED
        BY <1>2, <1>3, <1>4 DEF AnswerOK, Reading
<1> QED
    BY <1>1, <1>5, AnswerMove

LEMMA RequestsBegin ==
    ASSUME RegInv, AnswerInv, Watch, NEW g \in Reqs, NEW r \in Rids,
           \/ \E u \in Uids : Leave(g, r, u) \/ GetRoomPubs(g, r, u)
           \/ \E u, m : StreamRemove(g, r, u, m)
           \/ \E m \in Mids, s \in Sfus : StreamAdd(g, r, m, s)
           \/ \E k \in AllKeys : Lookup(g, k)
    PROVE  AnswerInv'
<1>1. ASSUME NEW u \in Uids, Leave(g, r, u) PROVE AnswerInv'
    BY <1>1, AnswerQuiet, StartFields DEF Leave
<1>2. ASSUME NEW u \in Uids, GetRoomPubs(g, r, u) PROVE AnswerInv'
    BY <1>2, AnswerQuiet, StartFields DEF GetRoomPubs
<1>3. ASSUME NEW u, NEW m, StreamRemove(g, r, u, m) PROVE AnswerInv'
    BY <1>3, AnswerQuiet, StartFields DEF StreamRemove
<1>4. ASSUME NEW m \in Mids, NEW s \in Sfus, StreamAdd(g, r, m, s) PROVE AnswerInv'
    <2> DEFINE c == [Start("add", r, GetUIDFromMID(m), m, {}) EXCEPT !.val = s]
    <2>1. c.at = "add" /\ c.out = {}
        BY DEF Start, Idle
    <2>2. Goto(g, c) \/ UNCHANGED req
        BY <1>4 DEF StreamAdd
    <2> QED
        BY <2>1, <2>2, AnswerQuiet
<1>5. ASSUME NEW k \in AllKeys, Lookup(g, k) PROVE AnswerInv'
    BY <1>5, AnswerQuiet, StartFields DEF Lookup
<1> QED
    BY <1>1, <1>2, <1>3, <1>4, <1>5

\* Requests that list or look up nothing go on, and all of them end.
LEMMA RequestsGoOn ==
    ASSUME RegInv, AnswerInv, Watch, NEW g \in Reqs,
           \/ LeaveDel(g) \/ StreamAddPub(g) \/ RemoveRest(g) \/ RemoveDone(g) \/ Answer(g)
           \/ \E k \in AllKeys : RemoveDel(g, k) \/ RestPanic(g, k)
    PROVE  AnswerInv'
<1>1. ASSUME Reply(g) PROVE AnswerInv'
    BY <1>1, IdleFields, AnswerQuiet DEF Reply
<1>2. CASE \/ LeaveDel(g) \/ StreamAddPub(g) \/ RemoveDone(g) \/ Answer(g)
           \/ \E k \in AllKeys : RestPanic(g, k)
    BY <1>1, <1>2 DEF LeaveDel, StreamAddPub, RemoveDone, Answer, RestPanic
<1>3. CASE RemoveRest(g)
    <2> DEFINE old == req[g]
               keys == ReadKeys(RestKeys(old.rid, old.uid, old.mid))
               c == [old EXCEPT !.at = "rest", !.todo = keys]
    <2>1. Goto(g, c) /\ old.at = "remove" /\ old \in Call
        BY <1>3, Parts DEF RemoveRest, At
    <2>2. c.at = "rest" /\ c.out = old.out
        BY <2>1 DEF Call
    <2>3. old.out = {}
        BY <2>1 DEF AnswerInv, AnswerOK, Reading
    <2> QED
        BY <2>1, <2>2, <2>3, AnswerQuiet
<1>4. ASSUME NEW k \in AllKeys, RemoveDel(g, k) PROVE AnswerInv'
    <2> DEFINE old == req[g]
               c == [old EXCEPT !.todo = @ \ {k}]
    <2>1. Goto(g, c) /\ old.at = "remove" /\ old \in Call
        BY <1>4, Parts DEF RemoveDel, At
    <2>2. c.at = "remove" /\ c.out = old.out
        BY <2>1 DEF Call
    <2>3. old.out = {}
        BY <2>1 DEF AnswerInv, AnswerOK, Reading
    <2> QED
        BY <2>1, <2>2, <2>3, AnswerQuiet
<1> QED
    BY <1>2, <1>3, <1>4

\* A lookup's Get.
LEMMA LookupAnswers ==
    ASSUME RegInv, AnswerInv, Watch, NEW g \in Reqs, NEW k \in AllKeys, LookupGet(g, k)
    PROVE  AnswerInv'
<1> DEFINE old == req[g]
           found == {<<k, ReadVal(k)>>}
           c == [old EXCEPT !.at = "found", !.todo = {}, !.out = found]
<1>1. Goto(g, c) /\ old \in Call /\ UNCHANGED <<val, ttl>>
    BY Parts DEF LookupGet
<1>2. c.at = "found" /\ c.out = found
    BY <1>1 DEF Call
<1>3. req'[g].at \in Reading
    BY <1>1, <1>2, GotoOthers DEF Reading
<1>4. Told(<<k, ReadVal(k)>>, seen'[g], kept'[g])
    BY <1>1, <1>3, ReadTold
<1>5. AnswerOK(c, seen'[g], kept'[g])
    <2>1. \A p \in found : Told(p, seen'[g], kept'[g])
        BY <1>4
    <2> HIDE DEF c, found
    <2> QED
        BY <1>2, <2>1 DEF AnswerOK, Reading
<1> QED
    BY <1>1, <1>5, AnswerMove

\* getRoomUsers passes over the asker, or asks for the next user.
LEMMA UsersAnswer ==
    ASSUME RegInv, AnswerInv, Watch, NEW g \in Reqs, NEW k \in AllKeys, UsersSkip(g, k) \/ UsersGet(g, k)
    PROVE  AnswerInv'
<1> DEFINE old == req[g]
           found == {<<k, ReadVal(k)>>}
           skip == [old EXCEPT !.todo = @ \ {k}]
           get == [old EXCEPT !.todo = @ \ {k}, !.out = @ \cup found]
<1>1. old \in Call /\ old.at = "users" /\ k \in old.todo /\ UNCHANGED <<val, ttl>>
    BY Parts DEF UsersSkip, UsersGet, At
<1>2. /\ \A p \in old.out : Told(p, seen[g], kept[g])
      /\ old.todo \subseteq RoomKeys(old.rid)
      /\ \A p \in old.out : OneOfOthers(old, p[1])
      /\ \A j \in kept[g] : OneOfOthers(old, j) => j \in old.todo \/ Listed(old, j)
    BY <1>1 DEF AnswerInv, AnswerOK
<1>3. PICK u \in Uids : k = GetUserNodeKey(old.rid, u)
    BY <1>1, <1>2 DEF RoomKeys
<1>4. Split(k)[6] = <<u>>
    BY <1>3, SixthPiece
<1>5. ASSUME req'[g].at = "users"
      PROVE  /\ Stored' \subseteq seen'[g] /\ seen[g] \subseteq seen'[g]
             /\ kept'[g] \subseteq kept[g] /\ kept'[g] \subseteq Present'
             /\ faults' # faults => kept'[g] = {}
    BY <1>1, <1>5, WatchedOn DEF Reading
<1>6. CASE UsersSkip(g, k)
    <2>1. Goto(g, skip) /\ u = old.uid
        BY <1>4, <1>6 DEF UsersSkip
    <2>2. /\ skip.at = "users" /\ skip.rid = old.rid /\ skip.uid = old.uid
          /\ skip.todo = old.todo \ {k} /\ skip.out = old.out
        BY <1>1 DEF Call
    <2>3. req'[g] = skip
        BY <2>1, GotoOthers
    <2> HIDE DEF skip, old
    <2>4. \A j : OneOfOthers(skip, j) <=> OneOfOthers(old, j)
        BY <2>2 DEF OneOfOthers
    <2>5. \A j : Listed(skip, j) <=> Listed(old, j)
        BY <2>2 DEF Listed
    <2>6. ~OneOfOthers(old, k)
        BY <1>3, <2>1, NodeKeyApart DEF OneOfOthers
    <2>7. \A p \in skip.out : Told(p, seen'[g], kept'[g])
        BY <1>2, <1>5, <2>2, <2>3, ToldOn
    <2>8. AnswerOK(skip, seen'[g], kept'[g])
        BY <1>2, <1>5, <2>2, <2>3, <2>4, <2>5, <2>6, <2>7 DEF AnswerOK, Reading
    <2> QED
        BY <2>1, <2>8, AnswerMove
<1>7. CASE UsersGet(g, k)
    <2>1. Goto(g, get) /\ u # old.uid
        BY <1>4, <1>7 DEF UsersGet
    <2>2. /\ get.at = "users" /\ get.rid = old.rid /\ get.uid = old.uid
          /\ get.todo = old.todo \ {k} /\ get.out = old.out \cup found
        BY <1>1 DEF Call
    <2>3. req'[g] = get
        BY <2>1, GotoOthers
    <2>4. /\ ReadVal(k) \in Values /\ (ReadVal(k) # None => <<k, ReadVal(k)>> \in Stored')
          /\ k \in Present' /\ faults' = faults => ReadVal(k) # None
        BY <1>1, ReadStored
    <2> HIDE DEF get, old
    <2>5. \A j : OneOfOthers(get, j) <=> OneOfOthers(old, j)
        BY <2>2 DEF OneOfOthers
    <2>6. \A j : Listed(old, j) => Listed(get, j)
        BY <2>2 DEF Listed
    <2>7. k \in kept'[g] => Listed(get, k)
        BY <1>5, <2>2, <2>3, <2>4 DEF Listed
    <2>8. OneOfOthers(old, k)
        BY <1>3, <2>1 DEF OneOfOthers
    <2>9. Told(<<k, ReadVal(k)>>, seen'[g], kept'[g])
        BY <1>1, <2>2, <2>3, ReadTold DEF Reading
    <2>10. \A p \in get.out : Told(p, seen'[g], kept'[g]) /\ OneOfOthers(get, p[1])
        <3>1. \A p \in old.out : Told(p, seen'[g], kept'[g])
            BY <1>2, <1>5, <2>2, <2>3, ToldOn
        <3> QED
            BY <1>2, <2>2, <2>5, <2>8, <2>9, <3>1
    <2>11. AnswerOK(get, seen'[g], kept'[g])
        BY <1>2, <1>5, <2>2, <2>3, <2>5, <2>6, <2>7, <2>10 DEF AnswerOK, Reading
    <2> QED
        BY <2>1, <2>11, AnswerMove
<1> QED
    BY <1>6, <1>7

LEMMA InitAnswers == HInit => AnswerInv
    BY IdleFields, NothingFound DEF HInit, Init, AnswerInv

LEMMA StepAnswers == RegInv /\ AnswerInv /\ [HNext]_allVars => AnswerInv'
<1> SUFFICES ASSUME RegInv, AnswerInv, [HNext]_allVars PROVE AnswerInv'
    OBVIOUS
<1>1. CASE UNCHANGED allVars
    BY <1>1 DEF allVars, vars, history, AnswerInv
<1>2. CASE \/ \E r \in Rids, u \in Uids, ok \in BOOLEAN :
                HKeepalive(r, u, ok) \/ \E s \in Signals : HJoin(r, u, s, ok)
           \/ HTick
    BY <1>2, AnswerFrame DEF HKeepalive, HJoin, HTick, Keepalive, Join, Tick
<1>3. ASSUME NEW g \in Reqs, NEW r \in Rids, NEW u \in Uids, HLeave(g, r, u) PROVE AnswerInv'
    BY <1>3, RequestsBegin DEF HLeave
<1>4. ASSUME NEW g \in Reqs, HLeaveDel(g) \/ HRemoveDone(g) PROVE AnswerInv'
    BY <1>4, RequestsGoOn DEF HLeaveDel, HRemoveDone
<1>5. CASE HOther
    <2>1. Watch
        BY <1>5 DEF HOther
    <2>2. ASSUME NEW g \in Reqs,
                 \/ StreamAddPub(g) \/ RemoveRest(g) \/ Answer(g)
                 \/ \E k \in AllKeys : RemoveDel(g, k) \/ RestPanic(g, k)
          PROVE  AnswerInv'
        BY <2>1, <2>2, RequestsGoOn
    <2>3. ASSUME NEW g \in Reqs, NEW k \in AllKeys, Lookup(g, k) PROVE AnswerInv'
        BY <2>1, <2>3, AnswerQuiet, StartFields DEF Lookup
    <2>4. ASSUME NEW g \in Reqs, NEW k \in AllKeys, LookupGet(g, k) PROVE AnswerInv'
        BY <2>1, <2>4, LookupAnswers
    <2>5. ASSUME NEW g \in Reqs, NEW k \in AllKeys, UsersSkip(g, k) \/ UsersGet(g, k) PROVE AnswerInv'
        BY <2>1, <2>5, UsersAnswer
    <2>6. ASSUME NEW g \in Reqs, NEW r \in Rids, NEW u \in Uids, GetRoomUsers(g, r, u) PROVE AnswerInv'
        BY <2>1, <2>6, UsersBegin
    <2>7. ASSUME NEW g \in Reqs, NEW r \in Rids,
                 \/ \E u \in Uids : GetRoomPubs(g, r, u)
                 \/ \E u \in Uids : \E m \in Mids \cup {None} : StreamRemove(g, r, u, m)
                 \/ \E m \in Mids, s \in Sfus : StreamAdd(g, r, m, s)
          PROVE  AnswerInv'
        BY <2>1, <2>7, RequestsBegin
    <2> QED
        BY <1>5, <2>2, <2>3, <2>4, <2>5, <2>6, <2>7 DEF HOther
<1> QED
    BY <1>1, <1>2, <1>3, <1>4, <1>5 DEF HNext

LEMMA AnswersAlways == HSpec => []AnswerInv
<1>1. UserInv => RegInv
    BY DEF UserInv
<1> QED
    BY <1>1, InitUsers, StepUsers, InitAnswers, StepAnswers, PTL DEF HSpec

\* What a list or a lookup answers was true while it ran: an id was stored then, and
\* an empty one means that the key was not there all the while, or that Redis failed.
\* A list names others of the same room.  Any requests, expiries and failures may be
\* between its commands.
THEOREM AnswersTrue == HSpec => []AnswersWereTrue
<1>1. AnswerInv => AnswersWereTrue
    BY DEF AnswerInv, AnswerOK, Told, OneOfOthers, AnswersWereTrue, At
<1> QED
    BY <1>1, AnswersAlways, PTL

\* The list of a room's users misses no user who was registered all the while.
THEOREM UsersListed == HSpec => []RoomUsersComplete
<1>1. AnswerInv => RoomUsersComplete
    BY DEF AnswerInv, AnswerOK, OneOfOthers, Listed, RoomUsersComplete, At
<1> QED
    BY <1>1, AnswersAlways, PTL

-----------------------------------------------------------------------------
(***************************************************************************)
(* The promise about removals.  Once a stream's streamAdd has ended        *)
(* nothing writes its pub key again; a streamRemove of which no command    *)
(* failed has deleted it when its first round is over.                     *)
(***************************************************************************)
PubKey(r, m) == GetMediaPubKey(r, GetUIDFromMID(m), m)

\* streamAdd of the stream was called and has ended.
Settled(r, m) ==
    /\ <<r, m>> \in used
    /\ \A h \in Reqs : req[h].at = "add" => <<req[h].rid, req[h].mid>> # <<r, m>>

\* What a request to remove a stream has done so far.
RemoveOK(c, ok) ==
    c.at \in {"remove", "rest"} /\ c.mid # None =>
        /\ Settled(c.rid, c.mid)
        /\ ok /\ c.uid = GetUIDFromMID(c.mid) =>
                 \/ PubKey(c.rid, c.mid) \notin Present
                 \/ c.at = "remove" /\ PubKey(c.rid, c.mid) \in c.todo

RemovalInv ==
    /\ \A g \in Reqs : RemoveOK(req[g], sound[g])
    /\ gone \subseteq Rids \X Mids
    /\ \A p \in gone : Settled(p[1], p[2]) /\ PubKey(p[1], p[2]) \notin Present

\* A pub key tells the room and the stream.
LEMMA PubKeyApart ==
    ASSUME NEW r, NEW m, NEW q, NEW n, PubKey(r, m) = PubKey(q, n)
    PROVE  r = q /\ m = n
<1>1. PubKey(r, m)[3] = <<"rid", r>> /\ PubKey(r, m)[7] = <<m>>
    BY DEF PubKey, GetMediaPubKey
<1>2. PubKey(q, n)[3] = <<"rid", q>> /\ PubKey(q, n)[7] = <<n>>
    BY DEF PubKey, GetMediaPubKey
<1> QED
    BY <1>1, <1>2

\* No step gives a settled stream its pub key back.
Spares ==
    \A r \in Rids, m \in Mids :
        Settled(r, m) /\ PubKey(r, m) \notin Present => PubKey(r, m) \notin Present'

LEMMA TouchSpares ==
    ASSUME RegInv, NEW k \in AllKeys, Touches(k),
           \A r \in Rids, m \in Mids : Settled(r, m) => PubKey(r, m) # k
    PROVE  Spares
<1> SUFFICES ASSUME NEW r \in Rids, NEW m \in Mids, Settled(r, m), PubKey(r, m) \notin Present
             PROVE  PubKey(r, m) \notin Present'
    BY DEF Spares
<1>1. PubKey(r, m) \in AllKeys /\ PubKey(r, m) # k
    BY MediaKeysIn DEF PubKey
<1> QED
    BY <1>1 DEF Touches, Present

LEMMA KindSpares ==
    ASSUME RegInv, NEW k \in AllKeys \ PubKeys, Touches(k)
    PROVE  Spares
    BY TouchSpares, MediaKeysIn DEF PubKey

LEMMA GoneSpares ==
    ASSUME RegInv, Present' \subseteq Present
    PROVE  Spares
    BY DEF Spares

LEMMA ReadSpares ==
    ASSUME RegInv, UNCHANGED ttl
    PROVE  Spares
    BY GoneSpares DEF Present

\* A stream stays settled: only a first streamAdd of it could unsettle it.
LEMMA SettledStays ==
    ASSUME RegInv, NEW r, NEW m, Settled(r, m), used \subseteq used',
           \A h \in Reqs : req'[h].at = "add" =>
               req'[h] = req[h] \/ <<req'[h].rid, req'[h].mid>> \notin used
    PROVE  Settled(r, m)'
    BY DEF Settled

LEMMA SoundBefore ==
    ASSUME Watch, NEW h \in Reqs, sound'[h], req'[h].at # "idle"
    PROVE  sound[h] /\ faults' = faults
    BY DEF Watch

\* A request that does not move has still deleted what it had.
LEMMA RemoveStays ==
    ASSUME RegInv, RemovalInv, Watch, Spares, used \subseteq used', NEW h \in Reqs, req'[h] = req[h],
           \A r, m : Settled(r, m) => Settled(r, m)'
    PROVE  RemoveOK(req[h], sound[h])'
<1> SUFFICES ASSUME req[h].at \in {"remove", "rest"}, req[h].mid # None
             PROVE  /\ Settled(req[h].rid, req[h].mid)'
                    /\ sound'[h] /\ req[h].uid = GetUIDFromMID(req[h].mid) =>
                                    \/ PubKey(req[h].rid, req[h].mid) \notin Present'
                                    \/ /\ req[h].at = "remove"
                                       /\ PubKey(req[h].rid, req[h].mid) \in req[h].todo
    BY DEF RemoveOK
<1>1. RemoveOK(req[h], sound[h])
    BY DEF RemovalInv
<1>2. req[h].rid \in Rids /\ req[h].mid \in Mids
    BY Parts DEF CallOK
<1>3. sound'[h] => sound[h]
    BY SoundBefore
<1>4. Settled(req[h].rid, req[h].mid)
    BY <1>1 DEF RemoveOK
<1>5. Settled(req[h].rid, req[h].mid)'
    BY <1>4
<1> QED
    BY <1>1, <1>2, <1>3, <1>4, <1>5 DEF RemoveOK, Spares

\* Streams whose removal may be answered.
Removed == {p \in Rids \X Mids : Settled(p[1], p[2]) /\ PubKey(p[1], p[2]) \notin Present}

LEMMA GoneStays ==
    ASSUME RegInv, RemovalInv, Spares, gone' \subseteq gone \cup Removed,
           \A r, m : Settled(r, m) => Settled(r, m)'
    PROVE  /\ gone' \subseteq Rids \X Mids
           /\ \A p \in gone' : Settled(p[1], p[2])' /\ PubKey(p[1], p[2]) \notin Present'
<1>1. \A p \in gone' : p \in Rids \X Mids /\ Settled(p[1], p[2]) /\ PubKey(p[1], p[2]) \notin Present
    BY DEF RemovalInv, Removed
<1>2. \A p \in Rids \X Mids : p[1] \in Rids /\ p[2] \in Mids
    OBVIOUS
<1> QED
    BY <1>1, <1>2 DEF Spares

LEMMA RemovalParts ==
    ASSUME \A h \in Reqs : RemoveOK(req[h], sound[h])',
           gone' \subseteq Rids \X Mids,
           \A p \in gone' : Settled(p[1], p[2])' /\ PubKey(p[1], p[2]) \notin Present'
    PROVE  RemovalInv'
    BY DEF RemovalInv

\* No request moves.
LEMMA RemovalFrame ==
    ASSUME RegInv, RemovalInv, Watch, Spares, used \subseteq used', UNCHANGED <<req, gone>>
    PROVE  RemovalInv'
<1>1. \A r, m : Settled(r, m) => Settled(r, m)'
    BY SettledStays
<1>2. \A h \in Reqs : RemoveOK(req[h], sound[h])'
    BY <1>1, RemoveStays
<1> QED
    BY <1>1, <1>2, GoneStays, RemovalParts

\* One request moves.
LEMMA RemovalMove ==
    ASSUME RegInv, RemovalInv, Watch, Spares, used \subseteq used', NEW g \in Reqs, NEW c, Goto(g, c),
           c.at = "add" => <<c.rid, c.mid>> \notin used,
           c.at \in {"remove", "rest"} /\ c.mid # None =>
               /\ Settled(c.rid, c.mid)
               /\ sound'[g] /\ c.uid = GetUIDFromMID(c.mid) =>
                               \/ PubKey(c.rid, c.mid) \notin Present'
                               \/ c.at = "remove" /\ PubKey(c.rid, c.mid) \in c.todo,
           gone' \subseteq gone \cup Removed
    PROVE  RemovalInv'
<1>1. req'[g] = c /\ \A h \in Reqs \ {g} : req'[h] = req[h]
    BY GotoOthers
<1>2. \A r, m : Settled(r, m) => Settled(r, m)'
    BY <1>1, SettledStays
<1>3. \A h \in Reqs \ {g} : RemoveOK(req[h], sound[h])'
    BY <1>1, <1>2, RemoveStays
<1>4. RemoveOK(req[g], sound[g])'
    BY <1>1, <1>2 DEF RemoveOK
<1> QED
    BY <1>2, <1>3, <1>4, GoneStays, RemovalParts

\* A request ends, or is about something else.
LEMMA RemovalQuiet ==
    ASSUME RegInv, RemovalInv, Watch, Spares, used \subseteq used', NEW g \in Reqs, NEW c,
           Goto(g, c) \/ UNCHANGED req, c.at \notin {"add", "remove", "rest"}, UNCHANGED gone
    PROVE  RemovalInv'
    BY RemovalMove, RemovalFrame

\* The requests of streams begin.
LEMMA AddBegins ==
    ASSUME RegInv, RemovalInv, Watch, NEW g \in Reqs, NEW r \in Rids, NEW m \in Mids, NEW s \in Sfus,
           StreamAdd(g, r, m, s), UNCHANGED gone
    PROVE  RemovalInv'
<1> DEFINE k == GetMediaInfoKey(r, GetUIDFromMID(m), m)
           c == [Start("add", r, GetUIDFromMID(m), m, {}) EXCEPT !.val = s]
<1>1. k \in AllKeys \ PubKeys
    BY MediaKeysIn, KindsApart
<1>2. Touches(k)
    BY <1>1, Parts, SetTouches, SameTouches DEF StreamAdd
<1>3. Spares
    <2> HIDE DEF k
    <2> QED
        BY <1>1, <1>2, KindSpares
<1>4. used \subseteq used' /\ <<r, m>> \notin used /\ (Goto(g, c) \/ UNCHANGED req)
    BY DEF StreamAdd
<1>5. c.at = "add" /\ c.rid = r /\ c.mid = m
    BY DEF Start, Idle
<1> HIDE DEF c
<1> QED
    BY <1>3, <1>4, <1>5, RemovalMove, RemovalFrame

LEMMA RemoveBegins ==
    ASSUME RegInv, RemovalInv, Watch, NEW g \in Reqs, NEW r \in Rids, NEW u \in Uids, NEW m \in Mids \cup {None},
           StreamRemove(g, r, u, m), UNCHANGED gone
    PROVE  RemovalInv'
<1> DEFINE keys == ReadKeys(RemoveKeys(r, u, m))
           c == Start("remove", r, u, m, keys)
<1>1. Goto(g, c) /\ UNCHANGED <<val, ttl, used>> /\ Spares
    BY ReadSpares DEF StreamRemove
<1>2. c.at = "remove" /\ c.rid = r /\ c.uid = u /\ c.mid = m /\ c.todo = keys
    BY StartFields
<1>3. req'[g] = c
    BY <1>1, GotoOthers
<1>4. ASSUME m # None PROVE Settled(r, m)
    BY <1>4, Parts DEF StreamRemove, Settled, At
<1>5. ASSUME m # None, sound'[g], u = GetUIDFromMID(m)
      PROVE  PubKey(r, m) \notin Present' \/ PubKey(r, m) \in keys
    <2>1. faults' = faults
        BY <1>2, <1>3, <1>5, SoundBefore
    <2>2. RemoveKeys(r, u, m) = {PubKey(r, m)}
        BY <1>5 DEF RemoveKeys, PubKey
    <2> QED
        BY <1>1, <2>1, <2>2 DEF ReadKeys, Present
<1> HIDE DEF c, keys
<1> QED
    BY <1>1, <1>2, <1>4, <1>5, RemovalMove

\* The requests of streams go on.
LEMMA AddEnds ==
    ASSUME RegInv, RemovalInv, Watch, NEW g \in Reqs, StreamAddPub(g), UNCHANGED gone
    PROVE  RemovalInv'
<1> DEFINE c == req[g]
           k == GetMediaPubKey(c.rid, c.uid, c.mid)
<1>1. /\ c.at = "add" /\ c.rid \in Rids /\ c.mid \in Mids /\ c.uid = GetUIDFromMID(c.mid)
      /\ c.val \in Sfus
    BY Parts DEF StreamAddPub, At, CallOK
<1>2. k \in AllKeys /\ k = PubKey(c.rid, c.mid)
    BY <1>1, MediaKeysIn DEF PubKey
<1>3. Touches(k)
    BY <1>1, <1>2, Parts, SetTouches, SameTouches DEF StreamAddPub, Write
<1>4. \A r \in Rids, m \in Mids : Settled(r, m) => PubKey(r, m) # k
    BY <1>1, <1>2, PubKeyApart DEF Settled
<1>5. Spares
    <2> HIDE DEF k
    <2> QED
        BY <1>2, <1>3, <1>4, TouchSpares
<1> QED
    BY <1>5, IdleFields, RemovalQuiet DEF StreamAddPub, Reply

LEMMA FirstRound ==
    ASSUME RegInv, RemovalInv, Watch, NEW g \in Reqs, NEW k \in AllKeys, RemoveDel(g, k), UNCHANGED gone
    PROVE  RemovalInv'
<1> DEFINE old == req[g]
           c == [old EXCEPT !.todo = @ \ {k}]
<1>1. Goto(g, c) /\ old.at = "remove" /\ old \in Call /\ CallOK(old) /\ UNCHANGED used
    BY Parts DEF RemoveDel, At
<1>2. c.at = "remove" /\ c.rid = old.rid /\ c.uid = old.uid /\ c.mid = old.mid /\ c.todo = old.todo \ {k}
    BY <1>1 DEF Call
<1>3. req'[g] = c
    BY <1>1, GotoOthers
<1>4. Del(k) \/ Unchanged
    BY DEF RemoveDel, Write
<1>5. faults' = faults => Del(k)
    BY Parts, FaultsAssumption DEF RemoveDel, Write, Fails
<1>6. Del(k) => Touches(k) /\ ttl'[k] = 0
    BY Parts, DelTouches
<1>7. Spares
    <2>1. Present' \subseteq Present
        BY <1>4, <1>6 DEF Present, Touches, Unchanged
    <2> QED
        BY <2>1, GoneSpares
<1>8. RemoveOK(old, sound[g])
    BY DEF RemovalInv
<1>9. ASSUME old.mid # None, old.uid = GetUIDFromMID(old.mid), sound'[g]
      PROVE  PubKey(old.rid, old.mid) \notin Present' \/ PubKey(old.rid, old.mid) \in old.todo \ {k}
    <2>1. sound[g] /\ faults' = faults
        BY <1>2, <1>3, <1>9, SoundBefore
    <2>2. PubKey(old.rid, old.mid) \notin Present \/ PubKey(old.rid, old.mid) \in old.todo
        BY <1>1, <1>8, <1>9, <2>1 DEF RemoveOK
    <2>3. old.rid \in Rids /\ old.mid \in Mids /\ Settled(old.rid, old.mid)
        BY <1>1, <1>8, <1>9 DEF CallOK, RemoveOK
    <2>4. k \notin Present'
        BY <1>5, <1>6, <2>1 DEF Present
    <2> QED
        BY <1>7, <2>2, <2>3, <2>4 DEF Spares
<1>10. old.mid # None => Settled(old.rid, old.mid)
    BY <1>1, <1>8 DEF RemoveOK
<1> HIDE DEF c, old
<1> QED
    BY <1>1, <1>2, <1>7, <1>9, <1>10, RemovalMove

LEMMA SecondRound ==
    ASSUME RegInv, RemovalInv, Watch, NEW g \in Reqs, RemoveRest(g), UNCHANGED gone
    PROVE  RemovalInv'
<1> DEFINE old == req[g]
           keys == ReadKeys(RestKeys(old.rid, old.uid, old.mid))
           c == [old EXCEPT !.at = "rest", !.todo = keys]
<1>1. /\ Goto(g, c) /\ old.at = "remove" /\ old.todo = {} /\ old \in Call
      /\ UNCHANGED <<val, ttl, used>> /\ Spares
    BY Parts, ReadSpares DEF RemoveRest, At
<1>2. c.at = "rest" /\ c.rid = old.rid /\ c.uid = old.uid /\ c.mid = old.mid
    BY <1>1 DEF Call
<1>3. req'[g] = c
    BY <1>1, GotoOthers
<1>4. RemoveOK(old, sound[g])
    BY DEF RemovalInv
<1>5. ASSUME old.mid # None, old.uid = GetUIDFromMID(old.mid), sound'[g] PROVE PubKey(old.rid, old.mid) \notin Present'
    <2>1. sound[g]
        BY <1>2, <1>3, <1>5, SoundBefore
    <2> QED
        BY <1>1, <1>4, <1>5, <2>1 DEF RemoveOK, Present
<1>6. old.mid # None => Settled(old.rid, old.mid)
    BY <1>1, <1>4 DEF RemoveOK
<1> HIDE DEF c, old, keys
<1> QED
    BY <1>1, <1>2, <1>5, <1>6, RemovalMove

LEMMA RemovalEnds ==
    ASSUME RegInv, RemovalInv, NEW g \in Reqs, HRemoveDone(g)
    PROVE  RemovalInv'
<1> DEFINE c == req[g]
<1>1. /\ Reply(g) /\ Watch /\ Spares /\ UNCHANGED used /\ c.at = "rest"
      /\ gone' = IF c.mid # None /\ c.uid = GetUIDFromMID(c.mid) /\ sound[g]
                 THEN gone \cup {<<c.rid, c.mid>>} ELSE gone
    BY ReadSpares DEF HRemoveDone, RemoveDone, At
<1>2. CallOK(c) /\ RemoveOK(c, sound[g])
    BY Parts DEF RemovalInv
<1>3. c.mid # None /\ c.uid = GetUIDFromMID(c.mid) /\ sound[g] => <<c.rid, c.mid>> \in Removed
    BY <1>1, <1>2 DEF RemoveOK, CallOK, Removed
<1>4. gone' \subseteq gone \cup Removed
    BY <1>1, <1>3
<1>5. Goto(g, Idle) /\ Idle.at = "idle"
    BY <1>1, IdleFields DEF Reply
<1> QED
    BY <1>1, <1>4, <1>5, RemovalMove

\* Everything else.
LEMMA OthersKeepRemoval ==
    ASSUME RegInv, RemovalInv, Watch, NEW g \in Reqs, UNCHANGED gone,
           \/ Answer(g)
           \/ \E k \in AllKeys : RestPanic(g, k) \/ Lookup(g, k) \/ LookupGet(g, k)
                                   \/ UsersSkip(g, k) \/ UsersGet(g, k)
           \/ \E r \in Rids, u \in Uids : Leave(g, r, u) \/ GetRoomUsers(g, r, u) \/ GetRoomPubs(g, r, u)
    PROVE  RemovalInv'
<1>1. UNCHANGED <<val, ttl, used>> /\ Spares
    BY ReadSpares DEF Answer, RestPanic, Lookup, LookupGet, UsersSkip, UsersGet,
       Leave, GetRoomUsers, GetRoomPubs
<1>2. ASSUME NEW c, c.at \notin {"add", "remove", "rest"}, Goto(g, c) \/ UNCHANGED req
      PROVE  RemovalInv'
    BY <1>1, <1>2, RemovalQuiet
<1>3. CASE Answer(g) \/ \E k \in AllKeys : RestPanic(g, k)
    BY <1>2, <1>3, IdleFields DEF Answer, RestPanic, Reply
<1>4. ASSUME NEW k \in AllKeys, Lookup(g, k) PROVE RemovalInv'
    BY <1>2, <1>4, StartFields DEF Lookup
<1>5. ASSUME NEW r \in Rids, NEW u \in Uids,
             Leave(g, r, u) \/ GetRoomUsers(g, r, u) \/ GetRoomPubs(g, r, u)
      PROVE  RemovalInv'
    BY <1>2, <1>5, StartFields DEF Leave, GetRoomUsers, GetRoomPubs
<1>6. ASSUME NEW k \in AllKeys, LookupGet(g, k) PROVE RemovalInv'
    <2> DEFINE c == [req[g] EXCEPT !.at = "found", !.todo = {}, !.out = {<<k, ReadVal(k)>>}]
    <2>1. c.at = "found" /\ Goto(g, c)
        BY <1>6, Parts DEF LookupGet, Call
    <2> QED
        BY <1>2, <2>1
<1>7. ASSUME NEW k \in AllKeys, UsersSkip(g, k) PROVE RemovalInv'
    <2> DEFINE c == [req[g] EXCEPT !.todo = @ \ {k}]
    <2>1. c.at = "users" /\ Goto(g, c)
        BY <1>7, Parts DEF UsersSkip, Call, At
    <2> QED
        BY <1>2, <2>1
<1>8. ASSUME NEW k \in AllKeys, UsersGet(g, k) PROVE RemovalInv'
    <2> DEFINE c == [req[g] EXCEPT !.todo = @ \ {k}, !.out = @ \cup {<<k, ReadVal(k)>>}]
    <2>1. c.at = "users" /\ Goto(g, c)
        BY <1>8, Parts DEF UsersGet, Call, At
    <2> QED
        BY <1>2, <2>1
<1> QED
    BY <1>3, <1>4, <1>5, <1>6, <1>7, <1>8

\* Joins, keepalives and leaves write keys of users, and time only takes keys away.
LEMMA NodeStepsKeepRemoval ==
    ASSUME RegInv, RemovalInv,
           \/ \E r \in Rids, u \in Uids, ok \in BOOLEAN :
                HKeepalive(r, u, ok) \/ \E s \in Signals : HJoin(r, u, s, ok)
           \/ \E g \in Reqs : HLeaveDel(g)
           \/ HTick
    PROVE  RemovalInv'
<1>1. ASSUME NEW k \in NodeKeys, Touches(k) PROVE Spares
    BY <1>1, KindSpares, KindsApart DEF AllKeys
<1>2. ASSUME NEW r \in Rids, NEW u \in Uids, NEW ok \in BOOLEAN, HKeepalive(r, u, ok) PROVE RemovalInv'
    <2>1. Spares
        BY <1>1, <1>2, KeepaliveKeeps, NodeKeyIn DEF HKeepalive
    <2> QED
        BY <1>2, <2>1, RemovalFrame DEF HKeepalive, Keepalive
<1>3. ASSUME NEW r \in Rids, NEW u \in Uids, NEW ok \in BOOLEAN, NEW s \in Signals, HJoin(r, u, s, ok)
      PROVE  RemovalInv'
    <2>1. Spares
        BY <1>1, <1>3, JoinKeeps, NodeKeyIn DEF HJoin
    <2> QED
        BY <1>3, <2>1, RemovalFrame DEF HJoin, Join
<1>4. ASSUME NEW g \in Reqs, HLeaveDel(g) PROVE RemovalInv'
    <2>1. Spares
        BY <1>1, <1>4, LeaveDelKeeps, NodeKeyIn DEF HLeaveDel
    <2> QED
        BY <1>4, <2>1, IdleFields, RemovalQuiet DEF HLeaveDel, LeaveDel, Reply
<1>5. CASE HTick
    <2>1. Present' \subseteq Present
        BY <1>5, Parts, TtlAssumption DEF HTick, Tick, Present, StoreOK
    <2> QED
        BY <1>5, <2>1, GoneSpares, RemovalFrame DEF HTick, Tick
<1> QED
    BY <1>2, <1>3, <1>4, <1>5

LEMMA InitRemoval == HInit => RemovalInv
    BY IdleFields DEF HInit, Init, RemovalInv, RemoveOK

LEMMA StepRemoval == RegInv /\ RemovalInv /\ [HNext]_allVars => RemovalInv'
<1> SUFFICES ASSUME RegInv, RemovalInv, [HNext]_allVars PROVE RemovalInv'
    OBVIOUS
<1>1. CASE UNCHANGED allVars
    BY <1>1 DEF allVars, vars, history, RemovalInv, RemoveOK, Settled, Present
<1>2. ASSUME NEW g \in Reqs, NEW r \in Rids, NEW u \in Uids, HLeave(g, r, u) PROVE RemovalInv'
    BY <1>2, OthersKeepRemoval DEF HLeave
<1>3. CASE HOther
    <2>1. Watch /\ UNCHANGED gone
        BY <1>3 DEF HOther
    <2>2. ASSUME NEW g \in Reqs, StreamAddPub(g) PROVE RemovalInv'
        BY <2>1, <2>2, AddEnds
    <2>3. ASSUME NEW g \in Reqs, RemoveRest(g) PROVE RemovalInv'
        BY <2>1, <2>3, SecondRound
    <2>4. ASSUME NEW g \in Reqs, NEW k \in AllKeys, RemoveDel(g, k) PROVE RemovalInv'
        BY <2>1, <2>4, FirstRound
    <2>5. ASSUME NEW g \in Reqs, NEW r \in Rids, NEW m \in Mids, NEW s \in Sfus, StreamAdd(g, r, m, s)
          PROVE  RemovalInv'
        BY <2>1, <2>5, AddBegins
    <2>6. ASSUME NEW g \in Reqs, NEW r \in Rids, NEW u \in Uids, NEW m \in Mids \cup {None},
                 StreamRemove(g, r, u, m)
          PROVE  RemovalInv'
        BY <2>1, <2>6, RemoveBegins
    <2>7. ASSUME NEW g \in Reqs,
                 \/ Answer(g)
                 \/ \E k \in AllKeys : RestPanic(g, k) \/ Lookup(g, k) \/ LookupGet(g, k)
                                         \/ UsersSkip(g, k) \/ UsersGet(g, k)
                 \/ \E r \in Rids, u \in Uids : GetRoomUsers(g, r, u) \/ GetRoomPubs(g, r, u)
          PROVE  RemovalInv'
        BY <2>1, <2>7, OthersKeepRemoval
    <2> QED
        BY <1>3, <2>2, <2>3, <2>4, <2>5, <2>6, <2>7 DEF HOther
<1> QED
    BY <1>1, <1>2, <1>3, NodeStepsKeepRemoval, RemovalEnds DEF HNext

\* Once a stream's removal was answered with every command of it done, no lookup
\* finds its SFU again, whatever else runs and expires (internal.go:161-229).
THEOREM RemovedStaysGone == HSpec => []RemovedHasNoSfu
<1>1. UserInv => RegInv
    BY DEF UserInv
<1>2. RemovalInv => RemovedHasNoSfu
    BY DEF RemovalInv, RemovedHasNoSfu, PubKey
<1> QED
    BY <1>1, <1>2, InitUsers, StepUsers, InitRemoval, StepRemoval, PTL DEF HSpec

=============================================================================
