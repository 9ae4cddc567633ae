------------------------------ MODULE MediaKeys ------------------------------
(***************************************************************************)
(* The names under which the services keep users and streams               *)
(* (pkg/proto/proto.go), as the code builds, splits and matches them.      *)
(*                                                                         *)
(* A key is a path.  It is modelled as the sequence of the pieces between  *)
(* its slashes, and a piece as the sequence of the strings the code        *)
(* concatenates in it, so that "/pub/rid" + rid, which glues the room to   *)
(* the word "rid", has one piece fewer than "/node/rid/" + rid.  Ids hold  *)
(* neither '/' nor '*': they are room, user and stream names.              *)
(***************************************************************************)
EXTENDS Naturals, Sequences

\* "/node/rid/" + rid + "/uid/" + uid
GetUserNodeKey(rid, uid) ==
    << << >>, <<"node">>, <<"rid">>, <<rid>>, <<"uid">>, <<uid>> >>

\* "/media/rid" + rid + "/uid/" + uid + "/mid/" + mid
GetMediaInfoKey(rid, uid, mid) ==
    << << >>, <<"media">>, <<"rid", rid>>, <<"uid">>, <<uid>>, <<"mid">>, <<mid>> >>

\* "/pub/rid" + rid + "/uid/" + uid + "/mid/" + mid
GetMediaPubKey(rid, uid, mid) ==
    << << >>, <<"pub">>, <<"rid", rid>>, <<"uid">>, <<uid>>, <<"mid">>, <<mid>> >>

\* strings.Split(key, "/"): the pieces, the one before the leading slash first.
\* Go counts them from 0, so the code's arr[i] is Split(key)[i + 1].
Split(key) == key

\* arr[i] of a Split with fewer than i + 1 pieces is a run-time panic.
HasPiece(key, i) == Len(Split(key)) > i

\* A mid is the publisher's id and a random suffix, joined by '#'.
GetUIDFromMID(mid) == mid[1]

\* KEYS p + "*" of a p that ends in a slash: '*' matches slashes too.
Under(prefix, key) ==
    /\ Len(key) > Len(prefix)
    /\ SubSeq(key, 1, Len(prefix)) = prefix

=============================================================================
