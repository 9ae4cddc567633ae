------------------------------ MODULE MCSession ------------------------------
(***************************************************************************)
(* Instances of Session for TLC: a connection is <<user, server>>.         *)
(***************************************************************************)
EXTENDS Session, TLC

CONSTANTS n1, n2, u1, u2

UserOf(p) == p[1]
ServerOf(p) == p[2]

\* Two users, each at a server of its own.
Apart == {<<u1, n1>>, <<u2, n2>>}

\* One user at two servers.
Moving == {<<u1, n1>>, <<u1, n2>>}

Symmetry == Permutations(Handlers)

=============================================================================
