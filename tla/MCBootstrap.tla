----------------------------- MODULE MCBootstrap -----------------------------
(***************************************************************************)
(* Small instances of Bootstrap: application keys on both sides of         *)
(* governance's own in the key order, ids 0..4 of which 0 is governance's  *)
(* and 3 holds foreign pages, two owners, two policies.                    *)
(***************************************************************************)
EXTENDS Bootstrap, TLC

CONSTANTS a, b, p1, p2

MCAppKey == {1, 2, 4}

MCOwner == {a, b}

MCPolicyId == {p1, p2}

\* Everything granted to a; key 4 moved to b and id 2 excluded; key 4 revoked
\* and id 1 excluded; and a pool whose least id is the foreign one.
OpenPool == [owner |-> [k \in MCAppKey |-> a], excluded |-> {0, 3}]

SplitPool == [owner |-> (1 :> a @@ 2 :> a @@ 4 :> b), excluded |-> {0, 2, 3}]

RevokedPool == [owner |-> (1 :> a @@ 2 :> a @@ 4 :> Nobody), excluded |-> {0, 1, 3}]

GreedyPool == [owner |-> [k \in MCAppKey |-> a], excluded |-> {0, 1, 2}]

With(r, p, q) == [requests |-> r, pool |-> p, policy |-> q]

\* What successive releases of one application may ask for.
MCHostInput ==
  { With(1 :> a, OpenPool, p1), With(1 :> a, OpenPool, p2),
    With(2 :> a @@ 4 :> a, OpenPool, p1), With(1 :> a @@ 2 :> a @@ 4 :> a, OpenPool, p1),
    With(1 :> a, SplitPool, p1), With(1 :> a @@ 4 :> b, SplitPool, p1),
    With(1 :> a @@ 2 :> a @@ 4 :> b, SplitPool, p1),
    With(2 :> a, RevokedPool, p1), With(1 :> a @@ 4 :> a, RevokedPool, p1),
    With(2 :> a, GreedyPool, p1) }
=============================================================================
