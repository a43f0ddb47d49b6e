-------------------------- MODULE MCServerIdCenter --------------------------
(* The instance of ServerIdCenter that TLC checks: two servers, one more     *)
(* connection than servers, so that a stale connection of one of them can    *)
(* be open beside its new one, two indices and two randoms.                  *)
EXTENDS ServerIdCenter, TLC

CONSTANTS c1, c2, k1, k2, k3

MCClients == {c1, c2}
MCConns   == {k1, k2, k3}
MCRandoms == {1, 3}

Symmetry == Permutations(MCClients) \cup Permutations(MCConns)
=============================================================================
