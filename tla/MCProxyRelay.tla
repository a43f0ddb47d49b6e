---------------------------- MODULE MCProxyRelay ----------------------------
(* The instance of ProxyRelay that TLC checks: clients that follow each      *)
(* other in a slot, so that answers for the first come while the second      *)
(* waits for its own.                                                        *)
EXTENDS ProxyRelay

CONSTANTS s1, s2, r1, r2

OneSlot  == {s1}
TwoSlots == {s1, s2}
OneRelayId  == {r1}
TwoRelayIds == {r1, r2}
=============================================================================
