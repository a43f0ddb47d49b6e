--------------------------- MODULE MCRelayDevices ---------------------------
(* The instance of RelayDevices that TLC checks: two control connections,   *)
(* two device slots, and two data connections that may name either.         *)
EXTENDS RelayDevices

CONSTANTS c1, c2, d1, d2, v1, v2

MCCtrlConns == {c1, c2}
MCDataConns == {d1, d2}
MCDevices   == {v1, v2}
=============================================================================
