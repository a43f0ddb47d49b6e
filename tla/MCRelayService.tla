--------------------------- MODULE MCRelayService ---------------------------
(* The instance of RelayService that TLC checks: one device, whose two       *)
(* connections may go and whose slot may be lost, and a proxy that           *)
(* reconnects into the slot of its first connection.                         *)
EXTENDS RelayService

CONSTANTS c1, d1, v1, s1, r1, r2, x1, x2, p1, p2, n1, n2

MCCtrlConns    == {c1}
MCDataConns    == {d1}
MCDevices      == {v1}
MCProxySlots   == {s1}
MCRelayIds     == {r1, r2}
MCProxySideIds == {x1, x2}
MCPorts        == {p1, p2}
MCDeviceSideIds == {n1, n2}
=============================================================================
