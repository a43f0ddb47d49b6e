--------------------------- MODULE DevicePresence ---------------------------
(***************************************************************************)
(* What server_device_relay tells the rest of the system about a device:   *)
(* nothing until it is bound, then that it is online, and that it is       *)
(* offline once, for good.  A device that comes back comes back under      *)
(* another id.  RelayDevices implements this specification.                *)
(***************************************************************************)
CONSTANT Devices

VARIABLE presence   \* presence[v]: what was last reported of device v

Init == presence = [v \in Devices |-> "unknown"]

Online(v) ==
    /\ presence[v] = "unknown"
    /\ presence' = [presence EXCEPT ![v] = "online"]

Offline(v) ==
    /\ presence[v] = "online"
    /\ presence' = [presence EXCEPT ![v] = "offline"]

Next == \E v \in Devices : Online(v) \/ Offline(v)

Spec == Init /\ [][Next]_presence
=============================================================================
