---------------------------- MODULE RelayDevices ----------------------------
(***************************************************************************)
(* The device side of server_relay_device: the control and data            *)
(* connections of the terminals (device_connection_manager.cpp), the       *)
(* devices they form (device_manager.cpp) and the handlers that bind and   *)
(* unbind them (relay_service.cpp, ._ctrl.cpp, ._data.cpp).                *)
(*                                                                         *)
(* The process is one thread: a round of the loop runs any number of       *)
(* callbacks (one action each) and then the managers' Ticks, which alone   *)
(* destroy connections.  Between the callback that gives a connection up   *)
(* and the Tick that destroys it the connection is marked but still found  *)
(* by its id.  Connection ids carry a generation, so an id is never found  *)
(* again once its connection is destroyed: a member of CtrlConns or        *)
(* DataConns stands for one connection of the whole run.                   *)
(*                                                                         *)
(* Time is abstract: at a Tick any connection may have reached its 3 s     *)
(* (new) or 120 s (idle) limit.                                            *)
(***************************************************************************)
EXTENDS Naturals, FiniteSets

CONSTANTS CtrlConns,   \* control connections that may ever be opened
          DataConns,   \* data connections that may ever be opened
          Devices,     \* the slots of DevicePool
          NoDevice,    \* xRD_DeviceConnection::DeviceId = 0
          NoConn       \* a null connection pointer

DeviceConns == CtrlConns \cup DataConns

ASSUME ConnsAssumption  == CtrlConns \cap DataConns = {} /\ NoConn \notin DeviceConns
ASSUME NoDeviceAssumption == NoDevice \notin Devices

VARIABLES
    list,            \* list[c]: the manager's list that connection c is in
    marked,          \* connections with FLAG_MARK_DELETE
    peerClosed,      \* connections whose OnPeerClose has run
    lapsed,          \* history: connections destroyed because their time was up
    boundLate,       \* history: devices bound to a closed control connection
    ctrlIdSent,      \* control connections whose CtrlId was posted to the device
    DeviceId,        \* DeviceId[c] of a connection
    allocated,       \* the slots of DevicePool handed out (none is ever released)
    deleted,         \* devices with FLAG_DELETE
    CtrlConnection,  \* of each device
    DataConnection,  \* of each device
    reported         \* what DeviceReporter last told of each device

bindingVars == <<DeviceId, CtrlConnection, DataConnection, boundLate>>
deviceVars  == <<bindingVars, allocated, deleted, reported>>
relayDeviceVars == <<list, marked, peerClosed, lapsed, ctrlIdSent, deviceVars>>

Lists == {"Absent", "New", "Idle", "Kill", "Destroyed"}

TypeOK ==
    /\ list \in [DeviceConns -> Lists]
    /\ marked \in SUBSET DeviceConns
    /\ peerClosed \in SUBSET DeviceConns
    /\ lapsed \in SUBSET DeviceConns
    /\ boundLate \in SUBSET Devices
    /\ ctrlIdSent \in SUBSET CtrlConns
    /\ DeviceId \in [DeviceConns -> Devices \cup {NoDevice}]
    /\ allocated \in SUBSET Devices
    /\ deleted \in SUBSET Devices
    /\ CtrlConnection \in [Devices -> CtrlConns \cup {NoConn}]
    /\ DataConnection \in [Devices -> DataConns \cup {NoConn}]
    /\ reported \in [Devices -> {"unknown", "online", "offline"}]

Init ==
    /\ list = [c \in DeviceConns |-> "Absent"]
    /\ marked = {} /\ peerClosed = {} /\ lapsed = {} /\ boundLate = {}
    /\ ctrlIdSent = {}
    /\ DeviceId = [c \in DeviceConns |-> NoDevice]
    /\ allocated = {} /\ deleted = {}
    /\ CtrlConnection = [v \in Devices |-> NoConn]
    /\ DataConnection = [v \in Devices |-> NoConn]
    /\ reported = [v \in Devices |-> "unknown"]

\* DeviceConnectionManager.GetConnectionById finds a connection until it is destroyed.
Found(c) == list[c] \notin {"Absent", "Destroyed"}

\* The library still delivers what the peer of c sends.
Receives(c) == Found(c) /\ c \notin peerClosed

\* DeviceManager.GetDeviceById finds a device that is not being deleted.
Alive(v) == v \in allocated \ deleted

Bound(v) == CtrlConnection[v] # NoConn

-----------------------------------------------------------------------------
(* Connection and device managers *)

\* Faulty variant: a connection given up goes back among the idle ones.
KeepAliveMarked(c) == list' = [list EXCEPT ![c] = "Idle"]

KeepAlive(c) == list' = IF c \in marked THEN list ELSE [list EXCEPT ![c] = "Idle"]

\* Marks the connections of C and moves them to the kill list.
DeferReleaseConnections(C) ==
    /\ marked' = marked \cup C
    /\ list' = [c \in DeviceConns |-> IF c \in C \ marked THEN "Kill" ELSE list[c]]

ReportDeviceState(v, state) == reported' = [reported EXCEPT ![v] = state]

\* RemoveDeviceFromConnection: the device of a closing control connection is
\* reported offline and given up, unless it already was.
RemoveDeviceFromConnection(c) ==
    IF Alive(DeviceId[c])
    THEN /\ ReportDeviceState(DeviceId[c], "offline")
         /\ deleted' = deleted \cup {DeviceId[c]}
    ELSE UNCHANGED <<reported, deleted>>

\* Faulty variant: the device of a closed control connection lives on.
CloseForgetsDevice(c) ==
    /\ peerClosed' = peerClosed \cup {c}
    /\ DeferReleaseConnections({c})
    /\ UNCHANGED <<reported, deleted>>

\* Faulty variant: the device is given up with its data connection too.
CloseRemovesAnyway(c) ==
    /\ peerClosed' = peerClosed \cup {c}
    /\ DeferReleaseConnections({c})
    /\ RemoveDeviceFromConnection(c)

\* The connection is closed by its peer, or by the library because a handler
\* refused a packet.
CloseConnection(c) ==
    /\ peerClosed' = peerClosed \cup {c}
    /\ DeferReleaseConnections({c})
    /\ IF c \in CtrlConns THEN RemoveDeviceFromConnection(c)
                          ELSE UNCHANGED <<reported, deleted>>

-----------------------------------------------------------------------------
(* Callbacks *)

AcceptConnection(c) ==
    /\ list[c] = "Absent"
    /\ list' = [list EXCEPT ![c] = "New"]
    /\ UNCHANGED <<marked, peerClosed, lapsed, ctrlIdSent, deviceVars>>

OnPeerClose(c) ==
    /\ Receives(c)
    /\ CloseConnection(c)
    /\ UNCHANGED <<lapsed, ctrlIdSent, bindingVars, allocated>>

\* A keepalive of a control connection reports its device online.
\* ReportDeviceOnState finds the device by its slot, deleted or not.
OnKeepAlive(c) ==
    /\ Receives(c)
    /\ KeepAlive(c)
    /\ IF c \in CtrlConns /\ DeviceId[c] \in allocated
       THEN ReportDeviceState(DeviceId[c], "online")
       ELSE UNCHANGED reported
    /\ UNCHANGED <<marked, peerClosed, lapsed, ctrlIdSent, bindingVars, allocated, deleted>>

OnTerminalInitCtrlStream(c) ==
    /\ Receives(c)
    /\ KeepAlive(c)
    /\ ctrlIdSent' = ctrlIdSent \cup {c}
    /\ UNCHANGED <<marked, peerClosed, lapsed, deviceVars>>

\* InitDataStream with a CtrlId that names no connection, or one that already
\* has a device: refused, which closes the data connection.
InitDataStreamRefused(d, c) ==
    /\ Receives(d) /\ c \in ctrlIdSent
    /\ ~Found(c) \/ DeviceId[c] # NoDevice
    /\ CloseConnection(d)
    /\ UNCHANGED <<lapsed, ctrlIdSent, bindingVars, allocated>>

\* No slot is left in DevicePool: the control connection goes as well, without
\* an OnPeerClose of its own.
InitDataStreamNoSlot(d, c) ==
    /\ Receives(d) /\ c \in ctrlIdSent
    /\ Found(c) /\ DeviceId[c] = NoDevice
    /\ allocated = Devices
    /\ peerClosed' = peerClosed \cup {d}
    /\ DeferReleaseConnections({c, d})
    /\ UNCHANGED <<lapsed, ctrlIdSent, deviceVars>>

\* The DataKey is malformed: refused, and the slot just taken stays taken.
InitDataStreamBadKey(d, c) ==
    /\ Receives(d) /\ c \in ctrlIdSent
    /\ Found(c) /\ DeviceId[c] = NoDevice
    /\ \E v \in Devices \ allocated : allocated' = allocated \cup {v}
    /\ CloseConnection(d)
    /\ UNCHANGED <<lapsed, ctrlIdSent, bindingVars>>

\* Binds v to the two connections.
Bind(v, d, c) ==
    /\ allocated' = allocated \cup {v}
    /\ DeviceId' = [DeviceId EXCEPT ![d] = v, ![c] = v]
    /\ CtrlConnection' = [CtrlConnection EXCEPT ![v] = c]
    /\ DataConnection' = [DataConnection EXCEPT ![v] = d]
    /\ boundLate' = IF c \in peerClosed THEN boundLate \cup {v} ELSE boundLate
    /\ KeepAlive(d)
    /\ ReportDeviceState(v, "online")
    /\ UNCHANGED <<marked, peerClosed, lapsed, ctrlIdSent, deleted>>

\* Faulty variant: a control connection that has a device is given another.
InitDataStreamRebinds(d, c) ==
    /\ Receives(d) /\ c \in ctrlIdSent
    /\ Found(c)
    /\ \E v \in Devices \ allocated : Bind(v, d, c)

\* A device is bound to its data connection and to the control connection
\* it names, which may be marked already but is not yet destroyed.
OnTerminalInitDataStream(d, c) ==
    /\ Receives(d) /\ c \in ctrlIdSent
    /\ Found(c) /\ DeviceId[c] = NoDevice
    /\ \E v \in Devices \ allocated : Bind(v, d, c)

-----------------------------------------------------------------------------
\* RemoveIdleConnections: the connections of T, new or idle, have reached
\* their limit; they and the kill list are destroyed.  The devices they
\* belong to are not told.
RemoveIdleConnections(T) ==
    /\ T \subseteq {c \in DeviceConns : list[c] \in {"New", "Idle"}}
    /\ lapsed' = lapsed \cup T
    /\ list' = [c \in DeviceConns |->
                    IF c \in T \/ list[c] = "Kill" THEN "Destroyed" ELSE list[c]]
    /\ UNCHANGED <<marked, peerClosed, ctrlIdSent, deviceVars>>

Tick == \E T \in SUBSET DeviceConns : RemoveIdleConnections(T)

DataStream(d, c) ==
    \/ InitDataStreamRefused(d, c)
    \/ InitDataStreamNoSlot(d, c)
    \/ InitDataStreamBadKey(d, c)
    \/ OnTerminalInitDataStream(d, c)

Next ==
    \/ \E c \in DeviceConns : AcceptConnection(c) \/ OnPeerClose(c) \/ OnKeepAlive(c)
    \/ \E c \in CtrlConns : OnTerminalInitCtrlStream(c)
    \/ \E d \in DataConns, c \in CtrlConns : DataStream(d, c)
    \/ Tick

Spec == Init /\ [][Next]_relayDeviceVars

\* The main loop never stops: while the kill list has a connection, a Tick comes.
KillListTick == Tick /\ \E c \in DeviceConns : list[c] = "Kill"

FairSpec == Spec /\ WF_relayDeviceVars(KillListTick)

-----------------------------------------------------------------------------
(* Properties *)

\* A bound device and its control connection name each other: no second
\* InitDataStream takes a control connection away from its device, which
\* OnPeerClose could then no longer remove.
CtrlBinding ==
    \A v \in Devices : Bound(v) => DeviceId[CtrlConnection[v]] = v

\* The assertions of the proxy handlers (relay_service._proxy.cpp:65 and 122):
\* a device the proxies have been told of and GetDeviceById finds has both its
\* connection pointers set, though other slots are taken without ever being bound.
AnnouncedIsBound ==
    \A v \in Devices :
        (reported[v] # "unknown" /\ Alive(v))
            => Bound(v) /\ DataConnection[v] # NoConn

\* The types, and the agreement of devices and connections: the device that a
\* proxy asks for, that of a control connection and the pointers it asserts.
DevicesConsistent == TypeOK /\ CtrlBinding /\ AnnouncedIsBound

\* A device that GetDeviceById still hands out has a control connection whose
\* OnPeerClose is to come, except when that connection ran out of time
\* (RemoveIdleConnections does not tell the device) or was closed before the
\* device was bound to it: these are the only ways in which
\* OnProxyCreateConnection can use a control connection that is gone.
CtrlLostOnlyByTimeout ==
    \A v \in Devices :
        (/\ Bound(v) /\ Alive(v)
         /\ v \notin boundLate /\ CtrlConnection[v] \notin lapsed)
            => Receives(CtrlConnection[v])

\* The reports about each device are those of DevicePresence: once its
\* offline report is out no keepalive brings it back.
Presence == INSTANCE DevicePresence WITH presence <- reported
PresenceSpec == Presence!Spec

\* A connection that was given up is destroyed, whatever its peer still sends.
GivenUpIsDestroyed == \A c \in DeviceConns : c \in marked ~> list[c] = "Destroyed"
=============================================================================
