-------------------------- MODULE RelayServiceProofs -------------------------
(***************************************************************************)
(* Proofs about a relay, for any number of connections, devices, proxies,  *)
(* relayed connections and names: first RelayDevices, then RelayService,   *)
(* which extends it.                                                       *)
(*                                                                         *)
(* The inductive invariant IInv says that devices and control connections  *)
(* point at each other, what each report means for the device, and why a   *)
(* control connection on the kill list has no device: it was closed, which *)
(* removed the device, or it was given up because every slot was taken,    *)
(* after which no device can be bound to it any more.                      *)
(*                                                                         *)
(* ServiceIInv adds to it what a context, the messages the device was told *)
(* and those the proxy was told say of one another: a context shares its   *)
(* storage between the port and the device's name, and whether the device  *)
(* has announced its name decides which one it holds.                      *)
(***************************************************************************)
EXTENDS RelayService, TLAPS

-----------------------------------------------------------------------------
(* Devices and their connections: RelayDevices *)

\* Devices and control connections point at each other.
Binding ==
    /\ \A v \in Devices : Bound(v) =>
          /\ v \in allocated
          /\ DeviceId[CtrlConnection[v]] = v
          /\ DataConnection[v] # NoConn
    /\ \A c \in CtrlConns : DeviceId[c] # NoDevice => CtrlConnection[DeviceId[c]] = c

\* A device was reported when it was bound, and is reported offline when it is
\* given up, which only the end of its control connection does.
Reports ==
    \A v \in Devices :
        /\ Bound(v) <=> reported[v] # "unknown"
        /\ v \in deleted <=> reported[v] = "offline"
        /\ v \in deleted => CtrlConnection[v] \in peerClosed

\* What is on the kill list was marked; a control connection that was given up
\* while it was open has no device and will get none.
GivenUp ==
    /\ \A c \in DeviceConns : list[c] = "Kill" => c \in marked
    /\ \A c \in CtrlConns : c \in marked \ peerClosed =>
          DeviceId[c] = NoDevice /\ allocated = Devices

IInv ==
    /\ TypeOK
    /\ Binding
    /\ Reports
    /\ GivenUp
    /\ CtrlLostOnlyByTimeout

\* The connections are of one kind each, and none is the null pointer.
LEMMA ConnFacts ==
    /\ \A c \in CtrlConns : c \in DeviceConns /\ c \notin DataConns /\ c # NoConn
    /\ \A d \in DataConns : d \in DeviceConns /\ d \notin CtrlConns /\ d # NoConn
BY ConnsAssumption DEF DeviceConns

LEMMA InitIInv == Init => IInv
<1> SUFFICES ASSUME Init PROVE IInv
  OBVIOUS
<1>1. TypeOK
  BY DEF Init, TypeOK, Lists
<1>2. \A v \in Devices : ~Bound(v)
  BY DEF Init, Bound
<1>3. Binding /\ Reports /\ GivenUp
  BY <1>2, ConnFacts DEF Init, Binding, Reports, GivenUp
<1>4. CtrlLostOnlyByTimeout
  BY <1>2 DEF CtrlLostOnlyByTimeout
<1> QED BY <1>1, <1>3, <1>4 DEF IInv

\* Of a bound device, its control connection is one.
LEMMA BoundCtrl ==
    ASSUME TypeOK, NEW v \in Devices, Bound(v)
    PROVE  CtrlConnection[v] \in CtrlConns /\ CtrlConnection[v] \in DeviceConns
BY DEF TypeOK, Bound, DeviceConns

-----------------------------------------------------------------------------
\* A step that leaves bindings, slots, marks and closes alone and at most moves
\* a connection between the living lists.
LEMMA QuietKeepsIInv ==
    ASSUME IInv, TypeOK',
           UNCHANGED <<marked, peerClosed, lapsed, bindingVars, allocated, deleted, reported>>,
           \A c \in DeviceConns : Found(c) => Found(c)',
           \A c \in DeviceConns : list'[c] = "Kill" => list[c] = "Kill"
    PROVE  IInv'
<1> USE DEF IInv, bindingVars
<1>1. Binding' /\ Reports' /\ GivenUp'
  BY DEF Binding, Reports, GivenUp, Bound
<1>2. CtrlLostOnlyByTimeout'
  BY BoundCtrl DEF CtrlLostOnlyByTimeout, Bound, Alive, Receives
<1> QED BY <1>1, <1>2

\* KeepAlive moves a connection that was not given up to the idle list.
LEMMA KeepAliveMoves ==
    ASSUME TypeOK, GivenUp, NEW c \in DeviceConns, KeepAlive(c)
    PROVE  /\ list' \in [DeviceConns -> Lists]
           /\ \A e \in DeviceConns : Found(e) => Found(e)'
           /\ \A e \in DeviceConns : list'[e] = "Kill" => list[e] = "Kill"
BY DEF KeepAlive, TypeOK, GivenUp, Lists, Found

LEMMA AcceptKeepsIInv ==
    ASSUME IInv, NEW c \in DeviceConns, AcceptConnection(c)
    PROVE  IInv'
<1> USE DEF AcceptConnection, deviceVars, bindingVars
<1>1. TypeOK'
  BY DEF IInv, TypeOK, Lists
<1>2. /\ \A e \in DeviceConns : Found(e) => Found(e)'
      /\ \A e \in DeviceConns : list'[e] = "Kill" => list[e] = "Kill"
  BY DEF IInv, TypeOK, Found
<1> QED BY <1>1, <1>2, QuietKeepsIInv

\* A keepalive reports a device online only if it was never given up, because
\* the connection it comes on is open.
LEMMA KeepAliveReports ==
    ASSUME IInv, NEW c \in DeviceConns, OnKeepAlive(c)
    PROVE  reported' = reported
<1> USE DEF IInv
<1>1. CASE c \in CtrlConns /\ DeviceId[c] \in allocated
  <2> DEFINE v == DeviceId[c]
  <2>1. v \in Devices /\ v # NoDevice /\ reported' = [reported EXCEPT ![v] = "online"]
    BY <1>1, NoDeviceAssumption DEF TypeOK, OnKeepAlive, ReportDeviceState
  <2>2. CtrlConnection[v] = c /\ c # NoConn
    BY <1>1, <2>1, ConnFacts DEF Binding
  <2>3. v \notin deleted
    BY <2>1, <2>2 DEF Reports, OnKeepAlive, Receives
  <2>4. reported[v] = "online"
    BY <2>1, <2>2, <2>3 DEF Reports, Bound, TypeOK
  <2> QED BY <2>1, <2>4 DEF TypeOK
<1>2. CASE ~(c \in CtrlConns /\ DeviceId[c] \in allocated)
  BY <1>2 DEF OnKeepAlive
<1> QED BY <1>1, <1>2

LEMMA OnKeepAliveKeepsIInv ==
    ASSUME IInv, NEW c \in DeviceConns, OnKeepAlive(c)
    PROVE  IInv'
<1>1. KeepAlive(c) /\ UNCHANGED <<marked, peerClosed, lapsed, ctrlIdSent, bindingVars, allocated, deleted>>
  BY DEF OnKeepAlive
<1>2. reported' = reported
  BY KeepAliveReports
<1>3. TypeOK'
  BY <1>1, <1>2, KeepAliveMoves DEF IInv, TypeOK, bindingVars
<1> QED BY <1>1, <1>2, <1>3, KeepAliveMoves, QuietKeepsIInv DEF IInv

LEMMA InitCtrlKeepsIInv ==
    ASSUME IInv, NEW c \in CtrlConns, OnTerminalInitCtrlStream(c)
    PROVE  IInv'
<1> USE DEF OnTerminalInitCtrlStream, deviceVars, bindingVars
<1>1. c \in DeviceConns
  BY ConnFacts
<1>2. TypeOK'
  BY <1>1, KeepAliveMoves DEF IInv, TypeOK
<1> QED BY <1>1, <1>2, KeepAliveMoves, QuietKeepsIInv DEF IInv

-----------------------------------------------------------------------------
\* What giving up the connections of C does to the lists.
LEMMA DeferReleaseMoves ==
    ASSUME TypeOK, NEW C \in SUBSET DeviceConns, DeferReleaseConnections(C)
    PROVE  /\ list' \in [DeviceConns -> Lists]
           /\ marked' = marked \cup C
           /\ \A e \in DeviceConns : Found(e) => Found(e)'
           /\ \A e \in DeviceConns : list'[e] = "Kill" => e \in C \/ list[e] = "Kill"
BY DEF DeferReleaseConnections, TypeOK, Lists, Found

\* The end of a data connection leaves the devices alone.
LEMMA CloseDataKeepsIInv ==
    ASSUME IInv, NEW d \in DataConns, CloseConnection(d),
           UNCHANGED <<lapsed, ctrlIdSent, bindingVars>>,
           allocated' \in SUBSET Devices, allocated \subseteq allocated'
    PROVE  IInv' /\ UNCHANGED <<reported, deleted>>
<1> USE DEF IInv, bindingVars
<1>1. d \in DeviceConns /\ d \notin CtrlConns
  BY ConnFacts
<1>2. /\ peerClosed' = peerClosed \cup {d}
      /\ DeferReleaseConnections({d})
      /\ UNCHANGED <<reported, deleted>>
  BY <1>1 DEF CloseConnection
<1>3. /\ list' \in [DeviceConns -> Lists]
      /\ marked' = marked \cup {d}
      /\ \A e \in DeviceConns : Found(e) => Found(e)'
      /\ \A e \in DeviceConns : list'[e] = "Kill" => e = d \/ list[e] = "Kill"
  BY <1>1, <1>2, DeferReleaseMoves
<1>4. TypeOK'
  BY <1>1, <1>2, <1>3 DEF TypeOK
<1>5. Binding' /\ Reports'
  BY <1>2 DEF Binding, Reports, Bound
<1>6. GivenUp'
  BY <1>1, <1>2, <1>3, ConnFacts DEF GivenUp, TypeOK
<1>7. CtrlLostOnlyByTimeout'
  <2> SUFFICES ASSUME NEW v \in Devices, Bound(v), v \in allocated \ deleted,
                      v \notin boundLate, CtrlConnection[v] \notin lapsed
               PROVE  Receives(CtrlConnection[v])'
    BY <1>2 DEF CtrlLostOnlyByTimeout, Bound, Alive, Binding
  <2>1. Receives(CtrlConnection[v])
    BY DEF CtrlLostOnlyByTimeout, Alive
  <2> QED BY <1>1, <1>2, <1>3, <2>1, BoundCtrl DEF Receives
<1> QED BY <1>2, <1>4, <1>5, <1>6, <1>7

\* The end of a control connection gives its device up.
LEMMA CloseCtrlKeepsIInv ==
    ASSUME IInv, NEW c \in CtrlConns, CloseConnection(c),
           UNCHANGED <<lapsed, ctrlIdSent, bindingVars, allocated>>
    PROVE  IInv'
<1> USE DEF IInv, bindingVars
<1>1. c \in DeviceConns
  BY ConnFacts
<1>2. /\ peerClosed' = peerClosed \cup {c}
      /\ DeferReleaseConnections({c})
      /\ RemoveDeviceFromConnection(c)
  BY DEF CloseConnection
<1>3. /\ list' \in [DeviceConns -> Lists]
      /\ marked' = marked \cup {c}
      /\ \A e \in DeviceConns : Found(e) => Found(e)'
      /\ \A e \in DeviceConns : list'[e] = "Kill" => e = c \/ list[e] = "Kill"
  BY <1>1, <1>2, DeferReleaseMoves
<1>4. Alive(DeviceId[c]) => DeviceId[c] \in Devices /\ CtrlConnection[DeviceId[c]] = c
  BY <1>1, NoDeviceAssumption DEF Alive, TypeOK, Binding
<1>5. TypeOK'
  BY <1>1, <1>2, <1>3, <1>4 DEF TypeOK, RemoveDeviceFromConnection, ReportDeviceState
<1>6. Binding'
  BY DEF Binding, Bound
<1>7. Reports'
  <2>1. CASE Alive(DeviceId[c])
    <3> DEFINE v == DeviceId[c]
    <3>1. /\ reported' = [reported EXCEPT ![v] = "offline"]
          /\ deleted' = deleted \cup {v}
      BY <1>2, <2>1 DEF RemoveDeviceFromConnection, ReportDeviceState
    <3>2. Bound(v)
      BY <1>4, <2>1, ConnFacts DEF Bound
    <3> QED BY <1>2, <1>4, <2>1, <3>1, <3>2 DEF Reports, Bound, TypeOK
  <2>2. CASE ~Alive(DeviceId[c])
    BY <1>2, <2>2 DEF RemoveDeviceFromConnection, Reports, Bound
  <2> QED BY <2>1, <2>2
<1>8. GivenUp'
  BY <1>2, <1>3 DEF GivenUp, TypeOK
<1>9. CtrlLostOnlyByTimeout'
  <2> SUFFICES ASSUME NEW v \in Devices, Bound(v), Alive(v)',
                      v \notin boundLate, CtrlConnection[v] \notin lapsed
               PROVE  Receives(CtrlConnection[v])'
    BY DEF CtrlLostOnlyByTimeout, Bound
  <2>1. Alive(v) /\ CtrlConnection[v] # c
    <3>1. Alive(v)
      BY <1>2 DEF Alive, RemoveDeviceFromConnection
    <3>2. CtrlConnection[v] = c => DeviceId[c] = v
      BY DEF Binding
    <3> QED BY <1>2, <3>1, <3>2 DEF Alive, RemoveDeviceFromConnection
  <2>2. Receives(CtrlConnection[v])
    BY <2>1 DEF CtrlLostOnlyByTimeout
  <2> QED BY <1>2, <1>3, <2>1, <2>2, BoundCtrl DEF Receives
<1> QED BY <1>5, <1>6, <1>7, <1>8, <1>9

-----------------------------------------------------------------------------
LEMMA NoSlotKeepsIInv ==
    ASSUME IInv, NEW d \in DataConns, NEW c \in CtrlConns, InitDataStreamNoSlot(d, c)
    PROVE  IInv'
<1> USE DEF IInv, InitDataStreamNoSlot, deviceVars, bindingVars
<1>1. /\ c \in DeviceConns /\ d \in DeviceConns /\ d \notin CtrlConns
      /\ DeviceId[c] = NoDevice /\ allocated = Devices
  BY ConnFacts
<1>2. /\ list' \in [DeviceConns -> Lists]
      /\ marked' = marked \cup {c, d}
      /\ \A e \in DeviceConns : Found(e) => Found(e)'
      /\ \A e \in DeviceConns : list'[e] = "Kill" => e \in {c, d} \/ list[e] = "Kill"
  BY <1>1, DeferReleaseMoves
<1>3. TypeOK'
  BY <1>1, <1>2 DEF TypeOK
<1>4. Binding' /\ Reports'
  BY DEF Binding, Reports, Bound
<1>5. GivenUp'
  BY <1>1, <1>2 DEF GivenUp
<1>6. CtrlLostOnlyByTimeout'
  BY <1>1, <1>2, BoundCtrl DEF CtrlLostOnlyByTimeout, Bound, Alive, Receives
<1> QED BY <1>3, <1>4, <1>5, <1>6

\* A bind takes a free slot and a control connection without a device, so it
\* disturbs no other device.
LEMMA BindKeepsIInv ==
    ASSUME IInv, NEW d \in DataConns, NEW c \in CtrlConns,
           NEW v \in Devices \ allocated,
           Receives(d), Found(c), DeviceId[c] = NoDevice, Bind(v, d, c)
    PROVE  IInv' /\ reported[v] = "unknown" /\ reported' = [reported EXCEPT ![v] = "online"]
<1> USE DEF IInv
<1>1. /\ c \in DeviceConns /\ d \in DeviceConns /\ c # d /\ d \notin CtrlConns
      /\ c # NoConn /\ d # NoConn /\ v # NoDevice
  BY ConnFacts, NoDeviceAssumption
<1>2. /\ allocated' = allocated \cup {v}
      /\ DeviceId' = [DeviceId EXCEPT ![d] = v, ![c] = v]
      /\ CtrlConnection' = [CtrlConnection EXCEPT ![v] = c]
      /\ DataConnection' = [DataConnection EXCEPT ![v] = d]
      /\ boundLate' = IF c \in peerClosed THEN boundLate \cup {v} ELSE boundLate
      /\ KeepAlive(d)
      /\ reported' = [reported EXCEPT ![v] = "online"]
      /\ UNCHANGED <<marked, peerClosed, lapsed, ctrlIdSent, deleted>>
  BY DEF Bind, ReportDeviceState
<1>3. /\ list' \in [DeviceConns -> Lists]
      /\ \A e \in DeviceConns : Found(e) => Found(e)'
      /\ \A e \in DeviceConns : list'[e] = "Kill" => list[e] = "Kill"
  BY <1>1, <1>2, KeepAliveMoves
<1>4. ~Bound(v) /\ reported[v] = "unknown" /\ v \notin deleted
  BY DEF Binding, Reports
<1>5. \A w \in Devices : Bound(w) => CtrlConnection[w] # c
  BY NoDeviceAssumption DEF Binding
<1>6. \A w \in Devices : w # v =>
         CtrlConnection'[w] = CtrlConnection[w] /\ DataConnection'[w] = DataConnection[w]
  BY <1>2 DEF TypeOK
<1>7. CtrlConnection'[v] = c /\ DataConnection'[v] = d
  BY <1>2 DEF TypeOK
<1>8. /\ \A e \in CtrlConns : e # c => DeviceId'[e] = DeviceId[e]
      /\ DeviceId'[c] = v
  BY <1>1, <1>2, ConnFacts DEF TypeOK
<1>9. TypeOK'
  BY <1>1, <1>2, <1>3 DEF TypeOK
<1>10. Binding'
  <2>1. ASSUME NEW w \in Devices, Bound(w)'
        PROVE  w \in allocated' /\ DeviceId'[CtrlConnection'[w]] = w /\ DataConnection'[w] # NoConn
    <3>1. CASE w = v
      BY <1>1, <1>2, <1>7, <1>8, <3>1
    <3>2. CASE w # v
      <4>1. Bound(w)
        BY <1>6, <2>1, <3>2 DEF Bound
      <4>2. /\ CtrlConnection[w] \in CtrlConns /\ CtrlConnection[w] # c
            /\ w \in allocated /\ DeviceId[CtrlConnection[w]] = w /\ DataConnection[w] # NoConn
        BY <1>5, <4>1, BoundCtrl DEF Binding
      <4> QED BY <1>2, <1>6, <1>8, <3>2, <4>2
    <3> QED BY <3>1, <3>2
  <2>2. ASSUME NEW e \in CtrlConns, DeviceId'[e] # NoDevice
        PROVE  CtrlConnection'[DeviceId'[e]] = e
    <3>1. CASE e = c
      BY <1>7, <1>8, <3>1
    <3>2. CASE e # c
      <4>1. CtrlConnection[DeviceId[e]] = e /\ DeviceId[e] \in Devices /\ DeviceId'[e] = DeviceId[e]
        BY <1>8, <2>2, <3>2, ConnFacts DEF Binding, TypeOK
      <4>2. DeviceId[e] # v
        BY <1>4, <4>1, ConnFacts DEF Bound
      <4> QED BY <1>6, <4>1, <4>2
    <3> QED BY <3>1, <3>2
  <2> QED BY <2>1, <2>2 DEF Binding
<1>11. Reports'
  BY <1>1, <1>2, <1>4, <1>6, <1>7 DEF Reports, Bound, TypeOK
<1>12. GivenUp'
  BY <1>1, <1>2, <1>3, <1>8 DEF GivenUp
<1>13. CtrlLostOnlyByTimeout'
  <2> SUFFICES ASSUME NEW w \in Devices, Bound(w)', Alive(w)', w \notin boundLate',
                      CtrlConnection'[w] \notin lapsed
               PROVE  Receives(CtrlConnection[w])'
    BY <1>2 DEF CtrlLostOnlyByTimeout
  <2>1. CASE w = v
    BY <1>1, <1>2, <1>3, <1>7, <2>1 DEF Receives
  <2>2. CASE w # v
    <3>1. Bound(w) /\ Alive(w) /\ w \notin boundLate /\ CtrlConnection[w] \notin lapsed
      BY <1>2, <1>6, <2>2 DEF Bound, Alive
    <3>2. Receives(CtrlConnection[w])
      BY <3>1 DEF CtrlLostOnlyByTimeout
    <3> QED BY <1>2, <1>3, <1>6, <2>2, <3>1, <3>2, BoundCtrl DEF Receives
  <2> QED BY <2>1, <2>2
<1> QED BY <1>2, <1>4, <1>9, <1>10, <1>11, <1>12, <1>13

\* A Tick destroys no control connection of a device unless its time is up:
\* what it finds on the kill list has no device or was closed.
LEMMA TickKeepsIInv ==
    ASSUME IInv, NEW T \in SUBSET DeviceConns, RemoveIdleConnections(T)
    PROVE  IInv'
<1> USE DEF IInv, RemoveIdleConnections, deviceVars, bindingVars
<1>1. TypeOK'
  BY DEF TypeOK, Lists
<1>2. Binding' /\ Reports'
  BY DEF Binding, Reports, Bound
<1>3. GivenUp'
  BY DEF GivenUp
<1>4. CtrlLostOnlyByTimeout'
  <2> SUFFICES ASSUME NEW v \in Devices, Bound(v), Alive(v), v \notin boundLate,
                      CtrlConnection[v] \notin lapsed \cup T
               PROVE  Receives(CtrlConnection[v])'
    BY DEF CtrlLostOnlyByTimeout, Bound, Alive
  <2> DEFINE c == CtrlConnection[v]
  <2>1. Receives(c) /\ c \in CtrlConns /\ c \in DeviceConns
    BY BoundCtrl DEF CtrlLostOnlyByTimeout
  <2>2. DeviceId[c] # NoDevice
    BY NoDeviceAssumption DEF Binding
  <2>3. list[c] # "Kill"
    BY <2>1, <2>2 DEF GivenUp, Receives
  <2> QED BY <2>1, <2>3 DEF Receives, Found
<1> QED BY <1>1, <1>2, <1>3, <1>4

-----------------------------------------------------------------------------
(* Every step preserves the invariant, and its reports are a step of         *)
(* DevicePresence or none.                                                   *)

Refined == Presence!Next \/ UNCHANGED reported

LEMMA DataStreamStep ==
    ASSUME IInv, NEW d \in DataConns, NEW c \in CtrlConns, DataStream(d, c)
    PROVE  IInv' /\ Refined
<1>1. CASE InitDataStreamRefused(d, c)
  <2>1. allocated' \in SUBSET Devices /\ allocated \subseteq allocated'
    BY <1>1 DEF InitDataStreamRefused, IInv, TypeOK
  <2> QED BY <1>1, <2>1, CloseDataKeepsIInv DEF InitDataStreamRefused, Refined
<1>2. CASE InitDataStreamNoSlot(d, c)
  BY <1>2, NoSlotKeepsIInv DEF InitDataStreamNoSlot, deviceVars, Refined
<1>3. CASE InitDataStreamBadKey(d, c)
  <2>1. allocated' \in SUBSET Devices /\ allocated \subseteq allocated'
    BY <1>3 DEF InitDataStreamBadKey, IInv, TypeOK
  <2> QED BY <1>3, <2>1, CloseDataKeepsIInv DEF InitDataStreamBadKey, Refined
<1>4. CASE OnTerminalInitDataStream(d, c)
  <2>1. PICK v \in Devices \ allocated : Bind(v, d, c)
    BY <1>4 DEF OnTerminalInitDataStream
  <2>2. /\ IInv' /\ reported[v] = "unknown"
        /\ reported' = [reported EXCEPT ![v] = "online"]
    BY <1>4, <2>1, BindKeepsIInv DEF OnTerminalInitDataStream
  <2>3. Presence!Online(v)
    BY <2>2 DEF Presence!Online
  <2> QED BY <2>2, <2>3 DEF Presence!Next, Refined
<1> QED BY <1>1, <1>2, <1>3, <1>4 DEF DataStream

LEMMA OnPeerCloseStep ==
    ASSUME IInv, NEW c \in DeviceConns, OnPeerClose(c)
    PROVE  IInv' /\ Refined
<1>1. CASE c \in CtrlConns
  <2>1. IInv'
    BY <1>1, CloseCtrlKeepsIInv DEF OnPeerClose
  <2>2. CASE Alive(DeviceId[c])
    <3> DEFINE v == DeviceId[c]
    <3>1. v \in Devices /\ v # NoDevice /\ v \notin deleted
      BY <2>2, NoDeviceAssumption DEF Alive, IInv, TypeOK
    <3>2. CtrlConnection[v] = c /\ c # NoConn
      BY <1>1, <3>1, ConnFacts DEF IInv, Binding
    <3>3. reported[v] = "online"
      BY <3>1, <3>2 DEF IInv, Reports, Bound, TypeOK
    <3>4. reported' = [reported EXCEPT ![v] = "offline"]
      BY <1>1, <2>2 DEF OnPeerClose, CloseConnection, RemoveDeviceFromConnection, ReportDeviceState
    <3>5. Presence!Offline(v)
      BY <3>3, <3>4 DEF Presence!Offline
    <3> QED BY <2>1, <3>1, <3>5 DEF Presence!Next, Refined
  <2>3. CASE ~Alive(DeviceId[c])
    BY <1>1, <2>1, <2>3 DEF OnPeerClose, CloseConnection, RemoveDeviceFromConnection, Refined
  <2> QED BY <2>2, <2>3
<1>2. CASE c \in DataConns
  <2>1. allocated' \in SUBSET Devices /\ allocated \subseteq allocated'
    BY DEF OnPeerClose, IInv, TypeOK
  <2> QED BY <1>2, <2>1, CloseDataKeepsIInv DEF OnPeerClose, Refined
<1> QED BY <1>1, <1>2 DEF DeviceConns

LEMMA StepKeepsIInv ==
    ASSUME IInv, [Next]_relayDeviceVars
    PROVE  IInv' /\ Refined
<1>1. ASSUME NEW c \in DeviceConns, AcceptConnection(c) PROVE IInv' /\ Refined
  BY <1>1, AcceptKeepsIInv DEF AcceptConnection, deviceVars, Refined
<1>2. ASSUME NEW c \in DeviceConns, OnPeerClose(c) PROVE IInv' /\ Refined
  BY <1>2, OnPeerCloseStep
<1>3. ASSUME NEW c \in DeviceConns, OnKeepAlive(c) PROVE IInv' /\ Refined
  BY <1>3, OnKeepAliveKeepsIInv, KeepAliveReports DEF Refined
<1>4. ASSUME NEW c \in CtrlConns, OnTerminalInitCtrlStream(c) PROVE IInv' /\ Refined
  BY <1>4, InitCtrlKeepsIInv DEF OnTerminalInitCtrlStream, deviceVars, Refined
<1>5. ASSUME NEW d \in DataConns, NEW c \in CtrlConns, DataStream(d, c) PROVE IInv' /\ Refined
  BY <1>5, DataStreamStep
<1>6. CASE Tick
  BY <1>6, TickKeepsIInv DEF Tick, RemoveIdleConnections, deviceVars, Refined
<1>7. CASE UNCHANGED relayDeviceVars
  BY <1>7 DEF relayDeviceVars, deviceVars, bindingVars, Refined, IInv, TypeOK, Binding,
              Reports, GivenUp, CtrlLostOnlyByTimeout, Bound, Alive, Receives, Found
<1> QED BY <1>1, <1>2, <1>3, <1>4, <1>5, <1>6, <1>7 DEF Next

-----------------------------------------------------------------------------
\* The inductive invariant holds in every state of every behaviour.
THEOREM Invariance == Spec => []IInv
<1>1. Init => IInv
  BY InitIInv
<1>2. IInv /\ [Next]_relayDeviceVars => IInv'
  BY StepKeepsIInv
<1> QED BY <1>1, <1>2, PTL DEF Spec

\* Every variable of the device side keeps its type.
THEOREM TypeCorrect == Spec => []TypeOK
<1>1. IInv => TypeOK BY DEF IInv
<1> QED BY <1>1, Invariance, PTL

\* A bound device and its control connection always name each other.
THEOREM BindingsAreMutual == Spec => []CtrlBinding
<1>1. IInv => CtrlBinding BY DEF IInv, Binding, CtrlBinding
<1> QED BY <1>1, Invariance, PTL

\* The assertions of the proxy handlers on a device's connections hold for
\* every device a proxy can have been told of.
THEOREM AssertedConnectionsAreSet == Spec => []AnnouncedIsBound
<1>1. IInv => AnnouncedIsBound BY DEF IInv, Binding, Reports, AnnouncedIsBound
<1> QED BY <1>1, Invariance, PTL

\* The three together: devices and their connections agree in every state.
THEOREM DevicesAreConsistent == Spec => []DevicesConsistent
<1>1. TypeOK /\ CtrlBinding /\ AnnouncedIsBound => DevicesConsistent
  BY DEF DevicesConsistent
<1> QED BY <1>1, TypeCorrect, BindingsAreMutual, AssertedConnectionsAreSet, PTL

\* An alive device loses its control connection only to its time limit, or
\* because that connection was closed before the device was bound to it.
THEOREM CtrlIsLostOnlyByTimeout == Spec => []CtrlLostOnlyByTimeout
<1>1. IInv => CtrlLostOnlyByTimeout BY DEF IInv
<1> QED BY <1>1, Invariance, PTL

\* The reports about the devices implement DevicePresence.
THEOREM ReportsImplementPresence == Spec => PresenceSpec
<1>1. Init => Presence!Init
  BY DEF Init, Presence!Init
<1>2. IInv /\ [Next]_relayDeviceVars => [Presence!Next]_reported
  BY StepKeepsIInv DEF Refined
<1> QED BY <1>1, <1>2, Invariance, PTL DEF Spec, PresenceSpec, Presence!Spec

-----------------------------------------------------------------------------
(* Relayed connections: RelayService *)

\* id was given out.
GivenOut(id) == id.gen <= generation[id.slot]

\* A context holds what was asked for, and the name its announcement calls for.
ContextsAgree ==
    \A r \in RelayIds : Created(r) =>
        /\ asked[context[r].proxySide] # Nothing
        /\ asked[context[r].proxySide].proxy = context[r].proxy
        /\ GivenOut(context[r].proxy)
        /\ context[r].shared = IF announced[r] = Nothing
                               THEN asked[context[r].proxySide].port
                               ELSE announced[r]

\* The device was told of contexts only, opens only what it was told to, and is
\* told to open what it was asked the address of only by its answer.
DeviceWasTold ==
    /\ \A m \in toldDevice : Created(m.relaySide)
    /\ \A r \in RelayIds : announced[r] # Nothing =>
          \E m \in toldDevice : m.cmd = "Create" /\ m.relaySide = r
    /\ \A m, k \in toldDevice :
          (m.cmd = "DnsQuery" /\ k.cmd = "Create" /\ m.relaySide = k.relaySide)
              => m.relaySide \in dnsAnswered

\* The proxy was told of announced contexts only, under its own name for them;
\* the connection that asked, if it is still there, was told of all of them.
ProxyWasTold ==
    /\ \A t \in toldProxy :
          /\ announced[t.relaySide] # Nothing
          /\ context[t.relaySide].proxySide = t.proxySide
    /\ \A r \in RelayIds :
          (announced[r] # Nothing /\ ProxyFound(context[r].proxy))
              => ProxyKnows(r, context[r].proxySide)

\* A connection that exists was counted.
ProxiesCounted == \A s \in ProxySlots : proxyList[s] # "Free" => generation[s] # 0

\* What the last step posted.
PostedRight == ReplyGoesHome /\ NamesAreRight /\ TrafficFollowsEstablished

ServiceIInv ==
    /\ IInv
    /\ ServiceTypeOK /\ ProxiesCounted
    /\ ContextsAgree /\ DeviceWasTold /\ ProxyWasTold
    /\ PostedRight

-----------------------------------------------------------------------------
(* Records *)

\* A context, a request and a device's name are something.
LEMMA SomethingFacts ==
    /\ \A x \in Contexts : x # Nothing
    /\ \A x \in Requests : x # Nothing
    /\ \A x \in DeviceSideIds : x # Nothing
<1>1. \A x \in Contexts : x # Nothing
  BY DEF Contexts, Nothing
<1>2. \A x \in Requests : x # Nothing
  BY DEF Requests, Nothing
<1> QED BY <1>1, <1>2, NothingAssumption

LEMMA ContextType ==
    ASSUME ServiceTypeOK, NEW r \in RelayIds, Created(r)
    PROVE  /\ context[r] \in Contexts
           /\ context[r].device \in Devices
           /\ context[r].proxy \in ProxyIds
           /\ context[r].proxySide \in ProxySideIds
           /\ context[r].shared \in Ports \cup DeviceSideIds
BY DEF ServiceTypeOK, Created, Contexts

LEMMA ProxyIdFacts ==
    ASSUME NEW id \in ProxyIds
    PROVE  /\ id.slot \in ProxySlots /\ id.gen \in 1..MaxGeneration
           /\ id = [slot |-> id.slot, gen |-> id.gen]
BY DEF ProxyIds

\* The id of a connection that exists.
LEMMA ProxyIdOfIsId ==
    ASSUME ProxyTypeOK, ProxiesCounted, NEW s \in ProxySlots, proxyList[s] # "Free"
    PROVE  ProxyIdOf(s) \in ProxyIds
BY MaxGenerationAssumption DEF ProxyTypeOK, ProxiesCounted, ProxyIds, ProxyIdOf

-----------------------------------------------------------------------------
(* The proxies' connections *)

\* Connections come and go, but no id is given out twice: one that was given
\* out is not found again once it is gone.
ProxiesMoveOn ==
    \A id \in ProxyIds :
        GivenOut(id) => GivenOut(id)' /\ (ProxyFound(id)' => ProxyFound(id))

LEMMA CloseProxyMoves ==
    ASSUME ProxyTypeOK, ProxiesCounted, NEW s \in ProxySlots, ProxyReceives(s), CloseProxy(s)
    PROVE  ProxyTypeOK' /\ ProxiesCounted' /\ ProxiesMoveOn
<1> USE DEF CloseProxy, ProxyReceives, ProxyTypeOK
<1>1. ProxyTypeOK'
  OBVIOUS
<1>2. ProxiesCounted'
  BY DEF ProxiesCounted
<1>3. ProxiesMoveOn
  BY ProxyIdFacts DEF ProxiesMoveOn, GivenOut, ProxyFound
<1> QED BY <1>1, <1>2, <1>3

LEMMA ProxyKeepAliveMoves ==
    ASSUME ProxyTypeOK, ProxiesCounted, NEW s \in ProxySlots, NEW ready,
           proxyList[s] # "Free", ProxyKeepAlive(s, ready),
           UNCHANGED <<generation, proxyMarked, proxyClosed>>,
           ChallengeReady' \in SUBSET ProxySlots
    PROVE  ProxyTypeOK' /\ ProxiesCounted' /\ ProxiesMoveOn
<1>1. /\ proxyList' \in [ProxySlots -> {"Free", "Challenge", "Idle", "Kill"}]
      /\ \A t \in ProxySlots : proxyList'[t] = "Kill" <=> proxyList[t] = "Kill"
      /\ \A t \in ProxySlots : proxyList'[t] = "Free" <=> proxyList[t] = "Free"
  BY DEF ProxyKeepAlive, ProxyTypeOK
<1>2. ProxyTypeOK'
  BY <1>1 DEF ProxyTypeOK
<1>3. ProxiesCounted'
  BY <1>1 DEF ProxiesCounted
<1>4. ProxiesMoveOn
  BY <1>1, ProxyIdFacts DEF ProxiesMoveOn, GivenOut, ProxyFound
<1> QED BY <1>2, <1>3, <1>4

LEMMA ProxyStepMoves ==
    ASSUME ProxyTypeOK, ProxiesCounted, ProxyNext
    PROVE  ProxyTypeOK' /\ ProxiesCounted' /\ ProxiesMoveOn
<1>1. ASSUME NEW s \in ProxySlots, AcceptProxy(s)
      PROVE  ProxyTypeOK' /\ ProxiesCounted' /\ ProxiesMoveOn
  <2>1. /\ proxyList[s] = "Free" /\ generation[s] < MaxGeneration /\ generation[s] \in Nat
        /\ proxyList' \in [ProxySlots -> {"Free", "Challenge", "Idle", "Kill"}]
        /\ generation' \in [ProxySlots -> 0..MaxGeneration]
        /\ proxyList'[s] = "Challenge" /\ generation'[s] = generation[s] + 1
        /\ \A t \in ProxySlots : t # s =>
              proxyList'[t] = proxyList[t] /\ generation'[t] = generation[t]
        /\ UNCHANGED <<ChallengeReady, proxyMarked, proxyClosed>>
    BY <1>1, MaxGenerationAssumption DEF AcceptProxy, ProxyTypeOK
  <2>2. ProxyTypeOK'
    BY <2>1 DEF ProxyTypeOK
  <2>3. ProxiesCounted'
    BY <2>1 DEF ProxiesCounted
  <2>4. ProxiesMoveOn
    BY <2>1, ProxyIdFacts DEF ProxiesMoveOn, GivenOut, ProxyFound, ProxyTypeOK
  <2> QED BY <2>2, <2>3, <2>4
<1>2. ASSUME NEW s \in ProxySlots, OnProxyKeepAlive(s)
      PROVE  ProxyTypeOK' /\ ProxiesCounted' /\ ProxiesMoveOn
  BY <1>2, ProxyKeepAliveMoves DEF OnProxyKeepAlive, ProxyReceives, ProxyTypeOK
<1>3. ASSUME NEW s \in ProxySlots, OnProxyChallenge(s)
      PROVE  ProxyTypeOK' /\ ProxiesCounted' /\ ProxiesMoveOn
  <2>1. PICK ready : ready = ChallengeReady' /\ ready \in SUBSET ProxySlots
    BY <1>3 DEF OnProxyChallenge, ProxyTypeOK
  <2> QED BY <1>3, <2>1, ProxyKeepAliveMoves DEF OnProxyChallenge, ProxyReceives
<1>4. ASSUME NEW s \in ProxySlots, OnProxyClose(s)
      PROVE  ProxyTypeOK' /\ ProxiesCounted' /\ ProxiesMoveOn
  BY <1>4, CloseProxyMoves DEF OnProxyClose
<1>5. ASSUME NEW T \in SUBSET ProxySlots, ProxyTickWith(T)
      PROVE  ProxyTypeOK' /\ ProxiesCounted' /\ ProxiesMoveOn
  <2> USE <1>5 DEF ProxyTickWith, DestroyProxies
  <2>1. ProxyTypeOK'
    BY DEF ProxyTypeOK
  <2>2. ProxiesCounted'
    BY DEF ProxiesCounted
  <2>3. ProxiesMoveOn
    BY ProxyIdFacts DEF ProxiesMoveOn, GivenOut, ProxyFound
  <2> QED BY <2>1, <2>2, <2>3
<1> QED BY <1>1, <1>2, <1>3, <1>4, <1>5 DEF ProxyNext, ProxyTick

-----------------------------------------------------------------------------
(* What a step posts *)

\* The kinds of message are apart: the device's carry a name, the proxy's do not.
LEMMA MessageKinds ==
    /\ \A m \in ProxyMessages : m \notin DeviceMessages
    /\ \A m \in ProxyMessages : m.to \in ProxyIds
<1>1. ASSUME NEW m \in [to : ProxyIds, cmd : States \cup {"PostData"}, relaySide : RelayIds,
                        proxySide : ProxySideIds]
      PROVE  m \notin DeviceMessages /\ m.to \in ProxyIds
  BY DEF DeviceMessages
<1>2. ASSUME NEW m \in [to : ProxyIds, cmd : {"PoolFull", "DestroyConnection"},
                        proxySide : ProxySideIds]
      PROVE  m \notin DeviceMessages /\ m.to \in ProxyIds
  BY DEF DeviceMessages
<1> QED BY <1>1, <1>2 DEF ProxyMessages

\* A step that posts nothing.
LEMMA NothingPosted ==
    ASSUME posted' = {}
    PROVE  PostedRight' /\ posted' \in SUBSET (ProxyMessages \cup DeviceMessages)
BY DEF PostedRight, ReplyGoesHome, NamesAreRight, TrafficFollowsEstablished

\* At most one message to a device, with the name it is given.
AtMostOneMessage(cmd, r, name) ==
    /\ toldProxy' = toldProxy
    /\ \/ posted' = {} /\ toldDevice' = toldDevice
       \/ \E m \in DeviceMessages :
             /\ m.cmd = cmd /\ m.relaySide = r /\ m.name = name
             /\ posted' = {m}
             /\ toldDevice' = IF cmd \in {"DnsQuery", "Create"}
                              THEN toldDevice \cup {m} ELSE toldDevice

\* What PostToDevice does.
LEMMA DevicePosting ==
    ASSUME NEW c, NEW cmd \in {"DnsQuery", "Create", "PostData", "Destroy", "Notify"},
           NEW r \in RelayIds, NEW name \in Ports \cup DeviceSideIds,
           PostToDevice(c, cmd, r, name)
    PROVE  AtMostOneMessage(cmd, r, name)
<1> USE DEF AtMostOneMessage
<1>1. CASE PostNothing
  BY <1>1 DEF PostNothing
<1>2. ASSUME NEW to \in DeviceConns,
             posted' = {[to |-> to, cmd |-> cmd, relaySide |-> r, name |-> name]},
             toldDevice' = IF cmd \in {"DnsQuery", "Create"}
                THEN toldDevice \cup {[to |-> to, cmd |-> cmd, relaySide |-> r, name |-> name]}
                ELSE toldDevice,
             UNCHANGED toldProxy
      PROVE  \E m \in DeviceMessages :
                    /\ m.cmd = cmd /\ m.relaySide = r /\ m.name = name
                    /\ posted' = {m}
                    /\ toldDevice' = IF cmd \in {"DnsQuery", "Create"}
                                     THEN toldDevice \cup {m} ELSE toldDevice
  <2> DEFINE m == [to |-> to, cmd |-> cmd, relaySide |-> r, name |-> name]
  <2>1. m \in DeviceMessages /\ m.cmd = cmd /\ m.relaySide = r /\ m.name = name
    BY DEF DeviceMessages
  <2> QED BY <1>2, <2>1
<1> QED BY <1>1, <1>2 DEF PostToDevice

\* What PostToProxy does: at most one message, to the connection that the
\* context names if it is still there.
LEMMA ProxyPosting ==
    ASSUME ServiceTypeOK, NEW r \in RelayIds, Created(r),
           NEW cmd \in States \cup {"PostData"}, PostToProxy(cmd, r)
    PROVE  /\ toldDevice' = toldDevice
           /\ \/ /\ ~ProxyFound(context[r].proxy)
                 /\ posted' = {} /\ toldProxy' = toldProxy
              \/ /\ ProxyFound(context[r].proxy)
                 /\ posted' = {[to |-> context[r].proxy, cmd |-> cmd, relaySide |-> r,
                                proxySide |-> context[r].proxySide]}
                 /\ toldProxy' = IF cmd = "ESTABLISHED"
                       THEN toldProxy \cup {[relaySide |-> r, proxySide |-> context[r].proxySide]}
                       ELSE toldProxy
<1>1. context[r].proxy \in ProxyIds
  BY ContextType
<1>2. ProxyFound(context[r].proxy) => ProxyIdOf(context[r].proxy.slot) = context[r].proxy
  BY <1>1, ProxyIdFacts DEF ProxyFound, ProxyIdOf
<1> QED BY <1>2 DEF PostToProxy, PostNothing

-----------------------------------------------------------------------------
(* The steps *)

LEMMA DevicesStay ==
    ASSUME IInv, UNCHANGED relayDeviceVars
    PROVE  IInv'
BY StepKeepsIInv

LEMMA ProxiesStay ==
    ASSUME ProxyTypeOK, ProxiesCounted, UNCHANGED proxyVars
    PROVE  ProxyTypeOK' /\ ProxiesCounted' /\ ProxiesMoveOn
BY DEF proxyVars, ProxyTypeOK, ProxiesCounted, ProxiesMoveOn, GivenOut, ProxyFound

\* Contexts and what was told of them survive whatever the connections do.
LEMMA TalesStay ==
    ASSUME ServiceIInv, ProxiesMoveOn, UNCHANGED <<contextVars, deviceSideVars>>,
           UNCHANGED <<toldDevice, toldProxy>>
    PROVE  ContextsAgree' /\ DeviceWasTold' /\ ProxyWasTold'
<1> USE DEF ServiceIInv, contextVars, deviceSideVars, Created
<1>1. \A r \in RelayIds : Created(r) => context[r].proxy \in ProxyIds
  BY ContextType
<1>2. \A r \in RelayIds : Created(r) =>
         /\ GivenOut(context[r].proxy)'
         /\ ProxyFound(context[r].proxy)' => ProxyFound(context[r].proxy)
  <2> SUFFICES ASSUME NEW r \in RelayIds, Created(r)
               PROVE  /\ GivenOut(context[r].proxy)'
                      /\ ProxyFound(context[r].proxy)' => ProxyFound(context[r].proxy)
    OBVIOUS
  <2>1. PICK p \in ProxyIds : p = context[r].proxy
    BY <1>1
  <2>2. GivenOut(p)
    BY <2>1 DEF ContextsAgree
  <2>3. GivenOut(p)' /\ (ProxyFound(p)' => ProxyFound(p))
    BY <2>2 DEF ProxiesMoveOn
  <2>4. context'[r].proxy = p
    BY <2>1
  <2> QED BY <2>1, <2>3, <2>4 DEF GivenOut, ProxyFound
<1>3. ContextsAgree'
  BY <1>2 DEF ContextsAgree
<1>4. DeviceWasTold'
  BY DEF DeviceWasTold
<1>5. ProxyWasTold'
  <2>1. \A r \in RelayIds : announced[r] # Nothing => Created(r)
    BY DEF DeviceWasTold
  <2> QED BY <1>2, <2>1 DEF ProxyWasTold, ProxyKnows
<1> QED BY <1>3, <1>4, <1>5

\* A context that was not created was told to nobody, and has not been opened.
LEMMA FreshContext ==
    ASSUME ServiceIInv, NEW r \in RelayIds, ~Created(r)
    PROVE  /\ announced[r] = Nothing
           /\ \A m \in toldDevice : m.relaySide # r
           /\ \A t \in toldProxy : t.relaySide # r
<1>1. \A m \in toldDevice : m.relaySide # r
  BY DEF ServiceIInv, DeviceWasTold
<1>2. announced[r] = Nothing
  BY <1>1 DEF ServiceIInv, DeviceWasTold
<1>3. \A t \in toldProxy : t.relaySide # r
  BY <1>2 DEF ServiceIInv, ProxyWasTold
<1> QED BY <1>1, <1>2, <1>3

\* What a proxy that asks for x is known by.
LEMMA AskingProxy ==
    ASSUME ServiceIInv, NEW s \in ProxySlots, NEW x \in ProxySideIds, NEW v \in Devices,
           NEW port \in Ports, Asks(s, x, v, port)
    PROVE  \E p \in ProxyIds :
              /\ p = ProxyIdOf(s) /\ GivenOut(p)
              /\ asked'[x] = [proxy |-> p, port |-> port]
              /\ \A y \in ProxySideIds : y # x => asked'[y] = asked[y]
              /\ asked' \in [ProxySideIds -> Requests \cup {Nothing}]
              /\ \A r \in RelayIds : Created(r) => context[r].proxySide # x
<1> USE DEF ServiceIInv
<1>1. ProxyIdOf(s) \in ProxyIds
  BY ProxyIdOfIsId DEF Asks, ProxyReceives, ServiceTypeOK
<1>2. PICK p \in ProxyIds : p = ProxyIdOf(s) /\ p.slot = s /\ p.gen = generation[s]
  BY <1>1 DEF ProxyIdOf
<1>3. GivenOut(p)
  BY <1>2 DEF GivenOut, ServiceTypeOK, ProxyTypeOK
<1>4. asked' = [asked EXCEPT ![x] = [proxy |-> p, port |-> port]] /\ asked[x] = Nothing
  BY <1>2 DEF Asks
<1>5. [proxy |-> p, port |-> port] \in Requests
  BY DEF Requests
<1>6. \A r \in RelayIds : Created(r) => context[r].proxySide # x
  BY <1>4 DEF ContextsAgree
<1> QED BY <1>2, <1>3, <1>4, <1>5, <1>6 DEF ServiceTypeOK

\* A request that is refused leaves every context as it was.
LEMMA RefusedKeepsIInv ==
    ASSUME ServiceIInv, NEW s \in ProxySlots, NEW x \in ProxySideIds, NEW v \in Devices,
           NEW port \in Ports, CreateRefused(s, x, v, port)
    PROVE  ServiceIInv'
<1> USE DEF ServiceIInv
<1>1. PICK p \in ProxyIds :
         /\ p = ProxyIdOf(s) /\ GivenOut(p)
         /\ asked'[x] = [proxy |-> p, port |-> port]
         /\ \A y \in ProxySideIds : y # x => asked'[y] = asked[y]
         /\ asked' \in [ProxySideIds -> Requests \cup {Nothing}]
         /\ \A r \in RelayIds : Created(r) => context[r].proxySide # x
  BY AskingProxy DEF CreateRefused
<1>2. PICK cmd \in {"PoolFull", "DestroyConnection"} :
         posted' = {[to |-> p, cmd |-> cmd, proxySide |-> x]}
  BY <1>1 DEF CreateRefused, Reply
<1>3. /\ UNCHANGED <<relayDeviceVars, proxyVars, context, dnsAnswered, announced>>
      /\ UNCHANGED <<toldDevice, toldProxy>>
  BY DEF CreateRefused, Reply, deviceSideVars
<1>4. IInv' /\ ProxyTypeOK' /\ ProxiesCounted'
  BY <1>3, DevicesStay, ProxiesStay DEF ServiceTypeOK
<1>5. posted' \in SUBSET ProxyMessages
  BY <1>2 DEF ProxyMessages
<1>6. ServiceTypeOK'
  BY <1>1, <1>3, <1>4, <1>5 DEF ServiceTypeOK, IInv
<1>7. \A r \in RelayIds : Created(r) => asked'[context[r].proxySide] = asked[context[r].proxySide]
  BY <1>1, ContextType
<1>8. ContextsAgree'
  BY <1>3, <1>7 DEF ContextsAgree, Created, GivenOut, proxyVars
<1>9. DeviceWasTold' /\ ProxyWasTold'
  BY <1>3 DEF DeviceWasTold, ProxyWasTold, Created, ProxyKnows, ProxyFound, proxyVars
<1>10. PostedRight'
  <2>1. NamesAreRight'
    BY <1>5, MessageKinds DEF NamesAreRight
  <2>2. ReplyGoesHome'
    BY <1>1, <1>2 DEF ReplyGoesHome
  <2>3. TrafficFollowsEstablished'
    BY <1>2 DEF TrafficFollowsEstablished
  <2> QED BY <2>1, <2>2, <2>3 DEF PostedRight
<1> QED BY <1>4, <1>6, <1>8, <1>9, <1>10

\* A context is created, and at most the device is told of it.
LEMMA CreatedKeepsIInv ==
    ASSUME ServiceIInv, NEW s \in ProxySlots, NEW x \in ProxySideIds, NEW v \in Devices,
           NEW port \in Ports, NEW r \in RelayIds,
           Asks(s, x, v, port), CreateContext(r, s, x, v, port),
           UNCHANGED <<relayDeviceVars, deviceSideVars, toldProxy>>,
           ProxyTypeOK', ProxiesCounted', ProxiesMoveOn,
           \/ posted' = {} /\ toldDevice' = toldDevice
           \/ \E m \in DeviceMessages :
                 /\ m.cmd \in {"Create", "DnsQuery"} /\ m.relaySide = r /\ m.name = port
                 /\ posted' = {m} /\ toldDevice' = toldDevice \cup {m}
    PROVE  ServiceIInv'
<1> USE DEF ServiceIInv
<1>1. PICK p \in ProxyIds :
         /\ p = ProxyIdOf(s) /\ GivenOut(p)
         /\ asked'[x] = [proxy |-> p, port |-> port]
         /\ \A y \in ProxySideIds : y # x => asked'[y] = asked[y]
         /\ asked' \in [ProxySideIds -> Requests \cup {Nothing}]
         /\ \A q \in RelayIds : Created(q) => context[q].proxySide # x
  BY AskingProxy
<1>2. PICK new \in Contexts :
         /\ new.proxy = p /\ new.proxySide = x /\ new.shared = port
         /\ context' = [context EXCEPT ![r] = new]
  <2>1. [device |-> v, proxy |-> p, proxySide |-> x, shared |-> port] \in Contexts
    BY DEF Contexts
  <2> QED BY <1>1, <2>1 DEF CreateContext
<1>3. new # Nothing /\ [proxy |-> p, port |-> port] # Nothing
  <2>1. [proxy |-> p, port |-> port] \in Requests
    BY DEF Requests
  <2> QED BY <2>1, SomethingFacts
<1>4. /\ context'[r] = new
      /\ \A q \in RelayIds : q # r => context'[q] = context[q]
      /\ context' \in [RelayIds -> Contexts \cup {Nothing}]
  BY <1>2 DEF ServiceTypeOK
<1>5. /\ ~Created(r) /\ announced[r] = Nothing
      /\ \A m \in toldDevice : m.relaySide # r
      /\ \A t \in toldProxy : t.relaySide # r
  BY FreshContext DEF CreateContext
<1>6. UNCHANGED <<dnsAnswered, announced, toldProxy>>
  BY DEF deviceSideVars
<1>7. IInv'
  BY DevicesStay
<1>8. toldDevice' \in SUBSET DeviceMessages /\ posted' \in SUBSET DeviceMessages
  BY DEF ServiceTypeOK
<1>9. ServiceTypeOK'
  BY <1>1, <1>4, <1>6, <1>7, <1>8 DEF ServiceTypeOK, IInv
<1>10. ContextsAgree'
  <2> SUFFICES ASSUME NEW q \in RelayIds, Created(q)'
               PROVE  /\ asked'[context'[q].proxySide] # Nothing
                      /\ asked'[context'[q].proxySide].proxy = context'[q].proxy
                      /\ GivenOut(context[q].proxy)'
                      /\ context'[q].shared = IF announced'[q] = Nothing
                               THEN asked'[context'[q].proxySide].port
                               ELSE announced'[q]
    BY DEF ContextsAgree
  <2>1. CASE q = r
    <3>1. GivenOut(p)'
      BY <1>1 DEF ProxiesMoveOn
    <3> QED BY <1>1, <1>2, <1>3, <1>4, <1>5, <1>6, <2>1, <3>1 DEF GivenOut
  <2>2. CASE q # r
    <3>1. Created(q) /\ context'[q] = context[q]
      BY <1>4, <2>2 DEF Created
    <3>2. PICK o \in ProxyIds : o = context[q].proxy
      BY <3>1, ContextType
    <3>3. GivenOut(o)'
      BY <3>1, <3>2 DEF ProxiesMoveOn, ContextsAgree
    <3>4. asked'[context[q].proxySide] = asked[context[q].proxySide]
      BY <1>1, <3>1, ContextType
    <3> QED BY <1>6, <3>1, <3>2, <3>3, <3>4 DEF ContextsAgree, GivenOut
  <2> QED BY <2>1, <2>2
<1>11. DeviceWasTold'
  <2>1. \A m \in toldDevice : Created(m.relaySide)'
    BY <1>4, <1>5 DEF DeviceWasTold, Created, ServiceTypeOK, DeviceMessages
  <2>2. Created(r)'
    BY <1>3, <1>4 DEF Created
  <2>3. \A m \in toldDevice' : m \in toldDevice \/ (m.relaySide = r /\ toldDevice' = toldDevice \cup {m})
    OBVIOUS
  <2>4. \A m \in toldDevice' : Created(m.relaySide)'
    BY <2>1, <2>2, <2>3 DEF Created
  <2>5. \A m, k \in toldDevice' :
          (m.cmd = "DnsQuery" /\ k.cmd = "Create" /\ m.relaySide = k.relaySide)
              => m.relaySide \in dnsAnswered'
    BY <1>5, <1>6, <2>3 DEF DeviceWasTold
  <2>6. toldDevice \subseteq toldDevice'
    OBVIOUS
  <2>7. \A q \in RelayIds : announced'[q] # Nothing =>
          \E m \in toldDevice' : m.cmd = "Create" /\ m.relaySide = q
    BY <1>6, <2>6 DEF DeviceWasTold
  <2> QED BY <2>4, <2>5, <2>7 DEF DeviceWasTold
<1>12. ProxyWasTold'
  <2>1. \A t \in toldProxy' : /\ announced'[t.relaySide] # Nothing
                              /\ context'[t.relaySide].proxySide = t.proxySide
    BY <1>4, <1>5, <1>6 DEF ProxyWasTold, ServiceTypeOK
  <2>2. ASSUME NEW q \in RelayIds, announced'[q] # Nothing, ProxyFound(context[q].proxy)'
        PROVE  [relaySide |-> q, proxySide |-> context'[q].proxySide] \in toldProxy'
    <3>1. q # r /\ announced[q] # Nothing /\ context'[q] = context[q]
      BY <1>4, <1>5, <1>6, <2>2
    <3>2. Created(q)
      BY <3>1 DEF DeviceWasTold
    <3>3. PICK o \in ProxyIds : o = context[q].proxy
      BY <3>2, ContextType
    <3>4. ProxyFound(o)' => ProxyFound(o)
      BY <3>2, <3>3 DEF ProxiesMoveOn, ContextsAgree
    <3>5. ProxyFound(context[q].proxy)
      BY <2>2, <3>1, <3>3, <3>4 DEF ProxyFound
    <3> QED BY <1>6, <3>1, <3>5 DEF ProxyWasTold, ProxyKnows
  <2> QED BY <2>1, <2>2 DEF ProxyWasTold, ProxyKnows
<1>13. PostedRight'
  <2>1. CASE posted' = {}
    BY <2>1, NothingPosted
  <2>2. ASSUME NEW m \in DeviceMessages, m.cmd \in {"Create", "DnsQuery"}, m.relaySide = r,
               m.name = port, posted' = {m}
        PROVE  PostedRight'
    <3>1. NamesAreRight'
      BY <1>1, <1>2, <1>4, <2>2 DEF NamesAreRight
    <3>2. posted' \cap ProxyMessages = {}
      BY <2>2, MessageKinds
    <3> QED BY <3>1, <3>2 DEF PostedRight, ReplyGoesHome, TrafficFollowsEstablished
  <2> QED BY <2>1, <2>2
<1> QED BY <1>7, <1>9, <1>10, <1>11, <1>12, <1>13

\* What is known of a context whose name was announced.
LEMMA AnnouncedContext ==
    ASSUME ServiceIInv, NEW r \in RelayIds, announced[r] # Nothing
    PROVE  Created(r) /\ context[r].shared = announced[r]
<1>1. Created(r)
  BY DEF ServiceIInv, DeviceWasTold
<1> QED BY <1>1 DEF ServiceIInv, ContextsAgree

\* A step that changes only what the last step posted.
LEMMA PostKeepsIInv ==
    ASSUME ServiceIInv,
           UNCHANGED <<relayDeviceVars, proxyVars, contextVars, deviceSideVars>>,
           UNCHANGED <<toldDevice, toldProxy>>,
           posted' \in SUBSET (ProxyMessages \cup DeviceMessages), PostedRight'
    PROVE  ServiceIInv'
<1> USE DEF ServiceIInv
<1>1. IInv' /\ ProxyTypeOK' /\ ProxiesCounted' /\ ProxiesMoveOn
  BY DevicesStay, ProxiesStay DEF ServiceTypeOK
<1>2. ContextsAgree' /\ DeviceWasTold' /\ ProxyWasTold'
  BY <1>1, TalesStay
<1>3. ServiceTypeOK'
  BY <1>1 DEF ServiceTypeOK, IInv, contextVars, deviceSideVars
<1> QED BY <1>1, <1>2, <1>3

\* What the proxy sends on reaches the device under the device's own name.
LEMMA ForwardKeepsIInv ==
    ASSUME ServiceIInv, NEW r \in RelayIds, NEW x \in ProxySideIds, ProxyKnows(r, x),
           NEW cmd \in {"PostData", "Destroy", "Notify"}, ForwardToDevice(cmd, r)
    PROVE  ServiceIInv'
<1> USE DEF ServiceIInv
<1>1. announced[r] # Nothing
  BY DEF ProxyKnows, ProxyWasTold
<1>2. /\ context[r].shared = announced[r]
      /\ context[r].shared \in Ports \cup DeviceSideIds
  BY <1>1, AnnouncedContext, ContextType
<1>3. UNCHANGED <<relayDeviceVars, proxyVars, contextVars, deviceSideVars>>
  BY DEF ForwardToDevice
<1>4. /\ UNCHANGED <<toldDevice, toldProxy>>
      /\ \/ posted' = {}
         \/ \E m \in DeviceMessages :
               /\ m.cmd = cmd /\ m.relaySide = r /\ m.name = context[r].shared
               /\ posted' = {m}
  <2>1. CASE PostNothing
    BY <2>1 DEF PostNothing
  <2>2. CASE PostToDevice(DataConnection[context[r].device], cmd, r, context[r].shared)
    <3>1. PICK c \in {DataConnection[context[r].device]}, name \in Ports \cup DeviceSideIds :
             name = context[r].shared /\ PostToDevice(c, cmd, r, name)
      BY <1>2, <2>2
    <3>2. AtMostOneMessage(cmd, r, name)
      BY <3>1, DevicePosting
    <3> QED BY <3>1, <3>2 DEF AtMostOneMessage
  <2> QED BY <2>1, <2>2 DEF ForwardToDevice
<1>5. PostedRight' /\ posted' \in SUBSET (ProxyMessages \cup DeviceMessages)
  <2>1. CASE posted' = {}
    BY <2>1, NothingPosted
  <2>2. ASSUME NEW m \in DeviceMessages, m.cmd = cmd, m.relaySide = r,
               m.name = context[r].shared, posted' = {m}
        PROVE  PostedRight' /\ posted' \in SUBSET (ProxyMessages \cup DeviceMessages)
    <3>1. NamesAreRight'
      BY <1>2, <1>3, <2>2 DEF NamesAreRight, deviceSideVars
    <3>2. posted' \cap ProxyMessages = {}
      BY <2>2, MessageKinds
    <3> QED BY <2>2, <3>1, <3>2 DEF PostedRight, ReplyGoesHome, TrafficFollowsEstablished
  <2> QED BY <1>4, <2>1, <2>2
<1> QED BY <1>3, <1>4, <1>5, PostKeepsIInv

\* The device's answer to a DnsQuery comes before it is told to open the
\* connection, so that the context still holds the port.
LEMMA DnsRespKeepsIInv ==
    ASSUME ServiceIInv, NEW c \in CtrlConns, NEW r \in RelayIds, OnTerminalDnsQueryResp(c, r)
    PROVE  ServiceIInv'
<1> USE DEF ServiceIInv
<1>1. /\ r \notin dnsAnswered /\ dnsAnswered' = dnsAnswered \cup {r}
      /\ UNCHANGED <<relayDeviceVars, proxyVars, context, asked, announced>>
  BY DEF OnTerminalDnsQueryResp, contextVars
<1>2. PICK q \in toldDevice : q.cmd = "DnsQuery" /\ q.relaySide = r
  BY DEF OnTerminalDnsQueryResp
<1>3. /\ Created(r) /\ announced[r] = Nothing
      /\ \A k \in toldDevice : k.cmd = "Create" => k.relaySide # r
  BY <1>1, <1>2 DEF DeviceWasTold
<1>4. /\ context[r].shared = asked[context[r].proxySide].port
      /\ context[r].shared \in Ports \cup DeviceSideIds
  BY <1>3, ContextType DEF ContextsAgree
<1>5. /\ toldProxy' = toldProxy
      /\ \/ posted' = {} /\ toldDevice' = toldDevice
         \/ \E m \in DeviceMessages :
               /\ m.cmd = "Create" /\ m.relaySide = r /\ m.name = context[r].shared
               /\ posted' = {m} /\ toldDevice' = toldDevice \cup {m}
  <2>1. CASE PostNothing
    BY <2>1 DEF PostNothing
  <2>2. CASE PostToDevice(c, "Create", r, context[r].shared)
    <3>1. PICK name \in Ports \cup DeviceSideIds :
             name = context[r].shared /\ PostToDevice(c, "Create", r, name)
      BY <1>4, <2>2
    <3>2. AtMostOneMessage("Create", r, name)
      BY <3>1, DevicePosting
    <3> QED BY <3>1, <3>2 DEF AtMostOneMessage
  <2> QED BY <2>1, <2>2 DEF OnTerminalDnsQueryResp
<1>6. IInv' /\ ProxyTypeOK' /\ ProxiesCounted'
  BY <1>1, DevicesStay, ProxiesStay DEF ServiceTypeOK
<1>7. ServiceTypeOK'
  BY <1>1, <1>5, <1>6 DEF ServiceTypeOK, IInv
<1>8. ContextsAgree' /\ ProxyWasTold'
  BY <1>1, <1>5 DEF ContextsAgree, ProxyWasTold, Created, GivenOut, ProxyKnows, ProxyFound,
     proxyVars
<1>9. DeviceWasTold'
  <2>1. \A m \in toldDevice' :
           m \in toldDevice \/ (m.relaySide = r /\ m.cmd = "Create")
    BY <1>5
  <2>2. toldDevice \subseteq toldDevice'
    BY <1>5
  <2>3. \A m \in toldDevice' : Created(m.relaySide)'
    BY <1>1, <1>3, <2>1 DEF DeviceWasTold, Created
  <2>4. \A s \in RelayIds : announced'[s] # Nothing =>
           \E m \in toldDevice' : m.cmd = "Create" /\ m.relaySide = s
    BY <1>1, <2>2 DEF DeviceWasTold
  <2>5. \A m, k \in toldDevice' :
          (m.cmd = "DnsQuery" /\ k.cmd = "Create" /\ m.relaySide = k.relaySide)
              => m.relaySide \in dnsAnswered'
    BY <1>1, <2>1 DEF DeviceWasTold
  <2> QED BY <2>3, <2>4, <2>5 DEF DeviceWasTold
<1>10. PostedRight'
  <2>1. CASE posted' = {}
    BY <2>1, NothingPosted
  <2>2. ASSUME NEW m \in DeviceMessages, m.cmd = "Create", m.relaySide = r,
               m.name = context[r].shared, posted' = {m}
        PROVE  PostedRight'
    <3>1. NamesAreRight'
      BY <1>1, <1>4, <2>2 DEF NamesAreRight
    <3>2. posted' \cap ProxyMessages = {}
      BY <2>2, MessageKinds
    <3> QED BY <3>1, <3>2 DEF PostedRight, ReplyGoesHome, TrafficFollowsEstablished
  <2> QED BY <1>5, <2>1, <2>2
<1> QED BY <1>6, <1>7, <1>8, <1>9, <1>10

\* A message to the proxy goes to the connection that asked, and if it is about
\* traffic that connection was told before that the connection is established.
LEMMA ProxyPostIsRight ==
    ASSUME ServiceIInv, NEW r \in RelayIds, Created(r), NEW cmd \in States \cup {"PostData"},
           PostToProxy(cmd, r), asked' = asked,
           cmd \in {"PostData", "UPDATE_TRANSFER"} => announced[r] # Nothing
    PROVE  PostedRight' /\ posted' \in SUBSET (ProxyMessages \cup DeviceMessages)
<1> USE DEF ServiceIInv
<1>1. CASE posted' = {}
  BY <1>1, NothingPosted
<1>2. CASE posted' # {}
  <2>1. PICK m \in ProxyMessages :
           /\ m.to = context[r].proxy /\ m.cmd = cmd /\ m.relaySide = r
           /\ m.proxySide = context[r].proxySide
           /\ posted' = {m} /\ ProxyFound(context[r].proxy)
    <3>1. [to |-> context[r].proxy, cmd |-> cmd, relaySide |-> r,
           proxySide |-> context[r].proxySide] \in ProxyMessages
      BY ContextType DEF ProxyMessages
    <3> QED BY <1>2, <3>1, ProxyPosting
  <2>2. NamesAreRight'
    BY <2>1, MessageKinds DEF NamesAreRight
  <2>3. ReplyGoesHome'
    BY <2>1 DEF ReplyGoesHome, ContextsAgree
  <2>4. TrafficFollowsEstablished'
    <3>1. cmd \in {"PostData", "UPDATE_TRANSFER"} => ProxyKnows(r, context[r].proxySide)
      BY <2>1 DEF ProxyWasTold
    <3>2. toldProxy \subseteq toldProxy'
      BY ProxyPosting
    <3> QED BY <2>1, <3>1, <3>2 DEF TrafficFollowsEstablished, ProxyKnows
  <2> QED BY <2>1, <2>2, <2>3, <2>4 DEF PostedRight
<1> QED BY <1>1, <1>2

LEMMA UpdateKeepsIInv ==
    ASSUME ServiceIInv, NEW d \in DataConns, NEW r \in RelayIds,
           \/ OnTerminalPostData(d, r)
           \/ \E state \in {"UPDATE_TRANSFER", "CLOSED"} : TargetConnectionUpdate(d, r, state)
    PROVE  ServiceIInv'
<1> USE DEF ServiceIInv
<1>1. PICK cmd \in {"PostData", "UPDATE_TRANSFER", "CLOSED"} :
         /\ ToldToOpen(d, r) /\ PostToProxy(cmd, r)
         /\ cmd \in {"PostData", "UPDATE_TRANSFER"} => announced[r] # Nothing
         /\ UNCHANGED <<relayDeviceVars, proxyVars, contextVars, deviceSideVars>>
  BY DEF OnTerminalPostData, TargetConnectionUpdate
<1>2. Created(r)
  BY <1>1 DEF ToldToOpen, DeviceWasTold
<1>3. PostedRight' /\ posted' \in SUBSET (ProxyMessages \cup DeviceMessages)
  BY <1>1, <1>2, ProxyPostIsRight DEF States, contextVars
<1>4. UNCHANGED <<toldDevice, toldProxy>>
  BY <1>1, <1>2, ProxyPosting DEF States
<1> QED BY <1>1, <1>3, <1>4, PostKeepsIInv

\* The device's name takes the place of the port, and the proxy is told, or
\* is gone for ever.
LEMMA EstablishedKeepsIInv ==
    ASSUME ServiceIInv, NEW d \in DataConns, NEW r \in RelayIds, NEW name \in DeviceSideIds,
           TargetConnectionEstablished(d, r, name)
    PROVE  ServiceIInv'
<1> USE DEF ServiceIInv
<1>1. /\ ToldToOpen(d, r) /\ announced[r] = Nothing
      /\ announced' = [announced EXCEPT ![r] = name]
      /\ context' = [context EXCEPT ![r].shared = name]
      /\ PostToProxy("ESTABLISHED", r)
      /\ UNCHANGED <<relayDeviceVars, proxyVars, asked, dnsAnswered>>
  BY DEF TargetConnectionEstablished
<1>2. Created(r) /\ \E m \in toldDevice : m.cmd = "Create" /\ m.relaySide = r
  BY <1>1 DEF ToldToOpen, DeviceWasTold
<1>3. name # Nothing
  BY SomethingFacts
<1>4. PICK new \in Contexts :
         /\ new.device = context[r].device /\ new.proxy = context[r].proxy
         /\ new.proxySide = context[r].proxySide /\ new.shared = name
         /\ context'[r] = new
  <2>1. context[r] \in Contexts
    BY <1>2, ContextType
  <2>2. [context[r] EXCEPT !.shared = name] \in Contexts
    BY <2>1 DEF Contexts
  <2> QED BY <1>1, <2>1, <2>2 DEF ServiceTypeOK, Contexts
<1>5. /\ \A q \in RelayIds : q # r => context'[q] = context[q] /\ announced'[q] = announced[q]
      /\ context' \in [RelayIds -> Contexts \cup {Nothing}]
      /\ announced' \in [RelayIds -> DeviceSideIds \cup {Nothing}]
      /\ announced'[r] = name
  BY <1>1, <1>4 DEF ServiceTypeOK
<1>6. /\ toldDevice' = toldDevice
      /\ \/ /\ ~ProxyFound(context[r].proxy)
            /\ toldProxy' = toldProxy
         \/ /\ ProxyFound(context[r].proxy)
            /\ toldProxy'
                  = toldProxy \cup {[relaySide |-> r, proxySide |-> context[r].proxySide]}
  BY <1>1, <1>2, ProxyPosting DEF States
<1>7. PostedRight' /\ posted' \in SUBSET (ProxyMessages \cup DeviceMessages)
  BY <1>1, <1>2, ProxyPostIsRight DEF States
<1>8. IInv' /\ ProxyTypeOK' /\ ProxiesCounted'
  BY <1>1, DevicesStay, ProxiesStay DEF ServiceTypeOK
<1>9. ServiceTypeOK'
  <2>1. toldProxy' \in SUBSET [relaySide : RelayIds, proxySide : ProxySideIds]
    BY <1>2, <1>6, ContextType DEF ServiceTypeOK
  <2> QED BY <1>1, <1>5, <1>6, <1>7, <1>8, <2>1 DEF ServiceTypeOK, IInv
<1>10. new # Nothing
  BY SomethingFacts
<1>11. \A q \in RelayIds : Created(q)' <=> Created(q)
  BY <1>2, <1>4, <1>5, <1>10 DEF Created
<1>12. ContextsAgree'
  BY <1>1, <1>2, <1>3, <1>4, <1>5, <1>11 DEF ContextsAgree, GivenOut, proxyVars
<1>13. DeviceWasTold'
  <2>1. \A m \in toldDevice : m.relaySide \in RelayIds
    BY DEF ServiceTypeOK, DeviceMessages
  <2>2. \A m \in toldDevice' : Created(m.relaySide)'
    BY <1>6, <1>11, <2>1 DEF DeviceWasTold
  <2>3. \A q \in RelayIds : announced'[q] # Nothing =>
           \E m \in toldDevice' : m.cmd = "Create" /\ m.relaySide = q
    BY <1>2, <1>5, <1>6 DEF DeviceWasTold
  <2>4. \A m, k \in toldDevice' :
          (m.cmd = "DnsQuery" /\ k.cmd = "Create" /\ m.relaySide = k.relaySide)
              => m.relaySide \in dnsAnswered'
    BY <1>1, <1>6 DEF DeviceWasTold
  <2> QED BY <2>2, <2>3, <2>4 DEF DeviceWasTold
<1>14. ProxyWasTold'
  <2>1. \A q \in RelayIds : context'[q].proxySide = context[q].proxySide
    BY <1>4, <1>5
  <2>2. \A q \in RelayIds : ProxyFound(context[q].proxy)' => ProxyFound(context[q].proxy)
    BY <1>1, <1>4, <1>5 DEF ProxyFound, proxyVars
  <2>3. \A t \in toldProxy' :
           t \in toldProxy \/ (t.relaySide = r /\ t.proxySide = context[r].proxySide)
    BY <1>6
  <2>4. \A t \in toldProxy' : /\ announced'[t.relaySide] # Nothing
                              /\ context'[t.relaySide].proxySide = t.proxySide
    <3> SUFFICES ASSUME NEW t \in toldProxy'
                 PROVE  /\ announced'[t.relaySide] # Nothing
                        /\ context'[t.relaySide].proxySide = t.proxySide
      OBVIOUS
    <3>1. t.relaySide \in RelayIds
      BY <1>9 DEF ServiceTypeOK
    <3>2. CASE t \in toldProxy
      BY <1>3, <1>5, <2>1, <3>1, <3>2 DEF ProxyWasTold
    <3>3. CASE t.relaySide = r /\ t.proxySide = context[r].proxySide
      BY <1>3, <1>5, <2>1, <3>3
    <3> QED BY <2>3, <3>2, <3>3
  <2>5. \A q \in RelayIds : (announced'[q] # Nothing /\ ProxyFound(context[q].proxy)') =>
           [relaySide |-> q, proxySide |-> context'[q].proxySide] \in toldProxy'
    <3> SUFFICES ASSUME NEW q \in RelayIds, announced'[q] # Nothing,
                        ProxyFound(context[q].proxy)
                 PROVE  [relaySide |-> q, proxySide |-> context[q].proxySide] \in toldProxy'
      BY <2>1, <2>2
    <3>1. CASE q = r
      BY <1>6, <3>1
    <3>2. CASE q # r
      BY <1>5, <1>6, <3>2 DEF ProxyWasTold, ProxyKnows
    <3> QED BY <3>1, <3>2
  <2> QED BY <2>4, <2>5 DEF ProxyWasTold, ProxyKnows
<1> QED BY <1>7, <1>8, <1>9, <1>12, <1>13, <1>14

-----------------------------------------------------------------------------
LEMMA InitServiceIInv == ServiceInit => ServiceIInv
<1> SUFFICES ASSUME ServiceInit PROVE ServiceIInv
  OBVIOUS
<1> USE DEF ServiceInit
<1>1. IInv
  BY InitIInv
<1>2. ProxyTypeOK /\ ProxiesCounted
  BY MaxGenerationAssumption DEF ProxyInit, ProxyTypeOK, ProxiesCounted
<1>3. ServiceTypeOK
  BY <1>1, <1>2 DEF ServiceTypeOK, IInv
<1>4. ContextsAgree /\ DeviceWasTold /\ ProxyWasTold
  BY DEF ContextsAgree, DeviceWasTold, ProxyWasTold, Created
<1>5. PostedRight
  BY DEF PostedRight, ReplyGoesHome, NamesAreRight, TrafficFollowsEstablished
<1> QED BY <1>1, <1>2, <1>3, <1>4, <1>5 DEF ServiceIInv

LEMMA FromProxyKeepsIInv ==
    ASSUME ServiceIInv, NEW s \in ProxySlots, FromProxy(s)
    PROVE  ServiceIInv'
<1>1. ASSUME NEW x \in ProxySideIds, NEW v \in Devices, NEW port \in Ports,
             CreateRefused(s, x, v, port)
      PROVE  ServiceIInv'
  BY <1>1, RefusedKeepsIInv
<1>2. ASSUME NEW x \in ProxySideIds, NEW v \in Devices, NEW port \in Ports,
             OnProxyCreateConnection(s, x, v, port)
      PROVE  ServiceIInv'
  <2>1. PICK r \in RelayIds, cmd \in {"Create", "DnsQuery"} :
           CreateContext(r, s, x, v, port) /\ PostToDevice(CtrlConnection[v], cmd, r, port)
    BY <1>2 DEF OnProxyCreateConnection
  <2>2. ProxyTypeOK' /\ ProxiesCounted' /\ ProxiesMoveOn
    BY <1>2, ProxiesStay DEF OnProxyCreateConnection, ServiceIInv, ServiceTypeOK
  <2>3. /\ toldProxy' = toldProxy
        /\ \/ posted' = {} /\ toldDevice' = toldDevice
           \/ \E m \in DeviceMessages :
                 /\ m.cmd = cmd /\ m.relaySide = r /\ m.name = port
                 /\ posted' = {m} /\ toldDevice' = toldDevice \cup {m}
    <3>1. PICK c : PostToDevice(c, cmd, r, port)
      BY <2>1
    <3>2. AtMostOneMessage(cmd, r, port)
      BY <3>1, DevicePosting
    <3> QED BY <3>1, <3>2 DEF AtMostOneMessage
  <2> QED BY <1>2, <2>1, <2>2, <2>3, CreatedKeepsIInv DEF OnProxyCreateConnection
<1>3. ASSUME NEW x \in ProxySideIds, NEW v \in Devices, NEW port \in Ports,
             CreateInvalid(s, x, v, port)
      PROVE  ServiceIInv'
  <2>1. PICK r \in RelayIds : CreateContext(r, s, x, v, port)
    BY <1>3 DEF CreateInvalid
  <2>2. ProxyTypeOK' /\ ProxiesCounted' /\ ProxiesMoveOn
    BY <1>3, CloseProxyMoves DEF CreateInvalid, Asks, ServiceIInv, ServiceTypeOK
  <2> QED BY <1>3, <2>1, <2>2, CreatedKeepsIInv DEF CreateInvalid, PostNothing
<1>4. ASSUME NEW r \in RelayIds, NEW x \in ProxySideIds,
             \/ OnProxyDestroyConnection(s, r, x) \/ OnProxyPushData(s, r, x)
             \/ OnProxyNotifyConnectionState(s, r, x)
      PROVE  ServiceIInv'
  BY <1>4, ForwardKeepsIInv
     DEF OnProxyDestroyConnection, OnProxyPushData, OnProxyNotifyConnectionState
<1> QED BY <1>1, <1>2, <1>3, <1>4 DEF FromProxy

\* A step of the devices or of the proxies' connections alone.
LEMMA AloneKeepsIInv ==
    ASSUME ServiceIInv, IInv', ProxyTypeOK', ProxiesCounted', ProxiesMoveOn,
           PostNothing, UNCHANGED <<contextVars, deviceSideVars>>
    PROVE  ServiceIInv'
<1> USE DEF ServiceIInv
<1>1. ContextsAgree' /\ DeviceWasTold' /\ ProxyWasTold'
  BY TalesStay DEF PostNothing
<1>2. PostedRight' /\ posted' \in SUBSET (ProxyMessages \cup DeviceMessages)
  BY NothingPosted DEF PostNothing
<1>3. ServiceTypeOK'
  BY <1>2 DEF ServiceTypeOK, IInv, contextVars, deviceSideVars, PostNothing
<1> QED BY <1>1, <1>2, <1>3

LEMMA ServiceNextKeepsIInv == ServiceIInv /\ [ServiceNext]_vars => ServiceIInv'
<1> SUFFICES ASSUME ServiceIInv, [ServiceNext]_vars
             PROVE  ServiceIInv'
  OBVIOUS
<1> USE DEF ServiceIInv
<1>1. CASE Next /\ PostNothing /\ UNCHANGED <<proxyVars, contextVars, deviceSideVars>>
  <2>1. IInv'
    BY <1>1, StepKeepsIInv
  <2>2. ProxyTypeOK' /\ ProxiesCounted' /\ ProxiesMoveOn
    BY <1>1, ProxiesStay DEF ServiceTypeOK
  <2> QED BY <1>1, <2>1, <2>2, AloneKeepsIInv
<1>2. CASE ProxyAlone(ProxyNext)
  <2>1. ProxyTypeOK' /\ ProxiesCounted' /\ ProxiesMoveOn
    BY <1>2, ProxyStepMoves DEF ProxyAlone, ServiceTypeOK
  <2>2. IInv'
    BY <1>2, DevicesStay DEF ProxyAlone
  <2> QED BY <1>2, <2>1, <2>2, AloneKeepsIInv DEF ProxyAlone
<1>3. ASSUME NEW s \in ProxySlots, FromProxy(s) PROVE ServiceIInv'
  BY <1>3, FromProxyKeepsIInv
<1>4. ASSUME NEW r \in RelayIds, FromDevice(r) PROVE ServiceIInv'
  BY <1>4, DnsRespKeepsIInv, EstablishedKeepsIInv, UpdateKeepsIInv DEF FromDevice
<1>5. CASE UNCHANGED vars
  <2>1. PostedRight'
    BY <1>5 DEF vars, outputVars, contextVars, deviceSideVars, PostedRight, ReplyGoesHome,
       NamesAreRight, TrafficFollowsEstablished, ProxyKnows
  <2>2. posted' \in SUBSET (ProxyMessages \cup DeviceMessages)
    BY <1>5 DEF vars, outputVars, ServiceTypeOK
  <2> QED BY <1>5, <2>1, <2>2, PostKeepsIInv DEF vars, outputVars
<1> QED BY <1>1, <1>2, <1>3, <1>4, <1>5 DEF ServiceNext

-----------------------------------------------------------------------------
\* The inductive invariant holds in every state of every behaviour.
THEOREM ServiceInvariance == ServiceSpec => []ServiceIInv
<1> QED BY InitServiceIInv, ServiceNextKeepsIInv, PTL DEF ServiceSpec

\* The device is told of every connection by the right one of the two names that
\* share their storage in the context, in whatever order the three streams of
\* the connection are handled.
THEOREM ServiceIsConsistent == ServiceSpec => []ServiceConsistent
<1>1. ServiceIInv => ServiceConsistent
  BY DEF ServiceIInv, PostedRight, ServiceConsistent
<1> QED BY <1>1, ServiceInvariance, PTL

\* A proxy connection hears only of the relayed connections it asked for, even
\* when it has the slot of another, and of traffic only on those it was told of.
THEOREM RepliesAreRight == ServiceSpec => []RepliesRight
<1>1. ServiceIInv => RepliesRight
  BY DEF ServiceIInv, PostedRight, RepliesRight
<1> QED BY <1>1, ServiceInvariance, PTL
=============================================================================
