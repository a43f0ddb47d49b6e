---------------------------- MODULE RelayService ----------------------------
(***************************************************************************)
(* server_device_relay as a whole: the connections it relays between       *)
(* server_proxy_access and the devices, on top of RelayDevices and         *)
(* RelayProxies (relay_service._proxy.cpp, ._ctrl.cpp, ._data.cpp and      *)
(* relay_connection_manager.cpp).                                          *)
(*                                                                         *)
(* A relayed connection is asked for by the proxy, opened by the device on *)
(* a Create message (for a host name, after a DnsQuery to the device and   *)
(* its answer), announced by the device on its data connection, and then   *)
(* carries data both ways.  The three streams of one relayed connection    *)
(* (proxy, control, data) are not ordered with respect to each other.      *)
(*                                                                         *)
(* The proxy is one server_proxy_access whose connections to the relay     *)
(* follow each other, the old ones possibly still open at the relay; it    *)
(* names a relayed connection only after it was told of it.  The device    *)
(* (not part of this repository) answers a DnsQuery at most once and       *)
(* announces a connection at most once, after the Create for it.           *)
(***************************************************************************)
EXTENDS RelayDevices, RelayProxies

CONSTANTS RelayIds,       \* slots of ContextPool (none is ever released)
          ProxySideIds,   \* the proxy's names for the connections it asks for
          Ports,          \* HostnamePort
          DeviceSideIds   \* the device's names for its connections

ASSUME UnionAssumption == Ports \cap DeviceSideIds = {}

Nothing == [none |-> TRUE]   \* a context not created, a name not announced

ASSUME NothingAssumption == Nothing \notin DeviceSideIds

VARIABLES
    context,     \* context[r]: the xRD_RelayConnectionContext of slot r
    asked,       \* asked[x]: history, who asked for x and for which port
    dnsAnswered, \* the device's side: DnsQueries answered
    announced,   \* announced[r]: the device's side, its name for r
    toldDevice,  \* history: the Create and DnsQuery messages device connections got
    toldProxy,   \* history: the connections the proxy was told are established
    posted       \* the message posted by the last step, if any

contextVars == <<context, asked>>
deviceSideVars == <<dnsAnswered, announced>>
outputVars == <<toldDevice, toldProxy, posted>>
vars == <<relayDeviceVars, proxyVars, contextVars, deviceSideVars, outputVars>>

\* TargetPort and DeviceSideConnectionId share their storage: shared is the
\* one that was written last.
Contexts == [device : Devices, proxy : ProxyIds, proxySide : ProxySideIds,
             shared : Ports \cup DeviceSideIds]
Requests == [proxy : ProxyIds, port : Ports]

States == {"ESTABLISHED", "UPDATE_TRANSFER", "CLOSED"}

ProxyMessages ==
         [to : ProxyIds, cmd : States \cup {"PostData"}, relaySide : RelayIds,
          proxySide : ProxySideIds]
    \cup [to : ProxyIds, cmd : {"PoolFull", "DestroyConnection"},
          proxySide : ProxySideIds]

\* name: the port of a Create or a DnsQuery's context, the device side id of the others.
DeviceMessages ==
    [to : DeviceConns, cmd : {"DnsQuery", "Create", "PostData", "Destroy", "Notify"},
     relaySide : RelayIds, name : Ports \cup DeviceSideIds]

ServiceTypeOK ==
    /\ TypeOK /\ ProxyTypeOK
    /\ context \in [RelayIds -> Contexts \cup {Nothing}]
    /\ asked \in [ProxySideIds -> Requests \cup {Nothing}]
    /\ dnsAnswered \in SUBSET RelayIds
    /\ announced \in [RelayIds -> DeviceSideIds \cup {Nothing}]
    /\ toldDevice \in SUBSET DeviceMessages
    /\ toldProxy \in SUBSET [relaySide : RelayIds, proxySide : ProxySideIds]
    /\ posted \in SUBSET (ProxyMessages \cup DeviceMessages)

ServiceInit ==
    /\ Init /\ ProxyInit
    /\ context = [r \in RelayIds |-> Nothing]
    /\ asked = [x \in ProxySideIds |-> Nothing]
    /\ dnsAnswered = {}
    /\ announced = [r \in RelayIds |-> Nothing]
    /\ toldDevice = {} /\ toldProxy = {} /\ posted = {}

Created(r) == context[r] # Nothing

-----------------------------------------------------------------------------
(* Posting *)

PostNothing == UNCHANGED <<toldDevice, toldProxy>> /\ posted' = {}

\* Connection::PostMessage through the pointer c.  When c is destroyed the
\* object is gone: the message is lost, or goes to the connection whose object
\* took the place of c's.
PostToDevice(c, cmd, r, name) ==
    \/ ~Found(c) /\ PostNothing
    \/ \E to \in {e \in DeviceConns : Found(e) /\ (Found(c) => e = c)} :
          LET m == [to |-> to, cmd |-> cmd, relaySide |-> r, name |-> name] IN
          /\ posted' = {m}
          /\ toldDevice' = IF cmd \in {"DnsQuery", "Create"} THEN toldDevice \cup {m}
                                                            ELSE toldDevice
          /\ UNCHANGED toldProxy

\* A handler's answer on the connection in slot s.
Reply(s, cmd, x) ==
    /\ posted' = {[to |-> ProxyIdOf(s), cmd |-> cmd, proxySide |-> x]}
    /\ UNCHANGED <<toldDevice, toldProxy>>

\* To the proxy connection that context r names, if it is still there.
PostToProxy(cmd, r) ==
    LET p == context[r].proxy
        x == context[r].proxySide
    IN \/ ~ProxyFound(p) /\ PostNothing
       \/ /\ ProxyFound(p)
          /\ posted' = {[to |-> ProxyIdOf(p.slot), cmd |-> cmd, relaySide |-> r, proxySide |-> x]}
          /\ toldProxy' = IF cmd = "ESTABLISHED"
                          THEN toldProxy \cup {[relaySide |-> r, proxySide |-> x]}
                          ELSE toldProxy
          /\ UNCHANGED toldDevice

-----------------------------------------------------------------------------
(* Packets of the proxy *)

\* The proxy knows the devices that were ever reported, and picks a fresh x.
Asks(s, x, v, port) ==
    /\ ProxyReceives(s) /\ asked[x] = Nothing
    /\ reported[v] # "unknown"
    /\ asked' = [asked EXCEPT ![x] = [proxy |-> ProxyIdOf(s), port |-> port]]

CreateRefused(s, x, v, port) ==
    /\ Asks(s, x, v, port)
    /\ \/ ~Alive(v) /\ Reply(s, "DestroyConnection", x)
       \/ Alive(v) /\ (\A r \in RelayIds : Created(r)) /\ Reply(s, "PoolFull", x)
    /\ UNCHANGED <<relayDeviceVars, proxyVars, context, deviceSideVars>>

\* RelayConnectionManager.Create and the assignments to the context.
CreateContext(r, s, x, v, port) ==
    /\ Alive(v) /\ ~Created(r)
    /\ context' = [context EXCEPT ![r] =
                    [device |-> v, proxy |-> ProxyIdOf(s), proxySide |-> x, shared |-> port]]

\* To an address (Create at once) or a host name (DnsQuery first).
OnProxyCreateConnection(s, x, v, port) ==
    /\ Asks(s, x, v, port)
    /\ \E r \in RelayIds, cmd \in {"Create", "DnsQuery"} :
          /\ CreateContext(r, s, x, v, port)
          /\ PostToDevice(CtrlConnection[v], cmd, r, port)
    /\ UNCHANGED <<relayDeviceVars, proxyVars, deviceSideVars>>

\* Neither address nor host name: refused after the context was taken, which
\* closes the proxy's connection.
CreateInvalid(s, x, v, port) ==
    /\ Asks(s, x, v, port)
    /\ \E r \in RelayIds : CreateContext(r, s, x, v, port)
    /\ CloseProxy(s)
    /\ PostNothing
    /\ UNCHANGED <<relayDeviceVars, deviceSideVars>>

\* The proxy was told that its x is the relay's r.
ProxyKnows(r, x) == [relaySide |-> r, proxySide |-> x] \in toldProxy

\* To the device of context r under the name kept in the context.
ForwardToDevice(cmd, r) ==
    /\ IF Alive(context[r].device)
       THEN PostToDevice(DataConnection[context[r].device], cmd, r, context[r].shared)
       ELSE PostNothing
    /\ UNCHANGED <<relayDeviceVars, proxyVars, contextVars, deviceSideVars>>

OnProxyDestroyConnection(s, r, x) ==
    ProxyReceives(s) /\ ProxyKnows(r, x) /\ ForwardToDevice("Destroy", r)

OnProxyPushData(s, r, x) ==
    /\ ProxyReceives(s) /\ ProxyKnows(r, x)
    /\ context[r].proxySide = x
    /\ ForwardToDevice("PostData", r)

OnProxyNotifyConnectionState(s, r, x) ==
    ProxyReceives(s) /\ ProxyKnows(r, x) /\ ForwardToDevice("Notify", r)

-----------------------------------------------------------------------------
(* Packets of the device *)

\* The answer to a DnsQuery: Create goes back on the same connection, to the
\* port kept in the context; nothing happens when no address was found.
OnTerminalDnsQueryResp(c, r) ==
    /\ Receives(c) /\ r \notin dnsAnswered
    /\ \E m \in toldDevice : m.to = c /\ m.cmd = "DnsQuery" /\ m.relaySide = r
    /\ dnsAnswered' = dnsAnswered \cup {r}
    /\ \/ PostToDevice(c, "Create", r, context[r].shared)
       \/ PostNothing
    /\ UNCHANGED <<relayDeviceVars, proxyVars, contextVars, announced>>

\* The device whose data connection is d was told to open r.
ToldToOpen(d, r) ==
    \E m \in toldDevice :
        /\ m.cmd = "Create" /\ m.relaySide = r
        /\ DeviceId[m.to] = DeviceId[d] /\ DeviceId[d] # NoDevice

\* Faulty variant: the device's name for the connection is not stored.
EstablishedUnnamed(d, r, name) ==
    /\ Receives(d) /\ ToldToOpen(d, r) /\ announced[r] = Nothing
    /\ announced' = [announced EXCEPT ![r] = name]
    /\ PostToProxy("ESTABLISHED", r)
    /\ UNCHANGED <<relayDeviceVars, proxyVars, contextVars, dnsAnswered>>

TargetConnectionEstablished(d, r, name) ==
    /\ Receives(d) /\ ToldToOpen(d, r) /\ announced[r] = Nothing
    /\ announced' = [announced EXCEPT ![r] = name]
    /\ context' = [context EXCEPT ![r].shared = name]
    /\ PostToProxy("ESTABLISHED", r)
    /\ UNCHANGED <<relayDeviceVars, proxyVars, asked, dnsAnswered>>

\* CLOSED may come before ESTABLISHED (the target refused), traffic may not.
TargetConnectionUpdate(d, r, state) ==
    /\ Receives(d) /\ ToldToOpen(d, r)
    /\ state = "CLOSED" \/ (state = "UPDATE_TRANSFER" /\ announced[r] # Nothing)
    /\ PostToProxy(state, r)
    /\ UNCHANGED <<relayDeviceVars, proxyVars, contextVars, deviceSideVars>>

OnTerminalPostData(d, r) ==
    /\ Receives(d) /\ ToldToOpen(d, r) /\ announced[r] # Nothing
    /\ PostToProxy("PostData", r)
    /\ UNCHANGED <<relayDeviceVars, proxyVars, contextVars, deviceSideVars>>

-----------------------------------------------------------------------------
FromProxy(s) ==
    \/ \E x \in ProxySideIds, v \in Devices, port \in Ports :
          \/ CreateRefused(s, x, v, port)
          \/ OnProxyCreateConnection(s, x, v, port)
          \/ CreateInvalid(s, x, v, port)
    \/ \E r \in RelayIds, x \in ProxySideIds :
          \/ OnProxyDestroyConnection(s, r, x)
          \/ OnProxyPushData(s, r, x)
          \/ OnProxyNotifyConnectionState(s, r, x)

FromDevice(r) ==
    \/ \E c \in CtrlConns : OnTerminalDnsQueryResp(c, r)
    \/ \E d \in DataConns :
          \/ \E name \in DeviceSideIds : TargetConnectionEstablished(d, r, name)
          \/ \E state \in {"UPDATE_TRANSFER", "CLOSED"} : TargetConnectionUpdate(d, r, state)
          \/ OnTerminalPostData(d, r)

\* A step of RelayProxies alone.
ProxyAlone(A) == A /\ PostNothing /\ UNCHANGED <<relayDeviceVars, contextVars, deviceSideVars>>

ServiceNext ==
    \/ Next /\ PostNothing /\ UNCHANGED <<proxyVars, contextVars, deviceSideVars>>
    \/ ProxyAlone(ProxyNext)
    \/ \E s \in ProxySlots : FromProxy(s)
    \/ \E r \in RelayIds : FromDevice(r)

ServiceSpec == ServiceInit /\ [][ServiceNext]_vars

\* The loop keeps ticking and time goes on.
ServiceFairSpec ==
    /\ ServiceSpec
    /\ WF_vars(ProxyAlone(ProxyKillTick))
    /\ \A s \in ProxySlots : WF_vars(ProxyAlone(ChallengeTick(s)))

-----------------------------------------------------------------------------
(* Properties *)

\* Whatever is posted about a relayed connection goes to the very proxy
\* connection that asked for it, never to a later one in the same slot.
ReplyGoesHome ==
    \A m \in posted \cap ProxyMessages : asked[m.proxySide].proxy = m.to

\* TargetPort and DeviceSideConnectionId share their storage, and yet the
\* device only ever sees the port that was asked for when it is told to open a
\* connection, and its own name for the connection in what is sent to it later.
NamesAreRight ==
    \A m \in posted \cap DeviceMessages :
        m.name = IF m.cmd \in {"DnsQuery", "Create"}
                 THEN asked[context[m.relaySide].proxySide].port
                 ELSE announced[m.relaySide]

\* The proxy hears of traffic on a connection only after it was told that the
\* connection is established: a proxy connection that misses the one because
\* it is gone never gets the other.
TrafficFollowsEstablished ==
    \A m \in posted \cap ProxyMessages :
        m.cmd \in {"PostData", "UPDATE_TRANSFER"} => ProxyKnows(m.relaySide, m.proxySide)

\* The types, and the names by which the device is told of its connections.
ServiceConsistent == ServiceTypeOK /\ NamesAreRight

\* What a proxy connection hears: of its own connections only, and of traffic
\* on one that it knows.
RepliesRight == ReplyGoesHome /\ TrafficFollowsEstablished
=============================================================================
