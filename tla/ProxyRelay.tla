----------------------------- MODULE ProxyRelay -----------------------------
(***************************************************************************)
(* server_proxy_access and one relay, over the TCP connection between them *)
(* (test_relay_connection_manager.cpp and relay_service.cpp): the clients  *)
(* of ProxyClients, and of the relay what these can tell of it.  The relay *)
(* with its devices is RelayService; here a context opens, may be          *)
(* established, carries data and closes.                                   *)
(*                                                                         *)
(* Messages arrive in the order they were sent; those under way are lost   *)
(* when the connection breaks.  The relay may restart: its ids of relayed  *)
(* connections then start over.                                            *)
(*                                                                         *)
(* Bounds: MaxLinks connections to the relay, MaxQueue messages under way  *)
(* in each direction.                                                      *)
(***************************************************************************)
EXTENDS ProxyClients

CONSTANTS EarlyClose, \* devices report CLOSED of a connection they could not open
          MaxLinks    \* bound of the model

ASSUME EarlyCloseAssumption == EarlyClose \in BOOLEAN
ASSUME MaxLinksAssumption == MaxLinks \in Nat \ {0}

VARIABLES
    link,      \* which connection to the relay is, or was, the last
    context,   \* context[r]: the relay's xRD_RelayConnectionContext r
    toProxy,   \* messages under way to server_proxy_access
    forwarded  \* upload data sent to a device by the last step

relayVars == <<link, context, toProxy>>
vars      == <<clientVars, relayVars, forwarded>>

\* Failed: closed by its device, which never established it.
States   == {"Opening", "Established", "Closed", "Failed"}
Contexts == [proxySide : Ids, device : Ids, link : 1..MaxLinks, state : States]
Nothing  == [state |-> "None"]

ProxyMessages ==
         [cmd : {"ESTABLISHED", "UPDATE_TRANSFER", "CLOSED", "PostData"},
          proxySide : Ids, relaySide : RelayIds]
    \cup [cmd : {"CLOSED"}, proxySide : Ids, relaySide : {None}]
    \cup [cmd : {"DestroyConnection"}, proxySide : Ids]

TypeOK ==
    /\ ClientsTypeOK
    /\ link \in 1..MaxLinks
    /\ context \in [RelayIds -> Contexts \cup {Nothing}]
    /\ toProxy \in Seq(ProxyMessages)
    /\ forwarded \in SUBSET [sender : Ids, context : Contexts]

Init ==
    /\ ClientsInit
    /\ link = 1
    /\ context = [r \in RelayIds |-> Nothing]
    /\ toProxy = <<>> /\ forwarded = {}

-----------------------------------------------------------------------------
(* The connection between the two *)

\* The relay refused a packet, or the network failed.
Break ==
    /\ linkUp' = FALSE /\ toRelay' = <<>> /\ toProxy' = <<>>

LinkBreaks ==
    /\ linkUp
    /\ Break
    /\ delivered' = {} /\ forwarded' = {}
    /\ UNCHANGED <<client, backVars, aborted, link, context>>

RelayRestarts ==
    /\ Break
    /\ context' = [r \in RelayIds |-> Nothing]
    /\ delivered' = {} /\ forwarded' = {}
    /\ UNCHANGED <<client, backVars, aborted, link>>

\* The relay client reconnects and is challenged.
LinkUp ==
    /\ ~linkUp /\ link < MaxLinks
    /\ linkUp' = TRUE /\ link' = link + 1
    /\ delivered' = {} /\ forwarded' = {}
    /\ UNCHANGED <<client, backVars, aborted, toRelay, context, toProxy>>

-----------------------------------------------------------------------------
(* The relay *)

Tell(m) == Len(toProxy) < MaxQueue /\ toProxy' = Append(toProxy, m)

\* The next message of the proxy is taken.
Takes(m) ==
    /\ toRelay # <<>> /\ m = Head(toRelay)
    /\ delivered' = {}
    /\ UNCHANGED <<client, backVars, aborted, link>>
Took == toRelay' = Tail(toRelay) /\ UNCHANGED linkUp

\* The device is gone, or the pool of contexts is exhausted.
RelayRefuses(m) ==
    /\ Takes(m) /\ Took /\ m.cmd = "Create"
    /\ \/ Tell([cmd |-> "DestroyConnection", proxySide |-> m.proxySide])
       \/ /\ \A r \in RelayIds : context[r] # Nothing
          /\ Tell([cmd |-> "CLOSED", proxySide |-> m.proxySide, relaySide |-> None])
    /\ forwarded' = {}
    /\ UNCHANGED context

\* A request with neither address nor host name closes the connection, after
\* the context was taken.
RelayCreates(m, r) ==
    /\ Takes(m) /\ m.cmd = "Create" /\ context[r] = Nothing
    /\ context' = [context EXCEPT ![r] =
                     [proxySide |-> m.proxySide, device |-> m.device, link |-> link,
                      state |-> "Opening"]]
    /\ \/ Took /\ UNCHANGED toProxy
       \/ Break
    /\ forwarded' = {}

\* OnProxyPushData, up to the post to the device.
Forward(m) ==
    forwarded' = IF \/ context[m.relaySide] = Nothing
                    \/ context[m.relaySide].proxySide # m.proxySide
                 THEN {}
                 ELSE {[sender |-> m.proxySide, context |-> context[m.relaySide]]}

RelayForwards(m) ==
    /\ Takes(m) /\ Took /\ m.cmd \in {"PostData", "NotifyState"}
    /\ IF m.cmd = "PostData" THEN Forward(m) ELSE forwarded' = {}
    /\ UNCHANGED <<context, toProxy>>

\* What the device reports on r goes to the connection r was asked for on.
RelayReports(r, cmd) ==
    /\ IF linkUp /\ context[r].link = link
       THEN Tell([cmd |-> cmd, proxySide |-> context[r].proxySide, relaySide |-> r])
       ELSE UNCHANGED toProxy
    /\ delivered' = {} /\ forwarded' = {}
    /\ UNCHANGED <<client, backVars, linkVars, aborted, link>>

\* OnTerminalTargetConnectionUpdate and OnTerminalPostData.  The device reports
\* nothing of a connection after CLOSED.
DeviceReports(r) ==
    \/ /\ context[r].state = "Opening"
       /\ context' = [context EXCEPT ![r].state = "Established"]
       /\ RelayReports(r, "ESTABLISHED")
    \/ /\ \/ /\ context[r].state = "Established"
             /\ context' = [context EXCEPT ![r].state = "Closed"]
          \/ /\ context[r].state = "Opening" /\ EarlyClose
             /\ context' = [context EXCEPT ![r].state = "Failed"]
       /\ RelayReports(r, "CLOSED")
    \/ /\ context[r].state = "Established"
       /\ \E cmd \in {"UPDATE_TRANSFER", "PostData"} : RelayReports(r, cmd)
       /\ UNCHANGED context

-----------------------------------------------------------------------------
\* xPA_RelayClient::OnServerPacket
OnServerPacket ==
    /\ toProxy # <<>> /\ toProxy' = Tail(toProxy)
    /\ LET m == Head(toProxy) IN
       \/ /\ m.cmd \in {"ESTABLISHED", "UPDATE_TRANSFER", "CLOSED"}
          /\ OnRelaySideConnectionStateChange(m.proxySide, m.cmd, m.relaySide)
       \/ m.cmd = "DestroyConnection" /\ OnDestroyConnection(m.proxySide)
       \/ m.cmd = "PostData" /\ OnRelaySidePushData(m.proxySide)
    /\ forwarded' = {} /\ UNCHANGED <<link, context>>

ProxyStep ==
    /\ \/ \E s \in Slots : ClientStep(s)
       \/ \E id \in Ids : BackStep(id)
       \/ OnTick
    /\ forwarded' = {} /\ UNCHANGED relayVars

RelayStep ==
    \/ /\ toRelay # <<>>
       /\ \/ RelayRefuses(Head(toRelay)) \/ RelayForwards(Head(toRelay))
          \/ \E r \in RelayIds : RelayCreates(Head(toRelay), r)
    \/ \E r \in RelayIds : DeviceReports(r)

\* A failed RuntimeAssert ends server_proxy_access.
Next ==
    /\ ~aborted
    /\ \/ ProxyStep \/ OnServerPacket \/ RelayStep
       \/ LinkBreaks \/ RelayRestarts \/ LinkUp

Spec == Init /\ [][Next]_vars

Ticks(A) == ~aborted /\ A /\ forwarded' = {} /\ UNCHANGED relayVars

FairSpec ==
    /\ Spec
    /\ \A s \in Slots : WF_vars(Ticks(KillTick(s))) /\ WF_vars(Ticks(LimitTick(s)))

-----------------------------------------------------------------------------
(* Properties *)

\* Only a client that was authenticated has a connection opened for it, and
\* through the device that was selected for it: the answers given to an
\* earlier client in its slot do not count, although they may come while it
\* waits for its own.
OpenedAsAuthorised ==
    \A i \in 1..Len(toRelay) :
        toRelay[i].cmd = "Create" =>
            /\ toRelay[i].proxySide \in authorised
            /\ toRelay[i].device = toRelay[i].proxySide

\* Data from the remote side is posted to the very client it was relayed for,
\* and only behind the answer that told the client that it is connected.
DataIsOwnAndBehindAnswer ==
    \A d \in delivered :
        /\ d.to = d.sender
        /\ client[d.to.slot].phase \in {"Ready", "Closed"}

\* Upload data goes out only for a client that was authenticated, to the device
\* that was selected for it, and on a connection which that device said it
\* established: before, the context holds the target's port in the place of the
\* device's id of the connection (relay_connection_manager.hpp:5), and data would
\* be sent on another connection of the device.  A client may be ready, or its
\* data under way, while the relay restarts and opens a connection under the
\* id that the data names.
UploadIsOnEstablished ==
    \A f \in forwarded :
        /\ f.sender \in authorised /\ f.context.device = f.sender
        /\ f.context.state \in {"Established", "Closed"}

\* RuntimeAssert (client_connection_manager.cpp:806, 842, 851): the first
\* state the relay notifies a waiting client of is ESTABLISHED.
FirstStateIsEstablished == ~aborted

\* A client that is not authenticated is dropped, whatever it sends and
\* whatever answers are lost.
UnauthorisedIsDropped ==
    \A s \in Slots : InUse(s) /\ IdOf(s) \notin authorised ~>
        ~InUse(s) \/ IdOf(s) \in authorised \/ aborted

\* The slot of a client that closed its connection is free again.
ClosedIsDropped == \A s \in Slots : InUse(s) /\ ~client[s].open ~> ~InUse(s) \/ aborted
\* Clients do not stay: neither one that is not authenticated, nor one that is
\* closed.
DroppedInTheEnd == UnauthorisedIsDropped /\ ClosedIsDropped
=============================================================================
