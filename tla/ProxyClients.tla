---------------------------- MODULE ProxyClients ----------------------------
(***************************************************************************)
(* The client connections of server_proxy_access                           *)
(* (client_connection_manager.cpp): a client speaks SOCKS5 or HTTP, is     *)
(* authenticated through the AuthCache, is given a device by the device    *)
(* selector, and has a remote connection opened by the device's relay.     *)
(* Every answer of these services comes later, under the connection's id,  *)
(* when the connection may be gone and its slot taken by another client.   *)
(*                                                                         *)
(* A connection's protocol and phase together are the code's Phase         *)
(* (eS5WaitForAuthInfo and the http challenges are "Challenge").  Its      *)
(* bytes are abstracted: data that a handler waits for more of changes     *)
(* nothing.  OnAuthResult is called by the Tick of the AuthCache.          *)
(*                                                                         *)
(* Bounds: MaxGeneration connections in each slot; MaxQueue messages under *)
(* way to the relay.                                                       *)
(***************************************************************************)
EXTENDS Naturals, Sequences

CONSTANTS Slots,         \* slots of ConnectionPool
          RelayIds,      \* the relay's ids of relayed connections
          None,
          MaxGeneration, MaxQueue   \* bounds of the model

ASSUME ClientBoundsAssumption == MaxGeneration \in Nat \ {0} /\ MaxQueue \in Nat
ASSUME NoneAssumption == None \notin RelayIds

VARIABLES
    client,         \* client[s]: the xPA_ClientConnection in slot s
    authRequests,   \* connections the AuthCache will give a result to
    deviceRequests, \* connections the selector may give a device to
    linkUp,         \* whether the relay client is connected
    toRelay,        \* messages under way to the relay
    delivered,      \* relayed data posted to a client by the last step
    authorised,     \* history: connections that were authenticated
    aborted         \* a RuntimeAssert failed

backVars   == <<authRequests, deviceRequests, authorised>>
linkVars   == <<linkUp, toRelay>>
clientVars == <<client, backVars, linkVars, delivered, aborted>>

Ids  == [slot : Slots, gen : 1..MaxGeneration]
NoId == [slot |-> None, gen |-> 0]

Protocols == {"S5", "HttpRaw", "HttpNormal"}
Phases == {"Unknown", "Challenge", "WaitForAccountExchange", "WaitForDeviceSelection",
           "WaitForConnectionRequest", "WaitForConnectionEstablish", "Ready", "Closed"}

\* list: of the two lists that share the kill node; account: on the
\* AccountTimeoutList; device: the request whose answer gave the device;
\* relay: that device's relay is configured here.
Clients == [gen : 0..MaxGeneration, protocol : Protocols \cup {None},
            phase : Phases \cup {"Free"}, account : BOOLEAN,
            list : {"None", "Linger", "Kill"}, reading : BOOLEAN, open : BOOLEAN,
            device : Ids \cup {NoId}, relay : BOOLEAN, relaySide : RelayIds \cup {None}]

RelayMessages ==
         [cmd : {"Create"}, proxySide : Ids, device : Ids]
    \cup [cmd : {"PostData"}, proxySide : Ids, relaySide : RelayIds]
    \cup [cmd : {"NotifyState"}, proxySide : Ids, relaySide : RelayIds \cup {None}]

\* New: the object of OnNewConnection; Empty: the slot after CleanupConnection.
New(gen) == [gen |-> gen, protocol |-> None, phase |-> "Unknown", account |-> TRUE,
             list |-> "None", reading |-> TRUE, open |-> TRUE,
             device |-> NoId, relay |-> FALSE, relaySide |-> None]
Empty(gen) == [New(gen) EXCEPT !.phase = "Free", !.account = FALSE]

ClientsTypeOK ==
    /\ client \in [Slots -> Clients]
    /\ authRequests \in SUBSET Ids
    /\ deviceRequests \in SUBSET Ids
    /\ linkUp \in BOOLEAN
    /\ toRelay \in Seq(RelayMessages)
    /\ delivered \in SUBSET [to : Ids, sender : Ids]
    /\ authorised \in SUBSET Ids
    /\ aborted \in BOOLEAN

ClientsInit ==
    /\ client = [s \in Slots |-> Empty(0)]
    /\ authRequests = {} /\ deviceRequests = {} /\ authorised = {}
    /\ linkUp = TRUE /\ toRelay = <<>>
    /\ delivered = {} /\ aborted = FALSE

IdOf(s)  == [slot |-> s, gen |-> client[s].gen]
InUse(s) == client[s].phase # "Free"

\* Faulty variant: the connection is found by its slot alone.
FoundBySlot(id) == InUse(id.slot)

\* ConnectionPool.CheckAndGet(id)
Found(id) == InUse(id.slot) /\ client[id.slot].gen = id.gen

\* RCP->PostMessage: lost while the relay client is not connected.
Post(messages) ==
    /\ Len(toRelay) + Len(messages) <= MaxQueue
    /\ toRelay' = IF linkUp THEN toRelay \o messages ELSE toRelay
    /\ UNCHANGED linkUp

Killed(s) == client' = [client EXCEPT ![s].list = "Kill"]

Quiet == delivered' = {} /\ UNCHANGED aborted

-----------------------------------------------------------------------------
(* The client: OnNewConnection, OnData by phase, OnPeerClose *)

OnNewConnection(s) ==
    /\ ~InUse(s) /\ client[s].gen < MaxGeneration
    /\ client' = [client EXCEPT ![s] = New(client[s].gen + 1)]
    /\ Quiet /\ UNCHANGED <<backVars, linkVars>>

\* OnData comes to a connection that is on a kill list as well.
Receives(s, phase) == client[s].phase = phase /\ client[s].open /\ client[s].reading

\* OnChallenge: the first bytes tell the protocol.  A SOCKS5 client without
\* the user/password method is killed in its new phase.
OnChallenge(s) ==
    /\ Receives(s, "Unknown")
    /\ \/ \E p \in Protocols :
             client' = [client EXCEPT ![s].protocol = p, ![s].phase = "Challenge"]
       \/ client' = [client EXCEPT ![s].protocol = "S5", ![s].phase = "Challenge",
                                   ![s].list = "Kill"]
       \/ Killed(s)
    /\ Quiet /\ UNCHANGED <<backVars, linkVars>>

\* OnS5ClientAuth, OnHttpRawChallenge, OnHttpNormalChallenge: RequestAuth may
\* refuse (malformed or too many), which nobody looks at.
OnCredentials(s) ==
    /\ Receives(s, "Challenge")
    /\ client' = [client EXCEPT ![s].phase = "WaitForAccountExchange",
                                ![s].reading = (client[s].protocol = "S5")]
    /\ authRequests' \in {authRequests, authRequests \cup {IdOf(s)}}
    /\ Quiet /\ UNCHANGED <<deviceRequests, authorised, linkVars>>

\* Http without credentials lingers to be told so; unreadable ones are killed.
OnBadHttpChallenge(s) ==
    /\ Receives(s, "Challenge") /\ client[s].protocol # "S5"
    /\ \E l \in {"Linger", "Kill"} : client' = [client EXCEPT ![s].list = l]
    /\ Quiet /\ UNCHANGED <<backVars, linkVars>>

\* OnOpenRemoteConnection of a connection whose device and relay are those of
\* the record c: nothing happens when the relay is not found.
Open(s, c) ==
    \/ /\ c.relay
       /\ client' = [client EXCEPT ![s] = [c EXCEPT !.phase = "WaitForConnectionEstablish"]]
       /\ Post(<<[cmd |-> "Create", proxySide |-> IdOf(s), device |-> c.device]>>)
    \/ /\ ~c.relay
       /\ client' = [client EXCEPT ![s] = c]
       /\ UNCHANGED linkVars

OnS5ConnectionRequest(s) ==
    /\ Receives(s, "WaitForConnectionRequest")
    /\ Open(s, client[s])
    /\ Quiet /\ UNCHANGED backVars

\* An operation other than connect lingers, anything malformed is killed.
OnBadS5ConnectionRequest(s) ==
    /\ Receives(s, "WaitForConnectionRequest")
    /\ \E l \in {"Linger", "Kill"} : client' = [client EXCEPT ![s].list = l]
    /\ Quiet /\ UNCHANGED <<backVars, linkVars>>

Message(cmd, s, relaySide) == [cmd |-> cmd, proxySide |-> IdOf(s), relaySide |-> relaySide]

\* The data, and the report of TryUpdateDataTransferSize when one is due (the
\* relay is found: configured relays are never removed).
Upload(s, relaySide) ==
    \/ Post(<<Message("PostData", s, relaySide)>>)
    \/ Post(<<Message("PostData", s, relaySide), Message("NotifyState", s, relaySide)>>)

\* OnS5UploadData, OnHttpRawUploadData, OnHttpNormalUploadData
OnUploadData(s) ==
    /\ Receives(s, "Ready")
    /\ Upload(s, client[s].relaySide)
    /\ Quiet /\ UNCHANGED <<client, backVars>>

\* Data in a phase that expects none.
OnUnexpectedData(s) ==
    /\ \E p \in {"WaitForAccountExchange", "WaitForDeviceSelection",
                 "WaitForConnectionEstablish", "Closed"} : Receives(s, p)
    /\ Killed(s)
    /\ Quiet /\ UNCHANGED <<backVars, linkVars>>

\* The peer closed, or a handler refused the data (S5 with an unknown version).
OnPeerClose(s) ==
    /\ InUse(s) /\ client[s].open
    /\ client' = [client EXCEPT
         ![s].open = FALSE,
         ![s].phase = IF client[s].protocol = "S5" /\ @ = "Ready" THEN "Closed" ELSE @,
         ![s].list = "Kill"]
    /\ Quiet /\ UNCHANGED <<backVars, linkVars>>

-----------------------------------------------------------------------------
(* The AuthCache and the device selector *)

\* OnAuthResult with a result: the client is off the AccountTimeoutList for
\* good, and a device is asked for.
Authenticated(s) ==
    /\ client' = [client EXCEPT ![s].account = FALSE, ![s].phase = "WaitForDeviceSelection"]
    /\ deviceRequests' = deviceRequests \cup {IdOf(s)}

\* Faulty variant: a client that is refused is taken off the AccountTimeoutList too.
RefusedForgotten(s) ==
    /\ client' = [client EXCEPT ![s].account = FALSE]
    /\ UNCHANGED deviceRequests

\* Without one: S5 lingers, http is killed although it was sent an answer.
Refused(s) ==
    /\ client' = [client EXCEPT ![s].list = IF client[s].protocol = "S5" THEN "Linger" ELSE "Kill"]
    /\ UNCHANGED deviceRequests

OnAuthResult(id, ok) ==
    /\ id \in authRequests
    /\ authRequests' = authRequests \ {id}
    /\ authorised' = IF ok THEN authorised \cup {id} ELSE authorised
    /\ LET s == id.slot IN
       \/ /\ ~Found(id)
          /\ UNCHANGED <<client, deviceRequests>>
       \/ /\ Found(id)
          /\ IF client[s].phase # "WaitForAccountExchange"
             THEN Killed(s) /\ UNCHANGED deviceRequests
             ELSE IF ok THEN Authenticated(s) ELSE Refused(s)
    /\ Quiet /\ UNCHANGED linkVars

\* device: one was found; relay: one whose relay is configured here.  Without
\* a device S5 is killed, and http goes on to open a connection at no relay.
OnDeviceSelected(id, device, relay) ==
    /\ id \in deviceRequests /\ (relay => device)
    /\ deviceRequests' = deviceRequests \ {id}
    /\ LET s == id.slot
           c == [client[s] EXCEPT !.device = IF device THEN id ELSE NoId, !.relay = relay]
       IN IF ~Found(id) THEN UNCHANGED <<client, linkVars>>
          ELSE IF client[s].phase # "WaitForDeviceSelection" \/ (client[s].protocol = "S5" /\ ~device)
          THEN Killed(s) /\ UNCHANGED linkVars
          ELSE IF client[s].protocol = "S5"
          THEN /\ client' = [client EXCEPT ![s] = [c EXCEPT !.phase = "WaitForConnectionRequest"]]
               /\ UNCHANGED linkVars
          ELSE Open(s, c)
    /\ Quiet /\ UNCHANGED <<authRequests, authorised>>

-----------------------------------------------------------------------------
(* The relay.  Nothing is done for a connection that is gone. *)

\* OnRelaySideConnectionStateChange(N): RuntimeAssert, when the connection
\* waits to be established and is not.
StateAborts(id, state) ==
    /\ Found(id) /\ client[id.slot].phase = "WaitForConnectionEstablish"
    /\ state # "ESTABLISHED"
    /\ aborted' = TRUE /\ delivered' = {}
    /\ UNCHANGED <<client, backVars, linkVars>>

\* HttpNormal has the rebuilt request to send.
StateEstablished(id, relaySide) ==
    /\ Found(id) /\ client[id.slot].phase = "WaitForConnectionEstablish"
    /\ client' = [client EXCEPT ![id.slot].phase = "Ready", ![id.slot].reading = TRUE,
                                ![id.slot].relaySide = relaySide]
    /\ IF client[id.slot].protocol = "HttpNormal" THEN Upload(id.slot, relaySide)
                                                  ELSE UNCHANGED linkVars
    /\ Quiet /\ UNCHANGED backVars

\* S5 only, and lingering for the writes that are pending, if any are.
StateClosed(id) ==
    /\ Found(id) /\ client[id.slot].phase = "Ready" /\ client[id.slot].protocol = "S5"
    /\ \E l \in {"Linger", "Kill"} :
          client' = [client EXCEPT ![id.slot].phase = "Closed", ![id.slot].list = l]
    /\ Quiet /\ UNCHANGED <<backVars, linkVars>>

StateIgnored(id, state) ==
    /\ \/ ~Found(id)
       \/ /\ client[id.slot].phase # "WaitForConnectionEstablish"
          /\ ~(state = "CLOSED" /\ client[id.slot].phase = "Ready"
                                /\ client[id.slot].protocol = "S5")
    /\ Quiet /\ UNCHANGED <<client, backVars, linkVars>>

\* Faulty variant: without the assertion, whatever comes first establishes.
OnRelaySideStateUnasserted(id, state, relaySide) ==
    \/ StateEstablished(id, relaySide)
    \/ state = "CLOSED" /\ StateClosed(id)
    \/ StateIgnored(id, state)

OnRelaySideConnectionStateChange(id, state, relaySide) ==
    \/ state # "ESTABLISHED" /\ StateAborts(id, state)
    \/ state = "ESTABLISHED" /\ StateEstablished(id, relaySide)
    \/ state = "CLOSED" /\ StateClosed(id)
    \/ StateIgnored(id, state)

\* A client that waits lingers for its answer, a ready one for its writes if
\* any are pending.
OnDestroyConnection(id) ==
    /\ IF ~Found(id) THEN UNCHANGED client
       ELSE IF client[id.slot].phase \in {"WaitForConnectionEstablish", "Ready"}
       THEN \E l \in {"Linger", "Kill"} :
               /\ client[id.slot].phase = "Ready" \/ l = "Linger"
               /\ client' = [client EXCEPT ![id.slot].phase = "Closed", ![id.slot].list = l]
       ELSE Killed(id.slot)
    /\ Quiet /\ UNCHANGED <<backVars, linkVars>>

\* In every phase; with the report of TryUpdateDataTransferSize when one is due.
OnRelaySidePushData(id) ==
    /\ \/ /\ ~Found(id)
          /\ delivered' = {}
          /\ UNCHANGED linkVars
       \/ /\ Found(id)
          /\ delivered' = {[to |-> IdOf(id.slot), sender |-> id]}
          /\ \/ UNCHANGED linkVars
             \/ Post(<<Message("NotifyState", id.slot, client[id.slot].relaySide)>>)
    /\ UNCHANGED <<client, backVars, aborted>>

-----------------------------------------------------------------------------
(* OnTick *)

\* CleanupConnection, which takes the object off its lists; the relay is not told.
Cleanup(C) == client' = [s \in Slots |-> IF s \in C THEN Empty(client[s].gen) ELSE client[s]]

\* The connections of T have reached their limit on the AccountTimeoutList or
\* on the linger list; the kill list is emptied.
TickWith(T) ==
    /\ T \subseteq {s \in Slots : client[s].account \/ client[s].list = "Linger"}
    /\ Cleanup(T \cup {s \in Slots : client[s].list = "Kill"})
    /\ Quiet /\ UNCHANGED <<backVars, linkVars>>

OnTick == \E T \in SUBSET Slots : TickWith(T)

\* Ticks keep coming, and time goes on: a connection that stays on the kill
\* list is cleaned up, and the limit is reached of one on the AccountTimeoutList,
\* which nothing renews, and of one that lingers and is closed, so that its
\* client cannot have its time renewed by what it sends.
KillTick(s) == client[s].list = "Kill" /\ OnTick
LimitTick(s) ==
    /\ client[s].account \/ ~client[s].open
    /\ \E T \in SUBSET Slots : s \in T /\ TickWith(T)

ClientStep(s) ==
    \/ OnNewConnection(s) \/ OnChallenge(s) \/ OnCredentials(s) \/ OnBadHttpChallenge(s)
    \/ OnS5ConnectionRequest(s) \/ OnBadS5ConnectionRequest(s)
    \/ OnUploadData(s) \/ OnUnexpectedData(s) \/ OnPeerClose(s)

BackStep(id) ==
    \/ \E ok \in BOOLEAN : OnAuthResult(id, ok)
    \/ \E device, relay \in BOOLEAN : OnDeviceSelected(id, device, relay)
=============================================================================
