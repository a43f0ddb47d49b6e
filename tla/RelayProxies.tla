---------------------------- MODULE RelayProxies ----------------------------
(***************************************************************************)
(* The connections of server_proxy_access at server_device_relay           *)
(* (proxy_connection_manager.cpp and the proxy branches of                 *)
(* relay_service.cpp): a connection has 2 s to send its challenge and then *)
(* lives as long as its keepalives are no more than 3 minutes apart.       *)
(*                                                                         *)
(* A connection id is the slot and the generation of xIndexedStorage: a    *)
(* slot is used again after its connection is destroyed, under the next    *)
(* generation.                                                             *)
(*                                                                         *)
(* Bounds: MaxGeneration connections in each slot.                         *)
(***************************************************************************)
EXTENDS Naturals

CONSTANTS ProxySlots,      \* slots of ConnectionIdManager
          MaxGeneration    \* bound of the model

ASSUME MaxGenerationAssumption == MaxGeneration \in Nat \ {0}

VARIABLES
    proxyList,       \* proxyList[s]: the list of slot s's connection, Free if none
    generation,      \* generation[s]: of the connection in slot s, or the last one
    ChallengeReady,  \* slots whose connection was challenged
    proxyMarked,     \* slots whose connection has FLAG_MARK_DELETE
    proxyClosed      \* slots whose connection's OnPeerClose has run

proxyVars == <<proxyList, generation, ChallengeReady, proxyMarked, proxyClosed>>

\* A connection is marked exactly while it is on the kill list, so that no
\* keepalive rescues it and no mark of it outlives it in its slot.
ProxyTypeOK ==
    /\ proxyList \in [ProxySlots -> {"Free", "Challenge", "Idle", "Kill"}]
    /\ generation \in [ProxySlots -> 0..MaxGeneration]
    /\ ChallengeReady \in SUBSET ProxySlots
    /\ proxyMarked = {s \in ProxySlots : proxyList[s] = "Kill"}
    /\ proxyClosed \in SUBSET ProxySlots

ProxyInit ==
    /\ proxyList = [s \in ProxySlots |-> "Free"]
    /\ generation = [s \in ProxySlots |-> 0]
    /\ ChallengeReady = {} /\ proxyMarked = {} /\ proxyClosed = {}

\* The ids ConnectionIdManager can have given out.
ProxyIds == [slot : ProxySlots, gen : 1..MaxGeneration]

ProxyIdOf(s) == [slot |-> s, gen |-> generation[s]]

\* Faulty variant: the connection is found by its slot alone.
ProxyFoundBySlot(id) == proxyList[id.slot] # "Free"

\* ProxyConnectionManager.GetConnectionById
ProxyFound(id) == proxyList[id.slot] # "Free" /\ generation[id.slot] = id.gen

ProxyReceives(s) == proxyList[s] # "Free" /\ s \notin proxyClosed

-----------------------------------------------------------------------------
AcceptProxy(s) ==
    /\ proxyList[s] = "Free" /\ generation[s] < MaxGeneration
    /\ proxyList' = [proxyList EXCEPT ![s] = "Challenge"]
    /\ generation' = [generation EXCEPT ![s] = @ + 1]
    /\ UNCHANGED <<ChallengeReady, proxyMarked, proxyClosed>>

\* Faulty variant: keepalives count before the challenge.
KeepAliveUnready(s, ready) ==
    proxyList' = IF s \in proxyMarked THEN proxyList
                                      ELSE [proxyList EXCEPT ![s] = "Idle"]

\* Refused for a connection given up or, by ready, not yet challenged.
ProxyKeepAlive(s, ready) ==
    proxyList' = IF s \in proxyMarked \/ s \notin ready
                 THEN proxyList ELSE [proxyList EXCEPT ![s] = "Idle"]

OnProxyKeepAlive(s) ==
    /\ ProxyReceives(s)
    /\ ProxyKeepAlive(s, ChallengeReady)
    /\ UNCHANGED <<generation, ChallengeReady, proxyMarked, proxyClosed>>

OnProxyChallenge(s) ==
    /\ ProxyReceives(s)
    /\ ChallengeReady' = ChallengeReady \cup {s}
    /\ ProxyKeepAlive(s, ChallengeReady')
    /\ UNCHANGED <<generation, proxyMarked, proxyClosed>>

\* The connection is closed by its peer, or by the library because a handler
\* refused a packet.
CloseProxy(s) ==
    /\ proxyClosed' = proxyClosed \cup {s}
    /\ proxyMarked' = proxyMarked \cup {s}
    /\ proxyList' = IF s \in proxyMarked THEN proxyList
                                         ELSE [proxyList EXCEPT ![s] = "Kill"]
    /\ UNCHANGED <<generation, ChallengeReady>>

OnProxyClose(s) == ProxyReceives(s) /\ CloseProxy(s)

\* DestroyConnection, with the object and its flags.
DestroyProxies(D) ==
    /\ proxyList' = [s \in ProxySlots |-> IF s \in D THEN "Free" ELSE proxyList[s]]
    /\ ChallengeReady' = ChallengeReady \ D
    /\ proxyMarked' = proxyMarked \ D
    /\ proxyClosed' = proxyClosed \ D
    /\ UNCHANGED generation

\* The Tick at which the connections of T have reached their limit: they are
\* given up and, with the rest of the kill list, destroyed.
ProxyTickWith(T) ==
    /\ T \subseteq {s \in ProxySlots : proxyList[s] \in {"Challenge", "Idle"}}
    /\ DestroyProxies(T \cup {s \in ProxySlots : proxyList[s] = "Kill"})

ProxyTick == \E T \in SUBSET ProxySlots : ProxyTickWith(T)

ProxyNext ==
    \/ \E s \in ProxySlots :
          \/ AcceptProxy(s) \/ OnProxyKeepAlive(s) \/ OnProxyChallenge(s)
          \/ OnProxyClose(s)
    \/ ProxyTick

\* Ticks keep coming, so the kill list is emptied; and a connection on the
\* challenge list, where nothing renews its time, reaches its limit.
ChallengeTick(s) ==
    \E T \in SUBSET ProxySlots :
        /\ s \in T /\ proxyList[s] = "Challenge"
        /\ ProxyTickWith(T)

ProxyKillTick == ProxyTick /\ \E s \in ProxySlots : proxyList[s] = "Kill"

-----------------------------------------------------------------------------
(* Properties *)

\* A connection that is not challenged in time is gone, however many
\* keepalives it sends (KeepAlive refuses them until ChallengeReady).
ChallengedOrDropped ==
    \A s \in ProxySlots :
        proxyList[s] = "Challenge" ~> s \in ChallengeReady \/ proxyList[s] = "Free"
=============================================================================
