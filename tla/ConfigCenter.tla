--------------------------- MODULE ConfigCenter ----------------------------
(***************************************************************************)
(* The config center (server_config_center): a device that presents a      *)
(* correct signature is told its own address and a relay server, the next  *)
(* one of a rotating list (xCC_RelayServerManager).                        *)
(*                                                                         *)
(* The servers named in the configuration are added at the start.  That is *)
(* all that calls the manager's AddServerInfo in the repository, and       *)
(* nothing calls its RemoveServerInfoByKey; they are modelled as callable  *)
(* any time, a removal with any key that AddServerInfo may have returned.  *)
(* A key is the time at which a server was added and its index.            *)
(*                                                                         *)
(* The channel is UDP: a challenge may be lost, repeated and delayed.  The *)
(* ids (xObjectIdManagerMini, not part of the repository) are given out    *)
(* from the smallest.                                                      *)
(*                                                                         *)
(* Bounds: KeyTimes are the low 32 bits of the time; MaxServed counts the  *)
(* answers that the history remembers.                                     *)
(***************************************************************************)
EXTENDS Naturals, FiniteSets, SequencesExt

CONSTANTS RelayServerPoolSize, RelayIdCount, KeyTimes, ForceRelayServers, MaxServed

ASSUME ConfigCenterAssumption ==
    /\ {RelayServerPoolSize, RelayIdCount, ForceRelayServers, MaxServed} \subseteq Nat
    /\ KeyTimes \subseteq Nat \ {0} /\ KeyTimes # {}

RelaySlots == 0..RelayServerPoolSize - 1

NoAnswer    == -2    \* the challenge is dropped
AddressOnly == -1    \* an answer without a relay server

VARIABLES
    RelayServerListAll,  \* the indices, in the order of their turn
    relayKey,            \* relayKey[i]: Base.Key as <<time, index>>, or NoKeyPair
    relayIds,            \* the ids that IdManager has given out
    forced,              \* how many of the configured servers have been added
    answer,              \* the last answer to a device: an index, AddressOnly or NoAnswer
    served               \* history: served[i][j]: answers with j since the last with i

configVars == <<RelayServerListAll, relayKey, relayIds, forced, answer, served>>

NoKeyPair == <<0, 0>>

ConfigInit ==
    /\ RelayServerListAll = <<>> /\ relayKey = [i \in RelaySlots |-> NoKeyPair]
    /\ relayIds = {} /\ forced = 0
    /\ answer = NoAnswer /\ served = [i \in RelaySlots |-> [j \in RelaySlots |-> 0]]

\* Acquire gives the smallest free id, 0 when there is none; one behind the
\* pool is given back.
AddServerInfo(time) ==
    LET free == (1..RelayIdCount) \ relayIds
        id   == CHOOSE i \in free : \A j \in free : i <= j
    IN IF free = {} \/ id > RelayServerPoolSize
       THEN UNCHANGED <<RelayServerListAll, relayKey, relayIds, served>>
       ELSE /\ relayIds' = relayIds \cup {id}
            /\ relayKey' = [relayKey EXCEPT ![id - 1] = <<time, id - 1>>]
            /\ RelayServerListAll' = Append(RelayServerListAll, id - 1)
            /\ served' = [i \in RelaySlots |-> [j \in RelaySlots |->
                            IF id - 1 \in {i, j} THEN 0 ELSE served[i][j]]]

\* main, before the loop.
AddForced(time) ==
    /\ forced < ForceRelayServers /\ forced' = forced + 1
    /\ AddServerInfo(time) /\ UNCHANGED answer

ConfigAdd(time) ==
    /\ forced = ForceRelayServers
    /\ AddServerInfo(time) /\ UNCHANGED <<forced, answer>>

\* RemoveServerInfoByKey, an index in range and the key of the slot; a slot
\* that is renewed leaves the list.
RemoveServerInfoByKey(key) ==
    LET i == key[2] IN
    /\ i \in RelaySlots /\ relayKey[i] = key
    /\ relayKey' = [relayKey EXCEPT ![i] = NoKeyPair]
    /\ RelayServerListAll' = RemoveFirst(RelayServerListAll, i)
    /\ relayIds' = relayIds \ {i + 1}

ConfigRemove(key) ==
    /\ forced = ForceRelayServers
    /\ RemoveServerInfoByKey(key) /\ UNCHANGED <<forced, answer, served>>

Served(i) ==
    [k \in RelaySlots |-> [j \in RelaySlots |->
        CASE k = i -> 0
          [] k # i /\ j = i -> IF served[k][j] < MaxServed THEN served[k][j] + 1 ELSE MaxServed
          [] OTHER -> served[k][j]]]

\* Faulty variant: the server at the head is given every time.
GetFirstRelayServer ==
    /\ answer' = Head(RelayServerListAll)
    /\ served' = Served(answer')
    /\ UNCHANGED RelayServerListAll

\* GetRelayServerByRegion, which is GetAnyRelayServer whatever the region.
GetAnyRelayServer ==
    /\ answer' = Head(RelayServerListAll)
    /\ served' = Served(answer')
    /\ RelayServerListAll' = Append(Tail(RelayServerListAll), answer')

\* A challenge with a wrong signature, which is also what one that cannot be
\* read is taken for, is dropped; so is any other command.  With no relay
\* server the answer has the device's address alone.
OnTerminalChallenge(signed) ==
    /\ forced = ForceRelayServers
    /\ CASE ~signed -> answer' = NoAnswer /\ UNCHANGED <<RelayServerListAll, served>>
         [] signed /\ RelayServerListAll = <<>> ->
                answer' = AddressOnly /\ UNCHANGED <<RelayServerListAll, served>>
         [] OTHER -> GetAnyRelayServer
    /\ UNCHANGED <<relayKey, relayIds, forced>>

\* The channel for IPv6 tells the address only.
OnIpv6Challenge(signed) ==
    /\ forced = ForceRelayServers
    /\ answer' = IF signed THEN AddressOnly ELSE NoAnswer
    /\ UNCHANGED <<RelayServerListAll, relayKey, relayIds, forced, served>>

ConfigNext ==
    \/ \E time \in KeyTimes : AddForced(time) \/ ConfigAdd(time)
    \/ \E key \in KeyTimes \X RelaySlots : ConfigRemove(key)
    \/ \E signed \in BOOLEAN : OnTerminalChallenge(signed) \/ OnIpv6Challenge(signed)

-----------------------------------------------------------------------------
(* Properties *)

\* The rotating list has every server once, and no other; the slots, their
\* keys and the ids agree (asserted by AddServerInfo for the slot it takes).
\* No server is given to two devices before one that was there all the time
\* has been given to one.
RelaysTakeTurns ==
    /\ IsInjective(RelayServerListAll)
    /\ ToSet(RelayServerListAll) = {i \in RelaySlots : relayKey[i] # NoKeyPair}
    /\ relayIds = {i + 1 : i \in ToSet(RelayServerListAll)}
    /\ \A i, j \in ToSet(RelayServerListAll) : served[i][j] <= 1
=============================================================================
