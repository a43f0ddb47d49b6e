---------------------------- MODULE PartsProofs -----------------------------
(***************************************************************************)
(* Proofs about the parts that share no state: the pool of backend         *)
(* connections, the backend connection, the config center, the device      *)
(* observer, the relay connections by group, the header of an HTTP client  *)
(* and the pool of service clients, for any number of servers, devices,    *)
(* connections, ticks, lines and pieces.                                   *)
(***************************************************************************)
EXTENDS BackendPool, BackendConnection, ConfigCenter, DeviceObserver,
        RelayGroups, HttpHeader, ServiceClientPool, ListLemmas, FiniteSetTheorems, TLAPS

BackendPoolSpec == BackendPoolInit /\ [][BackendPoolNext]_backendPoolVars
BackendSpec     == BackendInit /\ [][BackendConnectionNext]_backendVars
ConfigSpec      == ConfigInit /\ [][ConfigNext]_configVars
ObserverSpec    == ObserverInit /\ [][ObserverNext]_observerVars
GroupsSpec      == RelayGroupsInit /\ [][RelayGroupsNext]_relayGroupVars
HttpSpec        == HttpInit /\ [][HttpNext]_httpVars
PoolSpec        == PoolInit /\ [][PoolNext]_poolVars

-----------------------------------------------------------------------------
(* xBackendConnectionPool *)

BackendPoolTypeOK ==
    /\ generation \in [BackendSlots -> Nat]
    /\ link \in [BackendSlots -> {"free", "down", "up"}]
    /\ ContextList \in [BackendSlots -> [AppKey : AppKeys \cup {NoKey}, IsChallengeReady : BOOLEAN]]
    /\ told \in [BackendSlots -> AppKeys \cup {NoKey}]
    /\ given \in [BackendSlots -> AppKeys \cup {NoKey}]
    /\ wiped \in [BackendSlots -> BOOLEAN]
    /\ answered \in [BackendSlots -> BOOLEAN]

\* A context is ready only while its connection is up, so that AddServer, which
\* leaves IsChallengeReady as it is, finds it unset.
ReadyIsUp ==
    \A i \in BackendSlots : ContextList[i].IsChallengeReady => link[i] = "up" /\ answered[i]

BackendPoolInv == BackendPoolTypeOK /\ ReadyIsUp /\ BackendIsIdentified

LEMMA BackendPoolInitInv == BackendPoolInit => BackendPoolInv
BY BackendPoolAssumption
   DEF BackendPoolInit, BackendPoolInv, BackendPoolTypeOK, ReadyIsUp, BackendIsIdentified, NoContext

\* One lemma for each operation of the pool.
LEMMA AddServerInv ==
    ASSUME BackendPoolInv, NEW i \in BackendSlots, NEW key \in AppKeys, AddServer(i, key)
    PROVE  BackendPoolInv'
<1>1. BackendPoolTypeOK'
  BY DEF BackendPoolInv, BackendPoolTypeOK, AddServer
<1>2. ReadyIsUp' /\ BackendIsIdentified'
  BY DEF BackendPoolInv, BackendPoolTypeOK, ReadyIsUp, BackendIsIdentified, AddServer
<1>. QED BY <1>1, <1>2 DEF BackendPoolInv

LEMMA RemoveServerInv ==
    ASSUME BackendPoolInv, NEW i \in BackendSlots, NEW gen, RemoveServer(i, gen)
    PROVE  BackendPoolInv'
<1>1. BackendPoolTypeOK'
  BY DEF BackendPoolInv, BackendPoolTypeOK, RemoveServer, NoContext
<1>2. ReadyIsUp' /\ BackendIsIdentified'
  BY DEF BackendPoolInv, BackendPoolTypeOK, ReadyIsUp, BackendIsIdentified, RemoveServer, NoContext
<1>. QED BY <1>1, <1>2 DEF BackendPoolInv

LEMMA OnServerConnectedInv ==
    ASSUME BackendPoolInv, NEW i \in BackendSlots, OnServerConnected(i)
    PROVE  BackendPoolInv'
<1>1. BackendPoolTypeOK'
  BY DEF BackendPoolInv, BackendPoolTypeOK, OnServerConnected
<1>2. ReadyIsUp' /\ BackendIsIdentified'
  BY DEF BackendPoolInv, BackendPoolTypeOK, ReadyIsUp, BackendIsIdentified, OnServerConnected
<1>. QED BY <1>1, <1>2 DEF BackendPoolInv

LEMMA OnServerCloseInv ==
    ASSUME BackendPoolInv, NEW i \in BackendSlots, link[i] = "up", OnServerClose(i)
    PROVE  BackendPoolInv'
<1>1. BackendPoolTypeOK'
  BY DEF BackendPoolInv, BackendPoolTypeOK, OnServerClose, NoContext
<1>2. ReadyIsUp' /\ BackendIsIdentified'
  BY DEF BackendPoolInv, BackendPoolTypeOK, ReadyIsUp, BackendIsIdentified, OnServerClose, NoContext
<1>. QED BY <1>1, <1>2 DEF BackendPoolInv

LEMMA OnCmdBackendChallengeRespInv ==
    ASSUME BackendPoolInv, NEW i \in BackendSlots, OnCmdBackendChallengeResp(i)
    PROVE  BackendPoolInv'
<1>1. CASE OnServerClose(i)
  BY <1>1, OnServerCloseInv DEF OnCmdBackendChallengeResp
<1>2. CASE ~OnServerClose(i)
  <2>1. BackendPoolTypeOK'
    BY <1>2 DEF BackendPoolInv, BackendPoolTypeOK, OnCmdBackendChallengeResp
  <2>2. ReadyIsUp' /\ BackendIsIdentified'
    BY <1>2 DEF BackendPoolInv, BackendPoolTypeOK, ReadyIsUp, BackendIsIdentified,
                OnCmdBackendChallengeResp
  <2>. QED BY <2>1, <2>2 DEF BackendPoolInv
<1>. QED BY <1>1, <1>2

LEMMA BackendPoolStutter ==
    ASSUME BackendPoolInv, UNCHANGED backendPoolVars
    PROVE  BackendPoolInv'
BY DEF BackendPoolInv, BackendPoolTypeOK, ReadyIsUp, BackendIsIdentified, backendPoolVars

LEMMA BackendPoolStep ==
    ASSUME BackendPoolInv, [BackendPoolNext]_backendPoolVars
    PROVE  BackendPoolInv'
<1>1. CASE UNCHANGED backendPoolVars
  BY <1>1, BackendPoolStutter
<1>2. CASE BackendPoolNext
  <2>1. PICK i \in BackendSlots :
           \/ \E key \in AppKeys : AddServer(i, key)
           \/ \E gen \in 1..MaxGeneration : RemoveServer(i, gen)
           \/ OnServerConnected(i)
           \/ BackendPeerClose(i)
           \/ OnCmdBackendChallengeResp(i)
           \/ OnServerPacket(i)
    BY <1>2 DEF BackendPoolNext
  <2>2. CASE \E key \in AppKeys : AddServer(i, key)
    BY <2>2, AddServerInv
  <2>3. CASE \E gen \in 1..MaxGeneration : RemoveServer(i, gen)
    BY <2>3, RemoveServerInv
  <2>4. CASE OnServerConnected(i)
    BY <2>4, OnServerConnectedInv
  <2>5. CASE BackendPeerClose(i)
    BY <2>5, OnServerCloseInv DEF BackendPeerClose
  <2>6. CASE OnCmdBackendChallengeResp(i)
    BY <2>6, OnCmdBackendChallengeRespInv
  <2>7. CASE OnServerPacket(i)
    BY <2>7, OnServerCloseInv, BackendPoolStutter DEF OnServerPacket
  <2>. QED BY <2>1, <2>2, <2>3, <2>4, <2>5, <2>6, <2>7
<1>. QED BY <1>1, <1>2

\* For any number of servers after each other at an index: a connection whose
\* packets are taken has answered its own challenge, and a challenge carries
\* the keys of the server it goes to or none (xBackendConnectionPool, whose
\* contexts are looked up by the index alone).
THEOREM BackendsAreIdentified == BackendPoolSpec => []BackendIsIdentified
<1>1. BackendPoolInv => BackendIsIdentified
  BY DEF BackendPoolInv
<1>. QED BY BackendPoolInitInv, BackendPoolStep, <1>1, PTL DEF BackendPoolSpec

-----------------------------------------------------------------------------
(* xBackendConnection *)

BackendTypeOK ==
    /\ State \in {"Unspecified", "SetupReady", "Connecting", "Challenging", "Ready", "Closing"}
    /\ socket \in {"none", "connecting", "open", "closed"}
    /\ sinceStart \in 0..LongAgo
    /\ sinceRequest \in 0..LongAgo
    /\ sinceKeepAlive \in 0..LongAgo
    /\ introduced \in BOOLEAN
    /\ unanswered \in 0..LongAgo

\* The state of the socket is known from State, and a connection that is not
\* Ready has not been asked for a keep-alive.
SocketFits ==
    /\ State = "Connecting" <=> socket = "connecting"
    /\ State \in {"Challenging", "Ready"} <=> socket = "open"
    /\ State \notin {"Ready", "Closing"} => ~introduced /\ unanswered = 0

\* Without a request under way the last keep-alive is no older than the last
\* request; with one, it is older than the last Tick that found none by less
\* than the interval between requests.
RequestFollowsKeepAlive ==
    State = "Ready" =>
        /\ sinceRequest < MinRequestKeepAliveTimeout
        /\ unanswered = 0 => sinceKeepAlive <= sinceRequest
        /\ unanswered # 0 => sinceKeepAlive < unanswered + MinRequestKeepAliveTimeout

BackendInv == BackendTypeOK /\ BackendStateTrue /\ SocketFits /\ RequestFollowsKeepAlive

\* What a tick makes of an age, after a pass of any length.
LEMMA LaterProperties ==
    ASSUME NEW age \in 0..LongAgo, NEW d \in Passes
    PROVE  /\ Later(age, d) \in 0..LongAgo
           /\ Later(age, d) < LongAgo => Later(age, d) = age + d
           /\ Later(age, d) <= age + d
           /\ LongAgo \in Nat /\ 0 \in 0..LongAgo
BY BackendTimeouts DEF Later, LongAgo, Passes

LEMMA BackendInitInv == BackendInit => BackendInv
<1>1. BackendInit => ~introduced /\ introduced \in BOOLEAN
  BY Zenon DEF BackendInit
<1>. QED
  BY <1>1, BackendTimeouts
     DEF BackendInit, BackendInv, BackendTypeOK, BackendStateTrue, SocketFits,
         RequestFollowsKeepAlive, LongAgo

\* A connection that is cleaned, opened again, or left as it is.
LEMMA CheckAndReconnectInv ==
    ASSUME BackendInv, State # "Unspecified", NEW closing \in BOOLEAN, State # "Ready" \/ closing,
           NEW start \in 0..LongAgo, NEW d \in Passes, NEW opened \in BOOLEAN,
           CheckAndReconnect(closing, start, d, opened)
    PROVE  BackendInv'
<1>0. Later(sinceRequest, d) \in 0..LongAgo /\ Later(sinceKeepAlive, d) \in 0..LongAgo
      /\ LongAgo \in Nat /\ 0 \in 0..LongAgo
  BY LaterProperties DEF BackendInv, BackendTypeOK
<1>1. CASE ~closing /\ State # "SetupReady"
  BY <1>0, <1>1
     DEF BackendInv, BackendTypeOK, BackendStateTrue, SocketFits, RequestFollowsKeepAlive,
         CheckAndReconnect
<1>2. CASE closing \/ State = "SetupReady"
  <2>1. ~introduced' /\ introduced' \in BOOLEAN
    BY <1>2, Zenon DEF CheckAndReconnect
  <2>. QED
    BY <1>0, <1>2, <2>1
     DEF BackendInv, BackendTypeOK, BackendStateTrue, SocketFits, RequestFollowsKeepAlive,
         CheckAndReconnect
<1>. QED BY <1>1, <1>2

\* What a tick does to a Ready connection that has heard of its peer.
LEMMA OnTickReadyInv ==
    ASSUME BackendInv, State = "Ready", NEW d \in Passes, NEW opened \in BOOLEAN,
           OnTickReady(d, opened)
    PROVE  BackendInv'
<1>0. /\ Later(sinceRequest, d) \in 0..LongAgo /\ Later(sinceKeepAlive, d) \in 0..LongAgo
      /\ Later(sinceStart, d) \in 0..LongAgo /\ LongAgo \in Nat /\ 0 \in 0..LongAgo
  BY LaterProperties DEF BackendInv, BackendTypeOK
<1>1. CASE Later(sinceKeepAlive, d) >= MinKeepAliveTimeout
  <2>1. CheckAndReconnect(TRUE, Later(sinceStart, d), d, opened)
    BY <1>1 DEF OnTickReady
  <2>2. PICK start \in 0..LongAgo : start = Later(sinceStart, d)
    BY <1>0
  <2>3. CheckAndReconnect(TRUE, start, d, opened)
    BY <2>1, <2>2
  <2>. QED BY <2>3, CheckAndReconnectInv
<1>2. CASE ~(Later(sinceKeepAlive, d) >= MinKeepAliveTimeout)
  <2>1. /\ {MinRequestKeepAliveTimeout, MinKeepAliveTimeout} \subseteq Nat
        /\ MinRequestKeepAliveTimeout < MinKeepAliveTimeout /\ LongAgo = MinKeepAliveTimeout
        /\ sinceRequest \in Nat /\ sinceKeepAlive \in Nat /\ unanswered \in 0..LongAgo
        /\ d \in Nat /\ d >= 1
    BY BackendTimeouts DEF BackendInv, BackendTypeOK, LongAgo, Passes
  <2>2. Later(sinceKeepAlive, d) = sinceKeepAlive + d /\ sinceKeepAlive + d < MinKeepAliveTimeout
    BY <1>0, <1>2, <2>1 DEF Later
  <2>3. /\ sinceStart' = Later(sinceStart, d) /\ sinceKeepAlive' = sinceKeepAlive + d
        /\ State' = State /\ socket' = socket /\ introduced' = introduced
    BY <1>2, <2>2 DEF OnTickReady
  <2>4. /\ Later(unanswered, d) \in 1..LongAgo
        /\ sinceKeepAlive + d < Later(unanswered, d) + MinRequestKeepAliveTimeout
    <3>1. sinceKeepAlive < unanswered + MinRequestKeepAliveTimeout
      BY <2>1 DEF BackendInv, RequestFollowsKeepAlive
    <3>. QED BY <2>1, <2>2, <3>1 DEF Later
  <2>5. CASE Later(sinceRequest, d) >= MinRequestKeepAliveTimeout
    <3>1. sinceRequest' = 0 /\ unanswered' = Later(unanswered, d)
      BY <1>2, <2>5 DEF OnTickReady
    <3>. QED
      BY <1>0, <2>1, <2>2, <2>3, <2>4, <3>1
         DEF BackendInv, BackendTypeOK, BackendStateTrue, SocketFits, RequestFollowsKeepAlive
  <2>6. CASE ~(Later(sinceRequest, d) >= MinRequestKeepAliveTimeout)
    <3>1. /\ sinceRequest' = Later(sinceRequest, d)
          /\ unanswered' = IF unanswered # 0 THEN Later(unanswered, d) ELSE 0
      BY <1>2, <2>6 DEF OnTickReady
    <3>2. Later(sinceRequest, d) = sinceRequest + d /\ sinceRequest + d < MinRequestKeepAliveTimeout
      BY <1>0, <2>1, <2>6 DEF Later
    <3>3. unanswered = 0 => sinceKeepAlive + d <= sinceRequest + d
      BY <2>1 DEF BackendInv, RequestFollowsKeepAlive
    <3>. QED
      BY <1>0, <2>1, <2>2, <2>3, <2>4, <3>1, <3>2, <3>3
         DEF BackendInv, BackendTypeOK, BackendStateTrue, SocketFits, RequestFollowsKeepAlive
  <2>. QED BY <2>5, <2>6
<1>. QED BY <1>1, <1>2

LEMMA OnTickInv ==
    ASSUME BackendInv, NEW d \in Passes, NEW opened \in BOOLEAN, OnTick(d, opened)
    PROVE  BackendInv'
<1>1. CASE State = "Ready"
  BY <1>1, OnTickReadyInv DEF OnTick
<1>2. CASE State # "Ready"
  <2>1. PICK start \in 0..LongAgo : start = Later(sinceStart, d)
    BY LaterProperties DEF BackendInv, BackendTypeOK
  <2>2. PICK closing \in BOOLEAN :
           closing = (\/ State = "Closing"
                      \/ /\ State \in {"Connecting", "Challenging"}
                         /\ Later(sinceStart, d) >= MinConnectionTimeout)
    OBVIOUS
  <2>3. CheckAndReconnect(closing, start, d, opened)
    BY <1>2, <2>1, <2>2 DEF OnTick, OnTickUnready
  <2>. QED BY <1>2, <2>3, CheckAndReconnectInv DEF OnTick
<1>. QED BY <1>1, <1>2

\* The callbacks, and the end of the connection.
LEMMA BackendCallbackInv ==
    ASSUME BackendInv,
           \/ BackendSetup \/ BackendClean \/ OnConnected \/ OnPeerClose
           \/ KeepAlivePacket \/ ChallengeResp \/ RefusedPacket
    PROVE  BackendInv'
<1>0. LongAgo \in Nat /\ 0 \in 0..LongAgo /\ LongAgo \in 0..LongAgo
      /\ MinKeepAliveTimeout \in Nat \ {0} /\ MinRequestKeepAliveTimeout \in Nat \ {0}
  BY BackendTimeouts DEF LongAgo
<1>. USE DEF BackendInv, BackendTypeOK, BackendStateTrue, SocketFits, RequestFollowsKeepAlive
<1>1. CASE BackendSetup
  BY <1>0, <1>1 DEF BackendSetup
<1>2. CASE BackendClean
  <2>1. ~introduced' /\ introduced' \in BOOLEAN
    BY <1>2, Zenon DEF BackendClean
  <2>. QED BY <1>0, <1>2, <2>1 DEF BackendClean
<1>3. CASE OnConnected
  BY <1>0, <1>3 DEF OnConnected
<1>4. CASE OnPeerClose
  BY <1>0, <1>4 DEF OnPeerClose
<1>5. CASE KeepAlivePacket
  BY <1>0, <1>5 DEF KeepAlivePacket
<1>6. CASE ChallengeResp
  BY <1>0, <1>6 DEF ChallengeResp
<1>7. CASE RefusedPacket
  BY <1>4, <1>7 DEF RefusedPacket
<1>. QED BY <1>1, <1>2, <1>3, <1>4, <1>5, <1>6, <1>7

LEMMA BackendStep ==
    ASSUME BackendInv, [BackendConnectionNext]_backendVars
    PROVE  BackendInv'
<1>1. CASE UNCHANGED backendVars
  BY <1>1 DEF BackendInv, BackendTypeOK, BackendStateTrue, SocketFits, RequestFollowsKeepAlive,
              backendVars
<1>2. CASE \E d \in Passes, opened \in BOOLEAN : OnTick(d, opened)
  BY <1>2, OnTickInv
<1>. QED BY <1>1, <1>2, BackendCallbackInv DEF BackendConnectionNext

\* For all timeouts with which a keep-alive is asked for before its lack is
\* held against the peer: the states of xBackendConnection are those of its
\* socket, and no connection is Ready whose peer has been silent too long.
THEOREM BackendStateIsTrue == BackendSpec => []BackendStateTrue
<1>1. BackendInv => BackendStateTrue
  BY DEF BackendInv
<1>. QED BY BackendInitInv, BackendStep, <1>1, PTL DEF BackendSpec

LEMMA GivenUpUnanswered ==
    ASSUME BackendInv, State = "Ready", State' # "Ready",
           NEW d \in Passes, NEW opened \in BOOLEAN, OnTick(d, opened)
    PROVE  unanswered + d > MinKeepAliveTimeout - MinRequestKeepAliveTimeout
<1>1. Later(sinceKeepAlive, d) >= MinKeepAliveTimeout
  BY DEF OnTick, OnTickReady
<1>2. /\ {sinceRequest, sinceKeepAlive, unanswered, d} \subseteq Nat
      /\ {MinRequestKeepAliveTimeout, MinKeepAliveTimeout} \subseteq Nat
  BY BackendTimeouts DEF BackendInv, BackendTypeOK, LongAgo, Passes
<1>3. sinceKeepAlive + d >= MinKeepAliveTimeout
  BY <1>1, <1>2, BackendTimeouts DEF Later, LongAgo
<1>4. sinceKeepAlive < unanswered + MinRequestKeepAliveTimeout
  BY <1>2 DEF BackendInv, RequestFollowsKeepAlive
<1>. QED BY <1>2, <1>3, <1>4

\* For all such timeouts, and passes of the main loop of any length: OnTick
\* gives a Ready connection up only when more time than the timeouts differ by
\* has passed since the last Tick that found no unanswered request.
THEOREM ReadyConnectionIsKept == BackendSpec => ReadyIsKept
<1>1. BackendInv /\ [BackendConnectionNext]_backendVars =>
        [State = "Ready" /\ State' # "Ready" =>
           \A d \in Passes, opened \in BOOLEAN : OnTick(d, opened) =>
             unanswered + d > MinKeepAliveTimeout - MinRequestKeepAliveTimeout]_backendVars
  BY GivenUpUnanswered
<1>. QED BY BackendInitInv, BackendStep, <1>1, PTL DEF BackendSpec, ReadyIsKept

-----------------------------------------------------------------------------
(* xCC_RelayServerManager *)

ConfigTypeOK ==
    /\ RelayServerListAll \in Seq(RelaySlots)
    /\ relayKey \in [RelaySlots -> (KeyTimes \X RelaySlots) \cup {NoKeyPair}]
    /\ relayIds \in SUBSET (1..RelayIdCount)
    /\ forced \in Nat
    /\ answer \in RelaySlots \cup {AddressOnly, NoAnswer}
    /\ served \in [RelaySlots -> [RelaySlots -> Nat]]

\* A server that was given since i was given is behind i in the list.
ServedAreBehind ==
    \A m, n \in 1..Len(RelayServerListAll) :
        LET times == served[RelayServerListAll[m]][RelayServerListAll[n]]
        IN times <= 1 /\ (n <= m => times = 0)

ConfigInv == ConfigTypeOK /\ RelaysTakeTurns /\ ServedAreBehind

LEMMA ConfigInitInv == ConfigInit => ConfigInv
<1>. SUFFICES ASSUME ConfigInit PROVE ConfigInv
  OBVIOUS
<1>1. Len(<<>>) = 0 /\ <<>> \in Seq(RelaySlots) /\ 0 \in Nat
  BY EmptySeq
<1>2. IsInjective(<<>>) /\ ToSet(<<>>) = {}
  BY DEF IsInjective, ToSet
<1>3. ConfigTypeOK
  BY <1>1 DEF ConfigInit, ConfigTypeOK
<1>4. RelaysTakeTurns
  BY <1>2 DEF ConfigInit, RelaysTakeTurns
<1>5. ServedAreBehind
  BY <1>1 DEF ConfigInit, ServedAreBehind
<1>. QED BY <1>3, <1>4, <1>5 DEF ConfigInv

\* What the invariant says of the list, for the lemmas below.
LEMMA RelayList ==
    ASSUME ConfigInv
    PROVE  /\ RelayServerListAll \in Seq(RelaySlots) /\ IsInjective(RelayServerListAll)
           /\ Len(RelayServerListAll) \in Nat /\ DOMAIN RelayServerListAll = 1..Len(RelayServerListAll)
           /\ ToSet(RelayServerListAll) \in SUBSET RelaySlots
           /\ \A m \in 1..Len(RelayServerListAll) :
                 RelayServerListAll[m] \in RelaySlots /\ RelayServerListAll[m] \in ToSet(RelayServerListAll)
           /\ \A i \in RelaySlots : i \in Int /\ i + 1 \in Nat
<1>1. /\ RelayServerListAll \in Seq(RelaySlots) /\ IsInjective(RelayServerListAll)
      /\ RelayServerPoolSize \in Nat
  BY ConfigCenterAssumption DEF ConfigInv, ConfigTypeOK, RelaysTakeTurns
<1>2. Len(RelayServerListAll) \in Nat /\ DOMAIN RelayServerListAll = 1..Len(RelayServerListAll)
      /\ \A m \in 1..Len(RelayServerListAll) : RelayServerListAll[m] \in RelaySlots
  BY <1>1, LenProperties, ElementOfSeq
<1>. QED BY <1>1, <1>2 DEF ToSet, RelaySlots

LEMMA AddServerInfoInv ==
    ASSUME ConfigInv, NEW time \in KeyTimes, AddServerInfo(time), forced' \in Nat, answer' = answer
    PROVE  ConfigInv'
<1>. DEFINE free == (1..RelayIdCount) \ relayIds
            id == CHOOSE i \in free : \A j \in free : i <= j
            L == RelayServerListAll
<1>0. L \in Seq(RelaySlots) /\ IsInjective(L) /\ Len(L) \in Nat /\ RelayServerPoolSize \in Nat
  BY RelayList, ConfigCenterAssumption
<1>1. CASE free = {} \/ id > RelayServerPoolSize
  <2>1. UNCHANGED <<RelayServerListAll, relayKey, relayIds, served>>
    BY <1>1 DEF AddServerInfo
  <2>. QED BY <2>1 DEF ConfigInv, ConfigTypeOK, RelaysTakeTurns, ServedAreBehind
<1>2. CASE free # {} /\ ~(id > RelayServerPoolSize)
  <2>1. id \in free /\ id \in 1..RelayIdCount /\ id \notin relayIds
    <3>1. free \in SUBSET Nat /\ free # {}
      BY <1>2
    <3>2. \E i \in free : \A j \in free : i <= j
      BY <3>1, LeastExists
    <3>. QED BY <3>2
  <2>2. PICK x \in RelaySlots : x = id - 1 /\ x + 1 = id
    <3>1. \A i \in 1..RelayIdCount : ~(i > RelayServerPoolSize) =>
             i - 1 \in RelaySlots /\ (i - 1) + 1 = i
      BY ConfigCenterAssumption DEF RelaySlots
    <3>2. id - 1 \in RelaySlots /\ (id - 1) + 1 = id
      BY <1>2, <2>1, <3>1
    <3>. QED BY <3>2
  <2>3. /\ relayIds' = relayIds \cup {x + 1}
        /\ relayKey' = [relayKey EXCEPT ![x] = <<time, x>>]
        /\ RelayServerListAll' = Append(L, x)
        /\ served' = [i \in RelaySlots |-> [j \in RelaySlots |->
                        IF x \in {i, j} THEN 0 ELSE served[i][j]]]
    BY <1>2, <2>2 DEF AddServerInfo
  <2>. HIDE DEF id, free
  <2>4. x + 1 \notin relayIds /\ x + 1 \in 1..RelayIdCount
    BY <2>1, <2>2
  <2>5. x \notin ToSet(L)
    BY <2>4 DEF ConfigInv, RelaysTakeTurns
  <2>6. /\ L' \in Seq(RelaySlots) /\ Len(L') = Len(L) + 1
        /\ IsInjective(L') /\ ToSet(L') = ToSet(L) \cup {x}
        /\ \A k \in 1..Len(L) : L'[k] = L[k]
        /\ L'[Len(L) + 1] = x
    BY <1>0, <2>3, <2>5, AppendToInjective
  <2>7. <<time, x>> # NoKeyPair /\ <<time, x>> \in KeyTimes \X RelaySlots
    <3>1. time # 0 /\ <<time, x>>[1] = time /\ NoKeyPair[1] = 0
      BY ConfigCenterAssumption DEF NoKeyPair
    <3>. QED BY <3>1
  <2>8. ConfigTypeOK'
    BY <2>3, <2>4, <2>6, <2>7 DEF ConfigInv, ConfigTypeOK
  <2>9. ToSet(L') = {i \in RelaySlots : relayKey'[i] # NoKeyPair}
    BY <2>3, <2>6, <2>7 DEF ConfigInv, ConfigTypeOK, RelaysTakeTurns
  <2>10. relayIds' = {i + 1 : i \in ToSet(L')}
    BY <2>3, <2>6 DEF ConfigInv, RelaysTakeTurns
  <2>11. \A i, j \in ToSet(L') : served'[i][j] <= 1
    BY <2>2, <2>3, <2>6, RelayList DEF ConfigInv, RelaysTakeTurns
  <2>12. ServedAreBehind'
    <3>1. ASSUME NEW m \in 1..Len(L'), NEW n \in 1..Len(L')
          PROVE  served'[L'[m]][L'[n]] <= 1 /\ (n <= m => served'[L'[m]][L'[n]] = 0)
      <4>1. CASE L'[m] = x \/ L'[n] = x
        <5>1. L'[m] \in RelaySlots /\ L'[n] \in RelaySlots
          BY <2>6, ElementOfSeq
        <5>2. served'[L'[m]][L'[n]] = 0
          BY <2>3, <4>1, <5>1
        <5>. QED BY <5>2
      <4>2. CASE L'[m] # x /\ L'[n] # x
        <5>1. m \in 1..Len(L) /\ n \in 1..Len(L) /\ L'[m] = L[m] /\ L'[n] = L[n]
          BY <1>0, <2>6, <4>2
        <5>2. L[m] \in RelaySlots /\ L[n] \in RelaySlots
          BY <5>1, RelayList
        <5>3. served'[L'[m]][L'[n]] = served[L[m]][L[n]]
          BY <2>3, <4>2, <5>1, <5>2
        <5>. QED BY <5>1, <5>3 DEF ConfigInv, ServedAreBehind
      <4>. QED BY <4>1, <4>2
    <3>. QED BY <3>1 DEF ServedAreBehind
  <2>. QED BY <2>6, <2>8, <2>9, <2>10, <2>11, <2>12 DEF ConfigInv, RelaysTakeTurns
<1>. QED BY <1>1, <1>2

LEMMA RemoveServerInfoInv ==
    ASSUME ConfigInv, NEW key \in KeyTimes \X RelaySlots, ConfigRemove(key)
    PROVE  ConfigInv'
<1>. DEFINE L == RelayServerListAll
<1>0. key # NoKeyPair
  <2>1. key[1] # 0 /\ NoKeyPair[1] = 0
    BY ConfigCenterAssumption DEF NoKeyPair
  <2>. QED BY <2>1
<1>1. PICK x \in RelaySlots :
         /\ x = key[2] /\ relayKey[x] # NoKeyPair
         /\ relayKey' = [relayKey EXCEPT ![x] = NoKeyPair]
         /\ RelayServerListAll' = RemoveFirst(L, x)
         /\ relayIds' = relayIds \ {x + 1}
         /\ forced' = forced /\ answer' = answer /\ served' = served
  BY <1>0 DEF ConfigRemove, RemoveServerInfoByKey
<1>2. x \in ToSet(L)
  BY <1>1 DEF ConfigInv, RelaysTakeTurns
<1>3. /\ L' \in Seq(RelaySlots) /\ Len(L') = Len(L) - 1
      /\ IsInjective(L') /\ ToSet(L') = ToSet(L) \ {x}
      /\ \A m, n \in 1..Len(L') : m < n =>
            \E i, j \in 1..Len(L) : i < j /\ L'[m] = L[i] /\ L'[n] = L[j]
  <2>1. PICK s \in Seq(RelaySlots) : s = L /\ IsInjective(s) /\ x \in ToSet(s)
    BY <1>2, RelayList
  <2>2. /\ RemoveFirst(s, x) \in Seq(RelaySlots) /\ Len(RemoveFirst(s, x)) = Len(s) - 1
        /\ IsInjective(RemoveFirst(s, x)) /\ ToSet(RemoveFirst(s, x)) = ToSet(s) \ {x}
        /\ \A m, n \in 1..Len(RemoveFirst(s, x)) : m < n =>
              \E i, j \in 1..Len(s) :
                 i < j /\ RemoveFirst(s, x)[m] = s[i] /\ RemoveFirst(s, x)[n] = s[j]
    BY <2>1, RemoveFirstOfInjective
  <2>3. L' = RemoveFirst(s, x)
    BY <1>1, <2>1
  <2>. QED BY <2>1, <2>2, <2>3
<1>4. ConfigTypeOK'
  BY <1>1, <1>3 DEF ConfigInv, ConfigTypeOK
<1>5. ToSet(L') = {i \in RelaySlots : relayKey'[i] # NoKeyPair}
  BY <1>1, <1>3 DEF ConfigInv, ConfigTypeOK, RelaysTakeTurns
<1>6. relayIds' = {i + 1 : i \in ToSet(L')}
  <2>1. relayIds = {i + 1 : i \in ToSet(L)}
    BY DEF ConfigInv, RelaysTakeTurns
  <2>2. \A i \in ToSet(L) \cup {x} : i \in Nat
    BY <1>2, RelayList DEF RelaySlots
  <2>3. ASSUME NEW i \in ToSet(L), i # x PROVE i + 1 # x + 1
    <3>1. i \in Nat /\ x \in Nat
      BY <2>2
    <3>. QED BY <2>3, <3>1
  <2>. QED BY <1>1, <1>3, <2>1, <2>3
<1>7. \A i, j \in ToSet(L') : served'[i][j] <= 1
  BY <1>1, <1>3 DEF ConfigInv, RelaysTakeTurns
<1>8. ServedAreBehind'
  <2>1. ASSUME NEW m \in 1..Len(L'), NEW n \in 1..Len(L')
        PROVE  served'[L'[m]][L'[n]] <= 1 /\ (n <= m => served'[L'[m]][L'[n]] = 0)
    <3>1. L'[m] \in ToSet(L') /\ L'[n] \in ToSet(L')
      BY <1>3, LenProperties DEF ToSet
    <3>2. CASE n = m
      <4>1. PICK i \in 1..Len(L) : L'[m] = L[i]
        BY <1>3, <3>1, RelayList DEF ToSet
      <4>2. i <= i /\ served[L[i]][L[i]] = 0
        <5>1. i \in Nat /\ i <= i
          BY RelayList
        <5>. QED BY <5>1 DEF ConfigInv, ServedAreBehind
      <4>. QED BY <1>1, <3>2, <4>1, <4>2
    <3>3. CASE n < m
      <4>1. PICK i, j \in 1..Len(L) : i < j /\ L'[n] = L[i] /\ L'[m] = L[j]
        BY <1>3, <3>3
      <4>2. i <= j
        BY <4>1, RelayList
      <4>3. served[L[j]][L[i]] = 0
        BY <4>2 DEF ConfigInv, ServedAreBehind
      <4>4. served'[L'[m]][L'[n]] = 0
        BY <1>1, <4>1, <4>3
      <4>. QED BY <4>4
    <3>4. CASE m < n
      <4>1. served'[L'[m]][L'[n]] <= 1
        BY <1>7, <3>1
      <4>2. ~(n <= m)
        BY <1>3, <3>4, RelayList
      <4>. QED BY <4>1, <4>2
    <3>. QED
      <4>1. m \in Int /\ n \in Int
        BY <1>3, RelayList
      <4>. QED BY <3>2, <3>3, <3>4, <4>1
  <2>. QED BY <2>1 DEF ServedAreBehind
<1>. QED BY <1>3, <1>4, <1>5, <1>6, <1>7, <1>8 DEF ConfigInv, RelaysTakeTurns

LEMMA GetAnyRelayServerInv ==
    ASSUME ConfigInv, RelayServerListAll # <<>>, GetAnyRelayServer,
           UNCHANGED <<relayKey, relayIds, forced>>
    PROVE  ConfigInv'
<1>. DEFINE L == RelayServerListAll
<1>1. /\ Append(Tail(L), Head(L)) \in Seq(RelaySlots)
      /\ Len(Append(Tail(L), Head(L))) = Len(L) /\ Len(L) \in Nat \ {0}
      /\ IsInjective(Append(Tail(L), Head(L)))
      /\ ToSet(Append(Tail(L), Head(L))) = ToSet(L)
      /\ \A k \in 1..Len(L) - 1 : Append(Tail(L), Head(L))[k] = L[k + 1]
      /\ Append(Tail(L), Head(L))[Len(L)] = L[1] /\ Head(L) = L[1] /\ Head(L) \in ToSet(L)
  BY RelayList, RotateInjective
<1>2. PICK h \in RelaySlots : h = Head(L) /\ h \in ToSet(L) /\ h = L[1]
  BY <1>1, RelayList
<1>3. /\ answer' = h /\ served' = Served(h) /\ L' = Append(Tail(L), Head(L))
  BY <1>2 DEF GetAnyRelayServer
<1>4. /\ L' \in Seq(RelaySlots) /\ Len(L') = Len(L) /\ IsInjective(L') /\ ToSet(L') = ToSet(L)
      /\ \A k \in 1..Len(L) - 1 : L'[k] = L[k + 1]
      /\ L'[Len(L)] = h
  BY <1>1, <1>2, <1>3
<1>5. \A k \in ToSet(L) : served[k][h] = 0
  <2>1. ASSUME NEW k \in ToSet(L) PROVE served[k][h] = 0
    <3>1. PICK m \in 1..Len(L) : k = L[m]
      BY RelayList DEF ToSet
    <3>2. 1 \in 1..Len(L) /\ 1 <= m
      BY <1>1
    <3>. QED BY <1>2, <3>1, <3>2 DEF ConfigInv, ServedAreBehind
  <2>. QED BY <2>1
<1>6. \A k, j \in RelaySlots :
         served'[k][j] = IF k = h THEN 0
                         ELSE IF j = h
                         THEN IF served[k][j] < MaxServed THEN served[k][j] + 1 ELSE MaxServed
                         ELSE served[k][j]
  BY <1>3 DEF Served
<1>7. MaxServed \in Nat /\ \A k, j \in RelaySlots : served[k][j] \in Nat
  BY ConfigCenterAssumption DEF ConfigInv, ConfigTypeOK
<1>8. \A k, j \in ToSet(L) :
         /\ served'[k][j] <= 1
         /\ k = h => served'[k][j] = 0
         /\ k # h /\ j # h => served'[k][j] = served[k][j]
  <2>1. ASSUME NEW k \in ToSet(L), NEW j \in ToSet(L)
        PROVE  /\ served'[k][j] <= 1
               /\ k = h => served'[k][j] = 0
               /\ k # h /\ j # h => served'[k][j] = served[k][j]
    <3>1. k \in RelaySlots /\ j \in RelaySlots
      BY RelayList
    <3>2. served[k][j] <= 1
      BY DEF ConfigInv, RelaysTakeTurns
    <3>3. j = h => served[k][j] = 0
      BY <1>5
    <3>. QED BY <1>6, <1>7, <3>1, <3>2, <3>3
  <2>. QED BY <2>1
<1>9. ConfigTypeOK'
  <2>1. served' \in [RelaySlots -> [RelaySlots -> Nat]]
    BY <1>3, <1>7 DEF Served
  <2>. QED BY <1>3, <1>4, <2>1 DEF ConfigInv, ConfigTypeOK
<1>10. RelaysTakeTurns'
  BY <1>4, <1>8 DEF ConfigInv, RelaysTakeTurns
<1>11. ServedAreBehind'
  <2>1. ASSUME NEW m \in 1..Len(L'), NEW n \in 1..Len(L')
        PROVE  served'[L'[m]][L'[n]] <= 1 /\ (n <= m => served'[L'[m]][L'[n]] = 0)
    <3>1. L'[m] \in ToSet(L) /\ L'[n] \in ToSet(L)
      BY <1>4, LenProperties DEF ToSet
    <3>2. CASE m = Len(L)
      BY <1>4, <1>8, <3>1, <3>2
    <3>3. CASE m < Len(L) /\ n <= m
      <4>1. m + 1 \in 1..Len(L) /\ n + 1 \in 1..Len(L) /\ n + 1 <= m + 1 /\ 1 \in 1..Len(L)
            /\ m + 1 # 1 /\ n + 1 # 1
            /\ m \in 1..Len(L) - 1 /\ n \in 1..Len(L) - 1
        BY <1>1, <1>4, <3>3
      <4>2. L'[m] = L[m + 1] /\ L'[n] = L[n + 1]
        BY <1>4, <4>1
      <4>3. L[m + 1] # h /\ L[n + 1] # h
        BY <1>2, <4>1, RelayList DEF IsInjective
      <4>4. served[L[m + 1]][L[n + 1]] = 0
        BY <4>1 DEF ConfigInv, ServedAreBehind
      <4>. QED BY <1>8, <3>1, <4>2, <4>3, <4>4
    <3>4. CASE m < Len(L) /\ ~(n <= m)
      <4>1. served'[L'[m]][L'[n]] <= 1
        BY <1>8, <3>1
      <4>. QED BY <3>4, <4>1
    <3>. QED
      <4>1. m \in 1..Len(L) /\ Len(L) \in Nat
        BY <1>1, <1>4
      <4>2. m = Len(L) \/ m < Len(L)
        BY <4>1
      <4>. QED BY <3>2, <3>3, <3>4, <4>2
  <2>. QED BY <2>1 DEF ServedAreBehind
<1>. QED BY <1>9, <1>10, <1>11 DEF ConfigInv

LEMMA ConfigStep ==
    ASSUME ConfigInv, [ConfigNext]_configVars
    PROVE  ConfigInv'
<1>1. ASSUME UNCHANGED <<RelayServerListAll, relayKey, relayIds, forced, served>>,
             answer' \in {answer, AddressOnly, NoAnswer}
      PROVE  ConfigInv'
  BY <1>1 DEF ConfigInv, ConfigTypeOK, RelaysTakeTurns, ServedAreBehind
<1>2. CASE UNCHANGED configVars
  BY <1>1, <1>2 DEF configVars
<1>3. CASE \E time \in KeyTimes : AddForced(time) \/ ConfigAdd(time)
  <2>1. PICK time \in KeyTimes : AddForced(time) \/ ConfigAdd(time)
    BY <1>3
  <2>2. AddServerInfo(time) /\ forced' \in Nat /\ answer' = answer
    BY <2>1 DEF AddForced, ConfigAdd, ConfigInv, ConfigTypeOK
  <2>. QED BY <2>2, AddServerInfoInv
<1>4. CASE \E key \in KeyTimes \X RelaySlots : ConfigRemove(key)
  BY <1>4, RemoveServerInfoInv
<1>5. CASE \E signed \in BOOLEAN : OnTerminalChallenge(signed)
  <2>1. PICK signed \in BOOLEAN : OnTerminalChallenge(signed)
    BY <1>5
  <2>2. CASE ~signed
    BY <1>1, <2>1, <2>2 DEF OnTerminalChallenge
  <2>3. CASE signed /\ RelayServerListAll = <<>>
    BY <1>1, <2>1, <2>3 DEF OnTerminalChallenge
  <2>4. CASE signed /\ RelayServerListAll # <<>>
    BY <2>1, <2>4, GetAnyRelayServerInv DEF OnTerminalChallenge
  <2>. QED BY <2>2, <2>3, <2>4
<1>6. CASE \E signed \in BOOLEAN : OnIpv6Challenge(signed)
  BY <1>1, <1>6 DEF OnIpv6Challenge
<1>. QED BY <1>2, <1>3, <1>4, <1>5, <1>6 DEF ConfigNext

\* For any number of relay servers, added and removed at any time: the list,
\* the slots and the ids agree, and no server is given to two devices before
\* each other one has been given to one (xCC_RelayServerManager).
THEOREM RelaysRotate == ConfigSpec => []RelaysTakeTurns
<1>1. ConfigInv => RelaysTakeTurns
  BY DEF ConfigInv
<1>. QED BY ConfigInitInv, ConfigStep, <1>1, PTL DEF ConfigSpec

-----------------------------------------------------------------------------
(* The device observer *)

ObserverTypeOK ==
    /\ clock \in 0..MaxClock /\ GlobalTicker \in 0..clock
    /\ DeviceMap \in SUBSET Uuids
    /\ OnlineTimestamp \in [Uuids -> 0..clock]
    /\ DeviceTimeoutList \in Seq(Uuids)
    /\ update \in [Uuids -> {"none", "online", "offline"}]
    /\ report \in [Uuids -> [state : {"none", "online", "offline"}, TotalOnlineTime : Nat]]
    /\ seenAt \in [Uuids -> 0..clock]

\* What was last posted of a device that is online is measured from the start
\* of its presence, or wrapped around.
PostedIsMeasured ==
    \A u \in DeviceMap :
        \/ report[u].TotalOnlineTime > MaxClock
        \/ report[u].TotalOnlineTime + OnlineTimestamp[u] <= GlobalTicker

ObserverInv == ObserverTypeOK /\ ObserverReportsTrue /\ PostedIsMeasured

LEMMA ModOfSmall ==
    ASSUME NEW w \in Nat, NEW a \in Int, a < w, 0 - w <= a, w # 0
    PROVE  a % w = IF a < 0 THEN a + w ELSE a
OBVIOUS

LEMMA ObserverInitInv == ObserverInit => ObserverInv
<1>. SUFFICES ASSUME ObserverInit PROVE ObserverInv
  OBVIOUS
<1>1. Len(<<>>) = 0 /\ <<>> \in Seq(Uuids) /\ 0 \in Nat /\ MaxClock \in Nat
  BY EmptySeq, ObserverAssumption
<1>2. IsInjective(<<>>) /\ ToSet(<<>>) = {}
  BY DEF IsInjective, ToSet
<1>3. ObserverTypeOK
  BY <1>1 DEF ObserverInit, ObserverTypeOK
<1>4. ObserverReportsTrue
  BY <1>1, <1>2 DEF ObserverInit, ObserverReportsTrue
<1>5. PostedIsMeasured
  BY DEF ObserverInit, PostedIsMeasured
<1>. QED BY <1>3, <1>4, <1>5 DEF ObserverInv

\* The online time that PostDeviceInfo posts.
LEMMA PostedTime ==
    ASSUME ObserverInv, NEW online \in 0..clock
    PROVE  LET total == (GlobalTicker - online) % TimeWidth IN
           /\ total \in Nat
           /\ online <= GlobalTicker => total = GlobalTicker - online /\ total <= MaxClock
           /\ ~(online <= GlobalTicker) => total > MaxClock
<1>1. /\ TimeWidth \in Nat /\ MaxClock \in Nat /\ 2 * MaxClock < TimeWidth
      /\ clock \in Nat /\ clock <= MaxClock /\ GlobalTicker \in Nat /\ GlobalTicker <= clock
      /\ online \in Nat /\ online <= clock
  BY ObserverAssumption DEF ObserverInv, ObserverTypeOK
<1>2. PICK a \in Int : a = GlobalTicker - online
  BY <1>1
<1>3. a <= MaxClock /\ 0 - MaxClock <= a /\ a < TimeWidth /\ 0 - TimeWidth <= a /\ TimeWidth # 0
      /\ (online <= GlobalTicker <=> ~(a < 0))
  BY <1>1, <1>2
<1>4. a % TimeWidth = IF a < 0 THEN a + TimeWidth ELSE a
  BY <1>1, <1>3, ModOfSmall
<1>. QED BY <1>1, <1>2, <1>3, <1>4

\* The place of a device in DeviceTimeoutList after it has left it.
LEMMA UnlinkedDevice ==
    ASSUME ObserverInv, NEW u \in DeviceMap
    PROVE  LET t == RemoveFirst(DeviceTimeoutList, u) IN
           /\ t \in Seq(Uuids) /\ IsInjective(t) /\ ToSet(t) = DeviceMap \ {u}
           /\ \A i, j \in 1..Len(t) : i < j => seenAt[t[i]] <= seenAt[t[j]]
<1>1. PICK s \in Seq(Uuids) : /\ s = DeviceTimeoutList /\ IsInjective(s)
                              /\ ToSet(s) = DeviceMap /\ u \in ToSet(s)
  BY DEF ObserverInv, ObserverTypeOK, ObserverReportsTrue
<1>2. /\ RemoveFirst(s, u) \in Seq(Uuids)
      /\ IsInjective(RemoveFirst(s, u)) /\ ToSet(RemoveFirst(s, u)) = ToSet(s) \ {u}
      /\ \A m, n \in 1..Len(RemoveFirst(s, u)) : m < n =>
            \E i, j \in 1..Len(s) :
               i < j /\ RemoveFirst(s, u)[m] = s[i] /\ RemoveFirst(s, u)[n] = s[j]
  BY <1>1, RemoveFirstOfInjective
<1>3. \A i, j \in 1..Len(s) : i < j => seenAt[s[i]] <= seenAt[s[j]]
  BY <1>1 DEF ObserverInv, ObserverReportsTrue
<1>. QED BY <1>1, <1>2, <1>3
LEMMA OnDeviceOfflineInv ==
    ASSUME ObserverInv, NEW u \in Uuids, OnDeviceOffline(u)
    PROVE  ObserverInv'
<1>. USE DEF ObserverInv
<1>1. CASE u \in DeviceMap
  <2>1. PICK total \in Nat : total = (GlobalTicker - OnlineTimestamp[u]) % TimeWidth
    <3>1. PICK online \in 0..clock : online = OnlineTimestamp[u]
      BY DEF ObserverTypeOK
    <3>. QED BY <3>1, PostedTime
  <2>2. /\ update' = [update EXCEPT ![u] = "offline"]
        /\ report' = [report EXCEPT ![u] = [state |-> "offline", TotalOnlineTime |-> total]]
        /\ DeviceMap' = DeviceMap \ {u}
        /\ DeviceTimeoutList' = RemoveFirst(DeviceTimeoutList, u)
        /\ UNCHANGED <<clock, GlobalTicker, OnlineTimestamp, seenAt>>
    BY <1>1, <2>1 DEF OnDeviceOffline, PostDeviceInfo
  <2>3. /\ DeviceTimeoutList' \in Seq(Uuids) /\ IsInjective(DeviceTimeoutList')
        /\ ToSet(DeviceTimeoutList') = DeviceMap \ {u}
        /\ \A i, j \in 1..Len(DeviceTimeoutList') :
              i < j => seenAt[DeviceTimeoutList'[i]] <= seenAt[DeviceTimeoutList'[j]]
    <3>1. PICK t : t = RemoveFirst(DeviceTimeoutList, u)
      OBVIOUS
    <3>2. /\ t \in Seq(Uuids) /\ IsInjective(t) /\ ToSet(t) = DeviceMap \ {u}
          /\ \A i, j \in 1..Len(t) : i < j => seenAt[t[i]] <= seenAt[t[j]]
      BY <1>1, <3>1, UnlinkedDevice
    <3>. QED BY <2>2, <3>1, <3>2
  <2>4. ObserverTypeOK'
    BY <2>1, <2>2, <2>3 DEF ObserverTypeOK
  <2>5. ObserverReportsTrue'
    BY <1>1, <2>2, <2>3 DEF ObserverTypeOK, ObserverReportsTrue
  <2>6. PostedIsMeasured'
    BY <2>2 DEF ObserverTypeOK, PostedIsMeasured
  <2>. QED BY <2>4, <2>5, <2>6
<1>2. CASE u \notin DeviceMap
  <2>1. /\ update' = [update EXCEPT ![u] = "offline"]
        /\ UNCHANGED <<DeviceMap, DeviceTimeoutList, report, clock, GlobalTicker,
                       OnlineTimestamp, seenAt>>
    BY <1>2 DEF OnDeviceOffline
  <2>2. update[u] # "online" /\ report[u].state # "online"
    BY <1>2 DEF ObserverReportsTrue
  <2>3. ObserverTypeOK'
    BY <2>1 DEF ObserverTypeOK
  <2>4. ObserverReportsTrue'
    BY <1>2, <2>1, <2>2 DEF ObserverTypeOK, ObserverReportsTrue
  <2>5. PostedIsMeasured'
    BY <2>1 DEF PostedIsMeasured
  <2>. QED BY <2>3, <2>4, <2>5
<1>. QED BY <1>1, <1>2

LEMMA OnDeviceOnlineInv ==
    ASSUME ObserverInv, NEW u \in Uuids, OnDeviceOnline(u)
    PROVE  ObserverInv'
<1>. USE DEF ObserverInv
<1>1. PICK online \in 0..clock :
         /\ OnlineTimestamp' = [OnlineTimestamp EXCEPT ![u] = online]
         /\ u \in DeviceMap => online = OnlineTimestamp[u]
  <2>1. CASE u \in DeviceMap
    BY <2>1 DEF OnDeviceOnline, ObserverTypeOK
  <2>2. CASE u \notin DeviceMap
    <3>1. clock \in 0..clock
      BY ObserverAssumption DEF ObserverTypeOK
    <3>. QED BY <2>2, <3>1 DEF OnDeviceOnline
  <2>. QED BY <2>1, <2>2
<1>2. /\ OnlineTimestamp'[u] = online /\ OnlineTimestamp' \in [Uuids -> 0..clock]
      /\ \A v \in Uuids \ {u} : OnlineTimestamp'[v] = OnlineTimestamp[v]
  BY <1>1 DEF ObserverTypeOK
<1>3. PICK total \in Nat :
         /\ total = (GlobalTicker - online) % TimeWidth
         /\ online <= GlobalTicker => total = GlobalTicker - online
         /\ ~(online <= GlobalTicker) => total > MaxClock
  BY PostedTime
<1>4. /\ update' = [update EXCEPT ![u] = "online"]
      /\ report' = [report EXCEPT ![u] = [state |-> "online", TotalOnlineTime |-> total]]
      /\ DeviceMap' = DeviceMap \cup {u}
      /\ DeviceTimeoutList' = Append(RemoveFirst(DeviceTimeoutList, u), u)
      /\ seenAt' = [seenAt EXCEPT ![u] = clock]
      /\ UNCHANGED <<clock, GlobalTicker>>
  BY <1>2, <1>3 DEF OnDeviceOnline, PostDeviceInfo
<1>5. PICK t : /\ t = RemoveFirst(DeviceTimeoutList, u)
               /\ t \in Seq(Uuids) /\ IsInjective(t) /\ ToSet(t) = DeviceMap \ {u}
               /\ \A i, j \in 1..Len(t) : i < j => seenAt[t[i]] <= seenAt[t[j]]
  <2>1. CASE u \in DeviceMap
    <3>1. PICK t : t = RemoveFirst(DeviceTimeoutList, u)
      OBVIOUS
    <3>2. /\ t \in Seq(Uuids) /\ IsInjective(t) /\ ToSet(t) = DeviceMap \ {u}
          /\ \A i, j \in 1..Len(t) : i < j => seenAt[t[i]] <= seenAt[t[j]]
      BY <2>1, <3>1, UnlinkedDevice
    <3>. QED BY <3>1, <3>2
  <2>2. CASE u \notin DeviceMap
    <3>1. u \notin ToSet(DeviceTimeoutList) /\ DeviceTimeoutList \in Seq(Uuids)
      BY <2>2 DEF ObserverReportsTrue, ObserverTypeOK
    <3>2. RemoveFirst(DeviceTimeoutList, u) = DeviceTimeoutList
      BY <3>1, RemoveFirstOfOther
    <3>3. /\ IsInjective(DeviceTimeoutList) /\ ToSet(DeviceTimeoutList) = DeviceMap \ {u}
          /\ \A i, j \in 1..Len(DeviceTimeoutList) :
                i < j => seenAt[DeviceTimeoutList[i]] <= seenAt[DeviceTimeoutList[j]]
      BY <2>2 DEF ObserverReportsTrue
    <3>. QED BY <3>1, <3>2, <3>3
  <2>. QED BY <2>1, <2>2
<1>6. Len(t) \in Nat /\ DOMAIN t = 1..Len(t)
      /\ \A i \in 1..Len(t) : t[i] \in Uuids /\ t[i] \in DeviceMap \ {u}
  <2>1. Len(t) \in Nat /\ DOMAIN t = 1..Len(t) /\ \A i \in 1..Len(t) : t[i] \in Uuids
    BY <1>5, LenProperties, ElementOfSeq
  <2>. QED BY <1>5, <2>1 DEF ToSet
<1>7. /\ DeviceTimeoutList' \in Seq(Uuids) /\ IsInjective(DeviceTimeoutList')
      /\ ToSet(DeviceTimeoutList') = DeviceMap'
      /\ Len(DeviceTimeoutList') = Len(t) + 1
      /\ \A k \in 1..Len(t) : DeviceTimeoutList'[k] = t[k]
      /\ DeviceTimeoutList'[Len(t) + 1] = u
  <2>1. /\ Append(t, u) \in Seq(Uuids) /\ Len(Append(t, u)) = Len(t) + 1
        /\ IsInjective(Append(t, u)) /\ ToSet(Append(t, u)) = ToSet(t) \cup {u}
        /\ \A k \in 1..Len(t) : Append(t, u)[k] = t[k]
        /\ Append(t, u)[Len(t) + 1] = u
    BY <1>5, AppendToInjective
  <2>2. DeviceTimeoutList' = Append(t, u) /\ DeviceMap' = ToSet(t) \cup {u}
    BY <1>4, <1>5
  <2>. QED BY <2>1, <2>2
<1>8. ASSUME NEW i \in 1..Len(DeviceTimeoutList'), NEW j \in 1..Len(DeviceTimeoutList'), i < j
      PROVE  seenAt'[DeviceTimeoutList'[i]] <= seenAt'[DeviceTimeoutList'[j]]
  <2>1. i \in 1..Len(t) /\ (j \in 1..Len(t) \/ j = Len(t) + 1)
    BY <1>6, <1>7, <1>8
  <2>2. DeviceTimeoutList'[i] = t[i] /\ t[i] \in Uuids /\ t[i] # u /\ seenAt'[t[i]] = seenAt[t[i]]
    BY <1>4, <1>6, <1>7, <2>1 DEF ObserverTypeOK
  <2>3. CASE j \in 1..Len(t)
    <3>1. DeviceTimeoutList'[j] = t[j] /\ seenAt'[t[j]] = seenAt[t[j]]
      BY <1>4, <1>6, <1>7, <2>3 DEF ObserverTypeOK
    <3>2. seenAt[t[i]] <= seenAt[t[j]]
      BY <1>5, <1>8, <2>1, <2>3
    <3>. QED BY <2>2, <3>1, <3>2
  <2>4. CASE j = Len(t) + 1
    <3>1. DeviceTimeoutList'[j] = u /\ seenAt'[u] = clock /\ seenAt[t[i]] \in 0..clock
      BY <1>4, <1>7, <2>2, <2>4 DEF ObserverTypeOK
    <3>2. seenAt[t[i]] <= clock
      BY <3>1
    <3>. QED BY <2>2, <3>1, <3>2
  <2>. QED BY <2>1, <2>3, <2>4
<1>9. ObserverTypeOK'
  <2>1. clock \in 0..clock
    BY ObserverAssumption DEF ObserverTypeOK
  <2>. QED BY <1>2, <1>3, <1>4, <1>7, <2>1 DEF ObserverTypeOK
<1>10. ObserverReportsTrue'
  <2>1. \A v \in Uuids : /\ v \in DeviceMap' <=> update'[v] = "online"
                         /\ update'[v] = "online" <=> report'[v].state = "online"
    BY <1>4 DEF ObserverTypeOK, ObserverReportsTrue
  <2>. QED BY <1>7, <1>8, <2>1 DEF ObserverReportsTrue
<1>11. PostedIsMeasured'
  <2>1. ASSUME NEW v \in DeviceMap'
        PROVE  \/ report'[v].TotalOnlineTime > MaxClock
               \/ report'[v].TotalOnlineTime + OnlineTimestamp'[v] <= GlobalTicker'
    <3>1. CASE v = u
      <4>1. report'[u].TotalOnlineTime = total /\ OnlineTimestamp'[u] = online
            /\ GlobalTicker' = GlobalTicker /\ GlobalTicker \in Nat /\ online \in Nat
        BY <1>2, <1>4, ObserverAssumption DEF ObserverTypeOK
      <4>. QED BY <1>3, <3>1, <4>1
    <3>2. CASE v # u
      <4>1. v \in DeviceMap /\ v \in Uuids
        BY <1>4, <3>2 DEF ObserverTypeOK
      <4>2. report'[v] = report[v] /\ OnlineTimestamp'[v] = OnlineTimestamp[v]
            /\ GlobalTicker' = GlobalTicker
        BY <1>2, <1>4, <3>2, <4>1 DEF ObserverTypeOK
      <4>. QED BY <4>1, <4>2 DEF PostedIsMeasured
    <3>. QED BY <3>1, <3>2
  <2>. QED BY <2>1 DEF PostedIsMeasured
<1>. QED BY <1>9, <1>10, <1>11

\* The clock and the ticker.
LEMMA ObserverClockInv ==
    ASSUME ObserverInv, ObserverPass \/ ObserverTime \/ UNCHANGED observerVars
    PROVE  ObserverInv'
<1>1. /\ UNCHANGED <<DeviceMap, OnlineTimestamp, DeviceTimeoutList, update, report, seenAt>>
      /\ clock' \in 0..MaxClock /\ GlobalTicker' \in 0..clock'
      /\ clock <= clock' /\ GlobalTicker <= GlobalTicker'
  BY ObserverAssumption
     DEF ObserverPass, ObserverTime, observerVars, ObserverInv, ObserverTypeOK
<1>2. clock \in Nat /\ clock' \in Nat /\ 0..clock \subseteq 0..clock'
  BY <1>1, ObserverAssumption DEF ObserverInv, ObserverTypeOK
<1>3. ObserverTypeOK'
  BY <1>1, <1>2 DEF ObserverInv, ObserverTypeOK
<1>4. ObserverReportsTrue'
  BY <1>1 DEF ObserverInv, ObserverReportsTrue
<1>5. PostedIsMeasured'
  <2>1. ASSUME NEW u \in DeviceMap
        PROVE  report[u].TotalOnlineTime \in Nat /\ OnlineTimestamp[u] \in Nat
    BY <1>2 DEF ObserverInv, ObserverTypeOK
  <2>2. GlobalTicker \in Nat /\ GlobalTicker' \in Nat
    BY <1>1, <1>2 DEF ObserverInv, ObserverTypeOK
  <2>. QED BY <1>1, <2>1, <2>2 DEF ObserverInv, PostedIsMeasured
<1>. QED BY <1>3, <1>4, <1>5 DEF ObserverInv

LEMMA ObserverStep ==
    ASSUME ObserverInv, [ObserverNext]_observerVars
    PROVE  ObserverInv'
BY OnDeviceOfflineInv, OnDeviceOnlineInv, ObserverClockInv DEF ObserverNext

LEMMA PostedGrows ==
    ASSUME ObserverInv, ObserverNext, NEW u \in Uuids,
           report'[u] # report[u], u \in DeviceMap, OnlineTimestamp[u] <= GlobalTicker
    PROVE  /\ report'[u].TotalOnlineTime <= MaxClock
           /\ report[u].TotalOnlineTime <= MaxClock =>
                report[u].TotalOnlineTime <= report'[u].TotalOnlineTime
<1>1. OnDeviceOffline(u) \/ OnDeviceOnline(u)
  <2>1. CASE ObserverPass \/ ObserverTime
    BY <2>1 DEF ObserverPass, ObserverTime
  <2>2. ASSUME NEW v \in Uuids, v # u, OnDeviceOffline(v) \/ OnDeviceOnline(v)
        PROVE  FALSE
    BY <2>2 DEF OnDeviceOffline, OnDeviceOnline, PostDeviceInfo, ObserverInv, ObserverTypeOK
  <2>. QED BY <2>1, <2>2 DEF ObserverNext
<1>2. PICK online \in 0..clock : online = OnlineTimestamp[u]
  BY DEF ObserverInv, ObserverTypeOK
<1>3. PICK total : total = (GlobalTicker - online) % TimeWidth
  OBVIOUS
<1>4. total = GlobalTicker - online /\ total <= MaxClock
  BY <1>2, <1>3, PostedTime
<1>5. report'[u].TotalOnlineTime = total
  <2>1. PICK state : report' = [report EXCEPT ![u] = [state |-> state, TotalOnlineTime |-> total]]
    BY <1>1, <1>2, <1>3 DEF OnDeviceOffline, OnDeviceOnline, PostDeviceInfo
  <2>. QED BY <2>1 DEF ObserverInv, ObserverTypeOK
<1>6. report[u].TotalOnlineTime <= MaxClock =>
         report[u].TotalOnlineTime + online <= GlobalTicker
  BY <1>2, ObserverAssumption DEF ObserverInv, ObserverTypeOK, PostedIsMeasured
<1>7. report[u].TotalOnlineTime \in Nat /\ online \in Nat /\ GlobalTicker \in Nat
  BY <1>2, ObserverAssumption DEF ObserverInv, ObserverTypeOK
<1>. QED BY <1>4, <1>5, <1>6, <1>7

\* For any number of devices: what PostDeviceInfo posts is true of the last
\* update, and the online time, from the pass behind the first, is measured
\* and never shrinks (observer_device_info/_main.cpp).
THEOREM PostedIsTrue == ObserverSpec => ReportsAreTrue
<1>1. ObserverInv => ObserverReportsTrue
  BY DEF ObserverInv
<1>2. ObserverInv /\ [ObserverNext]_observerVars =>
        [\A u \in Uuids :
           report'[u] # report[u] /\ u \in DeviceMap /\ OnlineTimestamp[u] <= GlobalTicker =>
               /\ report'[u].TotalOnlineTime <= MaxClock
               /\ report[u].TotalOnlineTime <= MaxClock =>
                    report[u].TotalOnlineTime <= report'[u].TotalOnlineTime]_observerVars
  BY PostedGrows
<1>. QED
  BY ObserverInitInv, ObserverStep, <1>1, <1>2, PTL DEF ObserverSpec, ReportsAreTrue, OnlineTimeGrows

-----------------------------------------------------------------------------
(* xPA_RelayConnectionManager *)

GroupsTypeOK ==
    /\ RelayGroupMap \in [RelayServerIds -> GroupObjects \cup {NoGroup}]
    /\ KillGroupList \in Seq(GroupObjects)
    /\ TargetAddress \in [GroupObjects -> RelayAddresses \cup {NoAddress}]
    /\ IdleList \in Seq(Links) /\ KillList \in Seq(Links)
    /\ wire \in [Links -> {"none", "connecting", "open", "closed"}]
    /\ ConnectionId \in [Links -> Nat]
    /\ lostIds \in SUBSET (Nat \ {0})

\* A group in the map is allocated, and is that of one server: the group that
\* AddRelayGroup replaces is then in the map no more.
MapIsOwn ==
    \A s, t \in RelayServerIds : RelayGroupMap[s] # NoGroup =>
        /\ TargetAddress[RelayGroupMap[s]] # NoAddress
        /\ RelayGroupMap[s] = RelayGroupMap[t] => s = t

\* The connections that hold an id.
Holders == {c \in Links : IsOpen(c) /\ ConnectionId[c] # 0}

\* The conjuncts of GroupsConsistent, with the lists taken apart.
ListsOfGroups ==
    /\ IsInjective(IdleList) /\ IsInjective(KillList)
    /\ ToSet(IdleList) \cap ToSet(KillList) = {}
    /\ ToSet(IdleList) \cup ToSet(KillList) = {c \in Links : Live(c)}

ReplacedGroups ==
    ToSet(KillGroupList) = {g \in GroupObjects : TargetAddress[g] # NoAddress} \
                              {RelayGroupMap[s] : s \in RelayServerIds}

OpenLinks ==
    \A c \in Links : /\ IsOpen(c) => Live(c)
                     /\ wire[c] = "closed" => c \in ToSet(KillList)

IdsOfLinks ==
    /\ \A c, d \in Holders : ConnectionId[c] = ConnectionId[d] => c = d
    /\ IdsOf(Holders) \cap lostIds = {} /\ usedIds = IdsOf(Holders) \cup lostIds

GroupsInv ==
    GroupsTypeOK /\ MapIsOwn /\ ListsOfGroups /\ ReplacedGroups /\ OpenLinks /\ IdsOfLinks

LEMMA GroupsInvIsConsistent == GroupsInv => GroupsConsistent
<1>. SUFFICES ASSUME GroupsInv PROVE GroupsConsistent
  OBVIOUS
<1>. USE DEF GroupsInv
<1>1. /\ IsInjective(IdleList \o KillList)
      /\ ToSet(IdleList \o KillList) = {c \in Links : Live(c)}
  <2>1. IdleList \in Seq(Links) /\ KillList \in Seq(Links)
    BY DEF GroupsTypeOK
  <2>. QED BY <2>1, ConcatOfInjective DEF ListsOfGroups
<1>2. ToSet(KillList) = {KillList[i] : i \in DOMAIN KillList}
  BY DEF ToSet
<1>3. \A c \in Links : /\ IsOpen(c) => Live(c)
                       /\ wire[c] = "closed" => Contains(KillList, c)
  BY DEF OpenLinks, Contains, ToSet, GroupsTypeOK
<1>. QED BY <1>1, <1>3 DEF GroupsConsistent, ReplacedGroups, IdsOfLinks, Holders

LEMMA GroupsInitInv == RelayGroupsInit => GroupsInv
<1>. SUFFICES ASSUME RelayGroupsInit PROVE GroupsInv
  OBVIOUS
<1>. USE DEF RelayGroupsInit
<1>1. /\ \A S : <<>> \in Seq(S)
      /\ ToSet(<<>>) = {} /\ IsInjective(<<>>)
  BY DEF ToSet, IsInjective
<1>2. GroupsTypeOK
  BY <1>1 DEF GroupsTypeOK
<1>3. MapIsOwn
  BY DEF MapIsOwn
<1>4. ListsOfGroups
  BY <1>1 DEF ListsOfGroups, Live, Links
<1>5. ReplacedGroups
  BY <1>1 DEF ReplacedGroups
<1>6. OpenLinks
  BY DEF OpenLinks, IsOpen
<1>7. IdsOfLinks
  BY DEF IdsOfLinks, Holders, IsOpen, IdsOf
<1>. QED BY <1>2, <1>3, <1>4, <1>5, <1>6, <1>7 DEF GroupsInv

\* What keeps the ids: no connection's id or wire changes, but for the wire of
\* one that was open and is not "none" now.
LEMMA SameHolders ==
    ASSUME GroupsInv, UNCHANGED <<ConnectionId, usedIds, lostIds>>,
           \A c \in Links : IsOpen(c)' <=> IsOpen(c)
    PROVE  IdsOfLinks'
BY DEF GroupsInv, IdsOfLinks, Holders, IdsOf

\* A connection that is open goes to the end of the IdleList.
LEMMA KeepAliveKeepsInv ==
    ASSUME GroupsInv, NEW c \in Links, wire[c] \in {"connecting", "open"},
           wire' \in [Links -> {"none", "connecting", "open", "closed"}],
           \A d \in Links : wire'[d] = IF d = c THEN "open" ELSE wire[d],
           KeepAlive(c)
    PROVE  GroupsInv'
<1>. USE DEF GroupsInv
<1>0. PICK i \in Seq(Links), k \in Seq(Links) : i = IdleList /\ k = KillList
  BY DEF GroupsTypeOK
<1>1. PICK u \in Seq(Links) : u = Unlinked(i, {c}) /\ ToSet(u) = ToSet(i) \ {c} /\ IsInjective(u)
  BY <1>0, UnlinkedProperties DEF ListsOfGroups
<1>2. PICK v \in Seq(Links) : v = Unlinked(k, {c}) /\ ToSet(v) = ToSet(k) \ {c} /\ IsInjective(v)
  BY <1>0, UnlinkedProperties DEF ListsOfGroups
<1>3. PICK w \in Seq(Links) : w = Append(u, c) /\ ToSet(w) = ToSet(u) \cup {c} /\ IsInjective(w)
  BY <1>1, AppendToInjective
<1>4. IdleList' = w /\ KillList' = v
  BY <1>0, <1>1, <1>2, <1>3 DEF KeepAlive
<1>5. UNCHANGED <<RelayGroupMap, KillGroupList, TargetAddress, ConnectionId, usedIds, lostIds>>
  BY DEF KeepAlive
<1>6. Live(c) /\ \A d \in Links : Live(d)' <=> Live(d)
  BY <1>5 DEF OpenLinks, IsOpen, Live
<1>7. \A d \in Links : IsOpen(d)' <=> IsOpen(d)
  BY DEF IsOpen
<1>8. GroupsTypeOK'
  BY <1>4, <1>5 DEF GroupsTypeOK
<1>9. MapIsOwn'
  BY <1>5 DEF MapIsOwn
<1>10. ListsOfGroups'
  <2>1. ToSet(w) \cap ToSet(v) = {}
    BY <1>0, <1>1, <1>2, <1>3 DEF ListsOfGroups
  <2>2. ToSet(w) \cup ToSet(v) = (ToSet(i) \cup ToSet(k)) \cup {c}
    BY <1>1, <1>2, <1>3
  <2>3. ToSet(i) \cup ToSet(k) = {d \in Links : Live(d)}
    BY <1>0 DEF ListsOfGroups
  <2>4. ToSet(w) \cup ToSet(v) = {d \in Links : Live(d)'}
    BY <1>6, <2>2, <2>3
  <2>. QED BY <1>2, <1>3, <1>4, <2>1, <2>4 DEF ListsOfGroups
<1>11. ReplacedGroups'
  BY <1>5 DEF ReplacedGroups
<1>12. OpenLinks'
  <2>1. \A d \in Links : wire'[d] = "closed" => d \in ToSet(v)
    BY <1>0, <1>2 DEF OpenLinks
  <2>. QED BY <1>4, <1>6, <1>7, <2>1 DEF OpenLinks
<1>13. IdsOfLinks'
  BY <1>5, <1>7, SameHolders
<1>. QED BY <1>8, <1>9, <1>10, <1>11, <1>12, <1>13

\* A connection of an old group is closed by its peer.
LEMMA PeerCloseKeepsInv ==
    ASSUME GroupsInv, NEW c \in Links, LinkPeerClose(c)
    PROVE  GroupsInv'
<1>. USE DEF GroupsInv
<1>0. PICK i \in Seq(Links), k \in Seq(Links) : i = IdleList /\ k = KillList
  BY DEF GroupsTypeOK
<1>1. PICK u \in Seq(Links) : u = Unlinked(i, {c}) /\ ToSet(u) = ToSet(i) \ {c} /\ IsInjective(u)
  BY <1>0, UnlinkedProperties DEF ListsOfGroups
<1>2. PICK v \in Seq(Links) : v = Unlinked(k, {c}) /\ ToSet(v) = ToSet(k) \ {c} /\ IsInjective(v)
  BY <1>0, UnlinkedProperties DEF ListsOfGroups
<1>3. PICK w \in Seq(Links) : w = Append(v, c) /\ ToSet(w) = ToSet(v) \cup {c} /\ IsInjective(w)
  BY <1>2, AppendToInjective
<1>4. IdleList' = u /\ KillList' = w
  BY <1>0, <1>1, <1>2, <1>3 DEF LinkPeerClose
<1>5. UNCHANGED <<RelayGroupMap, KillGroupList, TargetAddress, ConnectionId, usedIds, lostIds>>
  BY DEF LinkPeerClose
<1>6. /\ wire' = [wire EXCEPT ![c] = "closed"] /\ wire[c] \in {"connecting", "open"}
      /\ wire' \in [Links -> {"none", "connecting", "open", "closed"}]
      /\ \A d \in Links : wire'[d] = IF d = c THEN "closed" ELSE wire[d]
  BY DEF LinkPeerClose, GroupsTypeOK
<1>7. \A d \in Links : IsOpen(d)' <=> IsOpen(d)
  BY <1>6 DEF IsOpen
<1>8. Live(c) /\ \A d \in Links : Live(d)' <=> Live(d)
  BY <1>5, <1>6 DEF OpenLinks, IsOpen, Live
<1>9. GroupsTypeOK'
  BY <1>4, <1>5, <1>6 DEF GroupsTypeOK
<1>10. MapIsOwn'
  BY <1>5 DEF MapIsOwn
<1>11. ListsOfGroups'
  <2>1. ToSet(u) \cap ToSet(w) = {}
    BY <1>0, <1>1, <1>2, <1>3 DEF ListsOfGroups
  <2>2. ToSet(u) \cup ToSet(w) = (ToSet(i) \cup ToSet(k)) \cup {c}
    BY <1>1, <1>2, <1>3
  <2>3. ToSet(i) \cup ToSet(k) = {d \in Links : Live(d)}
    BY <1>0 DEF ListsOfGroups
  <2>4. ToSet(u) \cup ToSet(w) = {d \in Links : Live(d)'}
    BY <1>8, <2>2, <2>3
  <2>. QED BY <1>1, <1>3, <1>4, <2>1, <2>4 DEF ListsOfGroups
<1>12. ReplacedGroups'
  BY <1>5 DEF ReplacedGroups
<1>13. OpenLinks'
  <2>1. \A d \in Links : wire'[d] = "closed" => d \in ToSet(w)
    BY <1>0, <1>2, <1>3, <1>6 DEF OpenLinks
  <2>. QED BY <1>4, <1>7, <1>8, <2>1 DEF OpenLinks
<1>14. IdsOfLinks'
  BY <1>5, <1>7, SameHolders
<1>. QED BY <1>9, <1>10, <1>11, <1>12, <1>13, <1>14

\* The connections of a new group, the last one first.
LEMMA NewLinks ==
    ASSUME NEW g \in GroupObjects
    PROVE  LET s == [i \in 1..ConnectionsPerGroup |-> <<g, ConnectionsPerGroup + 1 - i>>] IN
           s \in Seq(Links) /\ IsInjective(s) /\ ToSet(s) = {c \in Links : c[1] = g}
<1>. DEFINE n == ConnectionsPerGroup
            s == [i \in 1..n |-> <<g, n + 1 - i>>]
<1>1. n \in Nat
  BY RelayGroupsAssumption
<1>2. DOMAIN s = 1..n /\ \A i \in 1..n : s[i] = <<g, n + 1 - i>> /\ n + 1 - i \in 1..n
  BY <1>1
<1>3. s \in [1..n -> Links]
  BY <1>2 DEF Links
<1>4. s \in Seq(Links)
  BY <1>1, <1>3, SeqDef
<1>5. IsInjective(s)
  <2>1. ASSUME NEW i \in 1..n, NEW j \in 1..n, s[i] = s[j] PROVE i = j
    <3>1. n + 1 - i = n + 1 - j
      BY <1>2, <2>1
    <3>. QED BY <1>1, <3>1
  <2>. QED BY <1>2, <2>1 DEF IsInjective
<1>6. ASSUME NEW c \in Links, c[1] = g PROVE c \in ToSet(s)
  <2>1. PICK i \in 1..n : c = <<g, i>>
    BY <1>6 DEF Links
  <2>2. n + 1 - i \in 1..n /\ n + 1 - (n + 1 - i) = i
    BY <1>1
  <2>3. s[n + 1 - i] = c
    BY <1>2, <2>1, <2>2
  <2>. QED BY <1>2, <2>2, <2>3 DEF ToSet
<1>7. ASSUME NEW c \in ToSet(s) PROVE c \in Links /\ c[1] = g
  BY <1>2, <1>3 DEF ToSet
<1>. QED BY <1>4, <1>5, <1>6, <1>7

LEMMA AddRelayGroupKeepsInv ==
    ASSUME GroupsInv, NEW s \in RelayServerIds, NEW address \in RelayAddresses,
           AddRelayGroup(s, address)
    PROVE  GroupsInv'
<1>. USE DEF GroupsInv
<1>0. PICK i \in Seq(Links), k \in Seq(Links) : i = IdleList /\ k = KillList
  BY DEF GroupsTypeOK
<1>1. PICK old \in GroupObjects \cup {NoGroup} : old = RelayGroupMap[s]
  BY DEF GroupsTypeOK
<1>2. PICK g \in GroupObjects :
         /\ TargetAddress[g] = NoAddress
         /\ RelayGroupMap' = [RelayGroupMap EXCEPT ![s] = g]
         /\ TargetAddress' = [TargetAddress EXCEPT ![g] = address]
         /\ IdleList' = [n \in 1..ConnectionsPerGroup |-> <<g, ConnectionsPerGroup + 1 - n>>]
                          \o IdleList
  BY DEF AddRelayGroup
<1>3. PICK a \in Seq(Links) : /\ a = [n \in 1..ConnectionsPerGroup |-> <<g, ConnectionsPerGroup + 1 - n>>]
                              /\ IsInjective(a) /\ ToSet(a) = {c \in Links : c[1] = g}
  BY NewLinks
<1>4. KillGroupList' = IF old = NoGroup THEN KillGroupList ELSE Append(KillGroupList, old)
  BY <1>1 DEF AddRelayGroup
<1>5. UNCHANGED <<KillList, wire, ConnectionId, usedIds, lostIds>> /\ IdleList' = a \o i
  BY <1>0, <1>2, <1>3 DEF AddRelayGroup
<1>6. g # NoGroup /\ address # NoAddress
  BY RelayGroupsAssumption DEF GroupObjects
<1>7. /\ \A c \in Links : Live(c)' <=> Live(c) \/ c[1] = g
      /\ \A c \in Links : Live(c) => c[1] # g
      /\ \A h \in GroupObjects : TargetAddress'[h] # NoAddress <=> TargetAddress[h] # NoAddress \/ h = g
      /\ \A c \in Links : c[1] \in GroupObjects
  BY <1>2, <1>6 DEF Live, GroupsTypeOK, Links
<1>8. \A t \in RelayServerIds : RelayGroupMap'[t] = IF t = s THEN g ELSE RelayGroupMap[t]
  BY <1>2 DEF GroupsTypeOK
<1>9. \A t \in RelayServerIds : RelayGroupMap[t] # g
  BY <1>2, <1>6 DEF MapIsOwn
<1>10. PICK q \in Seq(GroupObjects) : q = KillGroupList
  BY DEF GroupsTypeOK
<1>11. PICK r \in Seq(GroupObjects) :
          r = KillGroupList' /\ ToSet(r) = ToSet(q) \cup ({old} \ {NoGroup})
  <2>1. CASE old = NoGroup
    <3>1. KillGroupList' = q /\ {old} \ {NoGroup} = {}
      BY <1>4, <1>10, <2>1
    <3>. QED BY <3>1
  <2>2. CASE old # NoGroup
    <3>1. old \in GroupObjects /\ KillGroupList' = Append(q, old) /\ {old} \ {NoGroup} = {old}
      BY <1>1, <1>4, <1>10, <2>2
    <3>2. Append(q, old) \in Seq(GroupObjects) /\ ToSet(Append(q, old)) = ToSet(q) \cup {old}
      BY <3>1, ToSetOfAppend
    <3>. QED BY <3>1, <3>2
  <2>. QED BY <2>1, <2>2
<1>12. PICK j \in Seq(Links) : j = a \o i /\ ToSet(j) = ToSet(a) \cup ToSet(i)
  <2>1. a \o i \in Seq(Links) /\ ToSet(a \o i) = ToSet(a) \cup ToSet(i)
    BY ConcatOfInjective
  <2>. QED BY <2>1
<1>13. GroupsTypeOK'
  BY <1>2, <1>5, <1>11, <1>12 DEF GroupsTypeOK
<1>14. MapIsOwn'
  <2>1. \A t \in RelayServerIds : RelayGroupMap'[t] # NoGroup =>
           RelayGroupMap'[t] \in GroupObjects /\ TargetAddress'[RelayGroupMap'[t]] # NoAddress
    BY <1>7, <1>8, <1>13 DEF MapIsOwn, GroupsTypeOK
  <2>2. \A t, v \in RelayServerIds :
           RelayGroupMap'[t] # NoGroup /\ RelayGroupMap'[t] = RelayGroupMap'[v] => t = v
    BY <1>8, <1>9 DEF MapIsOwn
  <2>. QED BY <2>1, <2>2 DEF MapIsOwn
<1>15. ListsOfGroups'
  <2>1. ToSet(a) \cap (ToSet(i) \cup ToSet(k)) = {}
    BY <1>0, <1>3, <1>7 DEF ListsOfGroups
  <2>2. IsInjective(j)
    BY <1>0, <1>3, <1>12, <2>1, ConcatOfInjective DEF ListsOfGroups
  <2>3. ToSet(j) \cap ToSet(k) = {}
    BY <1>0, <1>12, <2>1 DEF ListsOfGroups
  <2>4. ToSet(i) \cup ToSet(k) = {c \in Links : Live(c)}
    BY <1>0 DEF ListsOfGroups
  <2>5. ToSet(j) \cup ToSet(k) = {c \in Links : Live(c)'}
    BY <1>3, <1>7, <1>12, <2>4
  <2>. QED BY <1>0, <1>5, <1>12, <2>2, <2>3, <2>5 DEF ListsOfGroups
<1>16. ReplacedGroups'
  <2>1. \A h \in GroupObjects : h \in ToSet(r) <=>
           TargetAddress'[h] # NoAddress /\ \A t \in RelayServerIds : h # RelayGroupMap'[t]
    <3>1. \A h \in GroupObjects : h \in ToSet(q) <=>
             TargetAddress[h] # NoAddress /\ \A t \in RelayServerIds : h # RelayGroupMap[t]
      BY <1>10 DEF ReplacedGroups
    <3>2. SUFFICES ASSUME NEW h \in GroupObjects
                   PROVE  h \in ToSet(r) <=>
                            TargetAddress'[h] # NoAddress /\ \A t \in RelayServerIds : h # RelayGroupMap'[t]
      OBVIOUS
    <3>3. CASE h = g
      <4>1. h \notin ToSet(q) /\ h # old /\ RelayGroupMap'[s] = h
        BY <1>1, <1>2, <1>8, <1>9, <3>1, <3>3
      <4>. QED BY <1>11, <4>1
    <3>4. CASE h # g /\ h = old
      <4>1. h # NoGroup /\ h \in ToSet(r)
        BY <1>11, <3>4, RelayGroupsAssumption DEF GroupObjects
      <4>2. TargetAddress'[h] # NoAddress
        BY <1>1, <1>7, <3>4, <4>1 DEF MapIsOwn
      <4>3. \A t \in RelayServerIds : h # RelayGroupMap'[t]
        BY <1>1, <1>8, <3>4, <4>1 DEF MapIsOwn
      <4>. QED BY <4>1, <4>2, <4>3
    <3>5. CASE h # g /\ h # old
      <4>1. h \in ToSet(r) <=> h \in ToSet(q)
        BY <1>11, <3>5
      <4>2. TargetAddress'[h] # NoAddress <=> TargetAddress[h] # NoAddress
        BY <1>7, <3>5
      <4>3. ASSUME NEW t \in RelayServerIds
            PROVE  h # RelayGroupMap'[t] <=> h # RelayGroupMap[t]
        BY <1>1, <1>8, <3>5
      <4>. QED BY <3>1, <4>1, <4>2, <4>3
    <3>. QED BY <3>3, <3>4, <3>5
  <2>2. ToSet(r) \subseteq GroupObjects
    BY ToSetOfAppend
  <2>. QED BY <1>11, <2>1, <2>2 DEF ReplacedGroups
<1>17. OpenLinks'
  BY <1>5, <1>7 DEF OpenLinks, IsOpen
<1>18. IdsOfLinks'
  <2>1. \A c \in Links : IsOpen(c)' <=> IsOpen(c)
    BY <1>5 DEF IsOpen
  <2>. QED BY <1>5, <2>1, SameHolders
<1>. QED BY <1>13, <1>14, <1>15, <1>16, <1>17, <1>18

\* FrontIn is well defined: a front of the list, which ends where the list or
\* the Tick's look at it does, or in front of what is not in C.
LEMMA FrontInStops ==
    ASSUME NEW list \in Seq(Links), NEW C
    PROVE  \E n \in 0..Len(list) : /\ FrontIn(list, C) = SubSeq(list, 1, n)
                                   /\ \A i \in 1..n : list[i] \in C
                                   /\ n = Len(list) \/ n = CheckLimit \/ list[n + 1] \notin C
<1>1. Len(list) \in Nat /\ CheckLimit \in Nat
  BY LenProperties, RelayGroupsAssumption
<1>2. PICK max \in 0..Len(list) : /\ max = Min({Len(list), CheckLimit})
                                  /\ max = Len(list) \/ max = CheckLimit
  <2>1. {Len(list), CheckLimit} \in SUBSET Nat /\ {Len(list), CheckLimit} # {}
    BY <1>1
  <2>2. PICK m : m = Min({Len(list), CheckLimit})
    OBVIOUS
  <2>3. m \in {Len(list), CheckLimit} /\ m <= Len(list)
    BY <2>1, <2>2, MinIsLeast
  <2>4. m \in 0..Len(list)
    BY <1>1, <2>3
  <2>. QED BY <2>2, <2>3, <2>4
<1>. DEFINE T == {n \in 0..max : n < max => list[n + 1] \notin C}
<1>3. T \in SUBSET Nat /\ max \in T
  BY <1>1
<1>4. PICK n \in T : \A m \in T : n <= m
  BY <1>3, LeastExists
<1>5. \A i \in 1..n : list[i] \in C
  <2>1. SUFFICES ASSUME NEW i \in 1..n PROVE list[i] \in C
    OBVIOUS
  <2>2. i - 1 \in 0..max /\ i - 1 < max /\ i - 1 + 1 = i /\ ~(n <= i - 1)
    BY <1>1, <1>3, <1>4
  <2>3. i - 1 \notin T
    BY <1>4, <2>2
  <2>. QED BY <2>2, <2>3
<1>6. PICK m \in 0..max :
         /\ m = CHOOSE k \in 0..max : /\ \A i \in 1..k : list[i] \in C
                                      /\ k < max => list[k + 1] \notin C
         /\ \A i \in 1..m : list[i] \in C
         /\ m < max => list[m + 1] \notin C
  BY <1>4, <1>5
<1>7. FrontIn(list, C) = SubSeq(list, 1, m)
  BY <1>2, <1>6 DEF FrontIn
<1>8. m \in 0..Len(list) /\ (m < max \/ m = max)
  BY <1>1
<1>. QED BY <1>2, <1>6, <1>7, <1>8

\* No id is given out twice, and none that is in use.
LEMMA AcquiredProperties ==
    ASSUME NEW s \in Seq(Links), NEW free \in SUBSET (Nat \ {0})
    PROVE  LET ids == Acquired(s, free) IN
           /\ \A i \in 1..Len(s) : ids[i] \in free \cup {0}
           /\ \A i, j \in 1..Len(s) : ids[i] # 0 /\ ids[i] = ids[j] => i = j
<1>. DEFINE below(x) == Cardinality({y \in free : y < x})
            next(i)  == {x \in free : below(x) = i - 1}
            ids == Acquired(s, free)
<1>1. Len(s) \in Nat
  BY LenProperties
<1>2. \A i \in 1..Len(s) : ids[i] = IF next(i) = {} THEN 0 ELSE CHOOSE x \in next(i) : TRUE
  BY DEF Acquired
<1>3. \A i \in 1..Len(s) : ids[i] = 0 \/ ids[i] \in next(i)
  <2>1. SUFFICES ASSUME NEW i \in 1..Len(s), next(i) # {} PROVE ids[i] \in next(i)
    BY <1>2
  <2>2. ids[i] = CHOOSE x \in next(i) : TRUE
    BY <1>2, <2>1
  <2>. HIDE DEF next, ids
  <2>. QED BY <2>1, <2>2
<1>4. ASSUME NEW i \in 1..Len(s), NEW j \in 1..Len(s), ids[i] # 0, ids[i] = ids[j]
      PROVE  i = j
  <2>1. ids[i] \in next(i) /\ ids[i] \in next(j)
    BY <1>3, <1>4
  <2>2. PICK x : x = ids[i]
    OBVIOUS
  <2>3. below(x) = i - 1 /\ below(x) = j - 1
    BY <2>1, <2>2
  <2>. HIDE DEF below
  <2>. QED BY <1>1, <2>3
<1>. QED BY <1>3, <1>4

\* What a Tick does to the ids: kept are those that are not released, and the
\* connections of opened, which were not open, get the ids id.
IdsAfterTick(gone, opened, F, kept, id) ==
    /\ gone \subseteq Links /\ opened \subseteq Links /\ F \subseteq opened
    /\ opened \cap gone = {} /\ \A c \in opened : ~IsOpen(c)
    /\ \A x : x \in kept <=> x \in usedIds /\ \A c \in gone : IsOpen(c) => x # ConnectionId[c]
    /\ \A c \in opened : id[c] \in Nat /\ id[c] \notin kept
    /\ \A c, d \in opened : id[c] # 0 /\ id[c] = id[d] => c = d
    /\ \A c \in Links : /\ c \in opened \ F => wire'[c] = "connecting"
                        /\ c \in gone => wire'[c] = "none"
                        /\ c \notin opened \ F /\ c \notin gone => wire'[c] = wire[c]
    /\ \A c \in Links : /\ c \in opened => ConnectionId'[c] = id[c]
                        /\ c \in gone => ConnectionId'[c] = 0
                        /\ c \notin opened /\ c \notin gone => ConnectionId'[c] = ConnectionId[c]
    /\ \A x : x \in usedIds' <=> (x \in kept \/ \E c \in opened : x = id[c]) /\ x # 0
    /\ \A x : x \in lostIds' <=> (x \in lostIds \/ \E c \in F : x = id[c]) /\ x # 0

LEMMA TickKeepsIds ==
    ASSUME GroupsTypeOK, IdsOfLinks,
           NEW gone, NEW opened, NEW F, NEW kept, NEW id, IdsAfterTick(gone, opened, F, kept, id)
    PROVE  IdsOfLinks'
<1>. USE DEF IdsAfterTick
<1>. DEFINE new   == {c \in opened \ F : id[c] # 0}
            still == Holders \ gone
<1>1. \A c \in opened : wire[c] = "none" /\ c \notin Holders
  BY DEF IsOpen, Holders
<1>2. Holders' = new \cup still
  <2>1. SUFFICES ASSUME NEW c \in Links PROVE c \in Holders' <=> c \in new \cup still
    BY DEF Holders
  <2>2. c \in Holders' <=> wire'[c] # "none" /\ ConnectionId'[c] # 0
    BY DEF Holders, IsOpen
  <2>3. CASE c \in opened \ F
    <3>1. wire'[c] = "connecting" /\ ConnectionId'[c] = id[c]
      BY <2>3
    <3>. QED BY <1>1, <2>2, <2>3, <3>1
  <2>4. CASE c \in F
    <3>1. wire'[c] = "none"
      BY <1>1, <2>4
    <3>. QED BY <1>1, <2>2, <2>4, <3>1
  <2>5. CASE c \notin opened /\ c \in gone
    <3>1. wire'[c] = "none"
      BY <2>5
    <3>. QED BY <2>2, <2>5, <3>1
  <2>6. CASE c \notin opened /\ c \notin gone
    <3>1. wire'[c] = wire[c] /\ ConnectionId'[c] = ConnectionId[c]
      BY <2>6
    <3>. QED BY <2>2, <2>6, <3>1 DEF Holders, IsOpen
  <2>. QED BY <2>3, <2>4, <2>5, <2>6
<1>3. /\ \A c \in new : ConnectionId'[c] = id[c]
      /\ \A c \in still : ConnectionId'[c] = ConnectionId[c] /\ ConnectionId[c] # 0
      /\ still \subseteq Links
  <2>1. \A c \in new : ConnectionId'[c] = id[c]
    OBVIOUS
  <2>2. ASSUME NEW c \in still
        PROVE  c \in Links /\ ConnectionId'[c] = ConnectionId[c] /\ ConnectionId[c] # 0
    <3>1. c \in Links /\ c \notin opened /\ c \notin gone /\ ConnectionId[c] # 0
      BY <1>1 DEF Holders
    <3>. QED BY <3>1
  <2>. QED BY <2>1, <2>2
<1>4. kept = IdsOf(still) \cup lostIds
  <2>1. usedIds = IdsOf(Holders) \cup lostIds /\ IdsOf(Holders) \cap lostIds = {} /\ 0 \notin lostIds
    BY DEF IdsOfLinks, GroupsTypeOK
  <2>2. \A x \in IdsOf({c \in gone : IsOpen(c)}) : x = 0 \/ x \in IdsOf(Holders \cap gone)
    BY DEF IdsOf, Holders
  <2>3. IdsOf(Holders \cap gone) \subseteq IdsOf({c \in gone : IsOpen(c)})
    BY DEF IdsOf, Holders
  <2>4. IdsOf(Holders) = IdsOf(Holders \cap gone) \cup IdsOf(still)
    BY DEF IdsOf
  <2>5. IdsOf(Holders \cap gone) \cap IdsOf(still) = {}
    BY DEF IdsOf, IdsOfLinks
  <2>6. 0 \notin IdsOf(Holders)
    BY DEF IdsOf, Holders
  <2>7. \A x : x \in kept <=> x \in usedIds \ IdsOf({c \in gone : IsOpen(c)})
    BY DEF IdsOf
  <2>8. \A x \in IdsOf(still) \cup lostIds : x \in kept
    <3>1. ASSUME NEW x \in IdsOf(still) PROVE x \in kept
      <4>1. PICK c \in still : x = ConnectionId[c]
        BY DEF IdsOf
      <4>2. x \in IdsOf(Holders)
        BY <4>1 DEF IdsOf
      <4>3. \A d \in gone : IsOpen(d) => x # ConnectionId[d]
        BY <4>1 DEF IdsOfLinks, Holders
      <4>. QED BY <2>1, <4>2, <4>3
    <3>2. ASSUME NEW x \in lostIds PROVE x \in kept
      <4>1. x \in usedIds /\ x \notin IdsOf(Holders) /\ x # 0
        BY <2>1
      <4>2. x \notin IdsOf({c \in gone : IsOpen(c)})
        BY <2>2, <2>4, <4>1
      <4>. QED BY <2>7, <4>1, <4>2
    <3>. QED BY <3>1, <3>2
  <2>9. \A x \in kept : x \in IdsOf(still) \cup lostIds
    BY <2>1, <2>3, <2>4, <2>7
  <2>. QED BY <2>8, <2>9
<1>5. IdsOf(Holders)' = {id[c] : c \in new} \cup IdsOf(still)
  <2>1. IdsOf(Holders)' = {ConnectionId'[c] : c \in new \cup still}
    BY <1>2 DEF IdsOf
  <2>. QED BY <1>3, <2>1 DEF IdsOf
<1>6. \A c, d \in Holders' : ConnectionId'[c] = ConnectionId'[d] => c = d
  <2>1. SUFFICES ASSUME NEW c \in new \cup still, NEW d \in new \cup still,
                        ConnectionId'[c] = ConnectionId'[d]
                 PROVE  c = d
    BY <1>2
  <2>2. \A e \in still : ConnectionId[e] \in kept
    BY <1>4 DEF IdsOf
  <2>3. CASE c \in new /\ d \in new
    BY <1>3, <2>1, <2>3
  <2>4. CASE c \in still /\ d \in still
    BY <1>3, <2>1, <2>4 DEF IdsOfLinks
  <2>5. CASE c \in new /\ d \in still
    BY <1>3, <2>1, <2>2, <2>5
  <2>6. CASE c \in still /\ d \in new
    BY <1>3, <2>1, <2>2, <2>6
  <2>. QED BY <2>3, <2>4, <2>5, <2>6
<1>7. IdsOf(Holders)' \cap lostIds' = {}
  <2>1. ASSUME NEW c \in new PROVE id[c] \notin lostIds'
    <3>1. id[c] \notin lostIds
      BY <1>4
    <3>2. \A d \in F : id[d] # id[c]
      OBVIOUS
    <3>. QED BY <3>1, <3>2
  <2>2. ASSUME NEW x \in IdsOf(still) PROVE x \notin lostIds'
    <3>1. x \in kept /\ x \in IdsOf(Holders)
      BY <1>4 DEF IdsOf
    <3>2. x \notin lostIds
      BY <3>1 DEF IdsOfLinks
    <3>. QED BY <3>1, <3>2
  <2>3. \A x \in IdsOf(Holders)' : x \in IdsOf(still) \/ \E c \in new : x = id[c]
    BY <1>5
  <2>4. \A x \in IdsOf(Holders)' : x \notin lostIds'
    <3>1. SUFFICES ASSUME NEW x \in IdsOf(Holders)' PROVE x \notin lostIds'
      OBVIOUS
    <3>2. CASE x \in IdsOf(still)
      BY <2>2, <3>2
    <3>3. CASE x \notin IdsOf(still)
      <4>1. PICK c \in new : x = id[c]
        BY <2>3, <3>3
      <4>. QED BY <2>1, <4>1
    <3>. QED BY <3>2, <3>3
  <2>. QED BY <2>4
<1>8. usedIds' = IdsOf(Holders)' \cup lostIds'
  <2>1. {id[c] : c \in opened} \ {0} = {id[c] : c \in new} \cup ({id[c] : c \in F} \ {0})
    OBVIOUS
  <2>2. 0 \notin kept
    <3>1. 0 \notin IdsOf(still) /\ 0 \notin lostIds
      BY <1>3 DEF IdsOf, GroupsTypeOK
    <3>. QED BY <1>4, <3>1
  <2>3. lostIds' = lostIds \cup ({id[c] : c \in F} \ {0})
    BY <1>4, <2>2
  <2>4. usedIds' = kept \cup ({id[c] : c \in opened} \ {0})
    BY <2>2
  <2>. QED BY <1>4, <1>5, <2>1, <2>3, <2>4
<1>. QED BY <1>6, <1>7, <1>8 DEF IdsOfLinks

\* What a Tick looks through, and the connections that it finds due.
Found(pass, idle, due, n) ==
    /\ idle \in Seq(Links) /\ IsInjective(idle)
    /\ idle = Unlinked(IdleList \o KillList, Deleted)
    /\ ToSet(idle) = (ToSet(IdleList) \cup ToSet(KillList)) \ Deleted
    /\ n \in 0..Len(idle) /\ due \in Seq(Links) /\ Len(due) = n /\ due = SubSeq(idle, 1, n)
    /\ \A i \in 1..n : RequestAgeNow(pass)[idle[i]] >= RequestLimit
    /\ \/ n = Len(idle) \/ n = CheckLimit
       \/ idle[n + 1] \in Links /\ ~(RequestAgeNow(pass)[idle[n + 1]] >= RequestLimit)
    /\ ToSet(due) \subseteq ToSet(idle) /\ ToSet(due) \cap (Cleaned \cup Deleted) = {}
    /\ \A c \in ToSet(due) : RequestAgeNow(pass)[c] >= RequestLimit

LEMMA TickFinds ==
    ASSUME GroupsInv, NEW pass \in PassTimes, RelayTick(pass)
    PROVE  \E F, idle, due, n :
              /\ Found(pass, idle, due, n) /\ Reconnect(F, pass, idle, due)
              /\ F \subseteq {c \in ToSet(due) : ~IsOpen(c)}
<1>. USE DEF GroupsInv
<1>1. PICK idle : /\ idle = Unlinked(IdleList \o KillList, Deleted)
                  /\ \E due \in {Due(idle, RequestAgeNow(pass))} :
                       \E F \in SUBSET {c \in ToSet(due) : ~IsOpen(c)} : Reconnect(F, pass, idle, due)
  BY DEF RelayTick
<1>2. PICK due : /\ due = Due(idle, RequestAgeNow(pass))
                 /\ \E F \in SUBSET {c \in ToSet(due) : ~IsOpen(c)} : Reconnect(F, pass, idle, due)
  BY <1>1
<1>3. /\ idle \in Seq(Links) /\ IsInjective(idle)
      /\ ToSet(idle) = (ToSet(IdleList) \cup ToSet(KillList)) \ Deleted
  <2>1. IdleList \in Seq(Links) /\ KillList \in Seq(Links)
    BY DEF GroupsTypeOK
  <2>2. PICK l \in Seq(Links) : /\ l = IdleList \o KillList /\ IsInjective(l)
                                /\ ToSet(l) = ToSet(IdleList) \cup ToSet(KillList)
    <3>1. /\ IdleList \o KillList \in Seq(Links) /\ IsInjective(IdleList \o KillList)
          /\ ToSet(IdleList \o KillList) = ToSet(IdleList) \cup ToSet(KillList)
      BY <2>1, ConcatOfInjective DEF ListsOfGroups
    <3>. QED BY <3>1
  <2>3. idle = Unlinked(l, Deleted)
    BY <1>1, <2>2
  <2>4. idle \in Seq(Links) /\ ToSet(idle) = ToSet(l) \ Deleted
    BY <2>3, UnlinkedProperties
  <2>5. IsInjective(idle)
    BY <2>2, <2>3, UnlinkedProperties
  <2>. QED BY <2>2, <2>4, <2>5
<1>4. PICK n \in 0..Len(idle) :
         /\ due = SubSeq(idle, 1, n) /\ Len(due) = n
         /\ \A i \in 1..n : RequestAgeNow(pass)[idle[i]] >= RequestLimit
         /\ \/ n = Len(idle) \/ n = CheckLimit
            \/ idle[n + 1] \in Links /\ ~(RequestAgeNow(pass)[idle[n + 1]] >= RequestLimit)
  <2>1. PICK n \in 0..Len(idle) :
           /\ due = SubSeq(idle, 1, n)
           /\ \A i \in 1..n : idle[i] \in {c \in Links : RequestAgeNow(pass)[c] >= RequestLimit}
           /\ \/ n = Len(idle) \/ n = CheckLimit
              \/ idle[n + 1] \notin {c \in Links : RequestAgeNow(pass)[c] >= RequestLimit}
    BY <1>2, <1>3, FrontInStops DEF Due
  <2>2. Len(due) = n
    BY <1>3, <2>1, SplitInTwo
  <2>3. n # Len(idle) => idle[n + 1] \in Links
    <3>1. n # Len(idle) => n + 1 \in 1..Len(idle)
      BY <1>3, LenProperties
    <3>. QED BY <1>3, <3>1, ElementOfSeq
  <2>. QED BY <2>1, <2>2, <2>3
<1>5. due \in Seq(Links) /\ ToSet(due) \subseteq ToSet(idle)
      /\ \A c \in ToSet(due) : RequestAgeNow(pass)[c] >= RequestLimit
  <2>1. due \in Seq(Links)
    BY <1>3, <1>4, SplitInTwo
  <2>2. \A i \in 1..n : due[i] = idle[i] /\ i \in DOMAIN idle
    BY <1>3, <1>4, LenProperties, SubSeqProperties, ElementOfSeq
  <2>3. DOMAIN due = 1..n
    BY <1>4, <2>1, LenProperties
  <2>. QED BY <1>4, <2>1, <2>2, <2>3 DEF ToSet
<1>6. ToSet(due) \cap (Cleaned \cup Deleted) = {}
  <2>1. ASSUME NEW c \in ToSet(due), c \in Cleaned PROVE FALSE
    <3>1. c \in Links
      BY <1>5, ToSetOfAppend
    <3>2. RequestAgeNow(pass)[c] = 0
      BY <2>1, <3>1 DEF RequestAgeNow
    <3>. QED BY <1>5, <2>1, <3>2, RelayGroupsAssumption
  <2>2. ToSet(due) \cap Deleted = {}
    BY <1>3, <1>5
  <2>. QED BY <2>1, <2>2
<1>7. Found(pass, idle, due, n)
  BY <1>1, <1>3, <1>4, <1>5, <1>6 DEF Found
<1>. QED BY <1>2, <1>7

LEMMA RelayTickKeepsInv ==
    ASSUME GroupsInv, NEW pass \in PassTimes, RelayTick(pass)
    PROVE  GroupsInv'
<1>. USE DEF GroupsInv
<1>1. PICK F, idle, due, n : /\ Found(pass, idle, due, n) /\ Reconnect(F, pass, idle, due)
                             /\ F \subseteq {c \in ToSet(due) : ~IsOpen(c)}
  BY TickFinds
<1>2. Reconnect(F, pass, idle, due)
  BY <1>1
<1>. DEFINE gone   == Cleaned \cup Deleted
            seen   == ToSet(due)
            reopen == Unlinked(due, {c \in seen : IsOpen(c)})
            opened == ToSet(reopen)
            silent == {c \in seen \ opened : ResponseAgeNow(pass)[c] >= ResponseLimit}
            kept   == usedIds \ IdsOf({c \in gone : IsOpen(c)})
            ids    == Acquired(reopen, (1..MaxIds) \ kept)
            id     == [c \in opened |-> ids[CHOOSE i \in 1..Len(reopen) : reopen[i] = c]]
<1>3. /\ KillGroupList' = <<>>
      /\ TargetAddress' = [g \in GroupObjects |->
                             IF Contains(KillGroupList, g) THEN NoAddress ELSE TargetAddress[g]]
      /\ IdleList' = SubSeq(idle, Len(due) + 1, Len(idle)) \o Unlinked(due, silent)
      /\ KillList' = Unlinked(due, seen \ silent)
      /\ UNCHANGED RelayGroupMap
  <2>1. /\ KillGroupList' = <<>> /\ UNCHANGED RelayGroupMap
        /\ TargetAddress' = [g \in GroupObjects |->
                               IF Contains(KillGroupList, g) THEN NoAddress ELSE TargetAddress[g]]
    BY DEF RelayTick
  <2>. QED BY <1>2, <2>1 DEF Reconnect
<1>4. /\ wire' = [c \in Links |-> CASE c \in opened \ F -> "connecting"
                                    [] c \in gone -> "none"
                                    [] OTHER -> wire[c]]
      /\ ConnectionId' = [c \in Links |-> CASE c \in opened -> id[c]
                                            [] c \in gone -> 0
                                            [] OTHER -> ConnectionId[c]]
  BY <1>2 DEF Reconnect
<1>5. /\ usedIds' = (kept \cup {id[c] : c \in opened}) \ {0}
      /\ lostIds' = (lostIds \cup {id[c] : c \in F}) \ {0}
  BY <1>2 DEF Reconnect
<1>. HIDE DEF ids, id, silent, kept
\* the lists
<1>6. /\ idle \in Seq(Links) /\ IsInjective(idle)
      /\ ToSet(idle) = (ToSet(IdleList) \cup ToSet(KillList)) \ Deleted
  BY <1>1 DEF Found
<1>7. n \in 0..Len(idle) /\ due = SubSeq(idle, 1, n) /\ Len(due) = n
  BY <1>1 DEF Found
<1>8. due \in Seq(Links) /\ seen \subseteq ToSet(idle)
  BY <1>1 DEF Found
<1>9. /\ reopen \in Seq(Links) /\ opened \subseteq seen
      /\ \A c \in opened : ~IsOpen(c)
      /\ F \subseteq opened
  <2>1. ToSet(due) \subseteq Links
    BY <1>8, ToSetOfAppend
  <2>2. reopen \in Seq(Links) /\ opened = seen \ {c \in seen : IsOpen(c)}
    BY <1>8, <2>1, UnlinkedProperties
  <2>. QED BY <1>1, <2>2
<1>10. seen \cap gone = {}
  BY <1>1 DEF Found
<1>11. /\ IdleList' \in Seq(Links) /\ IsInjective(IdleList')
       /\ KillList' \in Seq(Links) /\ IsInjective(KillList')
       /\ ToSet(IdleList') \cap ToSet(KillList') = {}
       /\ ToSet(IdleList') \cup ToSet(KillList') = ToSet(idle)
  <2>1. PICK i, k :
           /\ i = SubSeq(idle, n + 1, Len(idle)) \o Unlinked(SubSeq(idle, 1, n), silent)
           /\ k = Unlinked(SubSeq(idle, 1, n), ToSet(SubSeq(idle, 1, n)) \ silent)
    OBVIOUS
  <2>2. IdleList' = i /\ KillList' = k
    BY <1>3, <1>7, <2>1
  <2>3. /\ i \in Seq(Links) /\ IsInjective(i) /\ k \in Seq(Links) /\ IsInjective(k)
        /\ ToSet(i) \cap ToSet(k) = {} /\ ToSet(i) \cup ToSet(k) = ToSet(idle)
    BY <1>6, <1>7, <2>1, FrontAndRest
  <2>. QED BY <2>2, <2>3
\* the groups
<1>12. PICK q \in Seq(GroupObjects) : q = KillGroupList
  BY DEF GroupsTypeOK
<1>13. /\ TargetAddress' \in [GroupObjects -> RelayAddresses \cup {NoAddress}]
       /\ \A g \in GroupObjects : TargetAddress'[g] # NoAddress <=>
                                    TargetAddress[g] # NoAddress /\ g \notin ToSet(q)
  <2>1. \A g \in GroupObjects : Contains(KillGroupList, g) <=> g \in ToSet(q)
    BY <1>12 DEF Contains, ToSet
  <2>. QED BY <1>3, <2>1 DEF GroupsTypeOK
<1>14. \A c \in Links : c \in Deleted <=> c[1] \in ToSet(q)
  <2>1. ToSet(q) \subseteq GroupObjects
    BY ToSetOfAppend
  <2>. QED BY <1>12, <2>1 DEF Deleted, LinksOf, Links
<1>15. \A c \in Links : Live(c)' <=> Live(c) /\ c \notin Deleted
  BY <1>13, <1>14 DEF Live, Links
\* the ids
<1>16. /\ \A c \in opened : id[c] \in Nat /\ id[c] \notin kept
       /\ \A c, d \in opened : id[c] # 0 /\ id[c] = id[d] => c = d
  <2>1. (1..MaxIds) \ kept \in SUBSET (Nat \ {0}) /\ 0 \notin kept
    <3>1. 0 \notin usedIds
      BY DEF IdsOfLinks, GroupsTypeOK, IdsOf, Holders
    <3>2. 0 \notin kept
      BY <3>1 DEF kept
    <3>3. 1..MaxIds \subseteq Nat \ {0}
      BY RelayGroupsAssumption
    <3>. QED BY <3>2, <3>3
  <2>2. /\ \A i \in 1..Len(reopen) : ids[i] \in ((1..MaxIds) \ kept) \cup {0}
        /\ \A i, j \in 1..Len(reopen) : ids[i] # 0 /\ ids[i] = ids[j] => i = j
    BY <1>9, <2>1, AcquiredProperties DEF ids
  <2>3. ASSUME NEW c \in opened
        PROVE  \E i \in 1..Len(reopen) : reopen[i] = c /\ id[c] = ids[i]
    <3>1. \E i \in 1..Len(reopen) : reopen[i] = c
      BY <1>9, LenProperties DEF ToSet
    <3>2. PICK i \in 1..Len(reopen) : /\ i = CHOOSE j \in 1..Len(reopen) : reopen[j] = c
                                      /\ reopen[i] = c
      BY <3>1
    <3>3. id[c] = ids[i]
      BY <3>2 DEF id
    <3>. QED BY <3>2, <3>3
  <2>4. ASSUME NEW c \in opened PROVE id[c] \in Nat /\ id[c] \notin kept
    BY <2>1, <2>2, <2>3
  <2>5. ASSUME NEW c \in opened, NEW d \in opened, id[c] # 0, id[c] = id[d] PROVE c = d
    <3>1. PICK i \in 1..Len(reopen) : reopen[i] = c /\ id[c] = ids[i]
      BY <2>3
    <3>2. PICK j \in 1..Len(reopen) : reopen[j] = d /\ id[d] = ids[j]
      BY <2>3
    <3>3. i = j
      BY <2>2, <2>5, <3>1, <3>2
    <3>. QED BY <3>1, <3>2, <3>3
  <2>. QED BY <2>4, <2>5
<1>17. opened \subseteq Links /\ gone \subseteq Links /\ opened \cap gone = {}
  <2>1. opened \subseteq Links
    BY <1>9, ToSetOfAppend
  <2>2. Cleaned \subseteq Links
    BY ToSetOfAppend DEF Cleaned, GroupsTypeOK
  <2>3. Deleted \subseteq Links
    <3>1. ToSet(q) \subseteq GroupObjects
      BY ToSetOfAppend
    <3>. QED BY <1>12, <3>1 DEF Deleted, LinksOf, Links
  <2>. QED BY <1>9, <1>10, <2>1, <2>2, <2>3
<1>. HIDE DEF opened, gone, seen, reopen
<1>18. \A c \in Links : /\ c \in opened \ F => wire'[c] = "connecting"
                        /\ c \in gone => wire'[c] = "none"
                        /\ c \notin opened \ F /\ c \notin gone => wire'[c] = wire[c]
  BY <1>4, <1>17
<1>19. \A c \in Links : /\ c \in opened => ConnectionId'[c] = id[c]
                        /\ c \in gone => ConnectionId'[c] = 0
                        /\ c \notin opened /\ c \notin gone => ConnectionId'[c] = ConnectionId[c]
  BY <1>4, <1>17
<1>20. IdsOfLinks'
  <2>1. PICK g \in SUBSET Links : g = gone
    BY <1>17
  <2>2. PICK o \in SUBSET Links : o = opened
    BY <1>17
  <2>3. PICK f \in SUBSET o : f = F
    BY <1>9, <2>2
  <2>4. PICK k : k = kept
    OBVIOUS
  <2>5. PICK i : i = id
    OBVIOUS
  <2>6. \A x : x \in k <=> x \in usedIds /\ \A c \in g : IsOpen(c) => x # ConnectionId[c]
    BY <2>1, <2>4 DEF kept, IdsOf
  <2>7. \A x : x \in usedIds' <=> (x \in k \/ \E c \in o : x = i[c]) /\ x # 0
    BY <1>5, <2>2, <2>4, <2>5
  <2>8. \A x : x \in lostIds' <=> (x \in lostIds \/ \E c \in f : x = i[c]) /\ x # 0
    BY <1>5, <2>3, <2>5
  <2>9. o \cap g = {}
    BY <1>17, <2>1, <2>2
  <2>10. \A c \in o : ~IsOpen(c)
    BY <1>9, <2>2
  <2>11. \A c \in o : i[c] \in Nat /\ i[c] \notin k
    BY <1>16, <2>2, <2>4, <2>5
  <2>12. \A c, d \in o : i[c] # 0 /\ i[c] = i[d] => c = d
    BY <1>16, <2>2, <2>5
  <2>13. \A c \in Links : /\ c \in o \ f => wire'[c] = "connecting"
                          /\ c \in g => wire'[c] = "none"
                          /\ c \notin o \ f /\ c \notin g => wire'[c] = wire[c]
    BY <1>18, <2>1, <2>2, <2>3
  <2>14. \A c \in Links : /\ c \in o => ConnectionId'[c] = i[c]
                          /\ c \in g => ConnectionId'[c] = 0
                          /\ c \notin o /\ c \notin g => ConnectionId'[c] = ConnectionId[c]
    BY <1>19, <2>1, <2>2, <2>5
  <2>15. IdsAfterTick(g, o, f, k, i)
    BY ONLY <2>6, <2>7, <2>8, <2>9, <2>10, <2>11, <2>12, <2>13, <2>14,
            g \in SUBSET Links, o \in SUBSET Links, f \in SUBSET o DEF IdsAfterTick
  <2>. QED BY <2>15, TickKeepsIds
<1>21. GroupsTypeOK'
  <2>1. wire' \in [Links -> {"none", "connecting", "open", "closed"}]
    BY <1>4, <1>18 DEF GroupsTypeOK
  <2>2. ConnectionId' \in [Links -> Nat]
    BY <1>4, <1>16, <1>19 DEF GroupsTypeOK
  <2>3. lostIds' \in SUBSET (Nat \ {0})
    BY <1>9, <1>5, <1>16 DEF GroupsTypeOK
  <2>4. KillGroupList' \in Seq(GroupObjects)
    BY <1>3
  <2>5. RelayGroupMap' \in [RelayServerIds -> GroupObjects \cup {NoGroup}]
    BY <1>3 DEF GroupsTypeOK
  <2>. QED BY <1>11, <1>13, <2>1, <2>2, <2>3, <2>4, <2>5 DEF GroupsTypeOK
<1>22. MapIsOwn'
  <2>1. ASSUME NEW s \in RelayServerIds, RelayGroupMap[s] # NoGroup
        PROVE  TargetAddress'[RelayGroupMap[s]] # NoAddress
    <3>1. RelayGroupMap[s] \in GroupObjects /\ TargetAddress[RelayGroupMap[s]] # NoAddress
      BY <2>1 DEF GroupsTypeOK, MapIsOwn
    <3>2. RelayGroupMap[s] \notin ToSet(q)
      BY <1>12 DEF ReplacedGroups
    <3>. QED BY <1>13, <3>1, <3>2
  <2>. QED BY <1>3, <2>1 DEF MapIsOwn
<1>23. ListsOfGroups'
  <2>1. ToSet(idle) = {c \in Links : Live(c)'}
    BY <1>6, <1>15 DEF ListsOfGroups
  <2>. QED BY <1>11, <2>1 DEF ListsOfGroups
<1>24. ReplacedGroups'
  <2>1. ToSet(KillGroupList') = {}
    BY <1>3 DEF ToSet
  <2>2. ASSUME NEW g \in GroupObjects, TargetAddress'[g] # NoAddress
        PROVE  g \in {RelayGroupMap[s] : s \in RelayServerIds}
    BY <1>12, <1>13, <2>2 DEF ReplacedGroups
  <2>. QED BY <1>3, <2>1, <2>2 DEF ReplacedGroups
<1>25. OpenLinks'
  <2>1. SUFFICES ASSUME NEW c \in Links
                 PROVE  /\ wire'[c] # "none" => Live(c)'
                        /\ wire'[c] # "closed"
    BY DEF OpenLinks, IsOpen
  <2>2. CASE c \in opened \ F
    <3>1. c \in ToSet(idle)
      BY <1>8, <1>9, <2>2
    <3>2. Live(c) /\ c \notin Deleted
      BY <1>6, <3>1 DEF ListsOfGroups
    <3>. QED BY <1>15, <1>18, <2>2, <3>2
  <2>3. CASE c \in gone
    BY <1>18, <2>3
  <2>4. CASE c \notin opened \ F /\ c \notin gone
    <3>1. wire'[c] = wire[c] /\ c \notin Deleted /\ c \notin ToSet(KillList)
      BY <1>18, <2>4 DEF gone, Cleaned
    <3>. QED BY <1>15, <3>1 DEF OpenLinks, IsOpen
  <2>. QED BY <2>2, <2>3, <2>4
<1>. QED BY <1>20, <1>21, <1>22, <1>23, <1>24, <1>25

LEMMA GroupsStepKeepsInv ==
    ASSUME GroupsInv, [RelayGroupsNext]_relayGroupVars
    PROVE  GroupsInv'
<1>1. ASSUME NEW s \in RelayServerIds, NEW address \in RelayAddresses, AddRelayGroup(s, address)
      PROVE  GroupsInv'
  BY <1>1, AddRelayGroupKeepsInv
<1>2. ASSUME NEW c \in Links, LinkConnected(c) PROVE GroupsInv'
  <2>1. /\ wire' \in [Links -> {"none", "connecting", "open", "closed"}]
        /\ \A d \in Links : wire'[d] = IF d = c THEN "open" ELSE wire[d]
    BY <1>2 DEF LinkConnected, GroupsInv, GroupsTypeOK
  <2>2. wire[c] \in {"connecting", "open"} /\ KeepAlive(c)
    BY <1>2 DEF LinkConnected
  <2>. QED BY <2>1, <2>2, KeepAliveKeepsInv
<1>3. ASSUME NEW c \in Links, LinkKeepAlive(c) PROVE GroupsInv'
  <2>1. /\ wire' \in [Links -> {"none", "connecting", "open", "closed"}]
        /\ \A d \in Links : wire'[d] = IF d = c THEN "open" ELSE wire[d]
    BY <1>3 DEF LinkKeepAlive, GroupsInv, GroupsTypeOK
  <2>2. wire[c] \in {"connecting", "open"} /\ KeepAlive(c)
    BY <1>3 DEF LinkKeepAlive
  <2>. QED BY <2>1, <2>2, KeepAliveKeepsInv
<1>4. ASSUME NEW c \in Links, LinkPeerClose(c) PROVE GroupsInv'
  BY <1>4, PeerCloseKeepsInv
<1>5. ASSUME NEW pass \in PassTimes, RelayTick(pass) PROVE GroupsInv'
  BY <1>5, RelayTickKeepsInv
<1>6. CASE UNCHANGED relayGroupVars
  BY <1>6 DEF relayGroupVars, relayLists, GroupsInv, GroupsTypeOK, MapIsOwn, ListsOfGroups,
              ReplacedGroups, OpenLinks, IdsOfLinks, Holders, IdsOf, Live, IsOpen
<1>. QED BY <1>1, <1>2, <1>3, <1>4, <1>5, <1>6 DEF RelayGroupsNext

\* For any number of servers, connections and ids, and any limits: every
\* connection of every group that is in the map or was replaced is on the
\* IdleList or the KillList, once; a closed one is on the KillList; no two
\* open connections have the same id, and no id leaks but those of connections
\* that could not be opened.
THEOREM RelayGroupsAreConsistent == GroupsSpec => []GroupsConsistent
<1>1. RelayGroupsInit => GroupsInv
  BY GroupsInitInv
<1>2. GroupsInv /\ [RelayGroupsNext]_relayGroupVars => GroupsInv'
  BY GroupsStepKeepsInv
<1>3. GroupsInv => GroupsConsistent
  BY GroupsInvIsConsistent
<1>. QED BY <1>1, <1>2, <1>3, PTL DEF GroupsSpec

-----------------------------------------------------------------------------
(* xPA_RelayConnectionManager: who is given up *)

AgesTypeOK ==
    /\ requestAge \in [Links -> 0..ResponseLimit] /\ responseAge \in [Links -> 0..ResponseLimit]
    /\ waiting \in [Links -> -1..RequestLimit]

\* The connections of a new group are due at once.
FreeIsDue == \A c \in Links : ~Live(c) => requestAge[c] = ResponseLimit

\* One that has not answered waits since the last request to it, or longer.
WaitingSinceAsked ==
    \A c \in Links : waiting[c] # -1 =>
        requestAge[c] <= waiting[c] \/ waiting[c] = RequestLimit

\* One that has answered all requests was asked before it answered, as were all
\* in front of it: since it answered it is at the end of the list.
AnsweredIsBehindDue ==
    \A c \in ToSet(IdleList) : IsOpen(c) /\ waiting[c] = -1 =>
        /\ responseAge[c] < RequestLimit /\ responseAge[c] <= requestAge[c]
        /\ \A d \in ToSet(IdleList) : Before(IdleList, d, c) => responseAge[c] <= requestAge[d]

AgesInv == AgesTypeOK /\ FreeIsDue /\ WaitingSinceAsked /\ AnsweredIsBehindDue

\* A Tick can look at all connections that are due.
DueFits ==
    \A pass \in PassTimes :
        Cardinality({c \in Links : Live(c) /\ RequestAgeNow(pass)[c] >= RequestLimit}) <= CheckLimit

LEMMA AgesInitInv == RelayGroupsInit => AgesInv
<1>. SUFFICES ASSUME RelayGroupsInit PROVE AgesInv
  OBVIOUS
<1>1. ResponseLimit \in Nat /\ RequestLimit \in Nat
  BY RelayGroupsAssumption DEF ResponseLimit
<1>2. AgesTypeOK
  BY <1>1 DEF RelayGroupsInit, AgesTypeOK
<1>3. FreeIsDue /\ WaitingSinceAsked
  BY DEF RelayGroupsInit, FreeIsDue, WaitingSinceAsked
<1>4. AnsweredIsBehindDue
  BY EmptyToSet DEF RelayGroupsInit, AnsweredIsBehindDue
<1>. QED BY <1>2, <1>3, <1>4 DEF AgesInv

LEMMA Limits ==
    /\ RequestLimit \in Nat \ {0} /\ ResponseLimit \in Nat /\ RequestLimit < ResponseLimit
    /\ \A pass \in PassTimes : pass \in Nat \ {0}
BY RelayGroupsAssumption DEF ResponseLimit

\* What a pass makes of an age.
LEMMA AgedProperties ==
    ASSUME NEW pass \in PassTimes
    PROVE  /\ \A a \in 0..ResponseLimit :
                 /\ Aged(a, pass) \in 0..ResponseLimit /\ a <= Aged(a, pass)
                 /\ Aged(a, pass) <= a + pass
                 /\ (a + pass < ResponseLimit => Aged(a, pass) = a + pass)
                 /\ (a + pass >= ResponseLimit => Aged(a, pass) = ResponseLimit)
           /\ Aged(ResponseLimit, pass) = ResponseLimit
           /\ \A a, b \in 0..ResponseLimit : a <= b => Aged(a, pass) <= Aged(b, pass)
<1>1. PICK d \in Nat : d = pass /\ d > 0
  BY Limits
<1>2. RequestLimit \in Nat \ {0} /\ ResponseLimit \in Nat /\ RequestLimit < ResponseLimit
  BY Limits
<1>. QED BY <1>1, <1>2 DEF Aged

LEMMA AddRelayGroupKeepsAges ==
    ASSUME GroupsInv, AgesInv, NEW s \in RelayServerIds, NEW address \in RelayAddresses,
           AddRelayGroup(s, address)
    PROVE  AgesInv'
<1>0. PICK i \in Seq(Links), k \in Seq(Links) : i = IdleList /\ k = KillList
  BY DEF GroupsInv, GroupsTypeOK
<1>1. PICK g \in GroupObjects :
         /\ TargetAddress[g] = NoAddress
         /\ TargetAddress' = [TargetAddress EXCEPT ![g] = address]
         /\ IdleList' = [n \in 1..ConnectionsPerGroup |-> <<g, ConnectionsPerGroup + 1 - n>>]
                          \o IdleList
  BY DEF AddRelayGroup
<1>2. PICK a \in Seq(Links) : /\ a = [n \in 1..ConnectionsPerGroup |-> <<g, ConnectionsPerGroup + 1 - n>>]
                              /\ ToSet(a) = {c \in Links : c[1] = g}
  BY NewLinks
<1>3. /\ IdleList' = a \o i /\ ToSet(a \o i) = ToSet(a) \cup ToSet(i)
      /\ UNCHANGED <<KillList, wire, requestAge, responseAge, waiting>>
  <2>1. IdleList' = a \o i
    BY <1>0, <1>1, <1>2
  <2>2. ToSet(a \o i) = ToSet(a) \cup ToSet(i)
    BY ConcatOfInjective
  <2>3. UNCHANGED <<KillList, wire, requestAge, responseAge, waiting>>
    BY DEF AddRelayGroup
  <2>. QED BY <2>1, <2>2, <2>3
<1>4. \A c \in Links : Live(c) => Live(c)'
  BY <1>1, RelayGroupsAssumption DEF Live, GroupsInv, GroupsTypeOK, Links
<1>5. \A c \in ToSet(a) : c \in Links /\ ~Live(c) /\ ~IsOpen(c) /\ requestAge[c] = ResponseLimit
  BY <1>1, <1>2 DEF Live, GroupsInv, OpenLinks, AgesInv, FreeIsDue
<1>6. AgesTypeOK' /\ WaitingSinceAsked'
  BY <1>3 DEF AgesInv, AgesTypeOK, WaitingSinceAsked
<1>7. FreeIsDue'
  BY <1>3, <1>4 DEF AgesInv, FreeIsDue
<1>8. AnsweredIsBehindDue'
  <2>1. SUFFICES ASSUME NEW c \in ToSet(a \o i), IsOpen(c), waiting[c] = -1
                 PROVE  /\ responseAge[c] < RequestLimit /\ responseAge[c] <= requestAge[c]
                        /\ \A d \in ToSet(a \o i) : Before(a \o i, d, c) => responseAge[c] <= requestAge[d]
    BY <1>3 DEF AnsweredIsBehindDue, IsOpen
  <2>2. c \notin ToSet(a) /\ c \in ToSet(i)
    BY <1>3, <1>5, <2>1
  <2>3. /\ responseAge[c] < RequestLimit /\ responseAge[c] <= requestAge[c]
        /\ \A d \in ToSet(i) : Before(i, d, c) => responseAge[c] <= requestAge[d]
    BY <1>0, <2>1, <2>2 DEF AgesInv, AnsweredIsBehindDue
  <2>4. responseAge[c] \in 0..ResponseLimit
    <3>1. ToSet(i) \subseteq Links
      BY ToSetOfAppend
    <3>. QED BY <2>2, <3>1 DEF AgesInv, AgesTypeOK
  <2>5. ASSUME NEW d \in ToSet(a \o i), Before(a \o i, d, c) PROVE responseAge[c] <= requestAge[d]
    <3>1. d \in ToSet(a) \/ Before(i, d, c)
      <4>1. Before(a, d, c) => c \in ToSet(a)
        BY OrderedAreInList
      <4>. QED BY <2>2, <2>5, <4>1, ConcatOrder
    <3>2. CASE d \in ToSet(a)
      BY <1>5, <2>4, <3>2, Limits
    <3>3. CASE Before(i, d, c)
      BY <2>3, <3>3, OrderedAreInList
    <3>. QED BY <3>1, <3>2, <3>3
  <2>. QED BY <2>3, <2>5
<1>. QED BY <1>6, <1>7, <1>8 DEF AgesInv

LEMMA KeepAliveKeepsAges ==
    ASSUME GroupsInv, AgesInv, NEW c \in Links, KeepAlive(c),
           \A d \in Links \ {c} : wire'[d] = wire[d]
    PROVE  AgesInv'
<1>0. PICK i \in Seq(Links) : i = IdleList
  BY DEF GroupsInv, GroupsTypeOK
<1>1. PICK u \in Seq(Links) : u = Unlinked(i, {c}) /\ ToSet(u) = ToSet(i) \ {c}
  BY <1>0, UnlinkedProperties
<1>2. PICK w \in Seq(Links) : w = Append(u, c) /\ ToSet(w) = ToSet(u) \cup {c}
  <2>1. Append(u, c) \in Seq(Links) /\ ToSet(Append(u, c)) = ToSet(u) \cup {c}
    BY ToSetOfAppend
  <2>. QED BY <1>1, <2>1
<1>3. /\ IdleList' = w /\ UNCHANGED <<TargetAddress, requestAge>>
      /\ \A d \in Links : responseAge'[d] = IF d = c THEN 0 ELSE responseAge[d]
      /\ \A d \in Links : waiting'[d] = IF d = c THEN -1 ELSE waiting[d]
      /\ responseAge' = [responseAge EXCEPT ![c] = 0] /\ waiting' = [waiting EXCEPT ![c] = -1]
  BY <1>0, <1>1, <1>2 DEF KeepAlive, AgesInv, AgesTypeOK
<1>4. AgesTypeOK'
  <2>1. 0 \in 0..ResponseLimit /\ -1 \in -1..RequestLimit
    BY Limits
  <2>2. requestAge' \in [Links -> 0..ResponseLimit]
    BY <1>3 DEF AgesInv, AgesTypeOK
  <2>3. responseAge' \in [Links -> 0..ResponseLimit]
    BY <1>3, <2>1 DEF AgesInv, AgesTypeOK
  <2>4. waiting' \in [Links -> -1..RequestLimit]
    BY <1>3, <2>1 DEF AgesInv, AgesTypeOK
  <2>. QED BY <2>2, <2>3, <2>4 DEF AgesTypeOK
<1>5. FreeIsDue' /\ WaitingSinceAsked'
  BY <1>3 DEF AgesInv, FreeIsDue, WaitingSinceAsked, Live
<1>6. AnsweredIsBehindDue'
  <2>1. SUFFICES ASSUME NEW d \in ToSet(w), IsOpen(d)', waiting'[d] = -1
                 PROVE  /\ responseAge'[d] < RequestLimit /\ responseAge'[d] <= requestAge[d]
                        /\ \A e \in ToSet(w) : Before(w, e, d) => responseAge'[d] <= requestAge[e]
    BY <1>3 DEF AnsweredIsBehindDue
  <2>2. ToSet(w) \subseteq Links /\ ToSet(u) \subseteq Links
    BY ToSetOfAppend
  <2>3. CASE d = c
    <3>1. responseAge'[d] = 0
      BY <1>3, <2>3
    <3>2. \A e \in Links : 0 <= requestAge[e]
      BY Limits DEF AgesInv, AgesTypeOK
    <3>. QED BY <2>2, <2>3, <3>1, <3>2, Limits
  <2>4. CASE d # c
    <3>1. d \in ToSet(i) /\ d \in Links /\ IsOpen(d) /\ waiting[d] = -1 /\ responseAge'[d] = responseAge[d]
      BY <1>1, <1>2, <1>3, <2>1, <2>2, <2>4 DEF IsOpen
    <3>2. /\ responseAge[d] < RequestLimit /\ responseAge[d] <= requestAge[d]
          /\ \A e \in ToSet(i) : Before(i, e, d) => responseAge[d] <= requestAge[e]
      BY <1>0, <3>1 DEF AgesInv, AnsweredIsBehindDue
    <3>3. ASSUME NEW e \in ToSet(w), Before(w, e, d) PROVE Before(i, e, d) /\ e \in ToSet(i)
      <4>1. PICK z \in Seq(Links) : z = <<c>> /\ ToSet(z) = {c} /\ ~Before(z, e, d)
        <5>1. <<c>> \in Seq(Links) /\ Len(<<c>>) = 1
          OBVIOUS
        <5>2. ToSet(<<c>>) = {c}
          BY DEF ToSet
        <5>3. ~Before(<<c>>, e, d)
          BY DEF Before
        <5>. QED BY <5>1, <5>2, <5>3
      <4>2. w = u \o z
        BY <1>2, <4>1, AppendIsConcat
      <4>3. Before(u \o z, e, d)
        BY <3>3, <4>2
      <4>4. Before(u, e, d)
        BY <2>4, <4>1, <4>3, ConcatOrder
      <4>5. Before(i, e, d)
        BY <1>1, <4>4, UnlinkedHadOrder
      <4>. QED BY <4>5, OrderedAreInList
    <3>. QED BY <3>1, <3>2, <3>3
  <2>. QED BY <2>3, <2>4
<1>. QED BY <1>4, <1>5, <1>6 DEF AgesInv

LEMMA PeerCloseKeepsAges ==
    ASSUME GroupsInv, AgesInv, NEW c \in Links, LinkPeerClose(c)
    PROVE  AgesInv'
<1>0. PICK i \in Seq(Links) : i = IdleList
  BY DEF GroupsInv, GroupsTypeOK
<1>1. PICK u \in Seq(Links) : u = Unlinked(i, {c}) /\ ToSet(u) = ToSet(i) \ {c}
  BY <1>0, UnlinkedProperties
<1>2. /\ IdleList' = u /\ UNCHANGED <<TargetAddress, requestAge, responseAge, waiting>>
      /\ \A d \in Links : d # c => wire'[d] = wire[d]
  BY <1>0, <1>1 DEF LinkPeerClose, GroupsInv, GroupsTypeOK
<1>3. AgesTypeOK' /\ FreeIsDue' /\ WaitingSinceAsked'
  BY <1>2 DEF AgesInv, AgesTypeOK, FreeIsDue, WaitingSinceAsked, Live
<1>4. AnsweredIsBehindDue'
  <2>1. SUFFICES ASSUME NEW d \in ToSet(u), IsOpen(d)', waiting[d] = -1
                 PROVE  /\ responseAge[d] < RequestLimit /\ responseAge[d] <= requestAge[d]
                        /\ \A e \in ToSet(u) : Before(u, e, d) => responseAge[d] <= requestAge[e]
    BY <1>2 DEF AnsweredIsBehindDue
  <2>2. d \in ToSet(i) /\ d # c /\ d \in Links /\ IsOpen(d)
    <3>1. ToSet(u) \subseteq Links
      BY ToSetOfAppend
    <3>. QED BY <1>1, <1>2, <2>1, <3>1 DEF IsOpen
  <2>3. /\ responseAge[d] < RequestLimit /\ responseAge[d] <= requestAge[d]
        /\ \A e \in ToSet(i) : Before(i, e, d) => responseAge[d] <= requestAge[e]
    BY <1>0, <2>1, <2>2 DEF AgesInv, AnsweredIsBehindDue
  <2>4. ASSUME NEW e \in ToSet(u), Before(u, e, d) PROVE Before(i, e, d) /\ e \in ToSet(i)
    <3>1. Before(i, e, d)
      BY <1>1, <2>4, UnlinkedHadOrder
    <3>. QED BY <3>1, OrderedAreInList
  <2>. QED BY <2>3, <2>4
<1>. QED BY <1>3, <1>4 DEF AgesInv

\* What a Tick does to the lists, the wires and the ages, where gone are the
\* connections that are cleaned or deleted, and opened and silent those due
\* connections that are opened and that are given up.
Ticked(pass, F, idle, due, n, gone, opened, silent) ==
    /\ Found(pass, idle, due, n)
    /\ gone = Cleaned \cup Deleted /\ gone \in SUBSET Links /\ ToSet(due) \cap gone = {}
    /\ opened = {c \in ToSet(due) : ~IsOpen(c)} /\ F \subseteq opened
    /\ silent = {c \in ToSet(due) : IsOpen(c) /\ ResponseAgeNow(pass)[c] >= ResponseLimit}
    /\ ToSet(due) \subseteq Links /\ \A c \in ToSet(idle) : Live(c)
    /\ IdleList' = SubSeq(idle, n + 1, Len(idle)) \o Unlinked(SubSeq(idle, 1, n), silent)
    /\ ToSet(IdleList') \subseteq ToSet(idle) \ silent /\ ToSet(KillList') = silent
    /\ \A c \in Links : Live(c)' <=> Live(c) /\ c \notin Deleted
    /\ \A c \in Links : IsOpen(c)' => c \in opened \ F \/ (IsOpen(c) /\ c \notin gone \cup opened)
    /\ \A c \in Links : requestAge'[c] = IF c \in Deleted THEN ResponseLimit
                                         ELSE IF c \in ToSet(due) \ silent THEN 0
                                         ELSE RequestAgeNow(pass)[c]
    /\ \A c \in Links : responseAge'[c] = IF c \in Deleted THEN ResponseLimit ELSE ResponseAgeNow(pass)[c]
    /\ \A c \in Links :
          /\ c \in gone \cup F => waiting'[c] = -1
          /\ c \in opened \ F => waiting'[c] = 0
          /\ c \notin gone \cup opened /\ waiting[c] = -1 =>
                waiting'[c] = IF c \in ToSet(due) \ silent THEN 0 ELSE -1
          /\ c \notin gone \cup opened /\ waiting[c] # -1 =>
                waiting'[c] = Min({waiting[c] + pass, RequestLimit})
    /\ requestAge' = [c \in Links |-> requestAge'[c]]
    /\ responseAge' = [c \in Links |-> responseAge'[c]]
    /\ waiting' = [c \in Links |-> waiting'[c]]

LEMMA TickDoes ==
    ASSUME GroupsInv, NEW pass \in PassTimes, RelayTick(pass)
    PROVE  \E F, idle, due, n, gone, opened, silent :
              Ticked(pass, F, idle, due, n, gone, opened, silent)
<1>1. PICK F, idle, due, n : /\ Found(pass, idle, due, n) /\ Reconnect(F, pass, idle, due)
                             /\ F \subseteq {c \in ToSet(due) : ~IsOpen(c)}
  BY TickFinds
<1>2. PICK seen : seen = ToSet(due)
  OBVIOUS
<1>3. PICK gone : gone = Cleaned \cup Deleted
  OBVIOUS
<1>4. PICK reopen : reopen = Unlinked(due, {c \in seen : IsOpen(c)})
  OBVIOUS
<1>5. PICK opened : opened = ToSet(reopen)
  OBVIOUS
<1>6. PICK silent : silent = {c \in seen \ opened : ResponseAgeNow(pass)[c] >= ResponseLimit}
  OBVIOUS
<1>7. /\ IdleList' = SubSeq(idle, Len(due) + 1, Len(idle)) \o Unlinked(due, silent)
      /\ KillList' = Unlinked(due, seen \ silent)
  BY <1>1, <1>2, <1>3, <1>4, <1>5, <1>6 DEF Reconnect
<1>8. wire' = [c \in Links |-> CASE c \in opened \ F -> "connecting"
                                 [] c \in gone -> "none"
                                 [] OTHER -> wire[c]]
  BY <1>1, <1>2, <1>3, <1>4, <1>5 DEF Reconnect
<1>9. requestAge' = [c \in Links |-> CASE c \in Deleted -> ResponseLimit
                                       [] c \in seen \ silent -> 0
                                       [] OTHER -> RequestAgeNow(pass)[c]]
  BY <1>1, <1>2, <1>4, <1>5, <1>6 DEF Reconnect
<1>10. /\ responseAge' = [c \in Links |-> IF c \in Deleted THEN ResponseLimit ELSE ResponseAgeNow(pass)[c]]
       /\ TargetAddress' = [g \in GroupObjects |->
                              IF Contains(KillGroupList, g) THEN NoAddress ELSE TargetAddress[g]]
  BY DEF RelayTick
<1>11. waiting' = [c \in Links |->
                     CASE c \in gone \cup F -> -1
                       [] c \in opened \ F -> 0
                       [] c \notin gone \cup opened /\ waiting[c] = -1 ->
                             IF c \in seen \ silent THEN 0 ELSE -1
                       [] OTHER -> Min({waiting[c] + pass, RequestLimit})]
  BY <1>1, <1>2, <1>3, <1>4, <1>5, <1>6 DEF Reconnect
<1>12. /\ idle \in Seq(Links) /\ due \in Seq(Links) /\ n \in 0..Len(idle)
       /\ Len(due) = n /\ due = SubSeq(idle, 1, n) /\ IsInjective(idle)
       /\ seen \subseteq ToSet(idle) /\ seen \cap gone = {} /\ seen \subseteq Links
       /\ ToSet(idle) = (ToSet(IdleList) \cup ToSet(KillList)) \ Deleted
  <2>1. due \in Seq(Links)
    BY <1>1 DEF Found
  <2>2. ToSet(due) \subseteq Links
    BY <2>1, ToSetOfAppend
  <2>. QED BY <1>1, <1>2, <1>3, <2>2 DEF Found
<1>13. opened = {c \in seen : ~IsOpen(c)} /\ F \subseteq opened
  <2>1. ToSet(Unlinked(due, {c \in seen : IsOpen(c)})) = ToSet(due) \ {c \in seen : IsOpen(c)}
    BY <1>12, UnlinkedProperties
  <2>. QED BY <1>1, <1>2, <1>4, <1>5, <2>1
<1>14. silent = {c \in seen : IsOpen(c) /\ ResponseAgeNow(pass)[c] >= ResponseLimit}
  BY <1>6, <1>13
<1>15. PICK q \in Seq(GroupObjects) : q = KillGroupList
  BY DEF GroupsInv, GroupsTypeOK
<1>16. ToSet(q) \subseteq GroupObjects
  BY ToSetOfAppend
<1>17. /\ gone \in SUBSET Links /\ Deleted \subseteq Links
       /\ \A c \in Links : c \in Deleted <=> c[1] \in ToSet(q)
  <2>1. Deleted \subseteq Links /\ \A c \in Links : c \in Deleted <=> c[1] \in ToSet(q)
    BY <1>15, <1>16 DEF Deleted, LinksOf, Links
  <2>2. Cleaned \subseteq Links
    BY ToSetOfAppend DEF Cleaned, GroupsInv, GroupsTypeOK
  <2>. QED BY <1>3, <2>1, <2>2
<1>18. \A c \in ToSet(idle) : Live(c)
  BY <1>12 DEF GroupsInv, ListsOfGroups
<1>19. IdleList' = SubSeq(idle, n + 1, Len(idle)) \o Unlinked(SubSeq(idle, 1, n), silent)
  BY <1>7, <1>12
<1>20. ToSet(IdleList') \subseteq ToSet(idle) \ silent /\ ToSet(KillList') = silent
  <2>1. PICK k : k = Unlinked(SubSeq(idle, 1, n), ToSet(SubSeq(idle, 1, n)) \ silent)
    OBVIOUS
  <2>2. ToSet(IdleList') \cup ToSet(k) = ToSet(idle) /\ ToSet(IdleList') \cap ToSet(k) = {}
    BY <1>12, <1>19, <2>1, FrontAndRest
  <2>4. KillList' = k
    BY <1>2, <1>7, <1>12, <2>1
  <2>3. ToSet(KillList') = seen \ (seen \ silent)
    <3>1. PICK D : D = seen \ silent
      OBVIOUS
    <3>2. ToSet(Unlinked(due, D)) = ToSet(due) \ D
      BY <1>12, UnlinkedProperties
    <3>. QED BY <1>2, <1>7, <3>1, <3>2
  <2>. QED BY <1>14, <2>2, <2>3, <2>4
<1>21. \A c \in Links : Live(c)' <=> Live(c) /\ c \notin Deleted
  <2>1. \A g \in GroupObjects : Contains(KillGroupList, g) <=> g \in ToSet(q)
    BY <1>15 DEF Contains, ToSet
  <2>2. \A g \in GroupObjects :
           TargetAddress'[g] # NoAddress <=> TargetAddress[g] # NoAddress /\ g \notin ToSet(q)
    BY <1>10, <2>1
  <2>. QED BY <1>17, <2>2 DEF Live, Links
<1>22. \A c \in Links : IsOpen(c)' => c \in opened \ F \/ (IsOpen(c) /\ c \notin gone \cup opened)
  <2>1. SUFFICES ASSUME NEW c \in Links, IsOpen(c)', c \notin opened \ F
                 PROVE  IsOpen(c) /\ c \notin gone \cup opened
    OBVIOUS
  <2>2. c \notin gone /\ wire'[c] = wire[c]
    BY <1>8, <2>1 DEF IsOpen
  <2>. QED BY <1>13, <2>1, <2>2 DEF IsOpen
<1>23. \A c \in Links : requestAge'[c] = IF c \in Deleted THEN ResponseLimit
                                         ELSE IF c \in seen \ silent THEN 0
                                         ELSE RequestAgeNow(pass)[c]
  BY <1>3, <1>9, <1>12
<1>24. \A c \in Links : responseAge'[c] = IF c \in Deleted THEN ResponseLimit ELSE ResponseAgeNow(pass)[c]
  BY <1>10
<1>25. \A c \in Links :
          /\ c \in gone \cup F => waiting'[c] = -1
          /\ c \in opened \ F => waiting'[c] = 0
          /\ c \notin gone \cup opened /\ waiting[c] = -1 =>
                waiting'[c] = IF c \in seen \ silent THEN 0 ELSE -1
          /\ c \notin gone \cup opened /\ waiting[c] # -1 =>
                waiting'[c] = Min({waiting[c] + pass, RequestLimit})
  <2>1. opened \cap gone = {} /\ F \subseteq opened
    BY <1>12, <1>13
  <2>2. PICK m : \A c \in Links : m[c] = Min({waiting[c] + pass, RequestLimit})
    <3>1. \A c \in Links : [d \in Links |-> Min({waiting[d] + pass, RequestLimit})][c]
                             = Min({waiting[c] + pass, RequestLimit})
      OBVIOUS
    <3>. QED BY <3>1
  <2>3. \A c \in Links : waiting'[c] =
                     CASE c \in gone \cup F -> -1
                       [] c \in opened \ F -> 0
                       [] c \notin gone \cup opened /\ waiting[c] = -1 ->
                             IF c \in seen \ silent THEN 0 ELSE -1
                       [] OTHER -> m[c]
    BY <1>11, <2>2
  <2>. QED BY <2>1, <2>2, <2>3
<1>26. /\ requestAge' = [c \in Links |-> requestAge'[c]]
       /\ responseAge' = [c \in Links |-> responseAge'[c]]
       /\ waiting' = [c \in Links |-> waiting'[c]]
  BY <1>9, <1>10, <1>11
<1>27. Ticked(pass, F, idle, due, n, gone, opened, silent)
  <2>1. /\ Found(pass, idle, due, n) /\ gone = Cleaned \cup Deleted
        /\ gone \in SUBSET Links /\ ToSet(due) \cap gone = {}
        /\ opened = {c \in ToSet(due) : ~IsOpen(c)} /\ F \subseteq opened
        /\ silent = {c \in ToSet(due) : IsOpen(c) /\ ResponseAgeNow(pass)[c] >= ResponseLimit}
        /\ ToSet(due) \subseteq Links
    BY <1>1, <1>2, <1>3, <1>12, <1>13, <1>14, <1>17
  <2>. QED BY <1>2, <1>18, <1>19, <1>20, <1>21, <1>22, <1>23, <1>24, <1>25, <1>26, <2>1 DEF Ticked
<1>. QED BY <1>27

\* The connections that are due are no more than a Tick looks at.
LEMMA DueAreFew ==
    ASSUME DueFits, NEW pass \in PassTimes, NEW s \in Seq(Links), IsInjective(s), NEW p \in 1..Len(s),
           \A i \in 1..p : Live(s[i]) /\ RequestAgeNow(pass)[s[i]] >= RequestLimit
    PROVE  p <= CheckLimit
<1>1. PICK t \in Seq(Links) : /\ t = SubSeq(s, 1, p) /\ Len(t) = p
                              /\ IsInjective(t) /\ ToSet(t) \subseteq ToSet(s)
  <2>1. p \in Nat /\ p <= Len(s)
    BY LenProperties
  <2>. QED BY <2>1, FrontOfInjective
<1>2. PICK D : D = {c \in Links : Live(c) /\ RequestAgeNow(pass)[c] >= RequestLimit}
  OBVIOUS
<1>3. ToSet(t) \subseteq D
  <2>1. DOMAIN t = 1..p /\ ToSet(t) \subseteq Links
    BY <1>1, LenProperties, ToSetOfAppend
  <2>2. \A i \in 1..p : t[i] = s[i]
    BY <1>1, LenProperties, SubSeqProperties
  <2>3. \A i \in 1..p : t[i] \in D
    <3>1. SUFFICES ASSUME NEW i \in 1..p PROVE t[i] \in D
      OBVIOUS
    <3>2. t[i] \in Links
      BY <2>1 DEF ToSet
    <3>. QED BY <1>2, <2>2, <3>2
  <2>. QED BY <2>1, <2>3 DEF ToSet
<1>4. IsFiniteSet(D) /\ Cardinality(D) \in Nat
  <2>1. IsFiniteSet(GroupObjects) /\ IsFiniteSet(1..ConnectionsPerGroup)
    BY RelayGroupsAssumption, FS_Interval DEF GroupObjects
  <2>2. IsFiniteSet(Links)
    BY <2>1, FS_Product DEF Links
  <2>3. D \subseteq Links
    BY <1>2
  <2>4. IsFiniteSet(D)
    BY <2>2, <2>3, FS_Subset
  <2>. QED BY <2>4, FS_CardinalityType
<1>5. p <= Cardinality(D)
  <2>1. Cardinality(ToSet(t)) = p
    BY <1>1, CardinalityOfInjective
  <2>2. Cardinality(ToSet(t)) <= Cardinality(D)
    BY <1>3, <1>4, FS_Subset
  <2>. QED BY <2>1, <2>2
<1>6. Cardinality(D) <= CheckLimit
  BY <1>2 DEF DueFits
<1>. QED BY <1>4, <1>5, <1>6, RelayGroupsAssumption

\* A connection that has answered and is behind those that are due was asked
\* lately, and so were all that are behind these and before it.
LEMMA BehindDue ==
    ASSUME GroupsInv, AgesInv, DueFits, NEW pass \in PassTimes, NEW F, NEW idle, NEW due, NEW n,
           NEW gone, NEW opened, NEW silent, Ticked(pass, F, idle, due, n, gone, opened, silent),
           NEW c \in Links, c \in ToSet(idle), c \notin ToSet(due) \cup gone, IsOpen(c), waiting[c] = -1
    PROVE  /\ responseAge[c] + pass < RequestLimit /\ responseAge[c] \in Nat
           /\ responseAge[c] <= requestAge[c]
           /\ RequestAgeNow(pass)[c] = Aged(requestAge[c], pass)
           /\ \A d \in Links : Before(idle, d, c) =>
                 /\ responseAge[c] <= requestAge[d]
                 /\ RequestAgeNow(pass)[d] = Aged(requestAge[d], pass) /\ d \notin gone
<1>0. PICK i \in Seq(Links), k \in Seq(Links) : i = IdleList /\ k = KillList
  BY DEF GroupsInv, GroupsTypeOK
<1>1. /\ Found(pass, idle, due, n) /\ gone = Cleaned \cup Deleted /\ \A d \in ToSet(idle) : Live(d)
  BY DEF Ticked
<1>2. /\ idle \in Seq(Links) /\ IsInjective(idle) /\ idle = Unlinked(i \o k, Deleted)
      /\ ToSet(idle) = (ToSet(i) \cup ToSet(k)) \ Deleted
      /\ n \in 0..Len(idle) /\ Len(idle) \in Nat /\ due = SubSeq(idle, 1, n)
  BY <1>0, <1>1, LenProperties DEF Found
<1>3. ToSet(i) \cap ToSet(k) = {} /\ Cleaned = ToSet(k)
  BY <1>0 DEF GroupsInv, ListsOfGroups, Cleaned
<1>4. c \in ToSet(i) /\ c \notin ToSet(k)
  BY <1>1, <1>2, <1>3
<1>5. /\ responseAge[c] < RequestLimit /\ responseAge[c] <= requestAge[c]
      /\ \A d \in ToSet(i) : Before(i, d, c) => responseAge[c] <= requestAge[d]
  BY <1>0, <1>4 DEF AgesInv, AnsweredIsBehindDue
<1>6. \A d \in Links : /\ requestAge[d] \in 0..ResponseLimit /\ responseAge[d] \in 0..ResponseLimit
                       /\ RequestAgeNow(pass)[d] \in 0..ResponseLimit
  BY Limits, AgedProperties DEF AgesInv, AgesTypeOK, RequestAgeNow
<1>7. \A d \in Links : d \notin ToSet(k) => RequestAgeNow(pass)[d] = Aged(requestAge[d], pass)
  BY <1>3 DEF RequestAgeNow
<1>8. ASSUME NEW d \in Links, Before(idle, d, c)
      PROVE  /\ responseAge[c] <= requestAge[d] /\ d \notin gone
             /\ RequestAgeNow(pass)[d] = Aged(requestAge[d], pass)
  <2>1. PICK u \in Seq(Links) : u = i \o k
    <3>1. i \o k \in Seq(Links)
      BY ConcatOfInjective
    <3>. QED BY <3>1
  <2>2. Before(u, d, c)
    <3>1. Before(Unlinked(u, Deleted), d, c)
      BY <1>2, <1>8, <2>1
    <3>. QED BY <3>1, UnlinkedHadOrder
  <2>3. Before(i, d, c)
    <3>1. Before(k, d, c) => c \in ToSet(k)
      BY OrderedAreInList
    <3>2. Before(i, d, c) \/ Before(k, d, c) \/ (d \in ToSet(i) /\ c \in ToSet(k))
      BY <2>1, <2>2, ConcatOrder
    <3>. QED BY <1>4, <3>1, <3>2
  <2>4. d \in ToSet(i) /\ d \in ToSet(idle)
    BY <1>2, <1>8, <2>3, OrderedAreInList
  <2>. QED BY <1>1, <1>2, <1>3, <1>5, <1>7, <2>3, <2>4
<1>9. responseAge[c] + pass < RequestLimit
  <2>1. SUFFICES ASSUME ~(responseAge[c] + pass < RequestLimit) PROVE FALSE
    OBVIOUS
  <2>2. PICK p \in 1..Len(idle) : idle[p] = c
    BY <1>2, LenProperties DEF ToSet
  <2>3. \A d \in Links : responseAge[c] <= requestAge[d] => Aged(requestAge[d], pass) >= RequestLimit
    <3>1. SUFFICES ASSUME NEW d \in Links, responseAge[c] <= requestAge[d]
                   PROVE  Aged(requestAge[d], pass) >= RequestLimit
      OBVIOUS
    <3>2. PICK a \in 0..ResponseLimit : a = requestAge[d]
      BY <1>6
    <3>3. PICK r \in 0..ResponseLimit : r = responseAge[c]
      BY <1>6
    <3>4. r < RequestLimit /\ ~(r + pass < RequestLimit) /\ r <= a
      BY <1>5, <2>1, <3>1, <3>2, <3>3
    <3>5. /\ Aged(a, pass) \in 0..ResponseLimit
          /\ a + pass < ResponseLimit => Aged(a, pass) = a + pass
          /\ a + pass >= ResponseLimit => Aged(a, pass) = ResponseLimit
      BY AgedProperties
    <3>6. PICK z \in 0..ResponseLimit : z = Aged(a, pass)
      BY <3>5
    <3>7. RequestLimit \in Nat /\ ResponseLimit \in Nat /\ RequestLimit < ResponseLimit /\ pass \in Nat
      BY Limits
    <3>8. z >= RequestLimit
      BY <3>4, <3>5, <3>6, <3>7
    <3>. QED BY <3>2, <3>6, <3>8
  <2>4. \A j \in 1..p : RequestAgeNow(pass)[idle[j]] >= RequestLimit
    <3>1. SUFFICES ASSUME NEW j \in 1..p PROVE RequestAgeNow(pass)[idle[j]] >= RequestLimit
      OBVIOUS
    <3>2. j \in 1..Len(idle) /\ idle[j] \in Links /\ (j = p \/ j < p)
      BY <1>2, ElementOfSeq
    <3>3. CASE j = p
      BY <1>4, <1>5, <1>7, <2>2, <2>3, <3>3
    <3>4. CASE j < p
      <4>1. Before(idle, idle[j], c)
        BY <2>2, <3>2, <3>4 DEF Before
      <4>. QED BY <1>8, <2>3, <3>2, <4>1
    <3>. QED BY <3>2, <3>3, <3>4
  <2>5. n < p
    <3>1. \A j \in 1..n : idle[j] \in ToSet(due)
      <4>1. Len(due) = n /\ \A j \in 1..n : due[j] = idle[j]
        BY <1>1, <1>2, SubSeqProperties DEF Found
      <4>2. DOMAIN due = 1..n
        BY <1>1, <4>1, LenProperties DEF Found
      <4>. QED BY <4>1, <4>2 DEF ToSet
    <3>2. p \notin 1..n
      BY <2>2, <3>1
    <3>. QED BY <1>2, <3>2
  <2>6. n + 1 \in 1..p /\ n # Len(idle)
    BY <1>2, <2>5
  <2>7. n = CheckLimit
    <3>1. \/ n = Len(idle) \/ n = CheckLimit
          \/ ~(RequestAgeNow(pass)[idle[n + 1]] >= RequestLimit)
      BY <1>1 DEF Found
    <3>. QED BY <2>4, <2>6, <3>1
  <2>8. \A j \in 1..p : Live(idle[j])
    <3>1. SUFFICES ASSUME NEW j \in 1..p PROVE idle[j] \in ToSet(idle)
      BY <1>1
    <3>2. j \in DOMAIN idle
      BY <1>2, LenProperties
    <3>. QED BY <3>2 DEF ToSet
  <2>9. p <= CheckLimit
    BY <1>2, <2>4, <2>8, DueAreFew
  <2>. QED BY <1>2, <2>5, <2>7, <2>9
<1>10. responseAge[c] \in Nat /\ RequestAgeNow(pass)[c] = Aged(requestAge[c], pass)
  BY <1>4, <1>6, <1>7, Limits
<1>. QED BY <1>5, <1>8, <1>9, <1>10

\* One that a Tick gives up has waited.
LEMMA SilentHasWaited ==
    ASSUME GroupsInv, AgesInv, NEW pass \in PassTimes, NEW F, NEW idle, NEW due, NEW n, NEW gone, NEW opened,
           NEW silent, Ticked(pass, F, idle, due, n, gone, opened, silent), NEW c \in silent
    PROVE  /\ c \in Links
           /\ IF waiting[c] = -1 THEN pass > ResponseLimit - RequestLimit
                                 ELSE waiting[c] + pass >= RequestLimit
<1>1. /\ c \in Links /\ c \in ToSet(due) /\ c \notin Cleaned /\ IsOpen(c) /\ c \in ToSet(idle)
      /\ ResponseAgeNow(pass)[c] >= ResponseLimit /\ RequestAgeNow(pass)[c] >= RequestLimit
      /\ ToSet(idle) = (ToSet(IdleList) \cup ToSet(KillList)) \ Deleted
  BY DEF Ticked, Found
<1>2. PICK a \in 0..ResponseLimit, r \in 0..ResponseLimit, w \in -1..RequestLimit :
         a = requestAge[c] /\ r = responseAge[c] /\ w = waiting[c]
  BY <1>1 DEF AgesInv, AgesTypeOK
<1>3. PICK x \in 0..ResponseLimit : x = Aged(a, pass) /\ x <= a + pass
  BY AgedProperties
<1>4. PICK y \in 0..ResponseLimit : y = Aged(r, pass) /\ y <= r + pass
  BY AgedProperties
<1>5. x >= RequestLimit /\ y >= ResponseLimit
  BY <1>1, <1>2, <1>3, <1>4 DEF RequestAgeNow, ResponseAgeNow
<1>6. /\ RequestLimit \in Nat /\ ResponseLimit \in Nat /\ RequestLimit < ResponseLimit
      /\ pass \in Nat
  BY Limits
<1>7. w = -1 => pass > ResponseLimit - RequestLimit
  <2>1. SUFFICES ASSUME w = -1 PROVE pass > ResponseLimit - RequestLimit
    OBVIOUS
  <2>2. c \in ToSet(IdleList)
    BY <1>1 DEF Cleaned
  <2>3. r < RequestLimit
    BY <1>1, <1>2, <2>1, <2>2 DEF AgesInv, AnsweredIsBehindDue
  <2>. QED BY <1>4, <1>5, <1>6, <2>3
<1>8. w # -1 => a <= w \/ w = RequestLimit
  BY <1>1, <1>2 DEF AgesInv, WaitingSinceAsked
<1>9. w # -1 => w + pass >= RequestLimit
  BY <1>3, <1>5, <1>6, <1>8
<1>. QED BY <1>1, <1>2, <1>7, <1>9

LEMMA RelayTickKeepsAges ==
    ASSUME GroupsInv, AgesInv, DueFits, NEW pass \in PassTimes, RelayTick(pass)
    PROVE  AgesInv'
<1>1. PICK F, idle, due, n, gone, opened, silent : Ticked(pass, F, idle, due, n, gone, opened, silent)
  BY TickDoes
<1>2. PICK seen : seen = ToSet(due)
  OBVIOUS
<1>3. /\ gone = Cleaned \cup Deleted /\ gone \in SUBSET Links /\ seen \cap gone = {}
      /\ opened = {c \in seen : ~IsOpen(c)} /\ F \subseteq opened /\ seen \subseteq Links
      /\ silent = {c \in seen : IsOpen(c) /\ ResponseAgeNow(pass)[c] >= ResponseLimit}
  BY <1>1, <1>2 DEF Ticked
<1>4. \A c \in Links : requestAge'[c] = IF c \in Deleted THEN ResponseLimit
                                        ELSE IF c \in seen \ silent THEN 0
                                        ELSE RequestAgeNow(pass)[c]
  BY <1>1, <1>2 DEF Ticked
<1>5. \A c \in Links : responseAge'[c] = IF c \in Deleted THEN ResponseLimit ELSE ResponseAgeNow(pass)[c]
  BY <1>1 DEF Ticked
<1>6. \A c \in Links :
          /\ c \in gone \cup F => waiting'[c] = -1
          /\ c \in opened \ F => waiting'[c] = 0
          /\ c \notin gone \cup opened /\ waiting[c] = -1 =>
                waiting'[c] = IF c \in seen \ silent THEN 0 ELSE -1
          /\ c \notin gone \cup opened /\ waiting[c] # -1 =>
                waiting'[c] = Min({waiting[c] + pass, RequestLimit})
  BY <1>1, <1>2 DEF Ticked
<1>7. /\ RequestLimit \in Nat \ {0} /\ ResponseLimit \in Nat /\ RequestLimit < ResponseLimit
      /\ pass \in Nat
  BY Limits
<1>8. \A c \in Links : /\ requestAge[c] \in 0..ResponseLimit /\ responseAge[c] \in 0..ResponseLimit
                       /\ waiting[c] \in -1..RequestLimit
                       /\ RequestAgeNow(pass)[c] \in 0..ResponseLimit
                       /\ ResponseAgeNow(pass)[c] \in 0..ResponseLimit
                       /\ RequestAgeNow(pass)[c] <= requestAge[c] + pass
                       /\ ResponseAgeNow(pass)[c] = Aged(responseAge[c], pass)
  <2>1. SUFFICES ASSUME NEW c \in Links
                 PROVE  /\ RequestAgeNow(pass)[c] \in 0..ResponseLimit
                        /\ RequestAgeNow(pass)[c] <= requestAge[c] + pass
                        /\ ResponseAgeNow(pass)[c] \in 0..ResponseLimit
                        /\ ResponseAgeNow(pass)[c] = Aged(responseAge[c], pass)
    BY DEF AgesInv, AgesTypeOK
  <2>2. PICK a \in 0..ResponseLimit, r \in 0..ResponseLimit : a = requestAge[c] /\ r = responseAge[c]
    BY DEF AgesInv, AgesTypeOK
  <2>3. Aged(a, pass) \in 0..ResponseLimit /\ Aged(a, pass) <= a + pass /\ Aged(r, pass) \in 0..ResponseLimit
    BY AgedProperties
  <2>4. RequestAgeNow(pass)[c] = IF c \in Cleaned THEN 0 ELSE Aged(a, pass)
    BY <2>2 DEF RequestAgeNow
  <2>5. ResponseAgeNow(pass)[c] = Aged(r, pass)
    BY <2>2 DEF ResponseAgeNow
  <2>. QED BY <1>7, <2>2, <2>3, <2>4, <2>5
<1>9. \A c \in Links : c \notin gone \cup opened /\ waiting[c] # -1 =>
         /\ waiting'[c] \in 0..RequestLimit
         /\ waiting'[c] = waiting[c] + pass \/ waiting'[c] = RequestLimit
  <2>1. SUFFICES ASSUME NEW c \in Links, c \notin gone \cup opened, waiting[c] # -1
                 PROVE  /\ waiting'[c] \in 0..RequestLimit
                        /\ waiting'[c] = waiting[c] + pass \/ waiting'[c] = RequestLimit
    OBVIOUS
  <2>2. PICK w \in 0..RequestLimit : w = waiting[c]
    BY <1>8, <2>1
  <2>3. {w + pass, RequestLimit} \in SUBSET Nat /\ {w + pass, RequestLimit} # {}
    BY <1>7, <2>2
  <2>4. PICK m : m = Min({w + pass, RequestLimit})
    OBVIOUS
  <2>5. m \in {w + pass, RequestLimit} /\ m <= RequestLimit
    BY <2>3, <2>4, MinIsLeast
  <2>6. waiting'[c] = m
    BY <1>6, <2>1, <2>2, <2>4
  <2>. QED BY <1>7, <2>2, <2>5, <2>6
<1>10. \A c \in Links : c \in opened \/ c \in gone \/ c \notin gone \cup opened
  OBVIOUS
<1>11. AgesTypeOK'
  <2>1. \A c \in Links : requestAge'[c] \in 0..ResponseLimit
    BY <1>4, <1>7, <1>8
  <2>2. \A c \in Links : responseAge'[c] \in 0..ResponseLimit
    BY <1>5, <1>7, <1>8
  <2>3. \A c \in Links : waiting'[c] \in -1..RequestLimit
    <3>1. SUFFICES ASSUME NEW c \in Links PROVE waiting'[c] \in -1..RequestLimit
      OBVIOUS
    <3>2. 0 \in -1..RequestLimit /\ -1 \in -1..RequestLimit /\ 0..RequestLimit \subseteq -1..RequestLimit
      BY <1>7
    <3>3. CASE c \in gone \cup F
      BY <1>6, <3>2, <3>3
    <3>4. CASE c \in opened \ F
      BY <1>6, <3>2, <3>4
    <3>5. CASE c \notin gone \cup opened /\ waiting[c] = -1
      BY <1>6, <3>2, <3>5
    <3>6. CASE c \notin gone \cup opened /\ waiting[c] # -1
      BY <1>9, <3>2, <3>6
    <3>. QED BY <3>3, <3>4, <3>5, <3>6
  <2>4. /\ requestAge' = [c \in Links |-> requestAge'[c]]
        /\ responseAge' = [c \in Links |-> responseAge'[c]]
        /\ waiting' = [c \in Links |-> waiting'[c]]
    BY <1>1 DEF Ticked
  <2>5. requestAge' \in [Links -> 0..ResponseLimit]
    BY <2>1, <2>4
  <2>6. responseAge' \in [Links -> 0..ResponseLimit]
    BY <2>2, <2>4
  <2>7. waiting' \in [Links -> -1..RequestLimit]
    BY <2>3, <2>4
  <2>. QED BY <2>5, <2>6, <2>7 DEF AgesTypeOK
<1>12. FreeIsDue'
  <2>1. SUFFICES ASSUME NEW c \in Links, ~Live(c)' PROVE requestAge'[c] = ResponseLimit
    BY DEF FreeIsDue
  <2>2. CASE c \in Deleted
    BY <1>4, <2>2
  <2>3. CASE c \notin Deleted
    <3>1. ~Live(c)
      BY <1>1, <2>1, <2>3 DEF Ticked
    <3>2. c \notin Cleaned
      BY <3>1 DEF GroupsInv, ListsOfGroups, Cleaned
    <3>3. c \notin seen
      BY <1>1, <1>2, <3>1 DEF Ticked, Found
    <3>4. RequestAgeNow(pass)[c] = ResponseLimit
      BY <3>1, <3>2, Limits, AgedProperties DEF RequestAgeNow, AgesInv, FreeIsDue
    <3>. QED BY <1>4, <2>3, <3>3, <3>4
  <2>. QED BY <2>2, <2>3
<1>13. WaitingSinceAsked'
  <2>1. SUFFICES ASSUME NEW c \in Links, waiting'[c] # -1
                 PROVE  requestAge'[c] <= waiting'[c] \/ waiting'[c] = RequestLimit
    BY DEF WaitingSinceAsked
  <2>2. c \notin gone \cup F /\ c \notin Deleted
    BY <1>3, <1>6, <2>1
  <2>3. CASE c \in opened
    <3>1. c \in seen \ silent /\ waiting'[c] = 0
      BY <1>3, <1>6, <2>2, <2>3
    <3>2. requestAge'[c] = 0
      BY <1>4, <2>2, <3>1
    <3>. QED BY <3>1, <3>2
  <2>4. CASE c \notin opened /\ waiting[c] = -1
    <3>1. c \in seen \ silent /\ waiting'[c] = 0
      BY <1>6, <2>1, <2>2, <2>4
    <3>2. requestAge'[c] = 0
      BY <1>4, <2>2, <3>1
    <3>. QED BY <3>1, <3>2
  <2>5. CASE c \notin opened /\ waiting[c] # -1
    <3>1. PICK w \in 0..RequestLimit, a \in 0..ResponseLimit : w = waiting[c] /\ a = requestAge[c]
      BY <1>8, <2>5
    <3>2. PICK v \in 0..RequestLimit : v = waiting'[c] /\ (v = w + pass \/ v = RequestLimit)
      BY <1>9, <2>2, <2>5, <3>1
    <3>3. a <= w \/ w = RequestLimit
      BY <2>5, <3>1 DEF AgesInv, WaitingSinceAsked
    <3>4. requestAge'[c] = 0 \/ (requestAge'[c] \in 0..ResponseLimit /\ requestAge'[c] <= a + pass)
      BY <1>4, <1>8, <2>2, <3>1
    <3>. QED BY <1>7, <3>1, <3>2, <3>3, <3>4
  <2>. QED BY <2>3, <2>4, <2>5
<1>14. AnsweredIsBehindDue'
  <2>1. SUFFICES ASSUME NEW c \in ToSet(IdleList'), IsOpen(c)', waiting'[c] = -1
                 PROVE  /\ responseAge'[c] < RequestLimit /\ responseAge'[c] <= requestAge'[c]
                        /\ \A d \in ToSet(IdleList') :
                              Before(IdleList', d, c) => responseAge'[c] <= requestAge'[d]
    BY DEF AnsweredIsBehindDue
  <2>2. /\ idle \in Seq(Links) /\ IsInjective(idle) /\ n \in 0..Len(idle)
        /\ seen = ToSet(SubSeq(idle, 1, n))
        /\ IdleList' = SubSeq(idle, n + 1, Len(idle)) \o Unlinked(SubSeq(idle, 1, n), silent)
        /\ ToSet(IdleList') \subseteq ToSet(idle) \ silent
    BY <1>1, <1>2 DEF Ticked, Found
  <2>3. ToSet(idle) \subseteq Links
    BY <2>2, ToSetOfAppend
  <2>4. c \in Links /\ c \in ToSet(idle)
    BY <2>1, <2>2, <2>3
  <2>5. c \in opened \ F \/ (IsOpen(c) /\ c \notin gone \cup opened)
    BY <1>1, <2>1, <2>4 DEF Ticked
  <2>6. IsOpen(c) /\ c \notin gone \cup opened
    <3>1. c \in opened \ F => waiting'[c] = 0
      BY <1>6, <2>4
    <3>. QED BY <2>1, <2>5, <3>1
  <2>7. waiting[c] = -1
    <3>1. waiting[c] # -1 => waiting'[c] \in 0..RequestLimit
      BY <1>9, <2>4, <2>6
    <3>. QED BY <2>1, <3>1
  <2>8. c \notin seen
    <3>1. waiting'[c] = IF c \in seen \ silent THEN 0 ELSE -1
      BY <1>6, <2>4, <2>6, <2>7
    <3>. QED BY <2>1, <2>2, <3>1
  <2>9. /\ responseAge[c] + pass < RequestLimit /\ responseAge[c] \in Nat
        /\ responseAge[c] <= requestAge[c] /\ RequestAgeNow(pass)[c] = Aged(requestAge[c], pass)
        /\ \A d \in Links : Before(idle, d, c) =>
              /\ responseAge[c] <= requestAge[d]
              /\ RequestAgeNow(pass)[d] = Aged(requestAge[d], pass) /\ d \notin gone
    <3>1. c \notin ToSet(due) \cup gone
      BY <1>2, <2>6, <2>8
    <3>. QED BY <1>1, <2>4, <2>6, <2>7, <3>1, BehindDue
  <2>10. responseAge'[c] = responseAge[c] + pass /\ responseAge'[c] = Aged(responseAge[c], pass)
    <3>1. PICK r \in 0..ResponseLimit : r = responseAge[c] /\ r + pass < ResponseLimit
      BY <1>7, <1>8, <2>4, <2>9
    <3>2. Aged(r, pass) = r + pass
      BY <3>1, AgedProperties
    <3>3. responseAge'[c] = Aged(r, pass)
      BY <1>3, <1>5, <1>8, <2>4, <2>6, <3>1
    <3>. QED BY <3>1, <3>2, <3>3
  <2>11. ASSUME NEW d \in Links, d \notin gone, d \notin seen, responseAge[c] <= requestAge[d],
                RequestAgeNow(pass)[d] = Aged(requestAge[d], pass)
         PROVE  responseAge'[c] <= requestAge'[d]
    <3>1. requestAge'[d] = Aged(requestAge[d], pass)
      BY <1>3, <1>4, <2>11
    <3>2. responseAge[c] \in 0..ResponseLimit /\ requestAge[d] \in 0..ResponseLimit
      BY <1>8, <2>4
    <3>3. Aged(responseAge[c], pass) <= Aged(requestAge[d], pass)
      BY <2>11, <3>2, AgedProperties
    <3>. QED BY <2>10, <3>1, <3>3
  <2>12. responseAge'[c] < RequestLimit
    BY <2>9, <2>10
  <2>13. responseAge'[c] <= requestAge'[c]
    BY <2>4, <2>6, <2>8, <2>9, <2>11
  <2>14. ASSUME NEW d \in ToSet(IdleList'), Before(IdleList', d, c)
         PROVE  responseAge'[c] <= requestAge'[d]
    <3>1. Before(SubSeq(idle, n + 1, Len(idle)) \o Unlinked(SubSeq(idle, 1, n), silent), d, c)
      BY <2>2, <2>14
    <3>2. c \notin ToSet(SubSeq(idle, 1, n))
      BY <2>2, <2>8
    <3>3. Before(idle, d, c) /\ d \notin ToSet(SubSeq(idle, 1, n))
      BY <2>2, <3>1, <3>2, RestKeepsOrder
    <3>4. d \in Links /\ d \notin seen
      BY <2>2, <2>3, <2>14, <3>3
    <3>. QED BY <2>9, <2>11, <3>3, <3>4
  <2>. QED BY <2>12, <2>13, <2>14
<1>. QED BY <1>11, <1>12, <1>13, <1>14 DEF AgesInv

\* What GivenUpOnlyIfSilent says of a step.
GivenUp ==
    \A c \in Links : Contains(KillList', c) =>
        \A d \in PassTimes : RelayTick(d) =>
            IF waiting[c] = -1 THEN d > ResponseLimit - RequestLimit
                               ELSE waiting[c] + d >= RequestLimit

LEMMA StepKeepsAges ==
    ASSUME GroupsInv, AgesInv, DueFits, [RelayGroupsNext]_relayGroupVars
    PROVE  AgesInv'
<1>1. ASSUME NEW s \in RelayServerIds, NEW address \in RelayAddresses, AddRelayGroup(s, address)
      PROVE  AgesInv'
  BY <1>1, AddRelayGroupKeepsAges
<1>2. ASSUME NEW c \in Links, LinkConnected(c) PROVE AgesInv'
  <2>1. KeepAlive(c) /\ \A d \in Links \ {c} : wire'[d] = wire[d]
    BY <1>2 DEF LinkConnected, GroupsInv, GroupsTypeOK
  <2>. QED BY <2>1, KeepAliveKeepsAges
<1>3. ASSUME NEW c \in Links, LinkKeepAlive(c) PROVE AgesInv'
  <2>1. KeepAlive(c) /\ \A d \in Links \ {c} : wire'[d] = wire[d]
    BY <1>3 DEF LinkKeepAlive
  <2>. QED BY <2>1, KeepAliveKeepsAges
<1>4. ASSUME NEW c \in Links, LinkPeerClose(c) PROVE AgesInv'
  BY <1>4, PeerCloseKeepsAges
<1>5. ASSUME NEW pass \in PassTimes, RelayTick(pass) PROVE AgesInv'
  BY <1>5, RelayTickKeepsAges
<1>6. CASE UNCHANGED relayGroupVars
  BY <1>6 DEF relayGroupVars, relayLists, AgesInv, AgesTypeOK, FreeIsDue, WaitingSinceAsked,
              AnsweredIsBehindDue, Live, IsOpen
<1>. QED BY <1>1, <1>2, <1>3, <1>4, <1>5, <1>6 DEF RelayGroupsNext

LEMMA StepGivesUp ==
    ASSUME GroupsInv, AgesInv
    PROVE  GivenUp
<1>1. SUFFICES ASSUME NEW c \in Links, Contains(KillList', c), NEW pass \in PassTimes, RelayTick(pass)
               PROVE  IF waiting[c] = -1 THEN pass > ResponseLimit - RequestLimit
                                         ELSE waiting[c] + pass >= RequestLimit
  BY DEF GivenUp
<1>2. c \in ToSet(KillList')
  BY <1>1 DEF Contains, ToSet
<1>3. PICK F, idle, due, n, gone, opened, silent : Ticked(pass, F, idle, due, n, gone, opened, silent)
  BY <1>1, TickDoes
<1>4. c \in silent
  BY <1>2, <1>3 DEF Ticked
<1>. QED BY <1>3, <1>4, SilentHasWaited

\* For any number of servers and connections, any limits, and passes of the
\* main loop of any length: as long as the connections that are due are no
\* more than a Tick looks at, no Tick gives up a connection but one that was
\* not connected, or did not answer a request for a keep-alive, within the
\* time it has for that, unless the pass before was longer than the limits
\* differ by.
THEOREM AnsweringIsKept == GroupsSpec /\ []DueFits => GivenUpOnlyIfSilent
<1>1. RelayGroupsInit => GroupsInv /\ AgesInv
  BY GroupsInitInv, AgesInitInv
<1>2. GroupsInv /\ [RelayGroupsNext]_relayGroupVars => GroupsInv'
  BY GroupsStepKeepsInv
<1>3. GroupsInv /\ AgesInv /\ DueFits /\ [RelayGroupsNext]_relayGroupVars => AgesInv'
  BY StepKeepsAges
<1>4. GroupsInv /\ AgesInv => [GivenUp]_relayGroupVars
  BY StepGivesUp
<1>5. GroupsSpec /\ []DueFits => [][GivenUp]_relayGroupVars
  BY <1>1, <1>2, <1>3, <1>4, PTL DEF GroupsSpec
<1>. QED BY <1>5 DEF GivenUpOnlyIfSilent, GivenUp

\* So it is in every system that has no more connections to relays than a Tick
\* looks at.
THEOREM FewConnectionsAreKept ==
    Cardinality(Links) <= CheckLimit => (GroupsSpec => GivenUpOnlyIfSilent)
<1>1. IsFiniteSet(Links) /\ Cardinality(Links) \in Nat
  <2>1. IsFiniteSet(GroupObjects) /\ IsFiniteSet(1..ConnectionsPerGroup)
    BY RelayGroupsAssumption, FS_Interval DEF GroupObjects
  <2>2. IsFiniteSet(Links)
    BY <2>1, FS_Product DEF Links
  <2>. QED BY <2>2, FS_CardinalityType
<1>2. SUFFICES ASSUME Cardinality(Links) <= CheckLimit PROVE GroupsSpec => GivenUpOnlyIfSilent
  OBVIOUS
<1>3. DueFits
  <2>. SUFFICES ASSUME NEW pass \in PassTimes
                PROVE  Cardinality({c \in Links : Live(c) /\ RequestAgeNow(pass)[c] >= RequestLimit})
                         <= CheckLimit
    BY DEF DueFits
  <2>1. PICK D : D = {c \in Links : Live(c) /\ RequestAgeNow(pass)[c] >= RequestLimit}
    OBVIOUS
  <2>2. D \subseteq Links
    BY <2>1
  <2>3. Cardinality(D) <= Cardinality(Links) /\ Cardinality(D) \in Nat
    BY <1>1, <2>2, FS_Subset, FS_CardinalityType
  <2>4. Cardinality(D) <= CheckLimit
    BY <1>1, <1>2, <2>3, RelayGroupsAssumption
  <2>. QED BY <2>1, <2>4
<1>. QED BY <1>3, AnsweringIsKept, PTL

-----------------------------------------------------------------------------
(* How the header of an HTTP client is read *)

Units == [kind : Kinds \cup {"CONNECT", "GET", "\r", "\n"}, part : {0, 1, 2}]

\* The kind of a line: the first is the request line.
KindOf(i) == IF i = 0 THEN method ELSE header[i]

HttpTypeOK ==
    /\ method \in {"CONNECT", "GET"} /\ header \in Headers
    /\ received \in 0..Len(Bytes) /\ consumed \in 0..received
    /\ cuts \in SUBSET (1..received)

LEMMA HeaderIs ==
    ASSUME header \in Headers
    PROVE  /\ header \in Seq(Kinds) /\ Len(header) \in Nat /\ DOMAIN header = 1..Len(header)
           /\ \A i \in 1..Len(header) : header[i] \in Kinds
           /\ \A i, j \in 1..Len(header) :
                 header[i] = "Proxy-Authorization" /\ header[j] = "Proxy-Authorization" => i = j
<1>1. PICK n \in 0..MaxLines : header \in [1..n -> Kinds]
  BY DEF Headers
<1>2. n \in Nat
  BY HttpAssumption
<1>3. header \in Seq(Kinds)
  BY <1>1, <1>2, SeqDef
<1>4. Len(header) \in Nat /\ DOMAIN header = 1..Len(header)
  BY <1>3, LenProperties
<1>5. \A i \in 1..Len(header) : header[i] \in Kinds
  BY <1>3, ElementOfSeq
<1>. QED BY <1>3, <1>4, <1>5 DEF Headers

LEMMA BytesIn ==
    ASSUME header \in Headers, method \in {"CONNECT", "GET"}, NEW S, CR \in S, LF \in S,
           \A i \in 0..Len(header) :
              [kind |-> KindOf(i), part |-> 1] \in S /\ [kind |-> KindOf(i), part |-> 2] \in S
    PROVE  /\ Bytes \in Seq(S) /\ Len(Bytes) = 4 * Len(header) + 6
           /\ \A i \in 0..Len(header) :
                 /\ Bytes[4 * i + 1] = [kind |-> KindOf(i), part |-> 1]
                 /\ Bytes[4 * i + 2] = [kind |-> KindOf(i), part |-> 2]
                 /\ Bytes[4 * i + 3] = CR /\ Bytes[4 * i + 4] = LF
           /\ Bytes[4 * Len(header) + 5] = CR /\ Bytes[4 * Len(header) + 6] = LF
<1>1. PICK K \in Nat : K = Len(header) /\ \A i \in 1..K : header[i] \in Kinds
  BY HeaderIs
<1>. DEFINE At(i, q) == IF i > K THEN <<CR, LF>>[q]
                        ELSE (Text(KindOf(i)) \o <<CR, LF>>)[q]
<1>3. Bytes = [p \in 1..4 * K + 6 |-> At((p - 1) \div 4, ((p - 1) % 4) + 1)]
  BY <1>1 DEF Bytes, KindOf
<1>4. ASSUME NEW i \in 0..K
      PROVE  /\ At(i, 1) = [kind |-> KindOf(i), part |-> 1] /\ At(i, 2) = [kind |-> KindOf(i), part |-> 2]
             /\ At(i, 3) = CR /\ At(i, 4) = LF
  BY DEF Text
<1>5. At(K + 1, 1) = CR /\ At(K + 1, 2) = LF
  OBVIOUS
<1>6. \A i \in Nat, q \in 1..4 : (4 * i + q - 1) \div 4 = i /\ ((4 * i + q - 1) % 4) + 1 = q
  OBVIOUS
<1>7. \A i \in Nat, q \in 1..4 : 4 * i + q <= 4 * K + 6 => Bytes[4 * i + q] = At(i, q)
  <2>1. SUFFICES ASSUME NEW i \in Nat, NEW q \in 1..4, 4 * i + q <= 4 * K + 6
                 PROVE  Bytes[4 * i + q] = At(i, q)
    OBVIOUS
  <2>2. PICK p \in 1..4 * K + 6 : p = 4 * i + q
    BY <2>1
  <2>3. (p - 1) \div 4 = i /\ ((p - 1) % 4) + 1 = q
    BY <1>6, <2>2
  <2>. HIDE DEF At
  <2>4. Bytes[p] = At((p - 1) \div 4, ((p - 1) % 4) + 1)
    BY <1>3
  <2>. QED BY <2>2, <2>3, <2>4
<1>8. \A p \in 1..4 * K + 6 : \E i \in 0..K + 1, q \in 1..4 : p = 4 * i + q /\ (i = K + 1 => q <= 2)
  <2>1. SUFFICES ASSUME NEW p \in 1..4 * K + 6
                 PROVE  \E i \in 0..K + 1, q \in 1..4 : p = 4 * i + q /\ (i = K + 1 => q <= 2)
    OBVIOUS
  <2>2. PICK i \in Int, q \in Int : i = (p - 1) \div 4 /\ q = ((p - 1) % 4) + 1
    OBVIOUS
  <2>3. q \in 1..4 /\ p = 4 * i + q
    BY <2>2
  <2>4. i \in 0..K + 1 /\ (i = K + 1 => q <= 2)
    BY <2>3
  <2>. QED BY <2>3, <2>4
<1>. HIDE DEF At
<1>9. \A p \in 1..4 * K + 6 : Bytes[p] \in S
  <2>1. SUFFICES ASSUME NEW p \in 1..4 * K + 6 PROVE Bytes[p] \in S
    OBVIOUS
  <2>2. PICK i \in 0..K + 1, q \in 1..4 : p = 4 * i + q /\ (i = K + 1 => q <= 2)
    BY <1>8
  <2>a. i \in Nat /\ 4 * i + q <= 4 * K + 6
    BY <2>2
  <2>b. Bytes[4 * i + q] = At(i, q)
    BY <1>7, <2>a
  <2>3. Bytes[p] = At(i, q)
    BY <2>2, <2>b
  <2>5. CASE i = K + 1
    BY <1>5, <2>2, <2>3, <2>5
  <2>6. CASE i \in 0..K
    <3>1. q = 1 \/ q = 2 \/ q = 3 \/ q = 4
      OBVIOUS
    <3>2. [kind |-> KindOf(i), part |-> 1] \in S /\ [kind |-> KindOf(i), part |-> 2] \in S
      BY <1>1, <2>6
    <3>. QED BY <1>4, <2>3, <2>6, <3>1, <3>2
  <2>. QED BY <2>5, <2>6
<1>10. Bytes \in Seq(S) /\ Len(Bytes) = 4 * K + 6
  <2>1. Bytes \in [1..4 * K + 6 -> S]
    BY <1>3, <1>9
  <2>2. 4 * K + 6 \in Nat
    OBVIOUS
  <2>3. Bytes \in Seq(S)
    BY <2>1, <2>2, SeqDef
  <2>4. DOMAIN Bytes = 1..4 * K + 6 /\ DOMAIN Bytes = 1..Len(Bytes) /\ Len(Bytes) \in Nat
    BY <2>1, <2>3, LenProperties
  <2>5. Len(Bytes) = 4 * K + 6
    BY <2>2, <2>4
  <2>. QED BY <2>3, <2>5
<1>11. ASSUME NEW i \in 0..K
       PROVE  /\ Bytes[4 * i + 1] = At(i, 1) /\ Bytes[4 * i + 2] = At(i, 2)
              /\ Bytes[4 * i + 3] = At(i, 3) /\ Bytes[4 * i + 4] = At(i, 4)
  <2>1. i \in Nat /\ 1 \in 1..4 /\ 2 \in 1..4 /\ 3 \in 1..4 /\ 4 \in 1..4 /\ 4 * i + 4 <= 4 * K + 6
    OBVIOUS
  <2>. QED BY <1>7, <2>1
<1>12. Bytes[4 * K + 5] = At(K + 1, 1) /\ Bytes[4 * K + 6] = At(K + 1, 2)
  <2>1. K + 1 \in Nat /\ 4 * (K + 1) + 1 = 4 * K + 5 /\ 4 * (K + 1) + 2 = 4 * K + 6
    OBVIOUS
  <2>. QED BY <1>7, <2>1
<1>. QED BY <1>1, <1>4, <1>5, <1>10, <1>11, <1>12

LEMMA BytesAre ==
    ASSUME header \in Headers, method \in {"CONNECT", "GET"}
    PROVE  /\ Bytes \in Seq(Units) /\ Len(Bytes) = 4 * Len(header) + 6
           /\ \A i \in 0..Len(header) :
                 /\ Bytes[4 * i + 1] = [kind |-> KindOf(i), part |-> 1]
                 /\ Bytes[4 * i + 2] = [kind |-> KindOf(i), part |-> 2]
                 /\ Bytes[4 * i + 3] = CR /\ Bytes[4 * i + 4] = LF
           /\ Bytes[4 * Len(header) + 5] = CR /\ Bytes[4 * Len(header) + 6] = LF
<1>1. \A i \in 0..Len(header) : KindOf(i) \in Kinds \cup {"CONNECT", "GET"}
  BY HeaderIs DEF KindOf
<1>2. CR \in Units /\ LF \in Units
  BY DEF CR, LF, Units
<1>3. \A i \in 0..Len(header) :
         [kind |-> KindOf(i), part |-> 1] \in Units /\ [kind |-> KindOf(i), part |-> 2] \in Units
  BY <1>1 DEF Units
<1>. QED BY <1>2, <1>3, BytesIn

\* What find("\r\n") returns.
LEMMA LineEndIs ==
    ASSUME NEW S, NEW data \in Seq(S), NEW u \in Nat, NEW m \in Nat, u + m + 2 <= Len(data),
           data[u + m + 1] = CR, data[u + m + 2] = LF, \A x \in u + 1..u + m : data[x] # CR
    PROVE  LineEndIndex(data, u) = m
<1>1. Len(data) \in Nat
  BY LenProperties
<1>2. PICK ends : ends = {j \in u + 1..Len(data) - 1 : data[j] = CR /\ data[j + 1] = LF}
  OBVIOUS
<1>3. u + m + 1 \in ends
  <2>1. u + m + 1 \in u + 1..Len(data) - 1 /\ (u + m + 1) + 1 = u + m + 2
    BY <1>1
  <2>. QED BY <1>2, <2>1
<1>4. \A j \in ends : u + m + 1 <= j /\ j \in Nat
  <2>1. SUFFICES ASSUME NEW j \in ends PROVE u + m + 1 <= j /\ j \in Nat
    OBVIOUS
  <2>2. j \in u + 1..Len(data) - 1 /\ data[j] = CR
    BY <1>2
  <2>3. j \notin u + 1..u + m
    BY <2>2
  <2>. QED BY <1>1, <2>2, <2>3
<1>5. (CHOOSE j \in ends : \A k \in ends : j <= k) = u + m + 1
  <2>1. PICK c : c = CHOOSE j \in ends : \A k \in ends : j <= k
    OBVIOUS
  <2>2. c \in ends /\ \A k \in ends : c <= k
    BY <1>3, <1>4, <2>1
  <2>3. c = u + m + 1
    BY <1>3, <1>4, <2>2
  <2>. QED BY <2>1, <2>3
<1>6. LineEndIndex(data, u) = (CHOOSE j \in ends : \A k \in ends : j <= k) - u - 1
  BY <1>2, <1>3 DEF LineEndIndex
<1>7. (u + m + 1) - u - 1 = m
  OBVIOUS
<1>. QED BY <1>5, <1>6, <1>7

LEMMA LineEndIsNot ==
    ASSUME NEW data, NEW u, \A j \in u + 1..Len(data) - 1 : ~(data[j] = CR /\ data[j + 1] = LF)
    PROVE  LineEndIndex(data, u) = -1
BY DEF LineEndIndex

\* In the client's bytes, data being those from b to n, u bytes of them bring it
\* r bytes into the text of line i, or in front of the empty line; the lines are
\* numbered from 0.
IsAt(b, n, data, u, i, r) ==
    /\ b \in Nat /\ n \in Nat /\ b <= n /\ n <= 4 * Len(header) + 6
    /\ data = SubSeq(Bytes, b + 1, n)
    /\ u \in Nat /\ i \in 0..Len(header) + 1 /\ r \in 0..2 /\ (i = Len(header) + 1 => r = 0)
    /\ b + u = 4 * i + r /\ b + u <= n

LEMMA NextLineEnd ==
    ASSUME HttpTypeOK, NEW b, NEW n, NEW data, NEW u, NEW i, NEW r, IsAt(b, n, data, u, i, r)
    PROVE  /\ i <= Len(header) /\ 4 * i + 4 <= n => LineEndIndex(data, u) = 2 - r
           /\ i = Len(header) + 1 /\ n = 4 * Len(header) + 6 => LineEndIndex(data, u) = 0
           /\ n # 4 * Len(header) + 6 /\ n < 4 * i + 4 => LineEndIndex(data, u) = -1
<1>. USE DEF IsAt
<1>1. PICK K \in Nat : K = Len(header)
  BY HeaderIs DEF HttpTypeOK
<1>2. /\ Bytes \in Seq(Units) /\ Len(Bytes) = 4 * K + 6
      /\ \A x \in 0..K : /\ Bytes[4 * x + 1] # CR /\ Bytes[4 * x + 2] # CR
                         /\ Bytes[4 * x + 3] = CR /\ Bytes[4 * x + 4] = LF
      /\ Bytes[4 * K + 5] = CR /\ Bytes[4 * K + 6] = LF
  <2>1. \A k : [kind |-> k, part |-> 1] # CR /\ [kind |-> k, part |-> 2] # CR
    BY DEF CR
  <2>. QED BY <1>1, <2>1, BytesAre DEF HttpTypeOK
<1>3. /\ data \in Seq(Units) /\ Len(data) = n - b
      /\ \A j \in 1..n - b : data[j] = Bytes[b + j]
  <2>1. IsPiece(Units, data, Bytes, b, n)
    BY <1>1, <1>2, PieceProperties
  <2>. QED BY <2>1 DEF IsPiece
<1>4. ASSUME i <= K, 4 * i + 4 <= n PROVE LineEndIndex(data, u) = 2 - r
  <2>1. PICK m \in Nat : m = 2 - r
    OBVIOUS
  <2>2. u + m + 2 <= Len(data) /\ b + (u + m + 1) = 4 * i + 3 /\ b + (u + m + 2) = 4 * i + 4
    BY <1>3, <1>4, <2>1
  <2>3. u + m + 1 \in 1..n - b /\ u + m + 2 \in 1..n - b
    BY <1>3, <2>2
  <2>4. i \in 0..K
    BY <1>1, <1>4
  <2>5. data[u + m + 1] = CR /\ data[u + m + 2] = LF
    BY <1>2, <1>3, <2>2, <2>3, <2>4
  <2>6. ASSUME NEW x \in u + 1..u + m PROVE data[x] # CR
    <3>1. x \in 1..n - b /\ (b + x = 4 * i + 1 \/ b + x = 4 * i + 2)
      BY <2>1, <2>3
    <3>. QED BY <1>2, <1>3, <2>4, <3>1
  <2>7. LineEndIndex(data, u) = m
    BY <1>3, <2>2, <2>5, <2>6, LineEndIs
  <2>. QED BY <2>1, <2>7
<1>5. ASSUME i = K + 1, n = 4 * K + 6 PROVE LineEndIndex(data, u) = 0
  <2>1. PICK m \in Nat : m = 0
    OBVIOUS
  <2>0. r = 0 /\ b + u = 4 * K + 4
    BY <1>1, <1>5
  <2>2. u + m + 2 <= Len(data) /\ b + (u + m + 1) = 4 * K + 5 /\ b + (u + m + 2) = 4 * K + 6
    <3>1. Len(data) = (4 * K + 6) - b
      BY <1>3, <1>5
    <3>. QED BY <2>0, <2>1, <3>1
  <2>3. u + m + 1 \in 1..n - b /\ u + m + 2 \in 1..n - b
    BY <1>3, <2>2
  <2>4. data[u + m + 1] = CR /\ data[u + m + 2] = LF
    BY <1>2, <1>3, <2>2, <2>3
  <2>5. \A x \in u + 1..u + m : data[x] # CR
    BY <2>1
  <2>6. LineEndIndex(data, u) = m
    BY <1>3, <2>2, <2>4, <2>5, LineEndIs
  <2>. QED BY <2>1, <2>6
<1>6. ASSUME n # 4 * K + 6, n < 4 * i + 4 PROVE LineEndIndex(data, u) = -1
  <2>1. ASSUME NEW j \in u + 1..Len(data) - 1, data[j] = CR PROVE FALSE
    <3>1. j \in 1..n - b /\ j \in Nat /\ u < j /\ j < n - b
      BY <1>3
    <3>2. data[j] = Bytes[b + j]
      BY <1>3, <3>1
    <3>3. b + j >= 4 * i + r + 1 /\ b + j < n /\ n <= 4 * K + 6
      BY <1>1, <3>1
    <3>4. i \in 0..K
      BY <1>1, <1>6, <3>3
    <3>5. b + j = 4 * i + 1 \/ b + j = 4 * i + 2
      BY <1>6, <3>3
    <3>. QED BY <1>2, <2>1, <3>2, <3>4, <3>5
  <2>. QED BY <2>1, LineEndIsNot
<1>. QED BY <1>1, <1>4, <1>5, <1>6

-----------------------------------------------------------------------------
(* The loop of the challenges *)

Begin(line, rebuilt, auth) ==
    [used |-> 0, line |-> line, ended |-> FALSE, rebuilt |-> rebuilt, auth |-> auth]

ArePasses(data, line, rebuilt, auth, g) ==
    /\ g[0] = Begin(line, rebuilt, auth)
    /\ \A k \in 1..Len(data) : g[k] = Pass(data, g[k - 1])
    /\ Read(data, line, rebuilt, auth) = g[Len(data)]

LEMMA ReadPasses ==
    ASSUME NEW data, Len(data) \in Nat, NEW line, NEW rebuilt, NEW auth
    PROVE  \E g : ArePasses(data, line, rebuilt, auth, g)
<1>. DEFINE F(k, before) == IF k = 0 THEN Begin(line, rebuilt, auth) ELSE Pass(data, before)
            Solves(g, n) == g = [k \in 0..n |-> F(k, g[k - 1])]
            T == {n \in Nat : \E g : Solves(g, n)}
            g0 == CHOOSE f : f = [k \in 0..Len(data) |->
                                    IF k = 0 THEN [used |-> 0, line |-> line, ended |-> FALSE,
                                                   rebuilt |-> rebuilt, auth |-> auth]
                                    ELSE Pass(data, f[k - 1])]
<1>1. 0 \in T
  <2>. DEFINE g == [k \in 0..0 |-> Begin(line, rebuilt, auth)]
  <2>1. Solves(g, 0)
    OBVIOUS
  <2>. QED BY <2>1
<1>2. ASSUME NEW n \in T PROVE n + 1 \in T
  <2>1. n \in Nat
    OBVIOUS
  <2>2. PICK g : Solves(g, n)
    OBVIOUS
  <2>. DEFINE t == F(n + 1, g[n])
              h == [k \in 0..n + 1 |-> IF k = n + 1 THEN t ELSE g[k]]
  <2>4. \A k \in 0..n : h[k] = g[k] /\ (k # 0 => k - 1 \in 0..n)
    BY <2>1
  <2>5. h[n + 1] = t /\ (n + 1) - 1 = n /\ h[n] = g[n]
    BY <2>1
  <2>6. ASSUME NEW k \in 0..n + 1
        PROVE  h[k] = F(k, h[k - 1])
    <3>1. CASE k = n + 1
      BY <2>5, <3>1
    <3>2. CASE k # n + 1
      <4>1. k \in 0..n
        BY <2>1, <3>2
      <4>2. h[k] = F(k, g[k - 1])
        BY <2>2, <2>4, <4>1
      <4>. QED BY <2>4, <4>1, <4>2
    <3>. QED BY <3>1, <3>2
  <2>7. Solves(h, n + 1)
    BY <2>6
  <2>8. \E e : Solves(e, n + 1)
    <3>. HIDE DEF h, F
    <3>. QED BY <2>7
  <2>9. n + 1 \in Nat
    BY <2>1
  <2>. QED BY <2>8, <2>9
<1>3. T = Nat
  <2>. HIDE DEF T
  <2>1. T \in SUBSET Nat
    BY DEF T
  <2>. QED BY <1>1, <1>2, <2>1, Induct
<1>4. \E g : Solves(g, Len(data))
  BY <1>3
<1>5. Read(data, line, rebuilt, auth) = g0[Len(data)]
  BY DEF Read
<1>6. g0 = [k \in 0..Len(data) |-> F(k, g0[k - 1])]
  BY <1>4 DEF Begin
<1>. HIDE DEF g0
<1>7. g0[0] = Begin(line, rebuilt, auth)
  <2>1. 0 \in 0..Len(data)
    OBVIOUS
  <2>. QED BY <1>6, <2>1
<1>8. ASSUME NEW k \in 1..Len(data) PROVE g0[k] = Pass(data, g0[k - 1])
  <2>1. k \in 0..Len(data) /\ k # 0
    OBVIOUS
  <2>. QED BY <1>6, <2>1
<1>9. ArePasses(data, line, rebuilt, auth, g0)
  BY <1>5, <1>7, <1>8 DEF ArePasses
<1>. QED BY <1>9

\* What is sent on of the first lines.
LEMMA RebuiltHeaderIs ==
    ASSUME Len(header) \in Nat
    PROVE  /\ RebuiltHeader[0] = << Text(method) >>
           /\ \A i \in 1..Len(header) :
                 RebuiltHeader[i] = RebuiltHeader[i - 1] \o Rebuilt(Text(header[i]))
<1>. DEFINE F(k, before) == IF k = 0 THEN << Text(method) >> ELSE before \o Rebuilt(Text(header[k]))
            Solves(g, n) == g = [k \in 0..n |-> F(k, g[k - 1])]
            T == {n \in Nat : \E g : Solves(g, n)}
<1>1. 0 \in T
  <2>. DEFINE g == [k \in 0..0 |-> << Text(method) >>]
  <2>1. Solves(g, 0)
    OBVIOUS
  <2>. QED BY <2>1
<1>2. ASSUME NEW n \in T PROVE n + 1 \in T
  <2>1. n \in Nat
    OBVIOUS
  <2>2. PICK g : Solves(g, n)
    OBVIOUS
  <2>. DEFINE t == F(n + 1, g[n])
              h == [k \in 0..n + 1 |-> IF k = n + 1 THEN t ELSE g[k]]
  <2>4. \A k \in 0..n : h[k] = g[k] /\ (k # 0 => k - 1 \in 0..n)
    BY <2>1
  <2>5. h[n + 1] = t /\ (n + 1) - 1 = n /\ h[n] = g[n]
    BY <2>1
  <2>6. ASSUME NEW k \in 0..n + 1
        PROVE  h[k] = F(k, h[k - 1])
    <3>1. CASE k = n + 1
      BY <2>5, <3>1
    <3>2. CASE k # n + 1
      <4>1. k \in 0..n
        BY <2>1, <3>2
      <4>2. h[k] = F(k, g[k - 1])
        BY <2>2, <2>4, <4>1
      <4>. QED BY <2>4, <4>1, <4>2
    <3>. QED BY <3>1, <3>2
  <2>7. Solves(h, n + 1)
    BY <2>6
  <2>8. \E e : Solves(e, n + 1)
    <3>. HIDE DEF h, F
    <3>. QED BY <2>7
  <2>9. n + 1 \in Nat
    BY <2>1
  <2>. QED BY <2>8, <2>9
<1>3. T = Nat
  <2>. HIDE DEF T
  <2>1. T \in SUBSET Nat
    BY DEF T
  <2>. QED BY <1>1, <1>2, <2>1, Induct
<1>4. \E g : Solves(g, Len(header))
  BY <1>3
<1>5. RebuiltHeader = [k \in 0..Len(header) |-> F(k, RebuiltHeader[k - 1])]
  BY <1>4 DEF RebuiltHeader
<1>6. 0 \in 0..Len(header) /\ \A k \in 1..Len(header) : k \in 0..Len(header) /\ k # 0
  OBVIOUS
<1>. QED BY <1>5, <1>6

\* The loop that began at byte b and line f is q bytes into the text of line i,
\* or in front of the empty line; "sent" is true when what it has rebuilt counts.
BeforeLine(b, f, i, q, sent, at) ==
    /\ i \in 1..Len(header) + 1 /\ q \in 0..2
    /\ i = Len(header) + 1 => q = 0
    /\ i <= Len(header) /\ q # 0 => header[i] # "Proxy-Authorization"
    /\ at.used \in Nat /\ b + at.used = 4 * i + q
    /\ at.line = SubSeq(Bytes, 4 * i + 1, 4 * i + q)
    /\ at.ended = FALSE
    /\ at.auth = IF \E x \in f..i - 1 : header[x] = "Proxy-Authorization" THEN "own" ELSE "none"
    /\ sent => at.rebuilt = RebuiltHeader[i - 1]

\* The loop has read the empty line.
BehindHeader(b, f, sent, at) ==
    /\ at.used \in Nat /\ b + at.used = 4 * Len(header) + 6
    /\ at.ended = TRUE
    /\ at.auth = IF \E x \in f..Len(header) : header[x] = "Proxy-Authorization" THEN "own" ELSE "none"
    /\ sent => at.rebuilt = RebuiltHeader[Len(header)]

LEMMA PassReadsLine ==
    ASSUME HttpTypeOK, NEW b \in Nat, NEW n \in Nat, b <= n, n <= 4 * Len(header) + 6,
           NEW data, data = SubSeq(Bytes, b + 1, n),
           NEW i \in Nat, NEW q \in 0..2, NEW f \in Nat, f <= i, NEW sent, NEW at,
           BeforeLine(b, f, i, q, sent, at), i <= Len(header), 4 * i + 4 <= n
    PROVE  BeforeLine(b, f, i + 1, 0, sent, Pass(data, at))
<1>1. PICK K \in Nat : K = Len(header)
  BY HeaderIs DEF HttpTypeOK
<1>a. PICK u \in Nat : u = at.used
  BY DEF BeforeLine
<1>2. b + u = 4 * i + q
  BY <1>a DEF BeforeLine
<1>3. i \in 1..K /\ i \in 0..K /\ Len(Bytes) = 4 * K + 6 /\ Bytes \in Seq(Units)
  BY <1>1, BytesAre DEF BeforeLine, HttpTypeOK
<1>4. LineEndIndex(data, u) = 2 - q
  <2>1. IsAt(b, n, data, u, i, q)
    <3>1. i \in 0..Len(header) + 1 /\ (i = Len(header) + 1 => q = 0)
      BY <1>1, <1>3
    <3>2. b + u <= n
      BY <1>2
    <3>. QED BY <1>2, <3>1, <3>2 DEF IsAt
  <2>. QED BY <1>1, <1>3, <2>1, NextLineEnd
<1>5. PICK m \in Nat : m = 2 - q
  OBVIOUS
<1>6. at.line \o SubSeq(data, u + 1, u + m) = Text(header[i])
  <2>1. SubSeq(data, u + 1, u + m) = SubSeq(Bytes, b + u + 1, b + (u + m))
    <3>1. u + m \in Nat /\ u <= u + m /\ u + m <= n - b /\ n <= Len(Bytes)
      BY <1>1, <1>2, <1>3, <1>5
    <3>. QED BY <1>3, <3>1, PieceOfPiece
  <2>2. PICK c \in Nat, d \in Nat, e \in Nat : c = 4 * i /\ d = 4 * i + q /\ e = 4 * i + 2
    OBVIOUS
  <2>3. b + u = d /\ b + (u + m) = e
    BY <1>2, <1>5, <2>2
  <2>4. at.line = SubSeq(Bytes, c + 1, d)
    BY <2>2 DEF BeforeLine
  <2>5. at.line \o SubSeq(data, u + 1, u + m) = SubSeq(Bytes, c + 1, e)
    <3>1. c <= d /\ d <= e /\ e <= Len(Bytes)
      BY <1>3, <2>2
    <3>2. SubSeq(Bytes, c + 1, d) \o SubSeq(Bytes, d + 1, e) = SubSeq(Bytes, c + 1, e)
      <4>1. Bytes \in Seq(Units)
        BY <1>3
      <4>. HIDE <1>1, <1>2, <1>3, <1>4, <1>5
      <4>. QED BY <3>1, <4>1, PiecesJoin
    <3>. QED BY <2>1, <2>3, <2>4, <3>2
  <2>6. SubSeq(Bytes, c + 1, e) = Text(header[i])
    <3>1. PICK t : t = SubSeq(Bytes, c + 1, e) /\ IsPiece(Units, t, Bytes, c, e)
      <4>1. c <= e /\ e <= Len(Bytes)
        BY <1>3, <2>2
      <4>. QED BY <1>3, <4>1, PieceProperties
    <3>2. e - c = 2
      BY <2>2
    <3>3. t \in Seq(Units) /\ Len(t) = 2 /\ t[1] = Bytes[c + 1] /\ t[2] = Bytes[c + 2]
      BY <3>1, <3>2 DEF IsPiece
    <3>4. KindOf(i) = header[i]
      BY <1>3 DEF KindOf
    <3>5. t[1] = [kind |-> header[i], part |-> 1] /\ t[2] = [kind |-> header[i], part |-> 2]
      BY <1>1, <1>3, <2>2, <3>3, <3>4, BytesAre DEF HttpTypeOK
    <3>6. t = <<t[1], t[2]>>
      BY <3>3
    <3>. QED BY <3>1, <3>5, <3>6 DEF Text
  <2>. QED BY <2>5, <2>6
<1>7. PICK line : line = Text(header[i])
  OBVIOUS
<1>8. line # <<>> /\ line[1].kind = header[i]
  BY <1>7 DEF Text
<1>9. Pass(data, at) = [used |-> u + m + 2, line |-> <<>>, ended |-> FALSE,
                       rebuilt |-> at.rebuilt \o Rebuilt(line),
                       auth |-> Decoded(line, m, at.auth)]
  <2>1. at.ended = FALSE /\ LineEndIndex(data, at.used) = m /\ m # -1
    BY <1>a, <1>4, <1>5 DEF BeforeLine
  <2>. QED BY <1>a, <1>6, <1>7, <1>8, <2>1 DEF Pass
<1>10. Decoded(line, m, at.auth) = IF \E x \in f..i : header[x] = "Proxy-Authorization" THEN "own" ELSE "none"
  <2>1. CASE header[i] = "Proxy-Authorization"
    <3>1. q = 0 /\ m = 2 /\ i \in f..i
      BY <1>1, <1>3, <1>5, <2>1 DEF BeforeLine
    <3>. QED BY <1>7, <1>8, <2>1, <3>1 DEF Decoded
  <2>2. CASE header[i] # "Proxy-Authorization"
    <3>1. Decoded(line, m, at.auth) = at.auth
      BY <1>8, <2>2 DEF Decoded
    <3>2. \A x \in f..i : x = i \/ x \in f..i - 1
      OBVIOUS
    <3>3. \A x \in f..i - 1 : x \in f..i
      OBVIOUS
    <3>. QED BY <2>2, <3>1, <3>2, <3>3 DEF BeforeLine
  <2>. QED BY <2>1, <2>2
<1>11. sent => at.rebuilt \o Rebuilt(line) = RebuiltHeader[(i + 1) - 1]
  <2>1. (i + 1) - 1 = i
    OBVIOUS
  <2>. QED BY <1>1, <1>3, <1>7, <2>1, RebuiltHeaderIs DEF BeforeLine
<1>12. SubSeq(Bytes, 4 * (i + 1) + 1, 4 * (i + 1) + 0) = <<>>
  BY <1>3
<1>13. (i + 1) - 1 = i /\ i + 1 \in 1..Len(header) + 1 /\ u + m + 2 \in Nat
       /\ b + (u + m + 2) = 4 * (i + 1) + 0
  BY <1>1, <1>2, <1>3, <1>5
<1>14. PICK p : p = Pass(data, at)
  OBVIOUS
<1>15. /\ p.used = u + m + 2 /\ p.line = <<>> /\ p.ended = FALSE
       /\ p.rebuilt = at.rebuilt \o Rebuilt(line) /\ p.auth = Decoded(line, m, at.auth)
  BY <1>9, <1>14
<1>16. BeforeLine(b, f, i + 1, 0, sent, p)
  BY <1>10, <1>11, <1>12, <1>13, <1>15 DEF BeforeLine
<1>. QED BY <1>14, <1>16

LEMMA PassReadsEnd ==
    ASSUME HttpTypeOK, NEW b \in Nat, NEW n \in Nat, b <= n, n = 4 * Len(header) + 6,
           NEW data, data = SubSeq(Bytes, b + 1, n),
           NEW i \in Nat, NEW q \in 0..2, NEW f \in Nat, NEW sent, NEW at,
           BeforeLine(b, f, i, q, sent, at), i = Len(header) + 1
    PROVE  BehindHeader(b, f, sent, Pass(data, at))
<1>1. PICK K \in Nat : K = Len(header)
  BY HeaderIs DEF HttpTypeOK
<1>a. PICK u \in Nat : u = at.used
  BY DEF BeforeLine
<1>2. b + u = 4 * i + q
  BY <1>a DEF BeforeLine
<1>3. q = 0 /\ b + u = 4 * K + 4 /\ b + u <= n
  BY <1>1, <1>2 DEF BeforeLine
<1>4. LineEndIndex(data, u) = 0
  <2>1. IsAt(b, n, data, u, i, q)
    <3>1. i \in 0..Len(header) + 1 /\ n <= 4 * Len(header) + 6
      BY <1>1, <1>3
    <3>. QED BY <1>2, <1>3, <3>1 DEF IsAt
  <2>. QED BY <1>1, <2>1, NextLineEnd
<1>5. at.line = <<>> /\ SubSeq(data, u + 1, u + 0) = <<>>
  <2>1. Bytes \in Seq(Units) /\ Len(Bytes) = 4 * K + 6
    BY <1>1, BytesAre DEF HttpTypeOK
  <2>2. SubSeq(Bytes, 4 * i + 1, 4 * i + 0) = <<>>
    BY <2>1
  <2>3. data \in Seq(Units)
    <3>1. IsPiece(Units, data, Bytes, b, n)
      BY <1>1, <2>1, PieceProperties
    <3>. QED BY <3>1 DEF IsPiece
  <2>. QED BY <1>3, <2>2, <2>3 DEF BeforeLine
<1>6. Pass(data, at) = [used |-> u + 2, line |-> <<>>, ended |-> TRUE,
                       rebuilt |-> at.rebuilt, auth |-> at.auth]
  <2>1. at.ended = FALSE /\ LineEndIndex(data, at.used) = 0
    BY <1>a, <1>4 DEF BeforeLine
  <2>2. at.line \o SubSeq(data, at.used + 1, at.used + 0) = <<>>
    BY <1>a, <1>5
  <2>. QED BY <1>a, <2>1, <2>2 DEF Pass
<1>7. i - 1 = Len(header) /\ u + 2 \in Nat /\ b + (u + 2) = 4 * Len(header) + 6
  <2>1. b + (u + 2) = 4 * K + 6
    BY <1>3
  <2>. QED BY <1>1, <2>1
<1>. QED BY <1>6, <1>7 DEF BeforeLine, BehindHeader

LEMMA PassReadsNothing ==
    ASSUME HttpTypeOK, NEW b \in Nat, NEW n \in Nat, b <= n, n < 4 * Len(header) + 6,
           NEW data, data = SubSeq(Bytes, b + 1, n),
           NEW i \in Nat, NEW q \in 0..2, NEW f \in Nat, NEW sent, NEW at,
           BeforeLine(b, f, i, q, sent, at), 4 * i + q <= n, n < 4 * i + 4
    PROVE  Pass(data, at) = at
<1>1. PICK K \in Nat : K = Len(header)
  BY HeaderIs DEF HttpTypeOK
<1>a. PICK u \in Nat : u = at.used
  BY DEF BeforeLine
<1>2. b + u = 4 * i + q
  BY <1>a DEF BeforeLine
<1>3. i \in 0..Len(header) + 1 /\ (i = Len(header) + 1 => q = 0) /\ b + u <= n
      /\ n <= 4 * Len(header) + 6 /\ n # 4 * Len(header) + 6
  BY <1>1, <1>2 DEF BeforeLine
<1>4. LineEndIndex(data, u) = -1
  <2>1. IsAt(b, n, data, u, i, q)
    BY <1>2, <1>3 DEF IsAt
  <2>. QED BY <1>3, <2>1, NextLineEnd
<1>. QED BY <1>a, <1>4 DEF Pass

\* After k passes over the bytes from b to n, from line i and q bytes into it.
IsPass(b, n, f, i, q, sent, k, at) ==
    \/ n = 4 * Len(header) + 6 /\ BehindHeader(b, f, sent, at)
    \/ \E j \in Nat, p \in {0, q} :
          /\ i <= j /\ BeforeLine(b, f, j, p, sent, at) /\ 4 * j + p <= n
          /\ k <= at.used \/ (n < 4 * j + 4 /\ n < 4 * Len(header) + 6)

\* What the loop comes to.
IsReading(b, n, f, i, q, sent, at) ==
    /\ n = 4 * Len(header) + 6 => BehindHeader(b, f, sent, at)
    /\ n # 4 * Len(header) + 6 =>
          \E j \in Nat, p \in {0, q} :
             i <= j /\ BeforeLine(b, f, j, p, sent, at) /\ 4 * j + p <= n /\ n < 4 * j + 4

LEMMA PassStep ==
    ASSUME HttpTypeOK, NEW b \in Nat, NEW n \in Nat, b <= n, n <= 4 * Len(header) + 6,
           NEW data, data = SubSeq(Bytes, b + 1, n),
           NEW i \in Nat, NEW q \in 0..2, NEW f \in Nat, f <= i, NEW sent, NEW k \in Nat, NEW at,
           IsPass(b, n, f, i, q, sent, k, at)
    PROVE  IsPass(b, n, f, i, q, sent, k + 1, Pass(data, at))
<1>1. PICK K \in Nat : K = Len(header)
  BY HeaderIs DEF HttpTypeOK
<1>2. CASE n = 4 * Len(header) + 6 /\ BehindHeader(b, f, sent, at)
  <2>1. Pass(data, at) = at
    BY <1>2 DEF BehindHeader, Pass
  <2>. QED BY <1>2, <2>1 DEF IsPass
<1>3. ASSUME NEW j \in Nat, NEW p \in {0, q}, i <= j, BeforeLine(b, f, j, p, sent, at), 4 * j + p <= n,
             k <= at.used \/ (n < 4 * j + 4 /\ n < 4 * Len(header) + 6)
      PROVE  IsPass(b, n, f, i, q, sent, k + 1, Pass(data, at))
  <2>1. j <= K + 1 /\ p \in 0..2 /\ f <= j /\ (j = K + 1 => p = 0)
    BY <1>1, <1>3 DEF BeforeLine
  <2>2. CASE j <= K /\ 4 * j + 4 <= n
    <3>1. PICK t : t = Pass(data, at)
      OBVIOUS
    <3>2. BeforeLine(b, f, j + 1, 0, sent, t)
      BY <1>1, <1>3, <2>1, <2>2, <3>1, PassReadsLine
    <3>3. k + 1 <= t.used
      <4>1. PICK u \in Nat, v \in Nat : u = at.used /\ v = t.used
        BY <1>3, <3>2 DEF BeforeLine
      <4>2. b + u = 4 * j + p
        BY <1>3, <4>1 DEF BeforeLine
      <4>3. b + v = 4 * (j + 1) + 0
        BY <3>2, <4>1 DEF BeforeLine
      <4>4. k <= u
        BY <1>3, <2>2, <4>1
      <4>5. k + 1 <= v
        BY <2>1, <4>2, <4>3, <4>4
      <4>. QED BY <4>1, <4>5
    <3>4. j + 1 \in Nat /\ i <= j + 1 /\ 0 \in {0, q} /\ 4 * (j + 1) + 0 <= n
      BY <1>3, <2>2
    <3>. QED BY <3>1, <3>2, <3>3, <3>4 DEF IsPass
  <2>3. CASE j = K + 1 /\ n = 4 * K + 6
    <3>1. BehindHeader(b, f, sent, Pass(data, at))
      BY <1>1, <1>3, <2>1, <2>3, PassReadsEnd
    <3>. QED BY <1>1, <2>3, <3>1 DEF IsPass
  <2>4. CASE n < 4 * j + 4 /\ n < 4 * K + 6
    <3>1. Pass(data, at) = at
      BY <1>1, <1>3, <2>1, <2>4, PassReadsNothing
    <3>2. n < 4 * Len(header) + 6
      BY <1>1, <2>4
    <3>3. n < 4 * j + 4
      BY <2>4
    <3>4. IsPass(b, n, f, i, q, sent, k + 1, at)
      BY <1>3, <3>2, <3>3 DEF IsPass
    <3>. QED BY <3>1, <3>4
  <2>5. n <= 4 * K + 6
    BY <1>1
  <2>6. \/ j <= K /\ 4 * j + 4 <= n
        \/ j = K + 1 /\ n = 4 * K + 6
        \/ n < 4 * j + 4 /\ n < 4 * K + 6
    BY <2>1, <2>5
  <2>. QED BY <2>2, <2>3, <2>4, <2>6
<1>. QED BY <1>2, <1>3 DEF IsPass

LEMMA PassesEnd ==
    ASSUME HttpTypeOK, NEW b \in Nat, NEW n \in Nat, b <= n, n <= 4 * Len(header) + 6,
           NEW i \in Nat, NEW q \in 0..2, NEW f, NEW sent, NEW at,
           IsPass(b, n, f, i, q, sent, n - b, at)
    PROVE  IsReading(b, n, f, i, q, sent, at)
<1>1. PICK K \in Nat : K = Len(header)
  BY HeaderIs DEF HttpTypeOK
<1>2. CASE n = 4 * Len(header) + 6 /\ BehindHeader(b, f, sent, at)
  BY <1>2 DEF IsReading
<1>3. ASSUME NEW j \in Nat, NEW p \in {0, q}, i <= j, BeforeLine(b, f, j, p, sent, at), 4 * j + p <= n,
             n - b <= at.used \/ (n < 4 * j + 4 /\ n < 4 * Len(header) + 6)
      PROVE  IsReading(b, n, f, i, q, sent, at)
  <2>1. j <= K + 1 /\ p \in 0..2 /\ (j = K + 1 => p = 0)
    BY <1>1, <1>3 DEF BeforeLine
  <2>2. PICK u \in Nat : u = at.used
    BY <1>3 DEF BeforeLine
  <2>3. b + u = 4 * j + p
    BY <1>3, <2>2 DEF BeforeLine
  <2>4. n < 4 * j + 4 /\ n # 4 * K + 6
    <3>1. CASE n < 4 * j + 4 /\ n < 4 * Len(header) + 6
      BY <1>1, <3>1
    <3>2. CASE n - b <= at.used
      <4>1. n - b <= u
        BY <2>2, <3>2
      <4>2. n = 4 * j + p
        BY <1>3, <2>1, <2>3, <4>1
      <4>. QED BY <2>1, <4>2
    <3>. QED BY <1>3, <3>1, <3>2
  <2>. QED BY <1>1, <1>3, <2>4 DEF IsReading
<1>. QED BY <1>2, <1>3 DEF IsPass

IsCall(b, n, data, f, i, q) ==
    /\ b \in Nat /\ n \in Nat /\ b <= n /\ n <= 4 * Len(header) + 6
    /\ data = SubSeq(Bytes, b + 1, n)
    /\ i \in Nat /\ q \in 0..2 /\ f \in Nat /\ f <= i /\ 4 * i + q <= n

LEMMA ReadIs ==
    ASSUME HttpTypeOK, NEW b, NEW n, NEW data, NEW f, NEW i, NEW q, IsCall(b, n, data, f, i, q),
           NEW sent, NEW line, NEW rebuilt, NEW auth,
           BeforeLine(b, f, i, q, sent, Begin(line, rebuilt, auth))
    PROVE  IsReading(b, n, f, i, q, sent, Read(data, line, rebuilt, auth))
<1>. USE DEF IsCall
<1>1. PICK K \in Nat : K = Len(header)
  BY HeaderIs DEF HttpTypeOK
<1>2. Len(data) = n - b
  <2>1. Bytes \in Seq(Units) /\ n <= Len(Bytes)
    BY BytesAre DEF HttpTypeOK
  <2>2. IsPiece(Units, data, Bytes, b, n)
    BY <2>1, PieceProperties
  <2>. QED BY <2>2 DEF IsPiece
<1>3. PICK m \in Nat : m = n - b
  OBVIOUS
<1>4. PICK g : /\ g[0] = Begin(line, rebuilt, auth)
               /\ \A k \in 1..m : g[k] = Pass(data, g[k - 1])
               /\ Read(data, line, rebuilt, auth) = g[m]
  <2>1. Len(data) = m /\ Len(data) \in Nat
    BY <1>2, <1>3
  <2>2. \E g : ArePasses(data, line, rebuilt, auth, g)
    BY <2>1, ReadPasses
  <2>. QED BY <2>1, <2>2 DEF ArePasses
<1>. DEFINE T == {k \in Nat : k <= m => IsPass(b, n, f, i, q, sent, k, g[k])}
<1>5. 0 \in T
  <2>1. Begin(line, rebuilt, auth).used = 0
    BY DEF Begin
  <2>2. IsPass(b, n, f, i, q, sent, 0, Begin(line, rebuilt, auth))
    BY <2>1 DEF IsPass
  <2>. QED BY <1>4, <2>2
<1>6. ASSUME NEW k \in T PROVE k + 1 \in T
  <2>1. SUFFICES ASSUME k + 1 <= m PROVE IsPass(b, n, f, i, q, sent, k + 1, g[k + 1])
    OBVIOUS
  <2>2. k \in Nat /\ k <= m /\ k + 1 \in 1..m /\ (k + 1) - 1 = k
    BY <1>3, <2>1
  <2>3. IsPass(b, n, f, i, q, sent, k, g[k])
    BY <2>2
  <2>4. g[k + 1] = Pass(data, g[k])
    BY <1>4, <2>2
  <2>5. IsPass(b, n, f, i, q, sent, k + 1, Pass(data, g[k]))
    BY <2>2, <2>3, PassStep
  <2>. QED BY <2>4, <2>5
<1>7. T = Nat
  <2>. HIDE DEF T
  <2>1. T \in SUBSET Nat
    BY DEF T
  <2>. QED BY <1>5, <1>6, <2>1, Induct
<1>8. IsPass(b, n, f, i, q, sent, n - b, g[m])
  <2>1. m \in T /\ m <= m
    BY <1>7
  <2>2. IsPass(b, n, f, i, q, sent, m, g[m])
    BY <2>1
  <2>. QED BY <1>3, <2>2
<1>. QED BY <1>4, <1>8, PassesEnd

\* In any pieces: no more is used than has come, and no credentials are taken
\* from data that is not of a line with credentials.
ReadsWithin(S, data, auth, at) ==
    /\ at.used \in 0..Len(data)
    /\ at.line \in Seq(S)
    /\ (\A x \in S : x.kind # "Proxy-Authorization") => at.auth = auth

LEMMA LineEndRange ==
    ASSUME NEW data, Len(data) \in Nat, NEW u \in Nat
    PROVE  \/ LineEndIndex(data, u) = -1
           \/ LineEndIndex(data, u) \in Nat /\ u + LineEndIndex(data, u) + 2 <= Len(data)
<1>1. PICK ends : ends = {j \in u + 1..Len(data) - 1 : data[j] = CR /\ data[j + 1] = LF}
  OBVIOUS
<1>2. CASE ends = {}
  BY <1>1, <1>2 DEF LineEndIndex
<1>3. CASE ends # {}
  <2>1. ends \in SUBSET Nat
    BY <1>1
  <2>2. \E j \in ends : \A k \in ends : j <= k
    BY <1>3, <2>1, LeastExists
  <2>3. PICK c : c = CHOOSE j \in ends : \A k \in ends : j <= k
    OBVIOUS
  <2>4. c \in ends
    BY <2>2, <2>3
  <2>5. c \in u + 1..Len(data) - 1
    BY <1>1, <2>4
  <2>6. LineEndIndex(data, u) = c - u - 1
    BY <1>1, <1>3, <2>3 DEF LineEndIndex
  <2>7. c - u - 1 \in Nat /\ u + (c - u - 1) + 2 <= Len(data)
    BY <2>5
  <2>. QED BY <2>6, <2>7
<1>. QED BY <1>2, <1>3

LEMMA PassKeeps ==
    ASSUME NEW S, NEW data \in Seq(S), NEW auth, NEW at, ReadsWithin(S, data, auth, at)
    PROVE  ReadsWithin(S, data, auth, Pass(data, at))
<1>1. Len(data) \in Nat
  BY LenProperties
<1>2. PICK u \in 0..Len(data) : u = at.used
  BY DEF ReadsWithin
<1>3. PICK n : n = LineEndIndex(data, u)
  OBVIOUS
<1>4. CASE at.ended \/ n = -1
  BY <1>2, <1>3, <1>4 DEF Pass
<1>5. CASE ~(at.ended \/ n = -1)
  <2>1. n \in Nat /\ u + n + 2 <= Len(data)
    <3>1. u \in Nat
      BY <1>1
    <3>. QED BY <1>1, <1>3, <1>5, <3>1, LineEndRange
  <2>2. PICK v \in Nat : v = u + n
    BY <1>1, <2>1
  <2>3. PICK line : line = at.line \o SubSeq(data, u + 1, v)
    OBVIOUS
  <2>4. line \in Seq(S)
    <3>1. u \in Nat /\ u <= v /\ v <= Len(data)
      BY <1>1, <2>1, <2>2
    <3>2. SubSeq(data, u + 1, v) \in Seq(S)
      <4>1. IsPiece(S, SubSeq(data, u + 1, v), data, u, v)
        BY <3>1, PieceProperties
      <4>. QED BY <4>1 DEF IsPiece
    <3>. QED BY <2>3, <3>2, ConcatProperties DEF ReadsWithin
  <2>5. u + 2 \in 0..Len(data) /\ u + n + 2 \in 0..Len(data)
    BY <1>1, <2>1
  <2>6. <<>> \in Seq(S)
    BY EmptySeq
  <2>7. CASE line = <<>>
    <3>1. Pass(data, at) = [used |-> u + 2, line |-> <<>>, ended |-> TRUE,
                           rebuilt |-> at.rebuilt, auth |-> at.auth]
      BY <1>2, <1>3, <1>5, <2>2, <2>3, <2>7 DEF Pass
    <3>. QED BY <2>5, <2>6, <3>1 DEF ReadsWithin
  <2>8. CASE line # <<>>
    <3>1. Pass(data, at) = [used |-> u + n + 2, line |-> <<>>, ended |-> FALSE,
                           rebuilt |-> at.rebuilt \o Rebuilt(line),
                           auth |-> Decoded(line, n, at.auth)]
      BY <1>2, <1>3, <1>5, <2>2, <2>3, <2>8 DEF Pass
    <3>2. ASSUME \A x \in S : x.kind # "Proxy-Authorization"
          PROVE  Decoded(line, n, at.auth) = auth
      <4>1. 1 \in 1..Len(line)
        BY <2>4, <2>8, LenProperties, EmptySeq
      <4>2. line[1] \in S
        BY <2>4, <4>1, ElementOfSeq
      <4>. QED BY <3>2, <4>2 DEF Decoded, ReadsWithin
    <3>. QED BY <2>5, <2>6, <3>1, <3>2 DEF ReadsWithin
  <2>. QED BY <2>7, <2>8
<1>. QED BY <1>4, <1>5

LEMMA ReadKeeps ==
    ASSUME NEW S, NEW data \in Seq(S), NEW line \in Seq(S), NEW rebuilt, NEW auth
    PROVE  ReadsWithin(S, data, auth, Read(data, line, rebuilt, auth))
<1>1. PICK m \in Nat : m = Len(data)
  BY LenProperties
<1>2. PICK g : ArePasses(data, line, rebuilt, auth, g)
  BY <1>1, ReadPasses
<1>3. /\ g[0] = Begin(line, rebuilt, auth)
      /\ \A k \in 1..m : g[k] = Pass(data, g[k - 1])
      /\ Read(data, line, rebuilt, auth) = g[m]
  BY <1>1, <1>2 DEF ArePasses
<1>. DEFINE T == {k \in Nat : k <= m => ReadsWithin(S, data, auth, g[k])}
<1>4. 0 \in T
  <2>1. 0 \in 0..Len(data)
    BY <1>1
  <2>2. ReadsWithin(S, data, auth, Begin(line, rebuilt, auth))
    BY <2>1 DEF ReadsWithin, Begin
  <2>. QED BY <1>3, <2>2
<1>5. ASSUME NEW k \in T PROVE k + 1 \in T
  <2>1. SUFFICES ASSUME k + 1 <= m PROVE ReadsWithin(S, data, auth, g[k + 1])
    OBVIOUS
  <2>2. k \in Nat /\ k <= m /\ k + 1 \in 1..m /\ (k + 1) - 1 = k
    BY <2>1
  <2>3. ReadsWithin(S, data, auth, g[k])
    BY <2>2
  <2>4. g[k + 1] = Pass(data, g[k])
    BY <1>3, <2>2
  <2>. QED BY <2>3, <2>4, PassKeeps
<1>6. T = Nat
  <2>. HIDE DEF T
  <2>1. T \in SUBSET Nat
    BY DEF T
  <2>. QED BY <1>4, <1>5, <2>1, Induct
<1>7. ReadsWithin(S, data, auth, g[m])
  <2>1. m \in T /\ m <= m
    BY <1>6
  <2>. QED BY <2>1
<1>. QED BY <1>3, <1>7

-----------------------------------------------------------------------------
(* The inductive invariant *)

PlainUnits == {x \in Units : x.kind # "Proxy-Authorization"}

\* Before the first call that reads a line.
UnknownInv ==
    /\ consumed = 0 /\ cuts = {}
    /\ HttpHeaderLine = <<>> /\ AuthNamePass = "none"

\* Whole lines were consumed, and all but the first calls had what those
\* consumed, but not the end of the header.
RawInv ==
    /\ method = "CONNECT" /\ AuthNamePass = "none"
    /\ Len(Bytes) \notin cuts
    /\ \E i \in 1..Len(header) + 1 :
          /\ consumed = 4 * i
          /\ i > 1 => \E c \in cuts : consumed <= c /\ c < Len(Bytes)

\* What the connection has kept is what the loop has when it goes on; behind a
\* cut in a place where it is seen only that nothing is taken for credentials
\* when none were sent.
NormalInv ==
    /\ method # "CONNECT"
    /\ HttpHeaderLine \in Seq(Units)
    /\ ~HasAuth => AuthNamePass = "none" /\ HttpHeaderLine \in Seq(PlainUnits)
    /\ ~SeenCut =>
          /\ Len(Bytes) \notin cuts
          /\ \E i \in 1..Len(header) + 1, q \in 0..2 :
                BeforeLine(consumed, 1, i, q, TRUE,
                           Begin(HttpHeaderLine, RebuiltHttpHeader, AuthNamePass))

HttpInv ==
    /\ HttpTypeOK
    /\ Phase \in {"eUnknown", "eHttpRawChallenge", "eHttpNormalChallenge"} \/ Done
    /\ Phase = "eUnknown" => UnknownInv
    /\ Phase = "eHttpRawChallenge" => RawInv
    /\ Phase = "eHttpNormalChallenge" => NormalInv
    /\ Done => PiecesDoNotMatter

BytesOf(m, h) ==
    [p \in 1..4 * Len(h) + 6 |->
       LET i == (p - 1) \div 4
           q == ((p - 1) % 4) + 1
       IN IF i > Len(h) THEN <<CR, LF>>[q]
          ELSE (Text(IF i = 0 THEN m ELSE h[i]) \o <<CR, LF>>)[q]]

RebuiltHeaderOf(m, h) ==
    CHOOSE f : f = [i \in 0..Len(h) |->
                      IF i = 0 THEN << Text(m) >> ELSE f[i - 1] \o Rebuilt(Text(h[i]))]

AuthLineOf(h) ==
    LET i == CHOOSE i \in DOMAIN h : h[i] = "Proxy-Authorization"
    IN 4 * i + 1..4 * i + 4

\* The client goes on sending the same header.
LEMMA SameClient ==
    ASSUME method' = method, header' = header
    PROVE  /\ Bytes' = Bytes /\ RebuiltHeader' = RebuiltHeader
           /\ HasAuth' = HasAuth /\ AuthLine' = AuthLine
<1>1. Bytes = BytesOf(method, header) /\ Bytes' = BytesOf(method', header')
  BY DEF Bytes, BytesOf
<1>2. /\ RebuiltHeader = RebuiltHeaderOf(method, header)
      /\ RebuiltHeader' = RebuiltHeaderOf(method', header')
  BY DEF RebuiltHeader, RebuiltHeaderOf
<1>3. AuthLine = AuthLineOf(header) /\ AuthLine' = AuthLineOf(header')
  BY DEF AuthLine, AuthLineOf
<1>4. HasAuth' = HasAuth
  BY DEF HasAuth, Contains
<1>. QED BY <1>1, <1>2, <1>3, <1>4

LEMMA HttpInitInv == HttpInit => HttpInv
<1>1. SUFFICES ASSUME HttpInit PROVE HttpInv
  OBVIOUS
<1>2. HttpTypeOK
  <2>1. method \in {"CONNECT", "GET"} /\ header \in Headers
    BY <1>1 DEF HttpInit
  <2>2. Len(Bytes) \in Nat
    BY <2>1, HeaderIs, BytesAre
  <2>3. received = 0 /\ consumed = 0 /\ cuts = {}
    BY <1>1 DEF HttpInit
  <2>. QED BY <2>1, <2>2, <2>3 DEF HttpTypeOK
<1>3. Phase = "eUnknown" /\ UnknownInv
  BY <1>1 DEF HttpInit, UnknownInv
<1>. QED BY <1>2, <1>3 DEF HttpInv, Done

LEMMA HttpChallengeInv ==
    ASSUME HttpInv, NEW n \in Nat, received <= n, consumed < n, n <= Len(Bytes),
           method' = method, header' = header, received' = n,
           NEW data, data = SubSeq(Bytes, consumed + 1, n), OnHttpChallenge(data)
    PROVE  HttpInv'
<1>1. /\ HttpTypeOK /\ Phase = "eUnknown" /\ consumed = 0 /\ cuts = {}
      /\ HttpHeaderLine = <<>> /\ AuthNamePass = "none"
  BY DEF HttpInv, UnknownInv, OnHttpChallenge
<1>2. PICK K \in Nat : K = Len(header)
  BY <1>1, HeaderIs DEF HttpTypeOK
<1>3. Bytes \in Seq(Units) /\ Len(Bytes) = 4 * K + 6
  BY <1>1, <1>2, BytesAre DEF HttpTypeOK
<1>4. Bytes' = Bytes /\ RebuiltHeader' = RebuiltHeader /\ HasAuth' = HasAuth
  BY SameClient
<1>5. /\ 4 <= n => LineEndIndex(data, 0) = 2
      /\ n < 4 => LineEndIndex(data, 0) = -1
  <2>1. IsAt(0, n, data, 0, 0, 0)
    <3>1. 0 \in 0..Len(header) + 1 /\ 0 # Len(header) + 1 /\ n <= 4 * Len(header) + 6
      BY <1>2, <1>3
    <3>. QED BY <1>1, <3>1 DEF IsAt
  <2>2. 0 <= Len(header) /\ 4 * 0 + 4 = 4 /\ 2 - 0 = 2 /\ (n < 4 => n # 4 * Len(header) + 6)
    BY <1>2
  <2>. QED BY <1>1, <2>1, <2>2, NextLineEnd
<1>6. /\ UNCHANGED <<HttpHeaderLine, AuthNamePass, cuts>>
      /\ n < 4 => UNCHANGED <<consumed, Phase>>
      /\ 4 <= n =>
           /\ consumed' = 4
           /\ \/ method = "CONNECT" /\ Phase' = "eHttpRawChallenge"
              \/ /\ method # "CONNECT" /\ Phase' = "eHttpNormalChallenge"
                 /\ RebuiltHttpHeader' = << Text(method) >>
  BY <1>1, <1>5 DEF OnHttpChallenge
<1>7. consumed' \in 0..n /\ n \in 0..Len(Bytes)
  BY <1>1, <1>3, <1>6
<1>8. HttpTypeOK'
  BY <1>1, <1>4, <1>6, <1>7 DEF HttpTypeOK
<1>9. CASE n < 4
  <2>1. Phase' = "eUnknown" /\ UnknownInv'
    BY <1>1, <1>6, <1>9 DEF UnknownInv
  <2>. QED BY <1>8, <2>1 DEF HttpInv, Done
<1>10. CASE 4 <= n
  <2>1. 1 \in 1..Len(header) + 1 /\ 4 = 4 * 1 /\ ~(1 > 1)
    BY <1>2
  <2>2. CASE method = "CONNECT" /\ Phase' = "eHttpRawChallenge"
    <3>1. RawInv'
      BY <1>1, <1>6, <1>10, <2>1, <2>2 DEF RawInv
    <3>. QED BY <1>8, <2>2, <3>1 DEF HttpInv, Done
  <2>3. CASE /\ method # "CONNECT" /\ Phase' = "eHttpNormalChallenge"
             /\ RebuiltHttpHeader' = << Text(method) >>
    <3>1. PICK at : at = Begin(HttpHeaderLine', RebuiltHttpHeader', AuthNamePass')
      OBVIOUS
    <3>2. /\ at.used = 0 /\ at.line = <<>> /\ at.ended = FALSE /\ at.auth = "none"
          /\ at.rebuilt = RebuiltHeader[0]
      BY <1>1, <1>2, <1>6, <2>3, <3>1, RebuiltHeaderIs DEF Begin
    <3>3. SubSeq(Bytes, 4 * 1 + 1, 4 * 1 + 0) = <<>>
      BY <1>3
    <3>4. 1 - 1 = 0 /\ 4 + 0 = 4 * 1 + 0 /\ 1..0 = {}
      OBVIOUS
    <3>5. BeforeLine(4, 1, 1, 0, TRUE, at)
      BY <2>1, <3>2, <3>3, <3>4 DEF BeforeLine
    <3>6. BeforeLine(4, 1, 1, 0, TRUE, at)'
      BY <1>4, <3>5 DEF BeforeLine
    <3>7. <<>> \in Seq(Units) /\ <<>> \in Seq(PlainUnits)
      BY EmptySeq
    <3>8. 0 \in 0..2
      OBVIOUS
    <3>9. NormalInv'
      BY <1>1, <1>6, <1>10, <2>1, <2>3, <3>1, <3>6, <3>7, <3>8 DEF NormalInv
    <3>. QED BY <1>8, <2>3, <3>9 DEF HttpInv, Done
  <2>. QED BY <1>6, <1>10, <2>2, <2>3
<1>. QED BY <1>9, <1>10

LEMMA HasAuthIs ==
    ASSUME header \in Headers
    PROVE  HasAuth <=> \E x \in 1..Len(header) : header[x] = "Proxy-Authorization"
BY DEF HasAuth, Contains

LEMMA AuthLineIs ==
    ASSUME header \in Headers, NEW x \in 1..Len(header), header[x] = "Proxy-Authorization"
    PROVE  AuthLine = 4 * x + 1..4 * x + 4
<1>1. DOMAIN header = 1..Len(header)
  BY HeaderIs
<1>2. PICK c : c = CHOOSE i \in DOMAIN header : header[i] = "Proxy-Authorization"
  OBVIOUS
<1>3. c \in 1..Len(header) /\ header[c] = "Proxy-Authorization"
  BY <1>1, <1>2
<1>4. c = x
  BY <1>3, HeaderIs
<1>. QED BY <1>2, <1>4 DEF AuthLine

\* A client that sends no credentials sends no line of that kind.
LEMMA PlainBytes ==
    ASSUME header \in Headers, method \in {"CONNECT", "GET"}, ~HasAuth
    PROVE  Bytes \in Seq(PlainUnits)
<1>1. \A i \in 0..Len(header) : KindOf(i) \in Kinds \cup {"CONNECT", "GET"}
  BY HeaderIs DEF KindOf
<1>2. \A i \in 0..Len(header) : KindOf(i) # "Proxy-Authorization"
  <2>1. \A i \in 1..Len(header) : header[i] # "Proxy-Authorization"
    BY HasAuthIs
  <2>2. \A i \in 0..Len(header) : i # 0 => i \in 1..Len(header)
    BY HeaderIs
  <2>. QED BY <2>1, <2>2 DEF KindOf
<1>3. CR \in PlainUnits /\ LF \in PlainUnits
  BY DEF CR, LF, PlainUnits, Units
<1>4. \A i \in 0..Len(header) : /\ [kind |-> KindOf(i), part |-> 1] \in PlainUnits
                                /\ [kind |-> KindOf(i), part |-> 2] \in PlainUnits
  BY <1>1, <1>2 DEF PlainUnits, Units
<1>. QED BY <1>3, <1>4, BytesIn

LEMMA HttpRawChallengeInv ==
    ASSUME HttpInv, NEW n \in Nat, received <= n, consumed < n, n <= Len(Bytes),
           method' = method, header' = header, received' = n, cuts' = cuts \cup {n},
           NEW data, data = SubSeq(Bytes, consumed + 1, n), OnHttpRawChallenge(data)
    PROVE  HttpInv'
<1>1. HttpTypeOK /\ Phase = "eHttpRawChallenge" /\ RawInv
  BY DEF HttpInv, OnHttpRawChallenge
<1>2. PICK K \in Nat : K = Len(header)
  BY <1>1, HeaderIs DEF HttpTypeOK
<1>3. Bytes \in Seq(Units) /\ Len(Bytes) = 4 * K + 6 /\ header \in Headers
  BY <1>1, <1>2, BytesAre DEF HttpTypeOK
<1>4. Bytes' = Bytes /\ HasAuth' = HasAuth /\ AuthLine' = AuthLine
  BY SameClient
<1>5. method = "CONNECT" /\ AuthNamePass = "none" /\ Len(Bytes) \notin cuts
  BY <1>1 DEF RawInv
<1>6. PICK i \in 1..Len(header) + 1 :
         /\ consumed = 4 * i
         /\ i > 1 => \E c \in cuts : consumed <= c /\ c < Len(Bytes)
  BY <1>1 DEF RawInv
<1>7. PICK b \in Nat : b = consumed
  BY <1>2, <1>6
<1>8. PICK r : r = Read(data, <<>>, <<>>, "none")
  OBVIOUS
<1>9. IsReading(b, n, i, i, 0, FALSE, r)
  <2>1. PICK at : at = Begin(<<>>, <<>>, "none")
    OBVIOUS
  <2>2. at.used = 0 /\ at.line = <<>> /\ at.ended = FALSE /\ at.auth = "none"
    BY <2>1 DEF Begin
  <2>3. SubSeq(Bytes, 4 * i + 1, 4 * i + 0) = <<>> /\ i..i - 1 = {} /\ i \in Nat
    BY <1>2, <1>3
  <2>4. b + 0 = 4 * i + 0 /\ 0 \in 0..2
    BY <1>2, <1>6, <1>7
  <2>5. BeforeLine(b, i, i, 0, FALSE, at)
    BY <2>2, <2>3, <2>4 DEF BeforeLine
  <2>6. b <= n /\ n <= 4 * Len(header) + 6 /\ 4 * i + 0 <= n /\ data = SubSeq(Bytes, b + 1, n)
    BY <1>2, <1>3, <1>7, <2>4
  <2>7. IsCall(b, n, data, i, i, 0)
    <3>1. i <= i
      BY <2>3
    <3>2. b \in Nat /\ n \in Nat
      OBVIOUS
    <3>. QED BY <2>3, <2>4, <2>6, <3>1, <3>2, Zenon DEF IsCall
  <2>. QED BY <1>1, <1>8, <2>1, <2>5, <2>7, ReadIs
<1>10. /\ IF r.ended THEN /\ AuthNamePass' \in Credentials(r.auth)
                          /\ HeaderDone("eHttpRawWaitForAccountExchange")
          ELSE UNCHANGED <<AuthNamePass, Phase>>
       /\ consumed' = consumed + IF Phase' = "Refused" THEN 0 ELSE r.used
       /\ UNCHANGED HttpHeaderLine
  BY <1>8 DEF OnHttpRawChallenge
<1>11. method' \in {"CONNECT", "GET"} /\ header' \in Headers /\ received' \in 0..Len(Bytes)'
       /\ cuts' \in SUBSET (1..received')
  <2>1. n \in 0..Len(Bytes) /\ n \in 1..n
    BY <1>2, <1>3, <1>6
  <2>2. received \in Nat
    BY <1>1, <1>2, <1>3 DEF HttpTypeOK
  <2>3. 1..received \in SUBSET (1..n)
    BY <2>2
  <2>. QED BY <1>1, <1>4, <2>1, <2>3 DEF HttpTypeOK
<1>12. CASE n = 4 * K + 6
  <2>1. BehindHeader(b, i, FALSE, r)
    BY <1>2, <1>9, <1>12 DEF IsReading
  <2>2. /\ r.ended = TRUE /\ r.used \in Nat /\ b + r.used = n
        /\ r.auth = IF \E x \in i..Len(header) : header[x] = "Proxy-Authorization"
                    THEN "own" ELSE "none"
    BY <1>2, <1>12, <2>1 DEF BehindHeader
  <2>3. AuthNamePass' = r.auth
    BY <1>10, <2>2 DEF Credentials
  <2>4. Phase' \in {"Refused", "eHttpRawWaitForAccountExchange"}
    BY <1>10, <2>2 DEF HeaderDone
  <2>5. consumed' \in 0..n
    BY <1>7, <1>10, <2>2
  <2>6. HttpTypeOK'
    BY <1>11, <2>5 DEF HttpTypeOK
  <2>7. ~HasAuth => AuthNamePass' = "none"
    <3>1. \A x \in i..Len(header) : x \in 1..Len(header)
      BY <1>2
    <3>. QED BY <1>3, <2>2, <2>3, <3>1, HasAuthIs
  <2>8. ASSUME HasAuth, AuthNamePass' # "own" PROVE SeenCut'
    <3>1. PICK x \in 1..Len(header) : header[x] = "Proxy-Authorization"
      BY <1>3, <2>8, HasAuthIs
    <3>2. x \notin i..Len(header)
      BY <2>2, <2>3, <2>8, <3>1
    <3>3. x < i /\ i > 1
      BY <1>2, <3>2
    <3>4. PICK c \in cuts : consumed <= c /\ c < Len(Bytes)
      BY <1>6, <3>3
    <3>5. c \in Nat
      BY <1>1, <1>2, <3>4 DEF HttpTypeOK
    <3>6. ASSUME NEW y \in AuthLine PROVE y <= c
      <4>1. y \in 4 * x + 1..4 * x + 4
        BY <1>3, <3>1, AuthLineIs
      <4>. QED BY <1>2, <1>6, <3>3, <3>4, <3>5, <4>1
    <3>. QED BY <1>4, <1>5, <2>8, <3>4, <3>6 DEF SeenCut
  <2>9. PiecesDoNotMatter'
    <3>1. Done' /\ method' = "CONNECT"
      BY <1>5, <2>4 DEF Done
    <3>2. AuthNamePass' # "wrong"
      BY <2>2, <2>3
    <3>3. ~SeenCut' => AuthNamePass' = IF HasAuth' THEN "own" ELSE "none"
      BY <1>4, <2>7, <2>8
    <3>. QED BY <1>4, <2>7, <3>1, <3>2, <3>3 DEF PiecesDoNotMatter
  <2>. QED BY <2>4, <2>6, <2>9 DEF HttpInv, Done
<1>13. CASE n # 4 * K + 6
  <2>1. PICK j \in Nat, p \in {0, 0} :
           i <= j /\ BeforeLine(b, i, j, p, FALSE, r) /\ 4 * j + p <= n /\ n < 4 * j + 4
    BY <1>2, <1>9, <1>13 DEF IsReading
  <2>2. r.ended = FALSE /\ r.used \in Nat /\ b + r.used = 4 * j + p /\ j \in 1..Len(header) + 1
    BY <2>1 DEF BeforeLine
  <2>3. Phase' = "eHttpRawChallenge" /\ AuthNamePass' = "none" /\ consumed' = 4 * j
    BY <1>1, <1>5, <1>7, <1>10, <2>1, <2>2
  <2>4. HttpTypeOK'
    <3>1. consumed' \in 0..n
      BY <2>1, <2>3
    <3>. QED BY <1>11, <3>1 DEF HttpTypeOK
  <2>5. n \in cuts' /\ 4 * j <= n /\ n < Len(Bytes) /\ Len(Bytes) # n
    BY <1>3, <1>13, <2>1
  <2>6. RawInv'
    BY <1>4, <1>5, <2>2, <2>3, <2>5 DEF RawInv
  <2>. QED BY <2>3, <2>4, <2>6 DEF HttpInv, Done
<1>. QED BY <1>12, <1>13

\* A call of OnHttpNormalChallenge, and what it comes to when no cut has been
\* seen: the end of the header, or a place in a line.
NormalReads(n, r) ==
    \/ /\ r.ended = TRUE
       /\ r.auth = IF HasAuth THEN "own" ELSE "none"
       /\ r.rebuilt = RebuiltHeader[Len(header)]
    \/ /\ r.ended = FALSE /\ n # Len(Bytes)
       /\ \E i \in 1..Len(header) + 1, q \in 0..2 :
             BeforeLine(n, 1, i, q, TRUE,
                        Begin(r.line \o SubSeq(Bytes, consumed + r.used + 1, n), r.rebuilt, r.auth))

LEMMA NormalCallReads ==
    ASSUME HttpTypeOK, NEW n \in Nat, consumed < n, n <= Len(Bytes),
           NEW data, data = SubSeq(Bytes, consumed + 1, n),
           Bytes[n] # CR, ~(HasAuth /\ n \in AuthLine /\ n + 1 \in AuthLine),
           NEW i \in 1..Len(header) + 1, NEW q \in 0..2,
           BeforeLine(consumed, 1, i, q, TRUE,
                      Begin(HttpHeaderLine, RebuiltHttpHeader, AuthNamePass)),
           NEW r, r = Read(data, HttpHeaderLine, RebuiltHttpHeader, AuthNamePass)
    PROVE  NormalReads(n, r)
<1>1. PICK K \in Nat : K = Len(header)
  BY HeaderIs DEF HttpTypeOK
<1>2. Bytes \in Seq(Units) /\ Len(Bytes) = 4 * K + 6 /\ header \in Headers
  BY <1>1, BytesAre DEF HttpTypeOK
<1>3. PICK b \in Nat : b = consumed
  BY <1>1, <1>2 DEF HttpTypeOK
<1>4. b = 4 * i + q
  <2>1. PICK at : at = Begin(HttpHeaderLine, RebuiltHttpHeader, AuthNamePass)
    OBVIOUS
  <2>2. at.used = 0
    BY <2>1 DEF Begin
  <2>3. b + 0 = 4 * i + q
    BY <1>3, <2>1, <2>2 DEF BeforeLine
  <2>. QED BY <1>1, <2>3
<1>5. IsReading(b, n, 1, i, q, TRUE, r)
  <2>1. i \in Nat /\ 1 <= i /\ 1 \in Nat
    BY <1>1
  <2>2. b <= n /\ n <= 4 * Len(header) + 6 /\ 4 * i + q <= n
    BY <1>1, <1>2, <1>3, <1>4
  <2>3. IsCall(b, n, data, 1, i, q)
    BY <1>3, <2>1, <2>2, Zenon DEF IsCall
  <2>. QED BY <1>3, <2>3, ReadIs
<1>6. CASE n = 4 * K + 6
  <2>1. BehindHeader(b, 1, TRUE, r)
    BY <1>1, <1>5, <1>6 DEF IsReading
  <2>. QED BY <1>2, <2>1, HasAuthIs DEF BehindHeader, NormalReads
<1>7. CASE n # 4 * K + 6
  <2>1. PICK j \in Nat, p \in {0, q} :
           i <= j /\ BeforeLine(b, 1, j, p, TRUE, r) /\ 4 * j + p <= n /\ n < 4 * j + 4
    BY <1>1, <1>5, <1>7 DEF IsReading
  <2>2. PICK u \in Nat : u = r.used
    BY <2>1 DEF BeforeLine
  <2>3. b + u = 4 * j + p /\ j \in 1..K + 1 /\ (j = K + 1 => p = 0) /\ p \in 0..2
    BY <1>1, <2>1, <2>2 DEF BeforeLine
  <2>4. PICK w \in Nat : n = 4 * j + w
    BY <2>1, <2>3
  <2>5. w \in 0..2 /\ (j = K + 1 => w = 0)
    <3>1. w < 4 /\ n < 4 * K + 6
      BY <1>2, <1>7, <2>1, <2>4
    <3>2. CASE j = K + 1
      <4>1. Bytes[4 * K + 5] = CR
        BY <1>1, BytesAre DEF HttpTypeOK
      <4>2. n # 4 * K + 5
        BY <4>1
      <4>. QED BY <2>4, <3>1, <3>2, <4>2
    <3>3. CASE j # K + 1
      <4>1. j \in 0..Len(header)
        BY <1>1, <2>3, <3>3
      <4>2. Bytes[4 * j + 3] = CR
        BY <4>1, BytesAre DEF HttpTypeOK
      <4>3. w # 3
        BY <2>4, <4>2
      <4>. QED BY <3>1, <3>3, <4>3
    <3>. QED BY <3>2, <3>3
  <2>6. ASSUME j <= Len(header), w # 0 PROVE header[j] # "Proxy-Authorization"
    <3>1. SUFFICES ASSUME header[j] = "Proxy-Authorization" PROVE FALSE
      OBVIOUS
    <3>2. j \in 1..Len(header)
      BY <1>1, <2>3, <2>6
    <3>3. HasAuth /\ AuthLine = 4 * j + 1..4 * j + 4
      BY <1>2, <3>1, <3>2, HasAuthIs, AuthLineIs
    <3>4. n \in 4 * j + 1..4 * j + 4 /\ n + 1 \in 4 * j + 1..4 * j + 4
      BY <2>4, <2>5, <2>6
    <3>. QED BY <3>3, <3>4
  <2>7. r.line \o SubSeq(Bytes, b + u + 1, n) = SubSeq(Bytes, 4 * j + 1, 4 * j + w)
    <3>1. PICK c \in Nat, d \in Nat : c = 4 * j /\ d = 4 * j + p
      BY <2>3
    <3>2. r.line = SubSeq(Bytes, c + 1, d)
      BY <2>1, <3>1 DEF BeforeLine
    <3>3. c <= d /\ d <= n
      BY <2>1, <2>3, <3>1
    <3>4. SubSeq(Bytes, c + 1, d) \o SubSeq(Bytes, d + 1, n) = SubSeq(Bytes, c + 1, n)
      <4>1. Bytes \in Seq(Units)
        BY <1>2
      <4>. HIDE <1>1, <1>2, <1>3, <1>4, <1>5
      <4>. QED BY <3>3, <4>1, PiecesJoin
    <3>. QED BY <2>3, <2>4, <3>1, <3>2, <3>4
  <2>8. PICK at : at = Begin(r.line \o SubSeq(Bytes, b + u + 1, n), r.rebuilt, r.auth)
    OBVIOUS
  <2>9. /\ at.used = 0 /\ at.ended = FALSE /\ at.rebuilt = r.rebuilt /\ at.auth = r.auth
        /\ at.line = SubSeq(Bytes, 4 * j + 1, 4 * j + w)
    BY <2>7, <2>8 DEF Begin
  <2>10. /\ r.auth = IF \E x \in 1..j - 1 : header[x] = "Proxy-Authorization"
                     THEN "own" ELSE "none"
         /\ r.rebuilt = RebuiltHeader[j - 1] /\ r.ended = FALSE
    BY <2>1 DEF BeforeLine
  <2>11. j \in 1..Len(header) + 1 /\ (j = Len(header) + 1 => w = 0) /\ n + 0 = 4 * j + w /\ 0 \in Nat
    BY <1>1, <2>3, <2>4, <2>5
  <2>12. BeforeLine(n, 1, j, w, TRUE, at)
    BY <2>5, <2>6, <2>9, <2>10, <2>11 DEF BeforeLine
  <2>13. n # Len(Bytes)
    BY <1>2, <1>7
  <2>. QED BY <1>3, <2>2, <2>5, <2>8, <2>10, <2>11, <2>12, <2>13 DEF NormalReads
<1>. QED BY <1>6, <1>7

\* What is kept of the line that did not end.
LEMMA KeptLine ==
    ASSUME NEW S, NEW data \in Seq(S), NEW auth, NEW r, ReadsWithin(S, data, auth, r)
    PROVE  r.line \o SubSeq(data, r.used + 1, Len(data)) \in Seq(S)
<1>1. PICK m \in Nat : m = Len(data)
  BY LenProperties
<1>2. PICK u \in Nat : u = r.used /\ u <= m
  BY <1>1 DEF ReadsWithin
<1>3. SubSeq(data, u + 1, m) \in Seq(S)
  <2>1. IsPiece(S, SubSeq(data, u + 1, m), data, u, m)
    BY <1>1, <1>2, PieceProperties
  <2>. QED BY <2>1 DEF IsPiece
<1>. QED BY <1>1, <1>2, <1>3, ConcatProperties DEF ReadsWithin

LEMMA HttpNormalChallengeInv ==
    ASSUME HttpInv, NEW n \in Nat, received <= n, consumed < n, n <= Len(Bytes),
           method' = method, header' = header, received' = n, cuts' = cuts \cup {n},
           NEW data, data = SubSeq(Bytes, consumed + 1, n), OnHttpNormalChallenge(data)
    PROVE  HttpInv'
<1>1. HttpTypeOK /\ Phase = "eHttpNormalChallenge" /\ NormalInv
  BY DEF HttpInv, OnHttpNormalChallenge
<1>2. PICK K \in Nat : K = Len(header)
  BY <1>1, HeaderIs DEF HttpTypeOK
<1>3. Bytes \in Seq(Units) /\ Len(Bytes) = 4 * K + 6 /\ header \in Headers
  BY <1>1, <1>2, BytesAre DEF HttpTypeOK
<1>4. Bytes' = Bytes /\ HasAuth' = HasAuth /\ AuthLine' = AuthLine /\ RebuiltHeader' = RebuiltHeader
  BY SameClient
<1>5. /\ method # "CONNECT" /\ HttpHeaderLine \in Seq(Units)
      /\ ~HasAuth => AuthNamePass = "none" /\ HttpHeaderLine \in Seq(PlainUnits)
  BY <1>1 DEF NormalInv
<1>6. PICK b \in Nat : b = consumed /\ b <= n
  BY <1>1, <1>2, <1>3 DEF HttpTypeOK
<1>7. PICK r : r = Read(data, HttpHeaderLine, RebuiltHttpHeader, AuthNamePass)
  OBVIOUS
<1>8. /\ consumed' = consumed + IF r.ended THEN r.used ELSE Len(data)
      /\ HttpHeaderLine' = IF r.ended THEN <<>> ELSE r.line \o SubSeq(data, r.used + 1, Len(data))
      /\ RebuiltHttpHeader' = r.rebuilt
      /\ AuthNamePass' \in Credentials(r.auth)
      /\ IF r.ended THEN HeaderDone("eHttpNormalWaitForAccountExchange") ELSE UNCHANGED Phase
  BY <1>7 DEF OnHttpNormalChallenge
<1>9. ASSUME NEW S, Bytes \in Seq(S), HttpHeaderLine \in Seq(S)
      PROVE  ReadsWithin(S, data, AuthNamePass, r) /\ HttpHeaderLine' \in Seq(S) /\ Len(data) = n - b
  <2>1. IsPiece(S, data, Bytes, b, n)
    BY <1>6, <1>9, PieceProperties
  <2>2. data \in Seq(S) /\ Len(data) = n - b
    BY <2>1 DEF IsPiece
  <2>3. ReadsWithin(S, data, AuthNamePass, r)
    BY <1>7, <1>9, <2>2, ReadKeeps
  <2>4. r.line \o SubSeq(data, r.used + 1, Len(data)) \in Seq(S)
    BY <2>2, <2>3, KeptLine
  <2>5. <<>> \in Seq(S)
    BY EmptySeq
  <2>. QED BY <1>8, <2>2, <2>3, <2>4, <2>5
<1>10. ReadsWithin(Units, data, AuthNamePass, r) /\ HttpHeaderLine' \in Seq(Units) /\ Len(data) = n - b
  BY <1>3, <1>5, <1>9
<1>11. ASSUME ~HasAuth PROVE AuthNamePass' = "none" /\ HttpHeaderLine' \in Seq(PlainUnits)
  <2>1. Bytes \in Seq(PlainUnits)
    BY <1>1, <1>11, PlainBytes DEF HttpTypeOK
  <2>2. ReadsWithin(PlainUnits, data, AuthNamePass, r) /\ HttpHeaderLine' \in Seq(PlainUnits)
    BY <1>5, <1>9, <1>11, <2>1
  <2>3. \A x \in PlainUnits : x.kind # "Proxy-Authorization"
    BY DEF PlainUnits
  <2>4. r.auth = "none"
    BY <1>5, <1>11, <2>2, <2>3 DEF ReadsWithin
  <2>. QED BY <1>8, <2>2, <2>4 DEF Credentials
<1>12. HttpTypeOK'
  <2>1. r.used \in 0..n - b
    BY <1>10 DEF ReadsWithin
  <2>2. consumed' \in 0..n
    <3>1. CASE r.ended
      BY <1>6, <1>8, <2>1, <3>1
    <3>2. CASE ~r.ended
      BY <1>6, <1>8, <1>10, <3>2
    <3>. QED BY <3>1, <3>2
  <2>3. n \in 0..Len(Bytes) /\ n \in 1..n
    BY <1>2, <1>3, <1>6
  <2>4. received \in Nat
    BY <1>1, <1>2, <1>3 DEF HttpTypeOK
  <2>5. 1..received \in SUBSET (1..n)
    BY <2>4
  <2>6. cuts' \in SUBSET (1..n)
    BY <1>1, <2>3, <2>5 DEF HttpTypeOK
  <2>. QED BY <1>1, <1>4, <2>2, <2>3, <2>6 DEF HttpTypeOK
<1>13. ASSUME ~SeenCut'
       PROVE  /\ NormalReads(n, r)
              /\ Len(Bytes) \notin cuts
  <2>1. \A c \in cuts \cup {n} : Bytes[c] # CR /\ ~(HasAuth /\ {c, c + 1} \subseteq AuthLine)
    BY <1>4, <1>5, <1>13 DEF SeenCut
  <2>2. ~SeenCut
    BY <1>5, <2>1 DEF SeenCut
  <2>3. /\ Len(Bytes) \notin cuts
        /\ \E i \in 1..Len(header) + 1, q \in 0..2 :
              BeforeLine(consumed, 1, i, q, TRUE,
                         Begin(HttpHeaderLine, RebuiltHttpHeader, AuthNamePass))
    BY <1>1, <2>2 DEF NormalInv
  <2>4. Bytes[n] # CR /\ ~(HasAuth /\ n \in AuthLine /\ n + 1 \in AuthLine)
    BY <2>1
  <2>. QED BY <1>1, <1>7, <2>3, <2>4, NormalCallReads
<1>14. CASE r.ended
  <2>1. Phase' \in {"Refused", "eHttpNormalWaitForAccountExchange"}
    BY <1>8, <1>14 DEF HeaderDone
  <2>2. Done'
    BY <2>1 DEF Done
  <2>3. ASSUME ~SeenCut'
        PROVE  /\ AuthNamePass' = IF HasAuth THEN "own" ELSE "none"
               /\ RebuiltHttpHeader' = RebuiltHeader[Len(header)]
    <3>1. /\ r.auth = IF HasAuth THEN "own" ELSE "none"
          /\ r.rebuilt = RebuiltHeader[Len(header)]
      BY <1>13, <1>14, <2>3 DEF NormalReads
    <3>. QED BY <1>8, <3>1 DEF Credentials
  <2>4. PiecesDoNotMatter'
    BY <1>4, <1>5, <1>11, <2>2, <2>3 DEF PiecesDoNotMatter
  <2>. QED BY <1>12, <2>1, <2>2, <2>4 DEF HttpInv
<1>15. CASE ~r.ended
  <2>1. Phase' = "eHttpNormalChallenge" /\ consumed' = n
    BY <1>1, <1>6, <1>8, <1>10, <1>15
  <2>a. PICK at : at = Begin(HttpHeaderLine', RebuiltHttpHeader', AuthNamePass')
    OBVIOUS
  <2>2. ASSUME ~SeenCut'
        PROVE  /\ Len(Bytes) \notin cuts'
               /\ \E i \in 1..Len(header) + 1, q \in 0..2 : BeforeLine(n, 1, i, q, TRUE, at)'
    <3>1. PICK i \in 1..Len(header) + 1, q \in 0..2 :
             BeforeLine(n, 1, i, q, TRUE,
                        Begin(r.line \o SubSeq(Bytes, consumed + r.used + 1, n), r.rebuilt, r.auth))
      BY <1>13, <1>15, <2>2 DEF NormalReads
    <3>2. n # Len(Bytes) /\ Len(Bytes) \notin cuts'
      BY <1>13, <1>15, <2>2 DEF NormalReads
    <3>3. SubSeq(data, r.used + 1, Len(data)) = SubSeq(Bytes, consumed + r.used + 1, n)
      <4>1. PICK m \in Nat : m = n - b
        BY <1>6
      <4>2. PICK u \in 0..m : u = r.used
        BY <1>10, <4>1 DEF ReadsWithin
      <4>3. SubSeq(SubSeq(Bytes, b + 1, n), u + 1, m) = SubSeq(Bytes, b + u + 1, b + m)
        <5>1. Bytes \in Seq(Units) /\ n <= Len(Bytes) /\ b <= n
          BY <1>3, <1>6
        <5>2. u \in Nat /\ u <= m /\ m <= n - b
          BY <4>1
        <5>. HIDE <1>1, <1>2, <1>3, <1>4, <1>5, <1>6
        <5>. QED BY <5>1, <5>2, PieceOfPiece
      <4>4. b + m = n
        BY <4>1
      <4>5. Len(data) = m
        BY <1>10, <4>1
      <4>. QED BY <1>6, <4>2, <4>3, <4>4, <4>5
    <3>4. r.auth \in {"own", "none"}
      <4>1. PICK t : t = Begin(r.line \o SubSeq(Bytes, consumed + r.used + 1, n), r.rebuilt, r.auth)
        OBVIOUS
      <4>2. t.auth = r.auth
        BY <4>1 DEF Begin
      <4>. QED BY <3>1, <4>1, <4>2 DEF BeforeLine
    <3>5. AuthNamePass' = r.auth
      BY <1>8, <3>4 DEF Credentials
    <3>6. BeforeLine(n, 1, i, q, TRUE, at)
      BY <1>8, <1>15, <2>a, <3>1, <3>3, <3>5
    <3>7. BeforeLine(n, 1, i, q, TRUE, at)'
      BY <1>4, <3>6 DEF BeforeLine
    <3>. QED BY <3>2, <3>7
  <2>3. NormalInv'
    BY <1>4, <1>5, <1>10, <1>11, <2>1, <2>a, <2>2 DEF NormalInv
  <2>. QED BY <1>12, <2>1, <2>3 DEF HttpInv, Done
<1>. QED BY <1>14, <1>15

LEMMA HttpStep == HttpInv /\ [HttpNext]_httpVars => HttpInv'
<1>1. SUFFICES ASSUME HttpInv, [HttpNext]_httpVars PROVE HttpInv'
  OBVIOUS
<1>2. CASE UNCHANGED httpVars
  <2>1. Bytes' = Bytes /\ RebuiltHeader' = RebuiltHeader /\ HasAuth' = HasAuth /\ AuthLine' = AuthLine
    BY <1>2, SameClient DEF httpVars
  <2>2. SeenCut' = SeenCut
    BY <1>2, <2>1 DEF httpVars, SeenCut
  <2>3. Done' = Done
    BY <1>2 DEF httpVars, Done
  <2>4. PiecesDoNotMatter' = PiecesDoNotMatter
    BY <1>2, <2>1, <2>2, <2>3 DEF httpVars, PiecesDoNotMatter
  <2>5. HttpTypeOK' /\ UnknownInv' = UnknownInv /\ RawInv' = RawInv
    BY <1>1, <1>2, <2>1 DEF httpVars, HttpInv, HttpTypeOK, UnknownInv, RawInv
  <2>6. NormalInv => NormalInv'
    BY <1>2, <2>1, <2>2 DEF httpVars, NormalInv, BeforeLine
  <2>. QED BY <1>1, <1>2, <2>3, <2>4, <2>5, <2>6 DEF httpVars, HttpInv
<1>3. ASSUME NEW n \in received..Len(Bytes), n > consumed, HttpData(n) PROVE HttpInv'
  <2>1. n \in Nat /\ received <= n /\ consumed < n /\ n <= Len(Bytes)
    <3>1. received \in Nat /\ Len(Bytes) \in Nat /\ consumed \in Nat
      BY <1>1, HeaderIs, BytesAre DEF HttpInv, HttpTypeOK
    <3>. QED BY <1>3, <3>1
  <2>2. PICK data : data = SubSeq(Bytes, consumed + 1, n)
    OBVIOUS
  <2>3. /\ received' = n /\ method' = method /\ header' = header
        /\ \/ OnHttpChallenge(data)
           \/ /\ OnHttpRawChallenge(data) \/ OnHttpNormalChallenge(data)
              /\ cuts' = cuts \cup {n}
    BY <1>3, <2>2 DEF HttpData
  <2>4. CASE OnHttpChallenge(data)
    BY <1>1, <2>1, <2>2, <2>3, <2>4, HttpChallengeInv
  <2>5. CASE OnHttpRawChallenge(data) /\ cuts' = cuts \cup {n}
    BY <1>1, <2>1, <2>2, <2>3, <2>5, HttpRawChallengeInv
  <2>6. CASE OnHttpNormalChallenge(data) /\ cuts' = cuts \cup {n}
    BY <1>1, <2>1, <2>2, <2>3, <2>6, HttpNormalChallengeInv
  <2>. QED BY <2>3, <2>4, <2>5, <2>6
<1>. QED BY <1>1, <1>2, <1>3 DEF HttpNext

LEMMA HttpInvImplies == HttpInv => PiecesDoNotMatter
<1>1. SUFFICES ASSUME HttpInv, ~Done PROVE PiecesDoNotMatter
  BY DEF HttpInv
<1>2. CASE Phase = "eUnknown"
  BY <1>1, <1>2 DEF HttpInv, UnknownInv, PiecesDoNotMatter
<1>3. CASE Phase = "eHttpRawChallenge"
  BY <1>1, <1>3 DEF HttpInv, RawInv, PiecesDoNotMatter
<1>4. CASE Phase = "eHttpNormalChallenge"
  BY <1>1, <1>4 DEF HttpInv, NormalInv, PiecesDoNotMatter
<1>. QED BY <1>1, <1>2, <1>3, <1>4 DEF HttpInv

\* (PiecesDoNotMatter) In whatever pieces a header of any length comes, the
\* client is asked about with its own credentials or refused, and the header
\* sent on is the one that should be, unless it is cut in one of the places
\* where the code takes a piece for something else.
THEOREM HttpPiecesDoNotMatter == HttpSpec => []PiecesDoNotMatter
<1>1. HttpInit => HttpInv
  BY HttpInitInv
<1>2. HttpInv /\ [HttpNext]_httpVars => HttpInv'
  BY HttpStep
<1>3. HttpInv => PiecesDoNotMatter
  BY HttpInvImplies
<1>. QED BY <1>1, <1>2, <1>3, PTL DEF HttpSpec

-----------------------------------------------------------------------------
(* xServiceClientHashPool *)

\* Each of the first j entries of the new list is an old one of K, which stays,
\* or was added.
Matching(old, new, K, add, j, kept, came) ==
    /\ kept \in [K -> 1..j] /\ came \in [1..Len(add) -> 1..j]
    /\ \A p \in K : old[p] = new[kept[p]]
    /\ \A k \in 1..Len(add) : add[k] = new[came[k]]
    /\ \A p, q \in K : kept[p] = kept[q] => p = q
    /\ \A k, l \in 1..Len(add) : came[k] = came[l] => k = l
    /\ \A p \in K, k \in 1..Len(add) : kept[p] # came[k]
    /\ \A q \in 1..j : (\E p \in K : kept[p] = q) \/ (\E k \in 1..Len(add) : came[k] = q)

\* So far i entries of the old list and j of the new one were compared.
Stage(old, new, i, j, drop, add) ==
    /\ i \in 0..Len(old) /\ j \in 0..Len(new)
    /\ drop \in Seq(1..Len(old)) /\ IsInjective(drop) /\ ToSet(drop) \subseteq 1..i
    /\ add \in Seq(Infos) /\ Len(add) <= j
    /\ \E kept, came : Matching(old, new, (1..i) \ ToSet(drop), add, j, kept, came)

StrictById(s) == \A i, j \in 1..Len(s) : i < j => s[i].id < s[j].id

\* In lists that name each server once, what was compared is smaller than what
\* was not, and what leaves is not in the new list.
Apart(old, new, i, j, drop) ==
    /\ \A p \in 1..i, q \in j + 1..Len(new) : old[p].id < new[q].id
    /\ \A p \in i + 1..Len(old), q \in 1..j : new[q].id < old[p].id
    /\ \A p \in ToSet(drop), q \in 1..Len(new) : new[q] # old[p]

\* Where the comparison is after n passes of its loop.
IsCompared(old, new, n, at) ==
    \E i, j \in Nat, drop \in Seq(1..Len(old)), add \in Seq(Infos) :
        /\ at = [OldIndex |-> i, NewIndex |-> j, drop |-> drop, add |-> add]
        /\ Stage(old, new, i, j, drop, add)
        /\ i + j >= n \/ (i = Len(old) /\ j = Len(new))
        /\ StrictById(old) /\ StrictById(new) => Apart(old, new, i, j, drop)

\* Server ids are numbers.
LEMMA InfoIds == \A x \in Infos : x.id \in Nat
BY PoolAssumption DEF Infos

\* The entries of a list.
LEMMA EntryOfList ==
    ASSUME NEW s \in Seq(Infos)
    PROVE  /\ Len(s) \in Nat /\ DOMAIN s = 1..Len(s)
           /\ \A i \in 1..Len(s) : s[i] \in Infos /\ s[i].id \in Nat
BY LenProperties, ElementOfSeq, InfoIds

\* An old entry stays for the new one that is next.
LEMMA StageSame ==
    ASSUME NEW old \in Seq(Infos), NEW new \in Seq(Infos), NEW i \in Nat, NEW j \in Nat,
           NEW drop, NEW add, Stage(old, new, i, j, drop, add),
           i < Len(old), j < Len(new), old[i + 1] = new[j + 1]
    PROVE  Stage(old, new, i + 1, j + 1, drop, add)
<1>. DEFINE K == (1..i) \ ToSet(drop)
            L == (1..i + 1) \ ToSet(drop)
<1>0. Len(old) \in Nat /\ Len(new) \in Nat /\ i \in Nat /\ j \in Nat
      /\ ToSet(drop) \subseteq 1..i /\ add \in Seq(Infos) /\ Len(add) \in Nat /\ Len(add) <= j
      /\ drop \in Seq(1..Len(old)) /\ IsInjective(drop)
  BY EntryOfList DEF Stage
<1>1. L = K \cup {i + 1} /\ i + 1 \notin K
  BY <1>0
<1>2. PICK kept, came : Matching(old, new, K, add, j, kept, came)
  BY DEF Stage
<1>. DEFINE kept2 == [p \in L |-> IF p = i + 1 THEN j + 1 ELSE kept[p]]
<1>. HIDE DEF K, L
<1>3. \A p \in K : kept2[p] = kept[p] /\ kept[p] \in 1..j /\ kept[p] # j + 1 /\ kept[p] \in 1..j + 1
  <2>1. \A p \in K : kept[p] \in 1..j
    BY <1>2 DEF Matching
  <2>. QED BY <1>0, <1>1, <2>1
<1>4. kept2[i + 1] = j + 1 /\ j + 1 \in 1..j + 1
  BY <1>0, <1>1
<1>5. \A k \in 1..Len(add) : came[k] \in 1..j /\ came[k] # j + 1 /\ came[k] \in 1..j + 1
  <2>1. \A k \in 1..Len(add) : came[k] \in 1..j
    BY <1>2 DEF Matching
  <2>. QED BY <1>0, <2>1
<1>6. \A q \in 1..j + 1 : q \in 1..j \/ q = j + 1
  BY <1>0
<1>7. kept2 \in [L -> 1..j + 1]
  <2>1. \A p \in L : kept2[p] \in 1..j + 1
    BY <1>1, <1>3, <1>4
  <2>. QED BY <2>1
<1>. HIDE DEF kept2
<1>8. came \in [1..Len(add) -> 1..j + 1]
  <2>1. came \in [1..Len(add) -> 1..j]
    BY <1>2 DEF Matching
  <2>. QED BY <1>5, <2>1
<1>9. /\ \A p \in L : old[p] = new[kept2[p]]
      /\ \A p, q \in L : kept2[p] = kept2[q] => p = q
      /\ \A p \in L, k \in 1..Len(add) : kept2[p] # came[k]
  BY <1>1, <1>2, <1>3, <1>4, <1>5 DEF Matching
<1>10. \A q \in 1..j + 1 : (\E p \in L : kept2[p] = q) \/ \E k \in 1..Len(add) : came[k] = q
  BY <1>1, <1>2, <1>3, <1>4, <1>6 DEF Matching
<1>11. Matching(old, new, L, add, j + 1, kept2, came)
  BY <1>2, <1>7, <1>8, <1>9, <1>10 DEF Matching
<1>12. /\ i + 1 \in 0..Len(old) /\ j + 1 \in 0..Len(new) /\ Len(add) <= j + 1
       /\ ToSet(drop) \subseteq 1..i + 1
  BY <1>0
<1>. QED BY <1>0, <1>11, <1>12 DEF Stage, L

\* An old entry leaves.
LEMMA StageLeaves ==
    ASSUME NEW old \in Seq(Infos), NEW new \in Seq(Infos), NEW i \in Nat, NEW j \in Nat,
           NEW drop, NEW add, Stage(old, new, i, j, drop, add), i < Len(old)
    PROVE  \E t : /\ t = Append(drop, i + 1)
                  /\ Stage(old, new, i + 1, j, t, add)
                  /\ ToSet(t) = ToSet(drop) \cup {i + 1}
<1>0. Len(old) \in Nat /\ i \in Nat /\ i + 1 \in 1..Len(old)
      /\ ToSet(drop) \subseteq 1..i /\ drop \in Seq(1..Len(old)) /\ IsInjective(drop)
  BY EntryOfList DEF Stage
<1>1. i + 1 \notin ToSet(drop)
  BY <1>0
<1>2. PICK t : t = Append(drop, i + 1)
  OBVIOUS
<1>3. t \in Seq(1..Len(old)) /\ IsInjective(t) /\ ToSet(t) = ToSet(drop) \cup {i + 1}
  BY <1>0, <1>1, <1>2, AppendToInjective
<1>4. (1..i + 1) \ ToSet(t) = (1..i) \ ToSet(drop)
  BY <1>0, <1>3
<1>5. ToSet(t) \subseteq 1..i + 1 /\ i + 1 \in 0..Len(old)
  BY <1>0, <1>3
<1>6. Stage(old, new, i + 1, j, t, add)
  <2>1. \E kept, came : Matching(old, new, (1..i + 1) \ ToSet(t), add, j, kept, came)
    BY <1>4 DEF Stage
  <2>. QED BY <1>3, <1>5, <2>1 DEF Stage
<1>. QED BY <1>2, <1>3, <1>6

\* A new entry comes.
LEMMA StageComes ==
    ASSUME NEW old \in Seq(Infos), NEW new \in Seq(Infos), NEW i \in Nat, NEW j \in Nat,
           NEW drop, NEW add, Stage(old, new, i, j, drop, add), j < Len(new)
    PROVE  Stage(old, new, i, j + 1, drop, Append(add, new[j + 1]))
<1>. DEFINE K == (1..i) \ ToSet(drop)
            m == Len(add)
<1>0. Len(new) \in Nat /\ j \in Nat /\ j + 1 \in 1..Len(new)
      /\ add \in Seq(Infos) /\ m \in Nat /\ new[j + 1] \in Infos /\ m <= j
  BY EntryOfList DEF Stage
<1>1. PICK t : t = Append(add, new[j + 1])
  OBVIOUS
<1>2. t \in Seq(Infos) /\ Len(t) = m + 1 /\ t[m + 1] = new[j + 1] /\ \A k \in 1..m : t[k] = add[k]
  BY <1>0, <1>1, AppendProperties
<1>3. PICK kept, came : Matching(old, new, K, add, j, kept, came)
  BY DEF Stage
<1>. DEFINE came2 == [k \in 1..m + 1 |-> IF k = m + 1 THEN j + 1 ELSE came[k]]
<1>. HIDE DEF K
<1>4. \A k \in 1..m + 1 : k \in 1..m \/ k = m + 1
  BY <1>0
<1>5. \A k \in 1..m : k \in 1..m + 1 /\ k # m + 1 /\ came2[k] = came[k]
                       /\ came[k] \in 1..j /\ came[k] # j + 1 /\ came[k] \in 1..j + 1
  <2>1. \A k \in 1..m : came[k] \in 1..j
    BY <1>3 DEF Matching
  <2>. QED BY <1>0, <2>1
<1>6. m + 1 \in 1..m + 1 /\ came2[m + 1] = j + 1 /\ j + 1 \in 1..j + 1
  BY <1>0
<1>7. \A p \in K : kept[p] \in 1..j /\ kept[p] # j + 1 /\ kept[p] \in 1..j + 1
  <2>1. \A p \in K : kept[p] \in 1..j
    BY <1>3 DEF Matching
  <2>. QED BY <1>0, <2>1
<1>8. came2 \in [1..m + 1 -> 1..j + 1]
  <2>1. \A k \in 1..m + 1 : came2[k] \in 1..j + 1
    <3>. HIDE DEF came2
    <3>. QED BY <1>4, <1>5, <1>6
  <2>. QED BY <2>1
<1>9. kept \in [K -> 1..j + 1]
  <2>1. kept \in [K -> 1..j]
    BY <1>3 DEF Matching
  <2>. QED BY <1>7, <2>1
<1>10. \A q \in 1..j + 1 : q \in 1..j \/ q = j + 1
  BY <1>0
<1>. HIDE DEF came2, m
<1>11. /\ \A k \in 1..m : t[k] = new[came[k]]
       /\ \A k, l \in 1..m : came[k] = came[l] => k = l
       /\ \A p \in K, k \in 1..m : kept[p] # came[k]
       /\ \A q \in 1..j : (\E p \in K : kept[p] = q) \/ \E k \in 1..m : came[k] = q
       /\ \A p \in K : old[p] = new[kept[p]]
       /\ \A p, q \in K : kept[p] = kept[q] => p = q
  BY <1>2, <1>3 DEF Matching, m
<1>12. \A k \in 1..m + 1 : t[k] = new[came2[k]]
  BY <1>2, <1>4, <1>5, <1>6, <1>11
<1>13. \A k, l \in 1..m + 1 : came2[k] = came2[l] => k = l
  BY <1>4, <1>5, <1>6, <1>11
<1>14. \A p \in K, k \in 1..m + 1 : kept[p] # came2[k]
  BY <1>4, <1>5, <1>6, <1>7, <1>11
<1>15. \A q \in 1..j + 1 : (\E p \in K : kept[p] = q) \/ \E k \in 1..m + 1 : came2[k] = q
  BY <1>5, <1>6, <1>10, <1>11
<1>16. Matching(old, new, K, t, j + 1, kept, came2)
  BY <1>2, <1>8, <1>9, <1>11, <1>12, <1>13, <1>14, <1>15 DEF Matching
<1>17. j + 1 \in 0..Len(new) /\ Len(t) <= j + 1
  BY <1>0, <1>2 DEF m
<1>18. Stage(old, new, i, j + 1, drop, t)
  BY <1>2, <1>16, <1>17 DEF Stage, K
<1>. QED BY <1>1, <1>18

\* In lists that name each server once: the next entries are of the same
\* server, and stay or are replaced, or one of them is the smaller.
LEMMA ApartStep ==
    ASSUME NEW old \in Seq(Infos), NEW new \in Seq(Infos), NEW i \in 0..Len(old),
           NEW j \in 0..Len(new), NEW drop, ToSet(drop) \subseteq 1..i,
           StrictById(old), StrictById(new), Apart(old, new, i, j, drop)
    PROVE  /\ i < Len(old) /\ j < Len(new) /\ old[i + 1] = new[j + 1]
                => Apart(old, new, i + 1, j + 1, drop)
           /\ \A t : ToSet(t) = ToSet(drop) \cup {i + 1} /\ i < Len(old) /\ j < Len(new)
                     /\ old[i + 1] # new[j + 1] /\ old[i + 1].id = new[j + 1].id
                       => Apart(old, new, i + 1, j + 1, t)
           /\ \A t : ToSet(t) = ToSet(drop) \cup {i + 1} /\ i < Len(old)
                     /\ (j < Len(new) => old[i + 1].id < new[j + 1].id)
                       => Apart(old, new, i + 1, j, t)
           /\ j < Len(new) /\ (i < Len(old) => new[j + 1].id < old[i + 1].id)
                => Apart(old, new, i, j + 1, drop)
<1>0. /\ Len(old) \in Nat /\ \A p \in 1..Len(old) : old[p] \in Infos /\ old[p].id \in Int
      /\ Len(new) \in Nat /\ \A p \in 1..Len(new) : new[p] \in Infos /\ new[p].id \in Int
  <2>1. \A x \in Nat : x \in Int
    OBVIOUS
  <2>. QED BY <2>1, EntryOfList
<1>1. /\ \A p, q \in 1..Len(old) : p < q => old[p].id < old[q].id
      /\ \A p, q \in 1..Len(new) : p < q => new[p].id < new[q].id
  BY DEF StrictById
<1>2. /\ \A p \in 1..i, q \in j + 1..Len(new) : old[p].id < new[q].id
      /\ \A p \in i + 1..Len(old), q \in 1..j : new[q].id < old[p].id
      /\ \A p \in ToSet(drop), q \in 1..Len(new) : new[q] # old[p]
  BY DEF Apart
<1>3. /\ \A p \in 1..i + 1 : p \in 1..i \/ p = i + 1
      /\ \A q \in 1..j + 1 : q \in 1..j \/ q = j + 1
      /\ \A p \in 1..i : p \in 1..Len(old)
      /\ \A q \in 1..j : q \in 1..Len(new)
      /\ \A q \in 1..Len(new) : q \in 1..j \/ q \in j + 1..Len(new)
      /\ \A p \in i + 1..Len(old) : p \in 1..Len(old)
      /\ \A q \in j + 1..Len(new) : q \in 1..Len(new)
      /\ \A p \in (i + 1) + 1..Len(old) : p \in i + 1..Len(old) /\ i + 1 < p
      /\ \A q \in (j + 1) + 1..Len(new) : q \in j + 1..Len(new) /\ j + 1 < q
      /\ \A q \in j + 1..Len(new) : q = j + 1 \/ q \in (j + 1) + 1..Len(new)
      /\ \A p \in i + 1..Len(old) : p = i + 1 \/ p \in (i + 1) + 1..Len(old)
      /\ i < Len(old) => i + 1 \in 1..Len(old) /\ i + 1 \in i + 1..Len(old)
      /\ j < Len(new) => j + 1 \in 1..Len(new) /\ j + 1 \in j + 1..Len(new)
  BY <1>0
<1>4. ASSUME i < Len(old), j < Len(new), old[i + 1] = new[j + 1]
      PROVE  Apart(old, new, i + 1, j + 1, drop)
  <2>1. \A p \in 1..i + 1, q \in (j + 1) + 1..Len(new) : old[p].id < new[q].id
    BY <1>1, <1>2, <1>3, <1>4
  <2>2. \A p \in (i + 1) + 1..Len(old), q \in 1..j + 1 : new[q].id < old[p].id
    BY <1>1, <1>2, <1>3, <1>4
  <2>. QED BY <1>2, <2>1, <2>2 DEF Apart
<1>5. ASSUME NEW t, ToSet(t) = ToSet(drop) \cup {i + 1},
             i < Len(old), j < Len(new), old[i + 1] # new[j + 1], old[i + 1].id = new[j + 1].id
      PROVE  Apart(old, new, i + 1, j + 1, t)
  <2>1. \A p \in 1..i + 1, q \in (j + 1) + 1..Len(new) : old[p].id < new[q].id
    BY <1>1, <1>2, <1>3, <1>5
  <2>2. \A p \in (i + 1) + 1..Len(old), q \in 1..j + 1 : new[q].id < old[p].id
    BY <1>1, <1>2, <1>3, <1>5
  <2>3. ASSUME NEW q \in 1..Len(new) PROVE new[q] # old[i + 1]
    <3>1. CASE q \in 1..j
      BY <1>0, <1>2, <1>3, <1>5, <3>1
    <3>2. CASE q = j + 1
      BY <1>5, <3>2
    <3>3. CASE q \in (j + 1) + 1..Len(new)
      BY <1>0, <1>1, <1>3, <1>5, <3>3
    <3>. QED BY <1>3, <3>1, <3>2, <3>3
  <2>. QED BY <1>2, <1>5, <2>1, <2>2, <2>3 DEF Apart
<1>6. ASSUME NEW t, ToSet(t) = ToSet(drop) \cup {i + 1},
             i < Len(old), j < Len(new) => old[i + 1].id < new[j + 1].id
      PROVE  Apart(old, new, i + 1, j, t)
  <2>1. \A q \in j + 1..Len(new) : old[i + 1].id < new[q].id
    <3>1. SUFFICES ASSUME NEW q \in j + 1..Len(new) PROVE old[i + 1].id < new[q].id
      OBVIOUS
    <3>2. j < Len(new)
      BY <1>0
    <3>3. CASE q = j + 1
      BY <1>6, <3>2, <3>3
    <3>4. CASE q # j + 1
      <4>1. new[j + 1].id < new[q].id
        BY <1>1, <1>3, <3>2, <3>4
      <4>. QED BY <1>0, <1>3, <1>6, <3>2, <4>1
    <3>. QED BY <3>3, <3>4
  <2>2. \A p \in 1..i + 1, q \in j + 1..Len(new) : old[p].id < new[q].id
    BY <1>2, <1>3, <2>1
  <2>3. \A p \in (i + 1) + 1..Len(old), q \in 1..j : new[q].id < old[p].id
    BY <1>2, <1>3
  <2>4. ASSUME NEW q \in 1..Len(new) PROVE new[q] # old[i + 1]
    <3>1. CASE q \in 1..j
      BY <1>0, <1>2, <1>3, <1>6, <3>1
    <3>2. CASE q \in j + 1..Len(new)
      BY <1>0, <1>3, <1>6, <2>1, <3>2
    <3>. QED BY <1>3, <3>1, <3>2
  <2>. QED BY <1>2, <1>6, <2>2, <2>3, <2>4 DEF Apart
<1>7. ASSUME j < Len(new), i < Len(old) => new[j + 1].id < old[i + 1].id
      PROVE  Apart(old, new, i, j + 1, drop)
  <2>1. \A p \in i + 1..Len(old) : new[j + 1].id < old[p].id
    <3>1. SUFFICES ASSUME NEW p \in i + 1..Len(old) PROVE new[j + 1].id < old[p].id
      OBVIOUS
    <3>2. i < Len(old)
      BY <1>0
    <3>3. CASE p = i + 1
      BY <1>7, <3>2, <3>3
    <3>4. CASE p # i + 1
      <4>1. old[i + 1].id < old[p].id
        BY <1>1, <1>3, <3>2, <3>4
      <4>. QED BY <1>0, <1>3, <1>7, <3>2, <4>1
    <3>. QED BY <3>3, <3>4
  <2>2. \A p \in 1..i, q \in (j + 1) + 1..Len(new) : old[p].id < new[q].id
    BY <1>2, <1>3
  <2>3. \A p \in i + 1..Len(old), q \in 1..j + 1 : new[q].id < old[p].id
    BY <1>2, <1>3, <2>1
  <2>. QED BY <1>2, <2>2, <2>3 DEF Apart
<1>. QED BY <1>4, <1>5, <1>6, <1>7

\* A pass of the loop compares one more entry of the two lists, or all of both
\* have been compared.
LEMMA ComparedStep ==
    ASSUME NEW old \in Seq(Infos), NEW new \in Seq(Infos), NEW n \in Nat, NEW at,
           IsCompared(old, new, n, at)
    PROVE  IsCompared(old, new, n + 1, Compared(old, new, at))
<1>1. PICK i \in Nat, j \in Nat, drop \in Seq(1..Len(old)), add \in Seq(Infos) :
         /\ at = [OldIndex |-> i, NewIndex |-> j, drop |-> drop, add |-> add]
         /\ Stage(old, new, i, j, drop, add)
         /\ i + j >= n \/ (i = Len(old) /\ j = Len(new))
         /\ StrictById(old) /\ StrictById(new) => Apart(old, new, i, j, drop)
  BY DEF IsCompared
<1>2. /\ Len(old) \in Nat /\ Len(new) \in Nat /\ i \in 0..Len(old) /\ j \in 0..Len(new)
      /\ ToSet(drop) \subseteq 1..i
      /\ i < Len(old) => old[i + 1] \in Infos /\ old[i + 1].id \in Int /\ i + 1 \in 1..Len(old)
      /\ j < Len(new) => new[j + 1] \in Infos /\ new[j + 1].id \in Int /\ j + 1 \in 1..Len(new)
  <2>1. /\ i < Len(old) => i + 1 \in 1..Len(old)
        /\ j < Len(new) => j + 1 \in 1..Len(new)
    BY <1>1, EntryOfList
  <2>2. /\ i < Len(old) => old[i + 1] \in Infos /\ old[i + 1].id \in Nat
        /\ j < Len(new) => new[j + 1] \in Infos /\ new[j + 1].id \in Nat
    BY <2>1, EntryOfList
  <2>. QED BY <1>1, <2>1, <2>2, EntryOfList DEF Stage
<1>. DEFINE drop2 == Append(drop, i + 1)
            add2  == Append(add, new[j + 1])
            same   == i < Len(old) /\ j < Len(new) /\ old[i + 1] = new[j + 1]
            moved  == i < Len(old) /\ j < Len(new) /\ old[i + 1] # new[j + 1]
                                   /\ old[i + 1].id = new[j + 1].id
            less   == i < Len(old) /\ (j < Len(new) => old[i + 1].id < new[j + 1].id)
            more   == j < Len(new) /\ (i < Len(old) => new[j + 1].id < old[i + 1].id)
            ends   == i = Len(old) /\ j = Len(new)
            At(k, l, d, a) == [OldIndex |-> k, NewIndex |-> l, drop |-> d, add |-> a]
            Good(k, l, d, a) ==
               /\ Stage(old, new, k, l, d, a)
               /\ k + l >= n + 1 \/ (k = Len(old) /\ l = Len(new))
               /\ StrictById(old) /\ StrictById(new) => Apart(old, new, k, l, d)
<1>3. same \/ moved \/ less \/ more \/ ends
  BY <1>2
<1>4. /\ same => Compared(old, new, at) = At(i + 1, j + 1, drop, add)
      /\ moved => Compared(old, new, at) = At(i + 1, j + 1, drop2, add2)
      /\ less => Compared(old, new, at) = At(i + 1, j, drop2, add)
      /\ more => Compared(old, new, at) = At(i, j + 1, drop, add2)
      /\ ends => Compared(old, new, at) = At(i, j, drop, add)
  <2>. DEFINE here == i + 1 <= Len(old)  there == j + 1 <= Len(new)
              s == here /\ there /\ old[i + 1] = new[j + 1]
              l == here /\ (there => old[i + 1].id <= new[j + 1].id /\ ~s)
              c == there /\ (here => new[j + 1].id <= old[i + 1].id /\ ~s)
  <2>1. Compared(old, new, at) =
          [OldIndex |-> IF s \/ l THEN i + 1 ELSE (i + 1) - 1,
           NewIndex |-> IF s \/ c THEN j + 1 ELSE (j + 1) - 1,
           drop |-> IF l THEN drop2 ELSE drop,
           add  |-> IF c THEN add2 ELSE add]
    BY <1>1 DEF Compared
  <2>2. (i + 1) - 1 = i /\ (j + 1) - 1 = j
    BY <1>1
  <2>3. /\ same => s /\ ~l /\ ~c
        /\ moved => ~s /\ l /\ c
        /\ less => ~s /\ l /\ ~c
        /\ more => ~s /\ ~l /\ c
        /\ ends => ~s /\ ~l /\ ~c
    BY <1>2
  <2>. HIDE DEF s, l, c, same, moved, less, more, ends, drop2, add2
  <2>. QED BY <2>1, <2>2, <2>3
<1>5. ASSUME NEW k, NEW l, NEW d, NEW a, Good(k, l, d, a), Compared(old, new, at) = At(k, l, d, a)
      PROVE  IsCompared(old, new, n + 1, Compared(old, new, at))
  <2>1. k \in Nat /\ l \in Nat /\ d \in Seq(1..Len(old)) /\ a \in Seq(Infos)
    BY <1>2, <1>5 DEF Stage
  <2>. QED BY <1>5, <2>1 DEF IsCompared
<1>6. ASSUME i < Len(old)
       PROVE  Stage(old, new, i + 1, j, drop2, add) /\ ToSet(drop2) = ToSet(drop) \cup {i + 1}
  <2>1. \E t : /\ t = Append(drop, i + 1)
               /\ Stage(old, new, i + 1, j, t, add)
               /\ ToSet(t) = ToSet(drop) \cup {i + 1}
    <3>1. Stage(old, new, i, j, drop, add) /\ i < Len(old)
      BY <1>1, <1>6
    <3>. HIDE DEF drop2, add2, same, moved, less, more, ends, At, Good
    <3>. QED BY <3>1, StageLeaves
  <2>. QED BY <2>1
<1>7. CASE same
  <2>1. Stage(old, new, i, j, drop, add) /\ i < Len(old) /\ j < Len(new)
        /\ old[i + 1] = new[j + 1]
    BY <1>1, <1>7
  <2>2. Stage(old, new, i + 1, j + 1, drop, add)
    BY <2>1, StageSame
  <2>3. StrictById(old) /\ StrictById(new) => Apart(old, new, i + 1, j + 1, drop)
    BY <1>1, <1>2, <2>1, ApartStep
  <2>4. (i + 1) + (j + 1) >= n + 1 \/ (i + 1 = Len(old) /\ j + 1 = Len(new))
    BY <1>1, <1>2, <2>1
  <2>5. Good(i + 1, j + 1, drop, add)
    BY <2>2, <2>3, <2>4
  <2>. QED BY <1>4, <1>5, <1>7, <2>5
<1>8. CASE moved
  <2>1. Stage(old, new, i + 1, j, drop2, add) /\ ToSet(drop2) = ToSet(drop) \cup {i + 1}
    BY <1>8, <1>6
  <2>2. Stage(old, new, i + 1, j + 1, drop2, add2)
    <3>1. PICK d : d = drop2
      OBVIOUS
    <3>2. Stage(old, new, i + 1, j, d, add)
      BY <2>1, <3>1
    <3>3. i + 1 \in Nat /\ j < Len(new)
      BY <1>1, <1>8
    <3>4. Stage(old, new, i + 1, j + 1, d, Append(add, new[j + 1]))
      <4>. HIDE DEF drop2, add2, same, moved, less, more, ends, At, Good
      <4>. QED BY <1>1, <3>2, <3>3, StageComes
    <3>5. Stage(old, new, i + 1, j + 1, d, add2)
      BY <3>4
    <3>. QED BY <3>1, <3>5
  <2>3. StrictById(old) /\ StrictById(new) => Apart(old, new, i + 1, j + 1, drop2)
    BY <1>1, <1>2, <1>8, <2>1, ApartStep
  <2>4. (i + 1) + (j + 1) >= n + 1 \/ (i + 1 = Len(old) /\ j + 1 = Len(new))
    BY <1>1, <1>2, <1>8
  <2>5. Good(i + 1, j + 1, drop2, add2)
    BY <2>2, <2>3, <2>4
  <2>. QED BY <1>4, <1>5, <1>8, <2>5
<1>9. CASE less
  <2>1. Stage(old, new, i + 1, j, drop2, add) /\ ToSet(drop2) = ToSet(drop) \cup {i + 1}
    BY <1>9, <1>6
  <2>2. StrictById(old) /\ StrictById(new) => Apart(old, new, i + 1, j, drop2)
    BY <1>1, <1>2, <1>9, <2>1, ApartStep
  <2>3. Good(i + 1, j, drop2, add)
    BY <1>1, <1>2, <1>9, <2>1, <2>2
  <2>. QED BY <1>4, <1>5, <1>9, <2>3
<1>10. CASE more
  <2>1. Stage(old, new, i, j + 1, drop, add2)
    BY <1>1, <1>10, StageComes
  <2>2. StrictById(old) /\ StrictById(new) => Apart(old, new, i, j + 1, drop)
    BY <1>1, <1>2, <1>10, ApartStep
  <2>3. Good(i, j + 1, drop, add2)
    BY <1>1, <1>2, <1>10, <2>1, <2>2
  <2>. QED BY <1>4, <1>5, <1>10, <2>3
<1>11. CASE ends
  <2>1. Good(i, j, drop, add)
    BY <1>1, <1>11
  <2>. QED BY <1>4, <1>5, <1>11, <2>1
<1>. QED BY <1>3, <1>7, <1>8, <1>9, <1>10, <1>11

\* Before the first pass nothing is compared.
NothingCompared == [OldIndex |-> 0, NewIndex |-> 0, drop |-> <<>>, add |-> <<>>]

\* Then the comparison is where IsCompared says it is.
LEMMA NothingIsCompared ==
    ASSUME NEW old \in Seq(Infos), NEW new \in Seq(Infos)
    PROVE  IsCompared(old, new, 0, NothingCompared)
<1>1. PICK e : e = <<>>
  OBVIOUS
<1>2. e \in Seq(1..Len(old)) /\ e \in Seq(Infos) /\ Len(e) = 0 /\ ToSet(e) = {} /\ IsInjective(e)
  <2>1. e \in Seq(1..Len(old)) /\ e \in Seq(Infos) /\ Len(e) = 0
    BY <1>1, EmptySeq
  <2>. QED BY <1>1, <2>1, EmptyToSet
<1>3. Len(old) \in Nat /\ Len(new) \in Nat
  BY LenProperties
<1>4. (1..0) \ ToSet(e) = {} /\ 1..0 = {} /\ 1..Len(e) = {}
  BY <1>2
<1>5. PICK f : f = [p \in {} |-> 0]
  OBVIOUS
<1>6. Matching(old, new, (1..0) \ ToSet(e), e, 0, f, f)
  <2>1. f \in [{} -> 1..0]
    BY <1>5
  <2>. QED BY <1>4, <2>1 DEF Matching
<1>7. Stage(old, new, 0, 0, e, e)
  BY <1>2, <1>3, <1>6 DEF Stage
<1>8. Apart(old, new, 0, 0, e)
  BY <1>2 DEF Apart
<1>9. NothingCompared = [OldIndex |-> 0, NewIndex |-> 0, drop |-> e, add |-> e]
  BY <1>1 DEF NothingCompared
<1>10. 0 \in Nat /\ 0 + 0 >= 0
  OBVIOUS
<1>11. \E i, j \in Nat, drop \in Seq(1..Len(old)), add \in Seq(Infos) :
          /\ NothingCompared = [OldIndex |-> i, NewIndex |-> j, drop |-> drop, add |-> add]
          /\ Stage(old, new, i, j, drop, add)
          /\ i + j >= 0 \/ (i = Len(old) /\ j = Len(new))
          /\ StrictById(old) /\ StrictById(new) => Apart(old, new, i, j, drop)
  BY <1>2, <1>7, <1>8, <1>9, <1>10, Zenon
<1>. QED BY <1>11, Zenon DEF IsCompared

\* As many passes as there are entries compare all of them.
LEMMA DiffIsCompared ==
    ASSUME NEW old \in Seq(Infos), NEW new \in Seq(Infos)
    PROVE  \E d : /\ IsCompared(old, new, Len(old) + Len(new), d)
                  /\ Diff(old, new) = d
<1>. DEFINE m == Len(old) + Len(new)
            F(n, before) == IF n = 0 THEN NothingCompared ELSE Compared(old, new, before)
            Solves(g, n) == g = [k \in 0..n |-> F(k, g[k - 1])]
            T == {n \in Nat : n <= m => \E g : Solves(g, n) /\ IsCompared(old, new, n, g[n])}
<1>0. m \in Nat
  BY LenProperties
<1>1. 0 \in T
  <2>. DEFINE g == [k \in 0..0 |-> NothingCompared]
  <2>1. Solves(g, 0) /\ g[0] = NothingCompared
    OBVIOUS
  <2>. QED BY <2>1, NothingIsCompared
<1>2. ASSUME NEW n \in T PROVE n + 1 \in T
  <2>1. SUFFICES ASSUME n + 1 <= m
                 PROVE  \E g : Solves(g, n + 1) /\ IsCompared(old, new, n + 1, g[n + 1])
    OBVIOUS
  <2>2. n \in Nat /\ n <= m
    BY <1>0, <2>1
  <2>3. PICK g : Solves(g, n) /\ IsCompared(old, new, n, g[n])
    BY <2>2
  <2>. DEFINE t == F(n + 1, g[n])
              h == [k \in 0..n + 1 |-> IF k = n + 1 THEN t ELSE g[k]]
  <2>4. \A k \in 0..n : h[k] = g[k] /\ (k # 0 => k - 1 \in 0..n)
    BY <2>2
  <2>5. h[n + 1] = t /\ (n + 1) - 1 = n /\ h[n] = g[n]
    BY <2>2
  <2>6. ASSUME NEW k \in 0..n + 1
        PROVE  h[k] = F(k, h[k - 1])
    <3>1. CASE k = n + 1
      BY <2>5, <3>1
    <3>2. CASE k # n + 1
      <4>1. k \in 0..n
        BY <2>2, <3>2
      <4>2. h[k] = F(k, g[k - 1])
        BY <2>3, <2>4, <4>1
      <4>. QED BY <2>4, <4>1, <4>2
    <3>. QED BY <3>1, <3>2
  <2>7. Solves(h, n + 1)
    BY <2>6
  <2>8. IsCompared(old, new, n + 1, h[n + 1])
    <3>1. h[n + 1] = Compared(old, new, g[n])
      BY <2>2, <2>5
    <3>2. IsCompared(old, new, n + 1, Compared(old, new, g[n]))
      BY <2>2, <2>3, ComparedStep
    <3>. QED BY <3>1, <3>2
  <2>. QED BY <2>7, <2>8
<1>3. T = Nat
  <2>. HIDE DEF T
  <2>1. T \in SUBSET Nat
    BY DEF T
  <2>. QED BY <1>1, <1>2, <2>1, Induct
<1>4. PICK g : Solves(g, m) /\ IsCompared(old, new, m, g[m])
  BY <1>0, <1>3
<1>. DEFINE passes == CHOOSE f : f = [n \in 0..Len(old) + Len(new) |->
                                        IF n = 0 THEN [OldIndex |-> 0, NewIndex |-> 0,
                                                       drop |-> <<>>, add |-> <<>>]
                                        ELSE Compared(old, new, f[n - 1])]
<1>5. Diff(old, new) = passes[m]
  BY DEF Diff
<1>6. passes = [n \in 0..m |-> F(n, passes[n - 1])]
  BY <1>4 DEF NothingCompared
<1>. HIDE DEF passes
<1>7. \A n \in 0..m : passes[n] = g[n]
  <2>. DEFINE U == {n \in Nat : n <= m => passes[n] = g[n]}
  <2>1. \A n \in 0..m : passes[n] = F(n, passes[n - 1]) /\ g[n] = F(n, g[n - 1])
    BY <1>4, <1>6
  <2>2. 0 \in U
    <3>1. 0 \in 0..m
      BY <1>0
    <3>. QED BY <2>1, <3>1
  <2>3. ASSUME NEW n \in U PROVE n + 1 \in U
    <3>1. SUFFICES ASSUME n + 1 <= m PROVE passes[n + 1] = g[n + 1]
      OBVIOUS
    <3>2. n \in Nat /\ n + 1 \in 0..m /\ (n + 1) - 1 = n /\ passes[n] = g[n]
      BY <1>0, <3>1
    <3>. QED BY <2>1, <3>2
  <2>4. U = Nat
    <3>. HIDE DEF U
    <3>1. U \in SUBSET Nat
      BY DEF U
    <3>. QED BY <2>2, <2>3, <3>1, Induct
  <2>. QED BY <1>0, <2>4
<1>. QED BY <1>0, <1>4, <1>5, <1>7

\* What UpdateServerList finds: the new list is what stays and what comes, each
\* entry once; and, in lists that name each server once, what leaves is not in it.
LEMMA DiffProperties ==
    ASSUME NEW old \in Seq(Infos), NEW new \in Seq(Infos)
    PROVE  \E drop, add, kept, came :
              /\ drop \in Seq(1..Len(old)) /\ add \in Seq(Infos)
              /\ Diff(old, new).drop = drop /\ Diff(old, new).add = add
              /\ IsInjective(drop) /\ ToSet(drop) \subseteq 1..Len(old) /\ Len(add) <= Len(new)
              /\ Matching(old, new, (1..Len(old)) \ ToSet(drop), add, Len(new), kept, came)
              /\ StrictById(old) /\ StrictById(new)
                   => \A p \in ToSet(drop), q \in 1..Len(new) : new[q] # old[p]
<1>1. PICK d : IsCompared(old, new, Len(old) + Len(new), d) /\ Diff(old, new) = d
  BY DiffIsCompared
<1>2. PICK i \in Nat, j \in Nat, drop \in Seq(1..Len(old)), add \in Seq(Infos) :
         /\ d = [OldIndex |-> i, NewIndex |-> j, drop |-> drop, add |-> add]
         /\ Stage(old, new, i, j, drop, add)
         /\ i + j >= Len(old) + Len(new) \/ (i = Len(old) /\ j = Len(new))
         /\ StrictById(old) /\ StrictById(new) => Apart(old, new, i, j, drop)
  BY <1>1 DEF IsCompared
<1>3. i = Len(old) /\ j = Len(new)
  <2>1. i \in 0..Len(old) /\ j \in 0..Len(new) /\ Len(old) \in Nat /\ Len(new) \in Nat
    BY <1>2, LenProperties DEF Stage
  <2>. QED BY <1>2, <2>1
<1>4. Diff(old, new).drop = drop /\ Diff(old, new).add = add
  BY <1>1, <1>2
<1>5. IsInjective(drop) /\ ToSet(drop) \subseteq 1..Len(old) /\ Len(add) <= Len(new)
  BY <1>2, <1>3 DEF Stage
<1>6. PICK kept, came : Matching(old, new, (1..Len(old)) \ ToSet(drop), add, Len(new), kept, came)
  BY <1>2, <1>3 DEF Stage
<1>7. StrictById(old) /\ StrictById(new)
        => \A p \in ToSet(drop), q \in 1..Len(new) : new[q] # old[p]
  BY <1>2 DEF Apart
<1>. QED BY <1>4, <1>5, <1>6, <1>7

-----------------------------------------------------------------------------
(* The contexts *)

PoolTypeOK ==
    /\ info \in [ServerContexts -> Infos \cup {NoInfo}]
    /\ connection \in [ServerContexts -> {"none", "closed", "connecting", "connected", "lost"}]
    /\ ActiveServerList \in Seq(ServerContexts)
    /\ UninitializedServerList \in Seq(ServerContexts)
    /\ DeleteServerList \in Seq(ServerContexts)
    /\ ClosingServerList \in Seq(ServerContexts)
    /\ wanted \in Seq(Infos) /\ Len(wanted) <= MaxListed /\ SortedById(wanted)

\* Each context that is allocated is on one vector.
ListsOfContexts ==
    /\ IsInjective(ActiveServerList) /\ IsInjective(UninitializedServerList)
    /\ IsInjective(DeleteServerList)
    /\ ToSet(ActiveServerList) \cap ToSet(UninitializedServerList) = {}
    /\ ToSet(ActiveServerList) \cap ToSet(DeleteServerList) = {}
    /\ ToSet(UninitializedServerList) \cap ToSet(DeleteServerList) = {}
    /\ ToSet(ActiveServerList) \cup ToSet(UninitializedServerList) \cup ToSet(DeleteServerList)
         = {c \in ServerContexts : info[c] # NoInfo}

ConnectionsOfContexts ==
    /\ \A c \in ServerContexts :
          connection[c] = "none" <=> info[c] = NoInfo \/ c \in ToSet(UninitializedServerList)
    /\ IsInjective(ClosingServerList)
    /\ ToSet(ClosingServerList) = {c \in ServerContexts : connection[c] = "lost"}

\* Each entry of the list has one of the contexts.
StandFor(contexts, infos, list, f) ==
    /\ f \in [contexts -> 1..Len(list)]
    /\ \A c \in contexts : infos[c] = list[f[c]]
    /\ \A c, d \in contexts : f[c] = f[d] => c = d
    /\ \A p \in 1..Len(list) : \E c \in contexts : f[c] = p

Here == ToSet(ActiveServerList) \cup ToSet(UninitializedServerList)

TableStandsForList == \E f : StandFor(Here, info, wanted, f)

PoolInv ==
    /\ PoolTypeOK /\ ListsOfContexts /\ SortedById(InfosOf(ActiveServerList))
    /\ ConnectionsOfContexts /\ TableStandsForList

\* Init establishes the invariant.
LEMMA PoolInitInv == PoolInit => PoolInv
<1>. SUFFICES ASSUME PoolInit PROVE PoolInv
  OBVIOUS
<1>1. PICK e : e = <<>>
  OBVIOUS
<1>2. /\ e \in Seq(ServerContexts) /\ e \in Seq(Infos) /\ Len(e) = 0
      /\ ToSet(e) = {} /\ IsInjective(e)
  <2>1. e \in Seq(ServerContexts) /\ e \in Seq(Infos) /\ Len(e) = 0
    BY <1>1, EmptySeq
  <2>2. DOMAIN e = {}
    BY <2>1, LenProperties
  <2>. QED BY <2>1, <2>2 DEF ToSet, IsInjective
<1>3. /\ info = [c \in ServerContexts |-> NoInfo]
      /\ connection = [c \in ServerContexts |-> "none"]
      /\ ActiveServerList = e /\ UninitializedServerList = e /\ DeleteServerList = e
      /\ ClosingServerList = e /\ wanted = e
  BY <1>1 DEF PoolInit
<1>4. PoolTypeOK
  <2>1. Len(wanted) <= MaxListed /\ SortedById(wanted)
    BY <1>2, <1>3, PoolAssumption DEF SortedById
  <2>. QED BY <1>2, <1>3, <2>1 DEF PoolTypeOK
<1>5. ListsOfContexts /\ ConnectionsOfContexts
  BY <1>2, <1>3 DEF ListsOfContexts, ConnectionsOfContexts
<1>6. SortedById(InfosOf(ActiveServerList))
  <2>1. InfosOf(ActiveServerList) = [i \in 1..Len(e) |-> info[e[i]]]
    BY <1>3 DEF InfosOf
  <2>2. 1..Len(e) = {}
    BY <1>2
  <2>3. PICK s : s = InfosOf(ActiveServerList)
    OBVIOUS
  <2>4. s = [i \in 1..0 |-> info[e[i]]]
    BY <1>2, <2>1, <2>3
  <2>5. Len(s) = 0
    BY <2>4
  <2>. QED BY <2>3, <2>5 DEF SortedById
<1>7. TableStandsForList
  <2>1. Here = {} /\ 1..Len(wanted) = {}
    BY <1>2, <1>3 DEF Here
  <2>2. [c \in {} |-> 0] \in [{} -> {}]
    OBVIOUS
  <2>3. StandFor(Here, info, wanted, [c \in {} |-> 0])
    BY <2>1, <2>2 DEF StandFor
  <2>. QED BY <2>3 DEF TableStandsForList
<1>. QED BY <1>4, <1>5, <1>6, <1>7 DEF PoolInv

\* The infos of a list of contexts that are allocated.
LEMMA InfosOfProperties ==
    ASSUME PoolTypeOK, NEW s \in Seq(ServerContexts), \A c \in ToSet(s) : info[c] # NoInfo
    PROVE  /\ InfosOf(s) \in Seq(Infos) /\ Len(InfosOf(s)) = Len(s)
           /\ \A i \in 1..Len(s) : InfosOf(s)[i] = info[s[i]] /\ info[s[i]] \in Infos
<1>1. Len(s) \in Nat /\ DOMAIN s = 1..Len(s) /\ \A i \in 1..Len(s) : s[i] \in ServerContexts
  BY LenProperties, ElementOfSeq
<1>2. \A i \in 1..Len(s) : s[i] \in ToSet(s)
  BY <1>1 DEF ToSet
<1>3. \A i \in 1..Len(s) : info[s[i]] \in Infos
  BY <1>1, <1>2 DEF PoolTypeOK
<1>4. PICK t : t = [i \in 1..Len(s) |-> info[s[i]]]
  OBVIOUS
<1>5. t \in [1..Len(s) -> Infos]
  BY <1>3, <1>4
<1>6. t \in Seq(Infos)
  BY <1>1, <1>5, SeqDef
<1>7. Len(t) = Len(s)
  BY <1>1, <1>5, <1>6, LenProperties
<1>. QED BY <1>3, <1>4, <1>6, <1>7 DEF InfosOf

\* The objects to allocate are those that are free.
LEMMA FreshProperties ==
    /\ Fresh \in Seq(ServerContexts) /\ IsInjective(Fresh)
    /\ ToSet(Fresh) = {c \in ServerContexts : info[c] = NoInfo}
<1>1. PICK s : s = [c \in ServerContexts |-> c]
  OBVIOUS
<1>2. 2 * MaxListed \in Nat
  BY PoolAssumption
<1>3. s \in [1..2 * MaxListed -> ServerContexts] /\ DOMAIN s = ServerContexts
  BY <1>1 DEF ServerContexts
<1>4. s \in Seq(ServerContexts)
  BY <1>2, <1>3, SeqDef
<1>5. IsInjective(s) /\ ToSet(s) = ServerContexts
  BY <1>1 DEF IsInjective, ToSet
<1>6. PICK t : t = Unlinked(s, {c \in ServerContexts : info[c] # NoInfo})
  OBVIOUS
<1>7. t \in Seq(ServerContexts) /\ IsInjective(t)
      /\ ToSet(t) = ToSet(s) \ {c \in ServerContexts : info[c] # NoInfo}
  BY <1>4, <1>5, <1>6, UnlinkedProperties
<1>. QED BY <1>1, <1>5, <1>6, <1>7 DEF Fresh

\* There is room for all of a new list beside the one in use.
LEMMA RoomForNewList ==
    ASSUME PoolInv, UninitializedServerList = <<>>, DeleteServerList = <<>>
    PROVE  Len(Fresh) \in Nat /\ MaxListed <= Len(Fresh)
<1>. DEFINE A == ToSet(ActiveServerList)
            B == ToSet(Fresh)
<1>1. ToSet(<<>>) = {}
  BY EmptyToSet
<1>2. Fresh \in Seq(ServerContexts) /\ IsInjective(Fresh) /\ Len(Fresh) \in Nat
  BY FreshProperties, LenProperties
<1>3. A \cup B = ServerContexts /\ A \cap B = {} /\ Here = A
  BY <1>1, FreshProperties DEF PoolInv, ListsOfContexts, Here
<1>4. IsFiniteSet(B) /\ Cardinality(B) = Len(Fresh)
  BY <1>2, CardinalityOfInjective
<1>5. IsFiniteSet(A) /\ Cardinality(A) = Len(wanted) /\ Len(wanted) \in Nat /\ Len(wanted) <= MaxListed
  <2>1. Len(wanted) \in Nat /\ Len(wanted) <= MaxListed
    BY LenProperties DEF PoolInv, PoolTypeOK
  <2>2. IsFiniteSet(A)
    BY CardinalityOfInjective DEF PoolInv, PoolTypeOK, ListsOfContexts
  <2>3. PICK f : StandFor(A, info, wanted, f)
    BY <1>3 DEF PoolInv, TableStandsForList
  <2>4. f \in Bijection(A, 1..Len(wanted))
    BY <2>3 DEF StandFor, Bijection, Injection, Surjection, IsInjective
  <2>5. Cardinality(1..Len(wanted)) = Cardinality(A)
    BY <2>2, <2>4, FS_Bijection DEF ExistsBijection
  <2>6. Cardinality(1..Len(wanted)) = Len(wanted)
    <3>1. 1 \in Int /\ Len(wanted) \in Int /\ (1 > Len(wanted) => Len(wanted) = 0)
          /\ Len(wanted) - 1 + 1 = Len(wanted)
      BY <2>1
    <3>. QED BY <3>1, FS_Interval
  <2>. QED BY <2>1, <2>2, <2>5, <2>6
<1>6. Cardinality(ServerContexts) = 2 * MaxListed /\ MaxListed \in Nat
  <2>1. MaxListed \in Nat
    BY PoolAssumption
  <2>2. 1 \in Int /\ 2 * MaxListed \in Int /\ (1 > 2 * MaxListed => 2 * MaxListed = 0)
        /\ 2 * MaxListed - 1 + 1 = 2 * MaxListed
    BY <2>1
  <2>. QED BY <2>1, <2>2, FS_Interval DEF ServerContexts
<1>7. Cardinality(A \cup B) = Cardinality(A) + Cardinality(B)
  <2>1. Cardinality(A \cup B) = Cardinality(A) + Cardinality(B) - Cardinality(A \cap B)
    BY <1>4, <1>5, FS_Union
  <2>2. Cardinality(A \cap B) = 0
    BY <1>3, FS_EmptySet
  <2>. QED BY <1>2, <1>4, <1>5, <2>1, <2>2
<1>8. 2 * MaxListed = Len(wanted) + Len(Fresh)
  BY <1>3, <1>4, <1>5, <1>6, <1>7
<1>. QED BY <1>2, <1>5, <1>6, <1>8

\* The contexts of the entries that stay, and those of the new ones, stand for
\* the new list.
Replaced(active, added, old, new, K, add, kept, came, infos) ==
    /\ active \in Seq(ServerContexts) /\ IsInjective(active)
    /\ added \in Seq(ServerContexts) /\ IsInjective(added)
    /\ ToSet(active) \cap ToSet(added) = {}
    /\ K \subseteq 1..Len(active) /\ Len(added) = Len(add)
    /\ Matching(old, new, K, add, Len(new), kept, came)
    /\ \A p \in K : infos[active[p]] = old[p]
    /\ \A k \in 1..Len(added) : infos[added[k]] = add[k]

\* Such contexts stand for the new list.
LEMMA MatchingStandsFor ==
    ASSUME NEW active, NEW added, NEW old, NEW new, NEW K, NEW add, NEW kept, NEW came, NEW infos,
           Replaced(active, added, old, new, K, add, kept, came, infos)
    PROVE  \E f : StandFor({active[p] : p \in K} \cup ToSet(added), infos, new, f)
<1>. DEFINE C == {active[p] : p \in K}
            D == ToSet(added)
            f == [c \in C \cup D |-> IF c \in D
                                     THEN came[CHOOSE k \in 1..Len(added) : added[k] = c]
                                     ELSE kept[CHOOSE p \in K : active[p] = c]]
<1>0. /\ active \in Seq(ServerContexts) /\ IsInjective(active)
      /\ added \in Seq(ServerContexts) /\ IsInjective(added)
      /\ ToSet(active) \cap ToSet(added) = {}
      /\ K \subseteq 1..Len(active) /\ Len(added) = Len(add)
      /\ Matching(old, new, K, add, Len(new), kept, came)
      /\ \A p \in K : infos[active[p]] = old[p]
      /\ \A k \in 1..Len(added) : infos[added[k]] = add[k]
  BY DEF Replaced
<1>1. /\ DOMAIN active = 1..Len(active) /\ DOMAIN added = 1..Len(added)
      /\ \A p \in K : p \in 1..Len(active) /\ active[p] \in ToSet(active)
      /\ \A k \in 1..Len(added) : added[k] \in D
      /\ \A p \in K : active[p] \in C /\ active[p] \notin D
      /\ \A c \in D : \E k \in 1..Len(added) : added[k] = c
      /\ \A c \in C : \E p \in K : active[p] = c
  <2>1. DOMAIN active = 1..Len(active) /\ DOMAIN added = 1..Len(added)
    BY <1>0, LenProperties
  <2>2. \A p \in K : p \in 1..Len(active) /\ active[p] \in ToSet(active)
    BY <1>0, <2>1 DEF ToSet
  <2>. QED BY <1>0, <2>1, <2>2 DEF ToSet
<1>. HIDE DEF C, D
<1>2. ASSUME NEW k \in 1..Len(added) PROVE f[added[k]] = came[k]
  <2>1. \A l \in 1..Len(added) : added[l] = added[k] => l = k
    BY <1>0, <1>1 DEF IsInjective
  <2>2. (CHOOSE l \in 1..Len(added) : added[l] = added[k]) = k
    BY <2>1
  <2>. QED BY <1>1, <2>2
<1>3. ASSUME NEW p \in K PROVE f[active[p]] = kept[p]
  <2>1. \A q \in K : active[q] = active[p] => q = p
    BY <1>0, <1>1 DEF IsInjective
  <2>2. (CHOOSE q \in K : active[q] = active[p]) = p
    BY <2>1
  <2>. QED BY <1>1, <2>2
<1>4. DOMAIN f = C \cup D /\ f = [c \in C \cup D |-> f[c]]
  OBVIOUS
<1>. HIDE DEF f
<1>5. /\ \A p \in K : kept[p] \in 1..Len(new)
      /\ \A k \in 1..Len(added) : came[k] \in 1..Len(new)
      /\ \A p \in K : old[p] = new[kept[p]]
      /\ \A k \in 1..Len(added) : add[k] = new[came[k]]
      /\ \A p, q \in K : kept[p] = kept[q] => p = q
      /\ \A k, l \in 1..Len(added) : came[k] = came[l] => k = l
      /\ \A p \in K, k \in 1..Len(added) : kept[p] # came[k]
      /\ \A q \in 1..Len(new) : \/ \E p \in K : kept[p] = q
                                \/ \E k \in 1..Len(added) : came[k] = q
  BY <1>0 DEF Matching
<1>6. \A c \in C \cup D : \/ \E p \in K : active[p] = c /\ f[c] = kept[p]
                          \/ \E k \in 1..Len(added) : added[k] = c /\ f[c] = came[k]
  BY <1>1, <1>2, <1>3
<1>7. ASSUME NEW c \in C \cup D PROVE f[c] \in 1..Len(new) /\ infos[c] = new[f[c]]
  <2>1. CASE \E p \in K : active[p] = c /\ f[c] = kept[p]
    <3>1. PICK p \in K : active[p] = c /\ f[c] = kept[p]
      BY <2>1
    <3>2. infos[c] = old[p] /\ old[p] = new[kept[p]]
      BY <1>0, <1>5, <3>1
    <3>. QED BY <1>5, <3>1, <3>2
  <2>2. CASE \E k \in 1..Len(added) : added[k] = c /\ f[c] = came[k]
    <3>1. PICK k \in 1..Len(added) : added[k] = c /\ f[c] = came[k]
      BY <2>2
    <3>2. infos[c] = add[k] /\ add[k] = new[came[k]]
      BY <1>0, <1>5, <3>1
    <3>. QED BY <1>5, <3>1, <3>2
  <2>. QED BY <1>6, <2>1, <2>2
<1>8. f \in [C \cup D -> 1..Len(new)]
  BY <1>4, <1>7
<1>9. \A c, d \in C \cup D : f[c] = f[d] => c = d
  BY <1>5, <1>6
<1>10. ASSUME NEW q \in 1..Len(new) PROVE \E c \in C \cup D : f[c] = q
  <2>1. CASE \E p \in K : kept[p] = q
    <3>1. PICK p \in K : kept[p] = q
      BY <2>1
    <3>. QED BY <1>1, <1>3, <3>1
  <2>2. CASE \E k \in 1..Len(added) : came[k] = q
    <3>1. PICK k \in 1..Len(added) : came[k] = q
      BY <2>2
    <3>. QED BY <1>1, <1>2, <3>1
  <2>. QED BY <1>5, <2>1, <2>2
<1>11. StandFor(C \cup D, infos, new, f)
  BY <1>7, <1>8, <1>9, <1>10 DEF StandFor
<1>. QED BY <1>11 DEF C, D

\* The lists given to UpdateServerList.
LEMMA ListsAreSorted ==
    ASSUME NEW list \in SortedLists
    PROVE  list \in Seq(Infos) /\ Len(list) <= MaxListed /\ SortedById(list)
<1>1. PICK n \in 0..MaxListed : list \in [1..n -> Infos]
  BY DEF SortedLists
<1>2. n \in Nat /\ n <= MaxListed
  BY <1>1, PoolAssumption
<1>3. list \in Seq(Infos)
  BY <1>1, <1>2, SeqDef
<1>4. Len(list) = n
  BY <1>1, <1>2, <1>3, LenProperties
<1>. QED BY <1>2, <1>3, <1>4 DEF SortedLists

\* What an update of the list finds and does.
Updated(list, drop, add, kept, came, added, dropped) ==
    /\ drop \in Seq(1..Len(ActiveServerList)) /\ ToSet(drop) \subseteq 1..Len(ActiveServerList)
    /\ add \in Seq(Infos) /\ Len(added) = Len(add)
    /\ added \in Seq(ServerContexts) /\ IsInjective(added)
    /\ ToSet(added) \subseteq {c \in ServerContexts : info[c] = NoInfo}
    /\ dropped \in Seq(ServerContexts) /\ IsInjective(dropped)
    /\ ToSet(dropped) = {ActiveServerList[p] : p \in ToSet(drop)}
    /\ Matching(InfosOf(ActiveServerList), list, (1..Len(ActiveServerList)) \ ToSet(drop), add,
                Len(list), kept, came)
    /\ StrictById(InfosOf(ActiveServerList)) /\ StrictById(list)
         => \A p \in ToSet(drop), q \in 1..Len(list) : list[q] # InfosOf(ActiveServerList)[p]
    /\ info' = [c \in ServerContexts |->
                  IF c \in ToSet(added) THEN add[CHOOSE k \in 1..Len(added) : added[k] = c]
                                        ELSE info[c]]
    /\ UninitializedServerList' = added /\ DeleteServerList' = dropped
    /\ ActiveServerList' = Unlinked(ActiveServerList, ToSet(dropped))
    /\ wanted' = list /\ UNCHANGED <<connection, ClosingServerList>>

\* The entries of the table in use.
LEMMA ActiveInfos ==
    ASSUME PoolInv
    PROVE  /\ InfosOf(ActiveServerList) \in Seq(Infos)
           /\ Len(InfosOf(ActiveServerList)) = Len(ActiveServerList)
           /\ \A i \in 1..Len(ActiveServerList) :
                 /\ InfosOf(ActiveServerList)[i] = info[ActiveServerList[i]]
                 /\ info[ActiveServerList[i]] \in Infos
<1>1. PoolTypeOK /\ ActiveServerList \in Seq(ServerContexts)
      /\ \A c \in ToSet(ActiveServerList) : info[c] # NoInfo
  BY DEF PoolInv, PoolTypeOK, ListsOfContexts
<1>. QED BY <1>1, InfosOfProperties

\* UpdateServerList, in the terms of the lemmas above.
LEMMA UpdateFinds ==
    ASSUME PoolInv, NEW list \in SortedLists, UpdateServerList(list)
    PROVE  \E drop, add, kept, came, added, dropped :
              Updated(list, drop, add, kept, came, added, dropped)
<1>1. PICK old \in Seq(Infos) : /\ old = InfosOf(ActiveServerList)
                                /\ Len(old) = Len(ActiveServerList)
  BY ActiveInfos
<1>2. list \in Seq(Infos) /\ Len(list) <= MaxListed
  BY ListsAreSorted
<1>3. PICK drop, add, kept, came :
         /\ drop \in Seq(1..Len(old)) /\ add \in Seq(Infos)
         /\ Diff(old, list).drop = drop /\ Diff(old, list).add = add
         /\ IsInjective(drop) /\ ToSet(drop) \subseteq 1..Len(old) /\ Len(add) <= Len(list)
         /\ Matching(old, list, (1..Len(old)) \ ToSet(drop), add, Len(list), kept, came)
         /\ StrictById(old) /\ StrictById(list)
              => \A p \in ToSet(drop), q \in 1..Len(list) : list[q] # old[p]
  BY <1>2, DiffProperties
<1>4. UninitializedServerList = <<>> /\ DeleteServerList = <<>>
  BY DEF UpdateServerList
<1>5. Len(add) \in Nat /\ Len(add) <= Len(Fresh)
  <2>1. Len(Fresh) \in Nat /\ MaxListed <= Len(Fresh)
    BY <1>4, RoomForNewList
  <2>2. Len(add) \in Nat /\ Len(list) \in Nat /\ Len(add) <= Len(list) /\ MaxListed \in Nat
    BY <1>2, <1>3, LenProperties, PoolAssumption
  <2>. QED BY <1>2, <2>1, <2>2
<1>6. PICK added \in Seq(ServerContexts) :
         /\ added = SubSeq(Fresh, 1, Len(add)) /\ Len(added) = Len(add) /\ IsInjective(added)
         /\ ToSet(added) \subseteq {c \in ServerContexts : info[c] = NoInfo}
  <2>1. PICK s \in Seq(ServerContexts) :
           /\ s = Fresh /\ IsInjective(s)
           /\ ToSet(s) = {c \in ServerContexts : info[c] = NoInfo}
    BY FreshProperties
  <2>2. PICK t : t = SubSeq(s, 1, Len(add))
    OBVIOUS
  <2>3. t \in Seq(ServerContexts) /\ Len(t) = Len(add) /\ IsInjective(t) /\ ToSet(t) \subseteq ToSet(s)
    BY <1>5, <2>1, <2>2, FrontOfInjective
  <2>. QED BY <2>1, <2>2, <2>3
<1>7. PICK dropped \in Seq(ServerContexts) :
         /\ dropped = [k \in 1..Len(drop) |-> ActiveServerList[drop[k]]]
         /\ IsInjective(dropped) /\ ToSet(dropped) = {ActiveServerList[p] : p \in ToSet(drop)}
  <2>1. PICK s \in Seq(ServerContexts) : s = ActiveServerList /\ IsInjective(s)
    BY DEF PoolInv, PoolTypeOK, ListsOfContexts
  <2>2. PICK t : t = [k \in 1..Len(drop) |-> s[drop[k]]]
    OBVIOUS
  <2>3. Selected(ServerContexts, s, drop, t)
    BY <1>1, <1>3, <2>1, <2>2 DEF Selected
  <2>4. t \in Seq(ServerContexts) /\ IsInjective(t) /\ ToSet(t) = {s[p] : p \in ToSet(drop)}
    BY <2>3, SelectedOfInjective
  <2>. QED BY <2>1, <2>2, <2>4
<1>8. /\ info' = [c \in ServerContexts |->
                    IF Contains(added, c) THEN add[CHOOSE k \in 1..Len(added) : added[k] = c]
                                          ELSE info[c]]
      /\ UninitializedServerList' = added /\ DeleteServerList' = dropped
      /\ ActiveServerList' = Unlinked(ActiveServerList, ToSet(dropped))
      /\ wanted' = list /\ UNCHANGED <<connection, ClosingServerList>>
  BY <1>1, <1>3, <1>6, <1>7 DEF UpdateServerList
<1>9. \A c : Contains(added, c) <=> c \in ToSet(added)
  <2>1. DOMAIN added = 1..Len(added)
    BY LenProperties
  <2>. QED BY <2>1 DEF Contains, ToSet
<1>10. info' = [c \in ServerContexts |->
                  IF c \in ToSet(added) THEN add[CHOOSE k \in 1..Len(added) : added[k] = c]
                                        ELSE info[c]]
  BY <1>8, <1>9
<1>11. Updated(list, drop, add, kept, came, added, dropped)
  BY <1>1, <1>3, <1>6, <1>7, <1>8, <1>10 DEF Updated
<1>. QED BY <1>11

\* UpdateServerList keeps the invariant.
LEMMA UpdateKeepsInv ==
    ASSUME PoolInv, NEW list \in SortedLists, UpdateServerList(list)
    PROVE  PoolInv'
<1>1. PICK drop, add, kept, came, added, dropped :
         Updated(list, drop, add, kept, came, added, dropped)
  BY UpdateFinds
<1>2. PICK active \in Seq(ServerContexts) :
         /\ active = ActiveServerList /\ IsInjective(active)
         /\ ToSet(active) = {c \in ServerContexts : info[c] # NoInfo}
         /\ UninitializedServerList = <<>> /\ DeleteServerList = <<>>
  BY EmptyToSet DEF PoolInv, PoolTypeOK, ListsOfContexts, UpdateServerList
<1>3. /\ added \in Seq(ServerContexts) /\ IsInjective(added) /\ Len(added) = Len(add)
      /\ ToSet(added) \subseteq {c \in ServerContexts : info[c] = NoInfo}
      /\ dropped \in Seq(ServerContexts) /\ IsInjective(dropped)
      /\ ToSet(dropped) = {active[p] : p \in ToSet(drop)} /\ ToSet(drop) \subseteq 1..Len(active)
      /\ add \in Seq(Infos)
  BY <1>1, <1>2 DEF Updated
<1>4. /\ DOMAIN added = 1..Len(added) /\ DOMAIN active = 1..Len(active) /\ DOMAIN dropped = 1..Len(dropped)
      /\ \A k \in 1..Len(added) : added[k] \in ToSet(added) /\ add[k] \in Infos
      /\ \A i \in 1..Len(active) : active[i] \in ToSet(active) /\ active[i] \in ServerContexts
  <2>1. DOMAIN added = 1..Len(added) /\ DOMAIN active = 1..Len(active) /\ DOMAIN dropped = 1..Len(dropped)
    BY <1>3, LenProperties
  <2>2. \A k \in 1..Len(added) : add[k] \in Infos
    BY <1>3, ElementOfSeq
  <2>3. \A i \in 1..Len(active) : active[i] \in ServerContexts
    BY ElementOfSeq
  <2>. QED BY <2>1, <2>2, <2>3 DEF ToSet
<1>5. PICK next \in Seq(ServerContexts) :
         /\ next = Unlinked(active, ToSet(dropped)) /\ IsInjective(next)
         /\ ToSet(next) = ToSet(active) \ ToSet(dropped)
         /\ \A m, n \in 1..Len(next) : m < n =>
               \E i, j \in 1..Len(active) : i < j /\ next[m] = active[i] /\ next[n] = active[j]
  BY <1>2, UnlinkedProperties
<1>6. /\ ActiveServerList' = next /\ UninitializedServerList' = added
      /\ DeleteServerList' = dropped /\ wanted' = list
      /\ connection' = connection /\ ClosingServerList' = ClosingServerList
  BY <1>1, <1>2, <1>5 DEF Updated
<1>7. info' = [c \in ServerContexts |->
                 IF c \in ToSet(added) THEN add[CHOOSE k \in 1..Len(added) : added[k] = c]
                                       ELSE info[c]]
  BY <1>1 DEF Updated
<1>8. /\ \A k \in 1..Len(added) : info'[added[k]] = add[k]
      /\ \A c \in ServerContexts \ ToSet(added) : info'[c] = info[c]
      /\ \A c \in ToSet(added) : \E k \in 1..Len(added) : added[k] = c
  <2>1. ASSUME NEW k \in 1..Len(added) PROVE info'[added[k]] = add[k]
    <3>1. \A l \in 1..Len(added) : added[l] = added[k] => l = k
      BY <1>3, <1>4 DEF IsInjective
    <3>2. (CHOOSE l \in 1..Len(added) : added[l] = added[k]) = k
      BY <3>1
    <3>3. added[k] \in ServerContexts /\ added[k] \in ToSet(added)
      BY <1>3, <1>4
    <3>. QED BY <1>7, <3>2, <3>3
  <2>2. \A c \in ServerContexts \ ToSet(added) : info'[c] = info[c]
    BY <1>7
  <2>3. \A c \in ToSet(added) : \E k \in 1..Len(added) : added[k] = c
    BY <1>4 DEF ToSet
  <2>. QED BY <2>1, <2>2, <2>3
<1>9. \A c \in ToSet(added) : c \in ServerContexts /\ info'[c] \in Infos /\ info[c] = NoInfo
  BY <1>3, <1>4, <1>8
<1>10. ToSet(dropped) \subseteq ToSet(active) /\ ToSet(active) \cap ToSet(added) = {}
  BY <1>2, <1>3, <1>4, <1>9
<1>11. PoolTypeOK'
  <2>1. info' \in [ServerContexts -> Infos \cup {NoInfo}]
    <3>1. \A c \in ServerContexts : info[c] \in Infos \cup {NoInfo}
      BY DEF PoolInv, PoolTypeOK
    <3>2. \A c \in ServerContexts : info'[c] \in Infos \cup {NoInfo}
      BY <1>8, <1>9, <3>1
    <3>3. info' = [c \in ServerContexts |-> info'[c]]
      BY <1>7
    <3>. QED BY <3>2, <3>3
  <2>2. wanted' \in Seq(Infos) /\ Len(wanted') <= MaxListed /\ SortedById(wanted)'
    BY <1>6, ListsAreSorted DEF SortedById
  <2>. QED BY <1>3, <1>5, <1>6, <2>1, <2>2 DEF PoolInv, PoolTypeOK
<1>12. ListsOfContexts'
  <2>1. {c \in ServerContexts : info'[c] # NoInfo} = ToSet(active) \cup ToSet(added)
    <3>1. \A x \in Infos : x # NoInfo
      BY PoolAssumption
    <3>. QED BY <1>2, <1>8, <1>9, <1>10, <3>1
  <2>2. /\ ToSet(next) \cap ToSet(added) = {} /\ ToSet(next) \cap ToSet(dropped) = {}
        /\ ToSet(added) \cap ToSet(dropped) = {}
        /\ ToSet(next) \cup ToSet(added) \cup ToSet(dropped) = ToSet(active) \cup ToSet(added)
    BY <1>5, <1>10
  <2>. QED BY <1>3, <1>5, <1>6, <2>1, <2>2 DEF ListsOfContexts
<1>13. ConnectionsOfContexts'
  <2>1. ToSet(UninitializedServerList) = {}
    BY <1>2, EmptyToSet
  <2>2. \A c \in ServerContexts : connection[c] = "none" <=> info[c] = NoInfo
    BY <2>1 DEF PoolInv, ConnectionsOfContexts
  <2>3. \A c \in ServerContexts : info[c] = NoInfo <=> info'[c] = NoInfo \/ c \in ToSet(added)
    <3>1. \A x \in Infos : x # NoInfo
      BY PoolAssumption
    <3>. QED BY <1>8, <1>9, <3>1
  <2>. QED BY <1>6, <2>2, <2>3 DEF PoolInv, ConnectionsOfContexts
<1>14. SortedById(InfosOf(ActiveServerList))'
  <2>1. \A c \in ToSet(next) : c \in ToSet(active) /\ c \in ServerContexts \ ToSet(added)
                               /\ info'[c] = info[c] /\ info'[c] \in Infos
    <3>1. \A c \in ToSet(active) : c \in ServerContexts /\ c \notin ToSet(added) /\ info[c] \in Infos
      BY <1>2, <1>10 DEF PoolInv, PoolTypeOK
    <3>. QED BY <1>5, <1>8, <3>1
  <2>2. PICK s : s = [i \in 1..Len(next) |-> info'[next[i]]]
    OBVIOUS
  <2>3. Len(next) \in Nat /\ DOMAIN next = 1..Len(next) /\ \A i \in 1..Len(next) : next[i] \in ToSet(next)
    BY LenProperties DEF ToSet
  <2>4. Len(s) = Len(next)
    <3>1. s \in [1..Len(next) -> Infos]
      BY <2>1, <2>2, <2>3
    <3>2. s \in Seq(Infos)
      BY <2>3, <3>1, SeqDef
    <3>. QED BY <2>3, <3>1, <3>2, LenProperties
  <2>5. \A i, j \in 1..Len(active) : i < j => info[active[i]].id <= info[active[j]].id
    <3>1. SortedById(InfosOf(active)) /\ Len(InfosOf(active)) = Len(active)
          /\ \A i \in 1..Len(active) : InfosOf(active)[i] = info[active[i]]
      BY <1>2, ActiveInfos DEF PoolInv
    <3>. QED BY <3>1 DEF SortedById
  <2>6. ASSUME NEW m \in 1..Len(next), NEW n \in 1..Len(next), m < n
        PROVE  s[m].id <= s[n].id
    <3>1. PICK i, j \in 1..Len(active) : i < j /\ next[m] = active[i] /\ next[n] = active[j]
      BY <1>5, <2>6
    <3>2. s[m] = info[active[i]] /\ s[n] = info[active[j]]
      BY <2>1, <2>2, <2>3, <3>1
    <3>. QED BY <2>5, <3>1, <3>2
  <2>7. SortedById(s)
    BY <2>4, <2>6 DEF SortedById
  <2>8. InfosOf(ActiveServerList)' = s
    BY <1>6, <2>2 DEF InfosOf
  <2>. QED BY <2>7, <2>8 DEF SortedById
<1>15. TableStandsForList'
  <2>. DEFINE K == (1..Len(active)) \ ToSet(drop)
  <2>1. PICK old : old = InfosOf(active)
    OBVIOUS
  <2>2. \A p \in 1..Len(active) : old[p] = info[active[p]]
    BY <1>2, <2>1, ActiveInfos
  <2>3. \A p \in K : info'[active[p]] = old[p]
    BY <1>4, <1>8, <1>10, <2>2
  <2>4. Matching(old, list, K, add, Len(list), kept, came)
    BY <1>1, <1>2, <2>1 DEF Updated
  <2>5. PICK infos : infos = info'
    OBVIOUS
  <2>6. \E f : StandFor({active[p] : p \in K} \cup ToSet(added), infos, list, f)
    <3>1. \A p \in K : infos[active[p]] = old[p]
      BY <2>3, <2>5
    <3>2. \A k \in 1..Len(added) : infos[added[k]] = add[k]
      BY <1>8, <2>5
    <3>3. K \subseteq 1..Len(active)
      OBVIOUS
    <3>. HIDE DEF K
    <3>4. Replaced(active, added, old, list, K, add, kept, came, infos)
      BY <1>2, <1>3, <1>10, <2>4, <3>1, <3>2, <3>3 DEF Replaced
    <3>. QED BY <3>4, MatchingStandsFor
  <2>7. {active[p] : p \in K} = ToSet(next)
    <3>1. \A c : c \in ToSet(next) <=> c \in ToSet(active) /\ ~\E q \in ToSet(drop) : c = active[q]
      BY <1>3, <1>5
    <3>2. \A p, q \in 1..Len(active) : active[p] = active[q] => p = q
      BY <1>2, <1>4 DEF IsInjective
    <3>3. \A c : c \in ToSet(active) <=> \E p \in 1..Len(active) : c = active[p]
      BY <1>4 DEF ToSet
    <3>4. ASSUME NEW c \in ToSet(next) PROVE c \in {active[p] : p \in K}
      <4>1. PICK p \in 1..Len(active) : c = active[p]
        BY <3>1, <3>3, <3>4
      <4>2. p \notin ToSet(drop)
        BY <3>1, <3>4, <4>1
      <4>. QED BY <4>1, <4>2
    <3>5. ASSUME NEW p \in K PROVE active[p] \in ToSet(next)
      BY <1>3, <3>1, <3>2, <3>3, <3>5
    <3>. QED BY <3>4, <3>5
  <2>8. \E f : StandFor(Here', info', wanted', f)
    BY <1>6, <2>5, <2>6, <2>7 DEF Here
  <2>. QED BY <2>8 DEF TableStandsForList, StandFor
<1>. QED BY <1>11, <1>12, <1>13, <1>14, <1>15 DEF PoolInv

\* std::sort keeps the contexts of the table.
LEMMA SortsProperties ==
    ASSUME NEW u \in Seq(ServerContexts), IsInjective(u), NEW s \in Sorts(u)
    PROVE  /\ s \in Seq(ServerContexts) /\ IsInjective(s) /\ ToSet(s) = ToSet(u)
           /\ SortedById(InfosOf(s))
<1>1. PICK T, n : T = ToSet(u) /\ n = Cardinality(T) /\ n = Len(u) /\ n \in Nat /\ IsFiniteSet(T)
  BY CardinalityOfInjective, LenProperties
<1>2. s \in [1..n -> T] /\ (\A i, j \in 1..n : i # j => s[i] # s[j]) /\ SortedById(InfosOf(s))
  BY <1>1 DEF Sorts, SetToSeqs
<1>3. IsInjective(s)
  BY <1>2 DEF IsInjective
<1>4. s \in Injection(1..n, T)
  BY <1>2, <1>3 DEF Injection
<1>5. Cardinality(1..n) = n
  <2>1. 1 \in Int /\ n \in Int /\ (1 > n => n = 0) /\ n - 1 + 1 = n
    BY <1>1
  <2>. QED BY <2>1, FS_Interval
<1>6. s \in Surjection(1..n, T)
  BY <1>1, <1>4, <1>5, FS_Injection
<1>7. ToSet(s) = T
  BY <1>2, <1>6 DEF Surjection, ToSet
<1>8. s \in Seq(ServerContexts)
  <2>1. T \subseteq ServerContexts
    BY <1>1, LenProperties, ElementOfSeq DEF ToSet
  <2>2. s \in [1..n -> ServerContexts]
    BY <1>2, <2>1
  <2>. QED BY <1>1, <2>2, SeqDef
<1>. QED BY <1>1, <1>2, <1>3, <1>7, <1>8

\* The infos of a list do not change when those of its contexts do not.
LEMMA SameInfosSorted ==
    ASSUME NEW s \in Seq(ServerContexts), NEW t, t = s, SortedById(InfosOf(s)),
           \A c \in ToSet(s) : info'[c] = info[c]
    PROVE  SortedById([i \in 1..Len(t) |-> info'[t[i]]])
<1>1. DOMAIN s = 1..Len(s)
  BY LenProperties
<1>2. \A i \in 1..Len(s) : info'[s[i]] = info[s[i]]
  BY <1>1 DEF ToSet
<1>3. [i \in 1..Len(t) |-> info'[t[i]]] = [i \in 1..Len(s) |-> info[s[i]]]
  BY <1>2
<1>. QED BY <1>3 DEF InfosOf

\* Tick keeps the invariant.
LEMMA PoolTickKeepsInv ==
    ASSUME PoolInv, NEW F, PoolTick(F)
    PROVE  PoolInv'
<1>1. PICK deleted, opened :
         /\ deleted = ToSet(DeleteServerList)
         /\ opened = ToSet(UninitializedServerList) \cup (ToSet(ClosingServerList) \ deleted)
  OBVIOUS
<1>2. /\ IF UninitializedServerList = <<>> THEN ActiveServerList' = ActiveServerList
         ELSE ActiveServerList' \in Sorts(ActiveServerList \o UninitializedServerList)
      /\ info' = [c \in ServerContexts |-> IF c \in deleted THEN NoInfo ELSE info[c]]
      /\ connection' = [c \in ServerContexts |->
                          CASE c \in deleted -> "none"
                            [] c \in opened -> IF c \in F THEN "closed" ELSE "connecting"
                            [] OTHER -> connection[c]]
      /\ UninitializedServerList' = <<>> /\ DeleteServerList' = <<>> /\ ClosingServerList' = <<>>
      /\ wanted' = wanted
  BY <1>1 DEF PoolTick
<1>3. PICK next \in Seq(ServerContexts) :
         /\ next = ActiveServerList' /\ IsInjective(next) /\ ToSet(next) = Here
         /\ SortedById(InfosOf(next))
  <2>1. PICK u \in Seq(ServerContexts), v \in Seq(ServerContexts) :
           /\ u = ActiveServerList /\ v = UninitializedServerList
           /\ IsInjective(u) /\ IsInjective(v) /\ ToSet(u) \cap ToSet(v) = {}
    BY DEF PoolInv, PoolTypeOK, ListsOfContexts
  <2>2. CASE v = <<>>
    <3>1. Here = ToSet(u)
      BY <2>1, <2>2, EmptyToSet DEF Here
    <3>. QED BY <1>2, <2>1, <2>2, <3>1 DEF PoolInv
  <2>3. CASE v # <<>>
    <3>1. PICK w \in Seq(ServerContexts) :
             w = u \o v /\ IsInjective(w) /\ ToSet(w) = ToSet(u) \cup ToSet(v)
      <4>1. u \o v \in Seq(ServerContexts) /\ ToSet(u \o v) = ToSet(u) \cup ToSet(v)
        BY ConcatOfInjective
      <4>2. IsInjective(u \o v)
        BY <2>1, ConcatOfInjective
      <4>. QED BY <4>1, <4>2
    <3>2. ActiveServerList' \in Sorts(w)
      BY <1>2, <2>1, <2>3, <3>1
    <3>3. PICK s \in Sorts(w) : s = ActiveServerList'
      BY <3>2
    <3>4. s \in Seq(ServerContexts) /\ IsInjective(s) /\ ToSet(s) = ToSet(w) /\ SortedById(InfosOf(s))
      BY <3>1, SortsProperties
    <3>. QED BY <2>1, <3>1, <3>3, <3>4 DEF Here
  <2>. QED BY <2>2, <2>3
<1>4. /\ Here \subseteq ServerContexts /\ deleted \subseteq ServerContexts /\ Here \cap deleted = {}
      /\ Here \cup deleted = {c \in ServerContexts : info[c] # NoInfo}
      /\ ToSet(UninitializedServerList) \subseteq Here
  BY <1>1 DEF PoolInv, ListsOfContexts, Here
<1>5. /\ \A c \in ServerContexts \ deleted : info'[c] = info[c]
      /\ \A c \in deleted : info'[c] = NoInfo
  BY <1>2, <1>4
<1>6. /\ \A c \in deleted : connection'[c] = "none"
      /\ \A c \in ServerContexts \ deleted :
            /\ c \in opened => connection'[c] \in {"closed", "connecting"}
            /\ c \notin opened => connection'[c] = connection[c]
  <2>1. ASSUME NEW c \in deleted PROVE connection'[c] = "none"
    <3>1. c \in ServerContexts /\ c \notin opened
      BY <1>1, <1>4
    <3>. QED BY <1>2, <3>1
  <2>2. ASSUME NEW c \in ServerContexts \ deleted
        PROVE  /\ c \in opened => connection'[c] \in {"closed", "connecting"}
               /\ c \notin opened => connection'[c] = connection[c]
    BY <1>2
  <2>. QED BY <2>1, <2>2
<1>7. PoolTypeOK'
  <2>1. info' \in [ServerContexts -> Infos \cup {NoInfo}]
    <3>1. \A c \in ServerContexts : info'[c] \in Infos \cup {NoInfo}
      BY <1>5 DEF PoolInv, PoolTypeOK
    <3>2. info' = [c \in ServerContexts |-> info'[c]]
      BY <1>2
    <3>. QED BY <3>1, <3>2
  <2>2. connection' \in [ServerContexts -> {"none", "closed", "connecting", "connected", "lost"}]
    <3>1. \A c \in ServerContexts :
             connection[c] \in {"none", "closed", "connecting", "connected", "lost"}
      BY DEF PoolInv, PoolTypeOK
    <3>2. \A c \in ServerContexts :
             connection'[c] \in {"none", "closed", "connecting", "connected", "lost"}
      BY <1>6, <3>1
    <3>3. connection' = [c \in ServerContexts |-> connection'[c]]
      BY <1>2
    <3>. QED BY <3>2, <3>3
  <2>3. <<>> \in Seq(ServerContexts)
    BY EmptySeq
  <2>4. wanted' \in Seq(Infos) /\ Len(wanted') <= MaxListed /\ SortedById(wanted)'
    BY <1>2 DEF PoolInv, PoolTypeOK, SortedById
  <2>. QED BY <1>2, <1>3, <2>1, <2>2, <2>3, <2>4 DEF PoolTypeOK
<1>8. PICK e : e = <<>> /\ ToSet(e) = {} /\ IsInjective(e)
  BY EmptyToSet
<1>9. ListsOfContexts'
  <2>1. Here = {c \in ServerContexts : info'[c] # NoInfo}
    BY <1>4, <1>5
  <2>. QED BY <1>2, <1>3, <1>8, <2>1 DEF ListsOfContexts
<1>10. ConnectionsOfContexts'
  <2>1. \A c \in ServerContexts :
           connection[c] = "none" <=> info[c] = NoInfo \/ c \in ToSet(UninitializedServerList)
    BY DEF PoolInv, ConnectionsOfContexts
  <2>2. \A c \in ServerContexts : connection'[c] = "none" <=> info'[c] = NoInfo
    <3>1. \A c \in deleted : connection'[c] = "none" /\ info'[c] = NoInfo
      BY <1>5, <1>6
    <3>2. ASSUME NEW c \in ServerContexts \ deleted
          PROVE  connection'[c] = "none" <=> info'[c] = NoInfo
      <4>1. CASE c \in ToSet(UninitializedServerList)
        BY <1>1, <1>4, <1>5, <1>6, <4>1
      <4>2. CASE c \in opened /\ c \notin ToSet(UninitializedServerList)
        <5>1. connection[c] = "lost"
          BY <1>1, <4>2 DEF PoolInv, ConnectionsOfContexts
        <5>. QED BY <1>5, <1>6, <2>1, <4>2, <5>1
      <4>3. CASE c \notin opened
        BY <1>1, <1>5, <1>6, <2>1, <4>3
      <4>. QED BY <4>1, <4>2, <4>3
    <3>. QED BY <3>1, <3>2
  <2>3. ASSUME NEW c \in ServerContexts PROVE connection'[c] # "lost"
    <3>1. CASE c \in deleted
      BY <1>6, <3>1
    <3>2. CASE c \notin deleted /\ c \in opened
      BY <1>6, <3>2
    <3>3. CASE c \notin deleted /\ c \notin opened
      <4>1. connection[c] # "lost"
        BY <1>1, <3>3 DEF PoolInv, ConnectionsOfContexts
      <4>. QED BY <1>6, <3>3, <4>1
    <3>. QED BY <3>1, <3>2, <3>3
  <2>4. ClosingServerList' = e /\ UninitializedServerList' = e
    BY <1>2, <1>8
  <2>. QED BY <1>8, <2>2, <2>3, <2>4 DEF ConnectionsOfContexts
<1>11. SortedById(InfosOf(ActiveServerList))'
  <2>1. \A c \in ToSet(next) : info'[c] = info[c]
    BY <1>3, <1>4, <1>5
  <2>2. PICK t : t = ActiveServerList'
    OBVIOUS
  <2>3. SortedById([i \in 1..Len(t) |-> info'[t[i]]])
    BY <1>3, <2>1, <2>2, SameInfosSorted
  <2>. QED BY <2>2, <2>3 DEF SortedById, InfosOf
<1>12. TableStandsForList'
  <2>1. PICK f : StandFor(Here, info, wanted, f)
    BY DEF PoolInv, TableStandsForList
  <2>2. Here' = Here
    BY <1>2, <1>3, <1>8 DEF Here
  <2>3. \A c \in Here : info'[c] = info[c]
    BY <1>4, <1>5
  <2>4. StandFor(Here', info', wanted', f)
    BY <1>2, <2>1, <2>2, <2>3 DEF StandFor
  <2>. QED BY <2>4 DEF TableStandsForList, StandFor
<1>. QED BY <1>7, <1>9, <1>10, <1>11, <1>12 DEF PoolInv

\* So does a connection that is established,
LEMMA PoolConnectedKeepsInv ==
    ASSUME PoolInv, NEW c \in ServerContexts, PoolConnected(c)
    PROVE  PoolInv'
<1>1. /\ connection[c] = "connecting"
      /\ connection' = [connection EXCEPT ![c] = "connected"]
      /\ info' = info /\ wanted' = wanted
      /\ ActiveServerList' = ActiveServerList /\ UninitializedServerList' = UninitializedServerList
      /\ DeleteServerList' = DeleteServerList /\ ClosingServerList' = ClosingServerList
  BY DEF PoolConnected, poolLists
<1>2. PoolTypeOK'
  BY <1>1 DEF PoolInv, PoolTypeOK, SortedById
<1>3. ListsOfContexts'
  BY <1>1 DEF PoolInv, ListsOfContexts
<1>4. \A d \in ServerContexts : /\ connection'[d] = "none" <=> connection[d] = "none"
                                /\ connection'[d] = "lost" <=> connection[d] = "lost"
  BY <1>1 DEF PoolInv, PoolTypeOK
<1>5. ConnectionsOfContexts'
  BY <1>1, <1>4 DEF PoolInv, ConnectionsOfContexts
<1>6. SortedById(InfosOf(ActiveServerList))'
  BY <1>1 DEF PoolInv, SortedById, InfosOf
<1>7. TableStandsForList'
  <2>1. PICK f : StandFor(Here, info, wanted, f)
    BY DEF PoolInv, TableStandsForList
  <2>2. Here' = Here
    BY <1>1 DEF Here
  <2>3. StandFor(Here', info', wanted', f)
    BY <1>1, <2>1, <2>2
  <2>. QED BY <2>3 DEF TableStandsForList, StandFor
<1>. QED BY <1>2, <1>3, <1>5, <1>6, <1>7 DEF PoolInv

\* and one that its peer closes.
LEMMA PoolPeerCloseKeepsInv ==
    ASSUME PoolInv, NEW c \in ServerContexts, PoolPeerClose(c)
    PROVE  PoolInv'
<1>1. /\ connection[c] \in {"connecting", "connected"}
      /\ connection' = [connection EXCEPT ![c] = "lost"]
      /\ info' = info /\ wanted' = wanted
      /\ ActiveServerList' = ActiveServerList /\ UninitializedServerList' = UninitializedServerList
      /\ DeleteServerList' = DeleteServerList
  BY DEF PoolPeerClose
<1>2. PICK s \in Seq(ServerContexts) :
         /\ s = ClosingServerList /\ IsInjective(s)
         /\ ToSet(s) = {d \in ServerContexts : connection[d] = "lost"}
  BY DEF PoolInv, PoolTypeOK, ConnectionsOfContexts
<1>3. c \notin ToSet(s)
  BY <1>1, <1>2
<1>4. PICK t \in Seq(ServerContexts) :
         t = ClosingServerList' /\ IsInjective(t) /\ ToSet(t) = ToSet(s) \cup {c}
  <2>1. PICK t : t = Append(s, c)
    OBVIOUS
  <2>2. t \in Seq(ServerContexts) /\ IsInjective(t) /\ ToSet(t) = ToSet(s) \cup {c}
    BY <1>2, <1>3, <2>1, AppendToInjective
  <2>. QED BY <1>2, <2>1, <2>2 DEF PoolPeerClose
<1>5. PoolTypeOK'
  BY <1>1, <1>4 DEF PoolInv, PoolTypeOK, SortedById
<1>6. ListsOfContexts'
  BY <1>1 DEF PoolInv, ListsOfContexts
<1>7. \A d \in ServerContexts : /\ connection'[d] = "none" <=> connection[d] = "none"
                                /\ connection'[d] = "lost" <=> connection[d] = "lost" \/ d = c
  BY <1>1 DEF PoolInv, PoolTypeOK
<1>8. ConnectionsOfContexts'
  BY <1>1, <1>2, <1>4, <1>7 DEF PoolInv, ConnectionsOfContexts
<1>9. SortedById(InfosOf(ActiveServerList))'
  BY <1>1 DEF PoolInv, SortedById, InfosOf
<1>10. TableStandsForList'
  <2>1. PICK f : StandFor(Here, info, wanted, f)
    BY DEF PoolInv, TableStandsForList
  <2>2. Here' = Here
    BY <1>1 DEF Here
  <2>3. StandFor(Here', info', wanted', f)
    BY <1>1, <2>1, <2>2
  <2>. QED BY <2>3 DEF TableStandsForList, StandFor
<1>. QED BY <1>5, <1>6, <1>8, <1>9, <1>10 DEF PoolInv

\* The invariant is inductive.
LEMMA PoolStep == PoolInv /\ [PoolNext]_poolVars => PoolInv'
<1>. SUFFICES ASSUME PoolInv, [PoolNext]_poolVars PROVE PoolInv'
  OBVIOUS
<1>1. CASE \E list \in SortedLists : UpdateServerList(list)
  BY <1>1, UpdateKeepsInv
<1>2. CASE \E F \in SUBSET (ToSet(UninitializedServerList) \cup ToSet(ClosingServerList)) : PoolTick(F)
  BY <1>2, PoolTickKeepsInv
<1>3. CASE \E c \in ServerContexts : PoolConnected(c)
  BY <1>3, PoolConnectedKeepsInv
<1>4. CASE \E c \in ServerContexts : PoolPeerClose(c)
  BY <1>4, PoolPeerCloseKeepsInv
<1>5. CASE UNCHANGED poolVars
  <2>1. /\ connection' = connection /\ info' = info /\ wanted' = wanted
        /\ ActiveServerList' = ActiveServerList
        /\ UninitializedServerList' = UninitializedServerList
        /\ DeleteServerList' = DeleteServerList /\ ClosingServerList' = ClosingServerList
    BY <1>5 DEF poolVars, poolLists
  <2>2. PoolTypeOK' /\ ListsOfContexts' /\ ConnectionsOfContexts'
    BY <2>1 DEF PoolInv, PoolTypeOK, SortedById, ListsOfContexts, ConnectionsOfContexts
  <2>3. SortedById(InfosOf(ActiveServerList))'
    BY <2>1 DEF PoolInv, SortedById, InfosOf
  <2>4. TableStandsForList'
    <3>1. PICK f : StandFor(Here, info, wanted, f)
      BY DEF PoolInv, TableStandsForList
    <3>2. Here' = Here
      BY <2>1 DEF Here
    <3>3. StandFor(Here', info', wanted', f)
      BY <2>1, <3>1, <3>2
    <3>. QED BY <3>3 DEF TableStandsForList, StandFor
  <2>. QED BY <2>2, <2>3, <2>4 DEF PoolInv
<1>. QED BY <1>1, <1>2, <1>3, <1>4, <1>5 DEF PoolNext

\* It implies that lists of contexts and connections agree,
LEMMA PoolInvContexts == PoolInv => ContextsConsistent
<1>. SUFFICES ASSUME PoolInv PROVE ContextsConsistent
  OBVIOUS
<1>1. PICK u \in Seq(ServerContexts), v \in Seq(ServerContexts), w \in Seq(ServerContexts) :
         /\ u = ActiveServerList /\ v = UninitializedServerList /\ w = DeleteServerList
         /\ IsInjective(u) /\ IsInjective(v) /\ IsInjective(w)
         /\ ToSet(u) \cap ToSet(v) = {} /\ ToSet(u) \cap ToSet(w) = {} /\ ToSet(v) \cap ToSet(w) = {}
         /\ ToSet(u) \cup ToSet(v) \cup ToSet(w) = {c \in ServerContexts : info[c] # NoInfo}
  BY DEF PoolInv, PoolTypeOK, ListsOfContexts
<1>2. PICK x \in Seq(ServerContexts) :
         x = u \o v /\ IsInjective(x) /\ ToSet(x) = ToSet(u) \cup ToSet(v)
  <2>1. u \o v \in Seq(ServerContexts) /\ ToSet(u \o v) = ToSet(u) \cup ToSet(v)
    BY ConcatOfInjective
  <2>2. IsInjective(u \o v)
    BY <1>1, ConcatOfInjective
  <2>. QED BY <2>1, <2>2
<1>3. PICK all : all = x \o w
  OBVIOUS
<1>4. IsInjective(all) /\ ToSet(all) = ToSet(x) \cup ToSet(w)
  <2>1. ToSet(x \o w) = ToSet(x) \cup ToSet(w)
    BY ConcatOfInjective
  <2>2. ToSet(x) \cap ToSet(w) = {}
    BY <1>1, <1>2
  <2>3. IsInjective(x \o w)
    BY <1>1, <1>2, <2>2, ConcatOfInjective
  <2>. QED BY <1>3, <2>1, <2>3
<1>5. all = ActiveServerList \o UninitializedServerList \o DeleteServerList
  BY <1>1, <1>2, <1>3
<1>6. ToSet(all) = {c \in ServerContexts : info[c] # NoInfo}
  BY <1>1, <1>2, <1>4
<1>7. \A c : Contains(UninitializedServerList, c) <=> c \in ToSet(v)
  <2>1. DOMAIN v = 1..Len(v)
    BY LenProperties
  <2>. QED BY <1>1, <2>1 DEF Contains, ToSet
<1>8. \A c \in ToSet(all) : connection[c] = "none" <=> Contains(UninitializedServerList, c)
  BY <1>1, <1>6, <1>7 DEF PoolInv, ConnectionsOfContexts
<1>. QED BY <1>4, <1>5, <1>6, <1>8
     DEF PoolInv, PoolTypeOK, ConnectionsOfContexts, ContextsConsistent

\* When each entry of a sorted list has one of its own in another as long, no id
\* of the first is greater than the id in the same place of the second.
LEMMA SortedAlike ==
    ASSUME NEW s \in Seq(Infos), NEW t \in Seq(Infos), SortedById(s), SortedById(t),
           Len(s) = Len(t), NEW g \in [1..Len(s) -> 1..Len(t)],
           \A i \in 1..Len(s) : s[i] = t[g[i]],
           \A i, j \in 1..Len(s) : g[i] = g[j] => i = j,
           NEW i \in 1..Len(s)
    PROVE  s[i].id <= t[i].id
<1>1. /\ Len(s) \in Nat /\ i \in Nat /\ i \in 1..Len(t)
      /\ \A k \in 1..Len(s) : s[k].id \in Nat /\ t[k].id \in Nat
  BY EntryOfList
<1>2. SUFFICES ASSUME t[i].id < s[i].id PROVE FALSE
  BY <1>1
<1>3. ASSUME NEW k \in i..Len(s) PROVE g[k] \in i + 1..Len(s)
  <2>1. k \in 1..Len(s) /\ g[k] \in 1..Len(s)
    <3>1. k \in 1..Len(s)
      BY <1>1
    <3>2. g[k] \in 1..Len(t)
      BY <3>1
    <3>. QED BY <3>1, <3>2
  <2>2. s[i].id <= s[k].id
    <3>1. CASE k = i
      BY <1>1, <3>1
    <3>2. CASE k # i
      <4>1. i < k
        BY <1>1, <3>2
      <4>. QED BY <2>1, <4>1 DEF SortedById
    <3>. QED BY <3>1, <3>2
  <2>3. t[i].id < t[g[k]].id
    BY <1>1, <1>2, <2>1, <2>2
  <2>4. ~(g[k] < i) /\ g[k] # i
    BY <1>1, <2>1, <2>3 DEF SortedById
  <2>. QED BY <1>1, <2>1, <2>4
<1>4. PICK S, T : S = i..Len(s) /\ T = i + 1..Len(s)
  OBVIOUS
<1>5. /\ IsFiniteSet(S) /\ Cardinality(S) = Len(s) - i + 1
      /\ IsFiniteSet(T) /\ Cardinality(T) = Len(s) - i
  <2>1. i \in Int /\ i + 1 \in Int /\ Len(s) \in Int /\ ~(i > Len(s))
        /\ (i + 1 > Len(s) => Len(s) - i = 0) /\ Len(s) - (i + 1) + 1 = Len(s) - i
    BY <1>1
  <2>. QED BY <1>4, <2>1, FS_Interval
<1>. DEFINE h == [k \in S |-> g[k]]
<1>6. h \in [S -> T] /\ \A k \in S : k \in 1..Len(s) /\ h[k] = g[k]
  BY <1>1, <1>3, <1>4
<1>7. Cardinality(T) < Cardinality(S)
  BY <1>1, <1>5
<1>8. PICK k \in S, l \in S : k # l /\ h[k] = h[l]
  <2>. HIDE DEF h
  <2>. QED BY <1>5, <1>6, <1>7, FS_PigeonHole
<1>. QED BY <1>6, <1>8

\* Two sorted lists with the same entries, each as often in one as in the other.
Alike(s, t, g) ==
    /\ s \in Seq(Infos) /\ t \in Seq(Infos) /\ SortedById(s) /\ SortedById(t)
    /\ Len(s) = Len(t) /\ g \in [1..Len(s) -> 1..Len(t)]
    /\ \A i \in 1..Len(s) : s[i] = t[g[i]]
    /\ \A i, j \in 1..Len(s) : g[i] = g[j] => i = j
    /\ \A j \in 1..Len(t) : \E i \in 1..Len(s) : g[i] = j

\* They name the same server in each place.
LEMMA AlikeInPlaces ==
    ASSUME NEW s, NEW t, NEW g, Alike(s, t, g)
    PROVE  \A i \in 1..Len(s) : s[i].id = t[i].id
<1>1. s \in Seq(Infos) /\ t \in Seq(Infos) /\ Len(s) = Len(t) /\ SortedById(s) /\ SortedById(t)
  BY DEF Alike
<1>2. SUFFICES ASSUME NEW i \in 1..Len(s) PROVE s[i].id = t[i].id
  OBVIOUS
<1>3. s[i].id <= t[i].id
  <2>1. /\ g \in [1..Len(s) -> 1..Len(t)]
        /\ \A k \in 1..Len(s) : s[k] = t[g[k]]
        /\ \A k, l \in 1..Len(s) : g[k] = g[l] => k = l
    BY DEF Alike
  <2>. QED BY <1>1, <2>1, SortedAlike
<1>4. t[i].id <= s[i].id
  <2>. DEFINE h == [j \in 1..Len(t) |-> CHOOSE k \in 1..Len(s) : g[k] = j]
  <2>1. \A j \in 1..Len(t) : h[j] \in 1..Len(s) /\ g[h[j]] = j
    BY DEF Alike
  <2>2. h \in [1..Len(t) -> 1..Len(s)]
    BY <2>1
  <2>. HIDE DEF h
  <2>3. \A j \in 1..Len(t) : t[j] = s[h[j]]
    BY <2>1 DEF Alike
  <2>4. \A j, k \in 1..Len(t) : h[j] = h[k] => j = k
    BY <2>1
  <2>5. i \in 1..Len(t)
    BY <1>1
  <2>. QED BY <1>1, <2>2, <2>3, <2>4, <2>5, SortedAlike
<1>5. s[i].id \in Nat /\ t[i].id \in Nat
  BY <1>1, EntryOfList
<1>. QED BY <1>3, <1>4, <1>5

\* They have each entry equally often.
LEMMA AlikeCounts ==
    ASSUME NEW s, NEW t, NEW g, Alike(s, t, g), NEW x
    PROVE  Count(s, x) = Count(t, x)
<1>1. Len(s) \in Nat /\ Len(s) = Len(t)
  BY LenProperties DEF Alike
<1>2. PICK P, Q : P = {i \in 1..Len(s) : s[i] = x} /\ Q = {j \in 1..Len(t) : t[j] = x}
  OBVIOUS
<1>. DEFINE h == [i \in P |-> g[i]]
<1>3. \A i \in P : h[i] \in Q
  BY <1>2 DEF Alike
<1>4. \A i, j \in P : h[i] = h[j] => i = j
  BY <1>2 DEF Alike
<1>5. ASSUME NEW j \in Q PROVE \E i \in P : h[i] = j
  <2>1. j \in 1..Len(t) /\ t[j] = x
    BY <1>2
  <2>2. PICK i \in 1..Len(s) : g[i] = j
    BY <2>1 DEF Alike
  <2>3. s[i] = x
    BY <2>1, <2>2 DEF Alike
  <2>4. i \in P
    BY <1>2, <2>3
  <2>. QED BY <2>2, <2>4
<1>6. h \in [P -> Q]
  BY <1>3
<1>. HIDE DEF h
<1>7. h \in Bijection(P, Q)
  BY <1>4, <1>5, <1>6 DEF Bijection, Injection, Surjection, IsInjective
<1>8. IsFiniteSet(P)
  <2>1. IsFiniteSet(1..Len(s))
    <3>1. 1 \in Int /\ Len(s) \in Int
      BY <1>1
    <3>. QED BY <3>1, FS_Interval
  <2>2. P \in SUBSET (1..Len(s))
    BY <1>2
  <2>. QED BY <2>1, <2>2, FS_Subset
<1>9. Cardinality(Q) = Cardinality(P)
  BY <1>7, <1>8, FS_Bijection DEF ExistsBijection
<1>. QED BY <1>2, <1>9 DEF Count

\* Without new servers, the table in use and the last list given are alike.
LEMMA TableAlike ==
    ASSUME PoolInv, UninitializedServerList = <<>>
    PROVE  \E g : Alike(InfosOf(ActiveServerList), wanted, g)
<1>1. PICK s \in Seq(Infos) :
         /\ s = InfosOf(ActiveServerList) /\ Len(s) = Len(ActiveServerList)
         /\ \A i \in 1..Len(s) : s[i] = info[ActiveServerList[i]]
  BY ActiveInfos
<1>2. PICK u \in Seq(ServerContexts) : u = ActiveServerList /\ IsInjective(u)
  BY DEF PoolInv, PoolTypeOK, ListsOfContexts
<1>3. Len(u) \in Nat /\ DOMAIN u = 1..Len(u)
  BY LenProperties
<1>4. Here = ToSet(u)
  BY <1>2, EmptyToSet DEF Here
<1>5. PICK f : StandFor(ToSet(u), info, wanted, f)
  BY <1>4 DEF PoolInv, TableStandsForList
<1>6. wanted \in Seq(Infos) /\ Len(wanted) \in Nat /\ SortedById(wanted)
  BY LenProperties DEF PoolInv, PoolTypeOK
<1>7. \A i \in 1..Len(u) : u[i] \in ToSet(u)
  BY <1>3 DEF ToSet
<1>8. \A c \in ToSet(u) : \E i \in 1..Len(u) : u[i] = c
  BY <1>3 DEF ToSet
<1>9. \A i, j \in 1..Len(u) : u[i] = u[j] => i = j
  BY <1>2, <1>3 DEF IsInjective
<1>10. Len(u) = Len(wanted)
  <2>1. f \in Bijection(ToSet(u), 1..Len(wanted))
    BY <1>5 DEF StandFor, Bijection, Injection, Surjection, IsInjective
  <2>2. IsFiniteSet(ToSet(u)) /\ Cardinality(ToSet(u)) = Len(u)
    BY <1>2, CardinalityOfInjective
  <2>3. Cardinality(1..Len(wanted)) = Cardinality(ToSet(u))
    BY <2>1, <2>2, FS_Bijection DEF ExistsBijection
  <2>4. Cardinality(1..Len(wanted)) = Len(wanted)
    <3>1. 1 \in Int /\ Len(wanted) \in Int /\ (1 > Len(wanted) => Len(wanted) = 0)
          /\ Len(wanted) - 1 + 1 = Len(wanted)
      BY <1>6
    <3>. QED BY <3>1, FS_Interval
  <2>. QED BY <2>2, <2>3, <2>4
<1>. DEFINE g == [i \in 1..Len(s) |-> f[u[i]]]
<1>11. \A i \in 1..Len(s) : g[i] = f[u[i]] /\ g[i] \in 1..Len(wanted)
  BY <1>1, <1>2, <1>5, <1>7 DEF StandFor
<1>12. g \in [1..Len(s) -> 1..Len(wanted)]
  BY <1>11
<1>. HIDE DEF g
<1>13. \A i \in 1..Len(s) : s[i] = wanted[g[i]]
  BY <1>1, <1>2, <1>5, <1>7, <1>11 DEF StandFor
<1>14. \A i, j \in 1..Len(s) : g[i] = g[j] => i = j
  BY <1>1, <1>2, <1>5, <1>7, <1>9, <1>11 DEF StandFor
<1>15. \A p \in 1..Len(wanted) : \E i \in 1..Len(s) : g[i] = p
  BY <1>1, <1>2, <1>5, <1>8, <1>11 DEF StandFor
<1>16. SortedById(s)
  BY <1>1 DEF PoolInv
<1>17. Alike(s, wanted, g)
  BY <1>1, <1>2, <1>6, <1>10, <1>12, <1>13, <1>14, <1>15, <1>16 DEF Alike
<1>. QED BY <1>1, <1>17

\* and that the table is the last list given.
LEMMA PoolInvTable == PoolInv => TableIsWanted
<1>. SUFFICES ASSUME PoolInv, UninitializedServerList = <<>>
              PROVE  /\ \A x \in Infos : Count(InfosOf(ActiveServerList), x) = Count(wanted, x)
                     /\ \A h \in 0..Len(wanted) - 1 : info[Target(h)].id = wanted[h + 1].id
  BY DEF TableIsWanted
<1>1. PICK g : Alike(InfosOf(ActiveServerList), wanted, g)
  BY TableAlike
<1>2. /\ Len(ActiveServerList) = Len(wanted) /\ Len(wanted) \in Nat
      /\ \A i \in 1..Len(wanted) : InfosOf(ActiveServerList)[i] = info[ActiveServerList[i]]
  <2>1. Len(InfosOf(ActiveServerList)) = Len(wanted) /\ wanted \in Seq(Infos)
    BY <1>1 DEF Alike
  <2>. QED BY <2>1, ActiveInfos, LenProperties
<1>3. \A x : Count(InfosOf(ActiveServerList), x) = Count(wanted, x)
  BY <1>1, AlikeCounts
<1>4. ASSUME NEW h \in 0..Len(wanted) - 1 PROVE info[Target(h)].id = wanted[h + 1].id
  <2>1. h \in Nat /\ h + 1 \in 1..Len(wanted) /\ h % Len(wanted) = h
    BY <1>2
  <2>2. Target(h) = ActiveServerList[h + 1]
    BY <1>2, <2>1 DEF Target
  <2>3. InfosOf(ActiveServerList)[h + 1].id = wanted[h + 1].id
    <3>1. h + 1 \in 1..Len(InfosOf(ActiveServerList))
      BY <1>1, <2>1 DEF Alike
    <3>. QED BY <1>1, <3>1, AlikeInPlaces
  <2>. QED BY <1>2, <2>1, <2>2, <2>3
<1>. QED BY <1>3, <1>4

\* The invariant holds in every state.
LEMMA PoolInvariant == PoolSpec => []PoolInv
BY PoolInitInv, PoolStep, PTL DEF PoolSpec

\* Contexts of the pool of service clients are on one vector each, exactly those
\* that the peer closed wait to be opened again, and once a Tick has done what
\* UpdateServerList found, the table holds the last list given, sorted: a hash
\* names the server that it names in that list.
THEOREM PoolIsConsistent == PoolSpec => []PoolConsistent
<1>1. PoolInv => PoolConsistent
  BY PoolInvContexts, PoolInvTable DEF PoolConsistent
<1>. QED BY <1>1, PoolInvariant, PTL

\* What ServerIsKept says of a step.
Keeps ==
    \A c \in ServerContexts :
       connection[c] \in {"connecting", "connected"} =>
          /\ \/ connection'[c] \in {"connecting", "connected", "lost"}
             \/ Contains(DeleteServerList, c)
          /\ Contains(DeleteServerList', c) /\ ~Contains(DeleteServerList, c)
               /\ NamedOnce(wanted) /\ NamedOnce(wanted')
                 => ~Contains(wanted', info[c])

\* A sorted list that names each server once.
LEMMA NamedOnceIsStrict ==
    ASSUME NEW s \in Seq(Infos), SortedById(s), NamedOnce(s)
    PROVE  StrictById(s)
<1>. SUFFICES ASSUME NEW i \in 1..Len(s), NEW j \in 1..Len(s), i < j
              PROVE  s[i].id < s[j].id
  BY DEF StrictById
<1>1. s[i].id \in Nat /\ s[j].id \in Nat /\ i \in Nat /\ j \in Nat
  BY EntryOfList
<1>2. s[i].id <= s[j].id
  BY DEF SortedById
<1>3. s[i].id # s[j].id
  BY <1>1 DEF NamedOnce
<1>. QED BY <1>1, <1>2, <1>3

\* UpdateServerList closes no connection, and drops no server that both lists
\* name once, at the same address.
LEMMA UpdateKeeps ==
    ASSUME PoolInv, NEW list \in SortedLists, UpdateServerList(list)
    PROVE  Keeps
<1>1. PICK drop, add, kept, came, added, dropped :
         Updated(list, drop, add, kept, came, added, dropped)
  BY UpdateFinds
<1>2. /\ UninitializedServerList = <<>> /\ connection' = connection
      /\ DeleteServerList' = dropped /\ wanted' = list /\ dropped \in Seq(ServerContexts)
      /\ drop \in Seq(1..Len(ActiveServerList)) /\ ToSet(drop) \subseteq 1..Len(ActiveServerList)
      /\ ToSet(dropped) = {ActiveServerList[p] : p \in ToSet(drop)}
  BY <1>1 DEF Updated, UpdateServerList
<1>3. list \in Seq(Infos) /\ SortedById(list)
  BY ListsAreSorted
<1>. SUFFICES ASSUME NEW c \in ServerContexts, Contains(dropped, c),
                     NamedOnce(wanted), NamedOnce(list), Contains(list, info[c])
              PROVE  FALSE
  BY <1>2 DEF Keeps
<1>4. PICK p \in ToSet(drop) : ActiveServerList[p] = c
  <2>1. DOMAIN dropped = 1..Len(dropped)
    BY <1>2, LenProperties
  <2>2. c \in ToSet(dropped)
    BY <2>1 DEF Contains, ToSet
  <2>. QED BY <1>2, <2>2
<1>5. p \in 1..Len(ActiveServerList)
  BY <1>2, <1>4
<1>6. StrictById(list)
  BY <1>3, NamedOnceIsStrict
<1>7. StrictById(InfosOf(ActiveServerList))
  <2>1. PICK g : Alike(InfosOf(ActiveServerList), wanted, g)
    BY <1>2, TableAlike
  <2>2. PICK s \in Seq(Infos) : s = InfosOf(ActiveServerList) /\ SortedById(s)
    BY <2>1 DEF Alike
  <2>3. NamedOnce(s)
    <3>1. /\ \A i \in 1..Len(s) : s[i] = wanted[g[i]] /\ g[i] \in 1..Len(wanted)
          /\ \A i, j \in 1..Len(s) : g[i] = g[j] => i = j
      BY <2>1, <2>2 DEF Alike
    <3>. QED BY <3>1 DEF NamedOnce
  <2>. QED BY <2>2, <2>3, NamedOnceIsStrict
<1>8. \A q \in 1..Len(list) : list[q] # info[c]
  <2>1. InfosOf(ActiveServerList)[p] = info[c]
    BY <1>4, <1>5, ActiveInfos
  <2>. QED BY <1>1, <1>4, <1>6, <1>7, <2>1 DEF Updated
<1>. QED BY <1>8 DEF Contains

\* Tick closes the connections of the servers that left.
LEMMA PoolTickKeeps ==
    ASSUME PoolInv,
           NEW F \in SUBSET (ToSet(UninitializedServerList) \cup ToSet(ClosingServerList)),
           PoolTick(F)
    PROVE  Keeps
<1>1. DeleteServerList' = <<>>
  BY DEF PoolTick
<1>2. \A c : ~Contains(DeleteServerList', c)
  <2>1. Len(DeleteServerList') = 0
    BY <1>1
  <2>. QED BY <2>1 DEF Contains
<1>3. ASSUME NEW c \in ServerContexts, connection[c] \in {"connecting", "connected"}
      PROVE  connection'[c] = connection[c] \/ Contains(DeleteServerList, c)
  <2>1. DOMAIN DeleteServerList = 1..Len(DeleteServerList)
    BY LenProperties DEF PoolInv, PoolTypeOK
  <2>2. Contains(DeleteServerList, c) <=> c \in ToSet(DeleteServerList)
    BY <2>1 DEF Contains, ToSet
  <2>3. c \notin ToSet(UninitializedServerList) /\ c \notin ToSet(ClosingServerList)
    BY <1>3 DEF PoolInv, ConnectionsOfContexts
  <2>4. c \notin ToSet(DeleteServerList) => connection'[c] = connection[c]
    BY <2>3 DEF PoolTick
  <2>. QED BY <2>2, <2>4
<1>. QED BY <1>2, <1>3 DEF Keeps

\* Every step keeps the connections that ServerIsKept speaks of.
LEMMA PoolKeeps == PoolInv /\ [PoolNext]_poolVars => [Keeps]_poolVars
<1>. SUFFICES ASSUME PoolInv, PoolNext PROVE Keeps
  OBVIOUS
<1>1. CASE \E list \in SortedLists : UpdateServerList(list)
  BY <1>1, UpdateKeeps
<1>2. CASE \E F \in SUBSET (ToSet(UninitializedServerList) \cup ToSet(ClosingServerList)) : PoolTick(F)
  BY <1>2, PoolTickKeeps
<1>3. CASE \E d \in ServerContexts : PoolConnected(d)
  <2>1. DeleteServerList' = DeleteServerList
    BY <1>3 DEF PoolConnected, poolLists
  <2>2. \A c \in ServerContexts : connection[c] \in {"connecting", "connected"}
          => connection'[c] \in {"connecting", "connected", "lost"}
    BY <1>3 DEF PoolConnected, PoolInv, PoolTypeOK
  <2>. QED BY <2>1, <2>2 DEF Keeps
<1>4. CASE \E d \in ServerContexts : PoolPeerClose(d)
  <2>1. DeleteServerList' = DeleteServerList
    BY <1>4 DEF PoolPeerClose
  <2>2. \A c \in ServerContexts : connection[c] \in {"connecting", "connected"}
          => connection'[c] \in {"connecting", "connected", "lost"}
    BY <1>4 DEF PoolPeerClose, PoolInv, PoolTypeOK
  <2>. QED BY <2>1, <2>2 DEF Keeps
<1>. QED BY <1>1, <1>2, <1>3, <1>4 DEF PoolNext

\* A connection to a server is closed only by the peer, or by the Tick after an
\* UpdateServerList dropped it; a server that two lists in a row name once, at the
\* same address, is not dropped.
THEOREM ServerOfListIsKept == PoolSpec => ServerIsKept
<1>1. [][Keeps]_poolVars => ServerIsKept
  BY PTL DEF ServerIsKept, Keeps
<1>. QED BY <1>1, PoolInvariant, PoolKeeps, PTL DEF PoolSpec
=============================================================================
