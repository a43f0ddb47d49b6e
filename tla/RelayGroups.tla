---------------------------- MODULE RelayGroups ----------------------------
(***************************************************************************)
(* xPA_RelayConnectionManager (server_proxy_access): for every relay       *)
(* server a group of connections to it, opened and kept alive by the Tick  *)
(* and opened again when they are lost.  A connection is on the IdleList   *)
(* or the KillList; a group that was replaced waits on the KillGroupList.  *)
(*                                                                         *)
(* A timestamp is kept as the time since it, counted up to ResponseLimit.  *)
(* The Ticker stands still between two Ticks, and a Tick finds any time    *)
(* later: a pass of the main loop may take as long as it likes.  The ids   *)
(* of ConnectionIdPool (an xIndexedStorage, not part of the repository)    *)
(* are numbers from 1; an exhausted pool gives 0, whose release does       *)
(* nothing.  A list node that is deleted leaves its list.                  *)
(*                                                                         *)
(* Bounds: MaxGroups group objects, MaxIds ids; a Tick looks at no more    *)
(* than CheckLimit connections (200 in the code).                          *)
(***************************************************************************)
EXTENDS Integers, FiniteSets, FiniteSetsExt, SequencesExt, Lists

CONSTANTS RelayServerIds, RelayAddresses,
          NoAddress, NoGroup,
          ConnectionsPerGroup,
          RequestLimit,       \* RECONNECT_OR_KEEPALIVE_TIMEOUT
          PassTimes,          \* how long the passes of the main loop may take
          CheckLimit, MaxGroups, MaxIds

ResponseLimit == RequestLimit \div 3 + RequestLimit   \* KEEPALIVE_RESPONSE_TIMEOUT

ASSUME RelayGroupsAssumption ==
    /\ {ConnectionsPerGroup, RequestLimit, CheckLimit, MaxGroups, MaxIds} \subseteq Nat \ {0}
    /\ PassTimes \subseteq Nat \ {0} /\ RequestLimit < ResponseLimit
    /\ NoAddress \notin RelayAddresses /\ NoGroup \notin Nat

GroupObjects == 1..MaxGroups
Links == GroupObjects \X (1..ConnectionsPerGroup)
LinksOf(g) == {<<g, i>> : i \in 1..ConnectionsPerGroup}

VARIABLES
    RelayGroupMap,     \* RelayGroupMap[s]: the group of server s, or NoGroup
    KillGroupList,
    TargetAddress,     \* TargetAddress[g]: NoAddress when g is not allocated
    IdleList, KillList,
    wire,              \* wire[c]: "none", "connecting", "open" or, by the peer, "closed"
    ConnectionId,
    usedIds,           \* the ids that ConnectionIdPool has given out
    requestAge, responseAge,   \* since LastKeepAliveRequest/ResponseTimestampMS
    \* history:
    lostIds,           \* ids of connections that could not be opened
    waiting            \* waiting[c]: since the first request that nothing has
                       \* answered, and since the opening; -1 otherwise

relayLists == <<RelayGroupMap, KillGroupList, TargetAddress, IdleList, KillList>>
relayGroupVars == <<relayLists, wire, ConnectionId, usedIds, requestAge, responseAge, lostIds, waiting>>

Live(c) == TargetAddress[c[1]] # NoAddress
IsOpen(c) == wire[c] # "none"

RelayGroupsInit ==
    /\ RelayGroupMap = [s \in RelayServerIds |-> NoGroup] /\ KillGroupList = <<>>
    /\ TargetAddress = [g \in GroupObjects |-> NoAddress]
    /\ IdleList = <<>> /\ KillList = <<>>
    /\ wire = [c \in Links |-> "none"] /\ ConnectionId = [c \in Links |-> 0]
    /\ usedIds = {} /\ lostIds = {}
    /\ requestAge = [c \in Links |-> ResponseLimit]
    /\ responseAge = [c \in Links |-> ResponseLimit]
    /\ waiting = [c \in Links |-> -1]

-----------------------------------------------------------------------------
\* The connections of a new group are due at once, and go to the front.
AddRelayGroup(s, address) ==
    LET old == RelayGroupMap[s] IN
    /\ old # NoGroup => TargetAddress[old] # address
    /\ \E g \in GroupObjects :
          /\ TargetAddress[g] = NoAddress /\ \A h \in 1..g - 1 : TargetAddress[h] # NoAddress
          /\ RelayGroupMap' = [RelayGroupMap EXCEPT ![s] = g]
          /\ TargetAddress' = [TargetAddress EXCEPT ![g] = address]
          /\ IdleList' = [i \in 1..ConnectionsPerGroup |-> <<g, ConnectionsPerGroup + 1 - i>>]
                           \o IdleList
    /\ KillGroupList' = IF old = NoGroup THEN KillGroupList ELSE Append(KillGroupList, old)
    /\ UNCHANGED <<KillList, wire, ConnectionId, usedIds, requestAge, responseAge, lostIds, waiting>>

\* Faulty variant: the time of the answer is not noted.
KeepAliveUndated(c) ==
    /\ waiting' = [waiting EXCEPT ![c] = -1]
    /\ IdleList' = Append(Unlinked(IdleList, {c}), c)
    /\ KillList' = Unlinked(KillList, {c})
    /\ UNCHANGED <<RelayGroupMap, KillGroupList, TargetAddress, ConnectionId, usedIds, requestAge,
                   responseAge, lostIds>>

\* KeepAlive: a connection on the KillList is taken back.
KeepAlive(c) ==
    /\ responseAge' = [responseAge EXCEPT ![c] = 0]
    /\ waiting' = [waiting EXCEPT ![c] = -1]
    /\ IdleList' = Append(Unlinked(IdleList, {c}), c)
    /\ KillList' = Unlinked(KillList, {c})
    /\ UNCHANGED <<RelayGroupMap, KillGroupList, TargetAddress, ConnectionId, usedIds, requestAge,
                   lostIds>>

LinkConnected(c) ==
    /\ wire[c] = "connecting" /\ wire' = [wire EXCEPT ![c] = "open"]
    /\ KeepAlive(c)

LinkKeepAlive(c) == wire[c] = "open" /\ KeepAlive(c) /\ UNCHANGED wire

\* Faulty variant: the connection is closed and on no list.
PeerCloseForgets(c) ==
    /\ wire[c] \in {"connecting", "open"} /\ wire' = [wire EXCEPT ![c] = "closed"]
    /\ IdleList' = Unlinked(IdleList, {c})
    /\ UNCHANGED <<RelayGroupMap, KillGroupList, TargetAddress, ConnectionId, usedIds, requestAge,
                   responseAge, lostIds, waiting, KillList>>

\* OnPeerClose, also for data that OnData calls invalid.
LinkPeerClose(c) ==
    /\ wire[c] \in {"connecting", "open"} /\ wire' = [wire EXCEPT ![c] = "closed"]
    /\ IdleList' = Unlinked(IdleList, {c})
    /\ KillList' = Append(Unlinked(KillList, {c}), c)
    /\ UNCHANGED <<RelayGroupMap, KillGroupList, TargetAddress, ConnectionId, usedIds, requestAge,
                   responseAge, lostIds, waiting>>

-----------------------------------------------------------------------------
(* Tick *)

IdsOf(C) == {ConnectionId[c] : c \in C}

\* The front of the list that is in C, as far as a Tick looks.
FrontIn(list, C) ==
    LET max == Min({Len(list), CheckLimit})
        n == CHOOSE n \in 0..max : /\ \A i \in 1..n : list[i] \in C
                                   /\ n < max => list[n + 1] \notin C
    IN SubSeq(list, 1, n)

\* Faulty variant: the timestamp zero of a new connection is not a time.
DueIfDated(list, age) ==
    FrontIn(list, {c \in Links : age[c] >= RequestLimit /\ age[c] < ResponseLimit})

\* The connections to open or to ask for a keep-alive.
Due(list, age) == FrontIn(list, {c \in Links : age[c] >= RequestLimit})

\* Acquire: the free ids, the smallest first; an exhausted pool gives 0.
Acquired(s, free) ==
    [i \in 1..Len(s) |->
       LET next == {x \in free : Cardinality({y \in free : y < x}) = i - 1}
       IN IF next = {} THEN 0 ELSE CHOOSE x \in next : TRUE]

Aged(age, d) == IF age + d >= ResponseLimit THEN ResponseLimit ELSE age + d

\* DoFreeKillList and DoFreeKillGroupList: the connections that are cleaned,
\* and those that are deleted with their groups.
Cleaned == ToSet(KillList)
Deleted == UNION {LinksOf(g) : g \in ToSet(KillGroupList)}

RequestAgeNow(d)  == [c \in Links |-> IF c \in Cleaned THEN 0 ELSE Aged(requestAge[c], d)]
ResponseAgeNow(d) == [c \in Links |-> Aged(responseAge[c], d)]

\* DoReconnectAndKeepAlive, which finds the connections of due; those of F
\* cannot be opened.
Reconnect(F, d, idle, due) ==
    LET gone   == Cleaned \cup Deleted
        seen   == ToSet(due)
        reopen == Unlinked(due, {c \in seen : IsOpen(c)})
        opened == ToSet(reopen)
        silent == {c \in seen \ opened : ResponseAgeNow(d)[c] >= ResponseLimit}
        \* a group's ids are released with its open connections only
        kept   == usedIds \ IdsOf({c \in gone : IsOpen(c)})
        ids    == Acquired(reopen, (1..MaxIds) \ kept)
        id     == [c \in opened |-> ids[CHOOSE i \in 1..Len(reopen) : reopen[i] = c]]
    IN /\ IdleList' = SubSeq(idle, Len(due) + 1, Len(idle)) \o Unlinked(due, silent)
       /\ KillList' = Unlinked(due, seen \ silent)
       /\ wire' = [c \in Links |-> CASE c \in opened \ F -> "connecting"
                                     [] c \in gone -> "none"
                                     [] OTHER -> wire[c]]
       /\ ConnectionId' = [c \in Links |-> CASE c \in opened -> id[c]
                                             [] c \in gone -> 0
                                             [] OTHER -> ConnectionId[c]]
       /\ usedIds' = (kept \cup {id[c] : c \in opened}) \ {0}
       /\ lostIds' = (lostIds \cup {id[c] : c \in F}) \ {0}
       /\ requestAge' = [c \in Links |-> CASE c \in Deleted -> ResponseLimit
                                           [] c \in seen \ silent -> 0
                                           [] OTHER -> RequestAgeNow(d)[c]]
       /\ waiting' = [c \in Links |->
                        CASE c \in gone \cup F -> -1
                          [] c \in opened \ F -> 0
                          [] c \notin gone \cup opened /\ waiting[c] = -1 ->
                                IF c \in seen \ silent THEN 0 ELSE -1
                          [] OTHER -> Min({waiting[c] + d, RequestLimit})]

\* (Bound by quantifiers, idle and due are computed once.)
RelayTick(d) ==
    /\ KillGroupList' = <<>>
    /\ TargetAddress' = [g \in GroupObjects |->
                           IF Contains(KillGroupList, g) THEN NoAddress ELSE TargetAddress[g]]
    /\ UNCHANGED RelayGroupMap
    /\ responseAge' = [c \in Links |-> IF c \in Deleted THEN ResponseLimit ELSE ResponseAgeNow(d)[c]]
    /\ \E idle \in {Unlinked(IdleList \o KillList, Deleted)} :
        \E due \in {Due(idle, RequestAgeNow(d))} :
            \E F \in SUBSET {c \in ToSet(due) : ~IsOpen(c)} : Reconnect(F, d, idle, due)

RelayGroupsNext ==
    \/ \E s \in RelayServerIds, address \in RelayAddresses : AddRelayGroup(s, address)
    \/ \E c \in Links : LinkConnected(c) \/ LinkKeepAlive(c) \/ LinkPeerClose(c)
    \/ \E d \in PassTimes : RelayTick(d)

-----------------------------------------------------------------------------
(* Properties *)

\* Every connection of every group, in the map or replaced, is on one of the
\* two lists, once: none is forgotten, none is left behind by a group that
\* was freed.  No two open connections share an id, and every id in use is
\* that of an open connection, or was lost with one that could not be opened.
GroupsConsistent ==
    LET kept == {c \in Links : IsOpen(c) /\ ConnectionId[c] # 0} IN
    /\ IsInjective(IdleList \o KillList)
    /\ ToSet(IdleList \o KillList) = {c \in Links : Live(c)}
    /\ ToSet(KillGroupList) = {g \in GroupObjects : TargetAddress[g] # NoAddress} \
                                 {RelayGroupMap[s] : s \in RelayServerIds}
    /\ \A c \in Links : /\ IsOpen(c) => Live(c)
                        /\ wire[c] = "closed" => Contains(KillList, c)
    /\ \A c, d \in kept : ConnectionId[c] = ConnectionId[d] => c = d
    /\ IdsOf(kept) \cap lostIds = {} /\ usedIds = IdsOf(kept) \cup lostIds

\* The Tick gives a connection up only when it was not connected, or did not
\* answer a request for a keep-alive, for RequestLimit; or when nothing was
\* asked of it and the pass before took longer than the two limits differ by:
\* then the connection is due to be asked and has been silent for too long in
\* the same Tick.  Being moved in the IdleList, by each keep-alive, never makes
\* it miss its turn to be asked.
GivenUpOnlyIfSilent ==
    [][\A c \in Links : Contains(KillList', c) =>
          \A d \in PassTimes : RelayTick(d) =>
              IF waiting[c] = -1 THEN d > ResponseLimit - RequestLimit
                                 ELSE waiting[c] + d >= RequestLimit]_relayGroupVars

\* A connection that is not open is tried again once it is due, unless its
\* group is freed, whatever the other connections of the IdleList do.
LostIsRetried ==
    \A c \in Links : Live(c) /\ ~IsOpen(c) /\ requestAge[c] >= RequestLimit
                      ~> ~Live(c) \/ requestAge[c] < RequestLimit
=============================================================================
