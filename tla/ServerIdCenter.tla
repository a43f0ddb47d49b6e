--------------------------- MODULE ServerIdCenter ---------------------------
(***************************************************************************)
(* server_server_id_center and the id clients of the servers that use it.  *)
(*                                                                         *)
(* The center (server_server_id_center/_main.cpp) answers one request per  *)
(* connection with a server id, which it takes from xServerIdManager       *)
(* (lib_server_util/server_id_manager.cpp) and gives back when the         *)
(* connection closes.  A client (lib_server_util/server_id_client.cpp)     *)
(* asks, on every connect, for the id it had before, which survives its    *)
(* own restarts in a file.  Center and clients crash, the two ends of a    *)
(* connection close at different moments, and an old connection may still  *)
(* be open at the center when its client has already opened the next one.  *)
(*                                                                         *)
(* A server id is the pair of an index and a random half; the 12-bit       *)
(* checksum is abstracted to whether it fits: BadId stands for every       *)
(* number RegainServerId refuses by its range, zero or checksum tests.     *)
(* The file always holds the client's LocalServerId (OnServerIdUpdated     *)
(* dumps it in the step that assigns it), except when the client dies      *)
(* inside the dump, so it has no variable of its own.                      *)
(*                                                                         *)
(* Bounds: at most one request is in flight on a connection.               *)
(***************************************************************************)
EXTENDS Naturals, FiniteSets

CONSTANTS MaxObjectId,   \* IdManager.MaxObjectId
          Randoms,       \* the values of GenerateRandom (odd, hence not 0)
          Conns,         \* connections of the center, reused once both ends are closed
          Clients,       \* the server processes that want an id
          NoClient       \* owner of a connection whose client end is closed

ASSUME MaxObjectIdAssumption == MaxObjectId \in Nat \ {0}
ASSUME RandomsAssumption     == Randoms \subseteq Nat \ {0}
ASSUME NoClientAssumption    == NoClient \notin Clients

VARIABLES
    idInUse,        \* IdManager: the indices it has handed out
    RandomPool,     \* RandomPool[i]: the random half of index i's holder, 0 when free
    serverEnd,      \* serverEnd[k]: the center has connection k open
    userId,         \* userId[k]: Connection.GetUserContext().U64
    clientEnd,      \* clientEnd[k]: the client that has connection k open
    up,             \* up[k]: the PreviousServerId of a request not yet handled
    down,           \* down[k]: the NewServerId of a response not yet handled
    LocalServerId,  \* of each client; also the contents of its file
    failedAsserts   \* the assertions of the code that were reached and were false

centerVars == <<idInUse, RandomPool>>
connVars   == <<serverEnd, userId, clientEnd, up, down>>
vars       == <<idInUse, RandomPool, serverEnd, userId, clientEnd, up, down,
                LocalServerId, failedAsserts>>

Indices     == 1..MaxObjectId
ServerIds   == [idx : Indices, rnd : Randoms]
NoId        == [idx |-> 0, rnd |-> 0]
BadId       == [idx |-> MaxObjectId + 1, rnd |-> 0]
PreviousIds == ServerIds \cup {NoId, BadId}
AssertSites == {"ReleaseServerId", "IdManager.Acquire", "UpdateServerId"}

TypeOK ==
    /\ idInUse \in SUBSET Indices
    /\ RandomPool \in [Indices -> Randoms \cup {0}]
    /\ serverEnd \in [Conns -> BOOLEAN]
    /\ userId \in [Conns -> ServerIds \cup {NoId}]
    /\ clientEnd \in [Conns -> Clients \cup {NoClient}]
    /\ up \in [Conns -> SUBSET PreviousIds]
    /\ down \in [Conns -> SUBSET (ServerIds \cup {NoId})]
    /\ LocalServerId \in [Clients -> PreviousIds]
    /\ failedAsserts \in SUBSET AssertSites

\* A client starts with whatever its id file holds: an id of an earlier life,
\* one copied from another machine, nothing, or something unreadable.
Init ==
    /\ idInUse = {}
    /\ RandomPool = [i \in Indices |-> 0]
    /\ serverEnd = [k \in Conns |-> FALSE]
    /\ userId = [k \in Conns |-> NoId]
    /\ clientEnd = [k \in Conns |-> NoClient]
    /\ up = [k \in Conns |-> {}]
    /\ down = [k \in Conns |-> {}]
    /\ LocalServerId \in [Clients -> PreviousIds]
    /\ failedAsserts = {}

\* The assertion at site held, or is recorded as failed.
Require(site, cond) ==
    failedAsserts' = IF cond THEN failedAsserts ELSE failedAsserts \cup {site}

-----------------------------------------------------------------------------
(* The center *)

\* ServerId = id, kept in the connection and posted as the response.
Answer(k, id) ==
    /\ userId' = [userId EXCEPT ![k] = id]
    /\ down' = [down EXCEPT ![k] = @ \cup {id}]

\* A fresh id: any free index, any random; 0 when no index is free.
AcquireServerId(k) ==
    /\ UNCHANGED failedAsserts
    /\ \/ /\ idInUse = Indices
          /\ Answer(k, NoId)
          /\ UNCHANGED centerVars
       \/ \E i \in Indices \ idInUse, r \in Randoms :
             /\ idInUse' = idInUse \cup {i}
             /\ RandomPool' = [RandomPool EXCEPT ![i] = r]
             /\ Answer(k, [idx |-> i, rnd |-> r])

\* The previous id is well formed and its slot is not taken.
Regainable(prev) == prev \in ServerIds /\ RandomPool[prev.idx] = 0

\* Faulty variant: the slot is regained without asking whether it is taken.
RegainTakenSlot(k, prev) ==
    \/ /\ prev \notin ServerIds
       /\ AcquireServerId(k)
    \/ /\ prev \in ServerIds
       /\ UNCHANGED failedAsserts
       /\ idInUse' = idInUse \cup {prev.idx}
       /\ RandomPool' = [RandomPool EXCEPT ![prev.idx] = prev.rnd]
       /\ Answer(k, prev)

RegainServerId(k, prev) ==
    \/ /\ ~Regainable(prev)
       /\ AcquireServerId(k)
    \/ /\ Regainable(prev)
       /\ Require("IdManager.Acquire", prev.idx \notin idInUse)
       /\ idInUse' = idInUse \cup {prev.idx}
       /\ RandomPool' = [RandomPool EXCEPT ![prev.idx] = prev.rnd]
       /\ Answer(k, prev)

\* X_RUNTIME_ASSERT(ReleaseServerId(id)): refused when the slot holds another random.
ReleaseServerId(id) ==
    /\ Require("ReleaseServerId", RandomPool[id.idx] = id.rnd)
    /\ IF RandomPool[id.idx] = id.rnd
       THEN /\ RandomPool' = [RandomPool EXCEPT ![id.idx] = 0]
            /\ idInUse' = idInUse \ {id.idx}
       ELSE UNCHANGED centerVars

\* The center drops connection k; OnClientClose gives its id back.
OnClientClose(k) ==
    /\ IF userId[k] = NoId
       THEN UNCHANGED <<idInUse, RandomPool, failedAsserts>>
       ELSE ReleaseServerId(userId[k])
    /\ userId' = [userId EXCEPT ![k] = NoId]
    /\ serverEnd' = [serverEnd EXCEPT ![k] = FALSE]
    /\ up' = [up EXCEPT ![k] = {}]

\* Faulty variant: a second request is served like the first.
SecondRequestServed(k, prev) ==
    /\ prev \in up[k] /\ userId[k] # NoId
    /\ RegainServerId(k, prev)
    /\ up' = [up EXCEPT ![k] = {}]
    /\ UNCHANGED <<serverEnd, clientEnd, LocalServerId>>

\* A second request on a connection that has its id is refused, which closes it.
OnSecondRequest(k, prev) ==
    /\ prev \in up[k] /\ userId[k] # NoId
    /\ OnClientClose(k)
    /\ UNCHANGED <<clientEnd, down, LocalServerId>>

OnClientPacket(k, prev) ==
    /\ prev \in up[k] /\ userId[k] = NoId
    /\ RegainServerId(k, prev)
    /\ up' = [up EXCEPT ![k] = {}]
    /\ UNCHANGED <<serverEnd, clientEnd, LocalServerId>>

\* The center learns that the connection is gone, or gives it up itself.
\* Requests it has not read are lost with it.
CenterCloses(k) ==
    /\ serverEnd[k]
    /\ OnClientClose(k)
    /\ UNCHANGED <<clientEnd, down, LocalServerId>>

\* The center process dies and starts again with an empty id manager.
CenterRestarts ==
    /\ \E k \in Conns : serverEnd[k]
    /\ idInUse' = {}
    /\ RandomPool' = [i \in Indices |-> 0]
    /\ serverEnd' = [k \in Conns |-> FALSE]
    /\ userId' = [k \in Conns |-> NoId]
    /\ up' = [k \in Conns |-> {}]
    /\ UNCHANGED <<clientEnd, down, LocalServerId, failedAsserts>>

-----------------------------------------------------------------------------
(* The clients *)

Connected(c) == \E k \in Conns : clientEnd[k] = c

\* Client c connects; OnServerConnected asks for the id it had before.
OnServerConnected(c, k) ==
    /\ ~Connected(c)
    /\ ~serverEnd[k] /\ clientEnd[k] = NoClient
    /\ serverEnd' = [serverEnd EXCEPT ![k] = TRUE]
    /\ clientEnd' = [clientEnd EXCEPT ![k] = c]
    /\ up' = [up EXCEPT ![k] = {LocalServerId[c]}]
    /\ down' = [down EXCEPT ![k] = {}]
    /\ UNCHANGED <<idInUse, RandomPool, userId, LocalServerId, failedAsserts>>

\* A peer that asks again on the same connection (xServerIdClient does not;
\* the center guards against it).
AskAgain(c, k) ==
    /\ clientEnd[k] = c /\ serverEnd[k]
    /\ up[k] = {} /\ NoId \notin down[k]
    /\ up' = [up EXCEPT ![k] = {LocalServerId[c]}]
    /\ UNCHANGED <<idInUse, RandomPool, serverEnd, userId, clientEnd, down,
                   LocalServerId, failedAsserts>>

\* Faulty variant: a client that has an id keeps it whatever the center answers.
KeepFirstId(c, k, id) ==
    /\ clientEnd[k] = c /\ id \in down[k]
    /\ down' = [down EXCEPT ![k] = @ \ {id}]
    /\ LocalServerId' = [LocalServerId EXCEPT ![c] = IF @ = NoId THEN id ELSE @]
    /\ Require("UpdateServerId", id # NoId)
    /\ UNCHANGED <<idInUse, RandomPool, serverEnd, userId, clientEnd, up>>

\* LocalServerId = NewServerId; OnServerIdUpdated dumps it and hands it to
\* UpdateServerId, which asserts that it is not 0.
OnServerPacket(c, k, id) ==
    /\ clientEnd[k] = c /\ id \in down[k]
    /\ down' = [down EXCEPT ![k] = @ \ {id}]
    /\ LocalServerId' = [LocalServerId EXCEPT ![c] = id]
    /\ Require("UpdateServerId", id # NoId)
    /\ UNCHANGED <<idInUse, RandomPool, serverEnd, userId, clientEnd, up>>

\* The client's end closes (it saw the center's close, or lost the network);
\* a response it has not read is lost.  The center may learn of it much later.
ClientCloses(c, k) ==
    /\ clientEnd[k] = c
    /\ clientEnd' = [clientEnd EXCEPT ![k] = NoClient]
    /\ down' = [down EXCEPT ![k] = {}]
    /\ UNCHANGED <<idInUse, RandomPool, serverEnd, userId, up, LocalServerId,
                   failedAsserts>>

\* The client dies inside DumpLocalServerId, which truncates the file before
\* it writes it, and restarts from an empty or a half-written file.
DiesInDump(c, k, id) ==
    /\ clientEnd[k] = c /\ id \in down[k]
    /\ \E rest \in {NoId, BadId} :
          LocalServerId' = [LocalServerId EXCEPT ![c] = rest]
    /\ clientEnd' = [clientEnd EXCEPT ![k] = NoClient]
    /\ down' = [down EXCEPT ![k] = {}]
    /\ UNCHANGED <<idInUse, RandomPool, serverEnd, userId, up, failedAsserts>>

-----------------------------------------------------------------------------
Center ==
    \/ \E k \in Conns : CenterCloses(k)
    \/ \E k \in Conns, prev \in PreviousIds :
          OnClientPacket(k, prev) \/ OnSecondRequest(k, prev)
    \/ CenterRestarts

Client(c, k) ==
    \/ OnServerConnected(c, k)
    \/ AskAgain(c, k)
    \/ ClientCloses(c, k)
    \/ \E id \in ServerIds \cup {NoId} :
          OnServerPacket(c, k, id) \/ DiesInDump(c, k, id)

Next == Center \/ \E c \in Clients, k \in Conns : Client(c, k)

Spec == Init /\ [][Next]_vars

-----------------------------------------------------------------------------
(* Properties *)

\* The two X_RUNTIME_ASSERTs that end the center's process never fire: an
\* index whose random slot is 0 is free in IdManager (RegainServerId), and the
\* id a closing connection gives back is the one its slot holds (OnClientClose).
CenterNeverAborts ==
    failedAsserts \cap {"ReleaseServerId", "IdManager.Acquire"} = {}

\* No two connections the center has open hold ids with the same index,
\* whatever ids their clients asked to regain.
LeaseExclusive ==
    \A k, l \in Conns :
        (k # l /\ userId[k] # NoId /\ userId[l] # NoId)
            => userId[k].idx # userId[l].idx

\* Every index the manager has handed out is held by an open connection: no
\* order of closes, regains and restarts leaks one.
NoIdLeak ==
    \A i \in idInUse : \E k \in Conns : serverEnd[k] /\ userId[k].idx = i

\* The center's state agrees with itself: its types, the assertions, who holds
\* an id and which ids are taken.
IdsConsistent == TypeOK /\ CenterNeverAborts /\ LeaseExclusive /\ NoIdLeak

\* A client with nothing in flight on a connection open at both ends works
\* under the very id the center has reserved for that connection.
ClientAgrees ==
    \A k \in Conns :
        (/\ serverEnd[k] /\ clientEnd[k] # NoClient
         /\ userId[k] # NoId /\ up[k] = {} /\ down[k] = {})
            => LocalServerId[clientEnd[k]] = userId[k]

\* The connections' ids behave as the leases of IdLease.
Lease == INSTANCE IdLease WITH Holders <- Conns, lease <- userId
LeaseSpec == Lease!Spec

\* The center answers 0, on which the assertion of UpdateServerId fails
\* (register_server_client.cpp:30), only when other open connections hold an id of every
\* index: never with more indices than connections.
OutOfIdsOnlyWhenAllHeld ==
    [][\A k \in Conns : NoId \in down'[k] \ down[k] =>
          \A i \in Indices : \E j \in Conns \ {k} : serverEnd[j] /\ userId[j].idx = i]_vars
=============================================================================
