----------------------------- MODULE AuthCache -----------------------------
(***************************************************************************)
(* The authentication cache of server_proxy_access                         *)
(* (client_auth_cache_manager.cpp): clients' requests are answered from a  *)
(* cached result or wait for the auth server's, which may come late or     *)
(* never; results that grow old are asked for again, unused ones dropped.  *)
(* All answers are given by OnTick.                                        *)
(*                                                                         *)
(* A node id is the slot and the generation of xIndexedStorage; a node's   *)
(* fields are those of a new object when its slot is acquired.             *)
(*                                                                         *)
(* Time passes only at a Tick, by any amount (the loop may stall); a       *)
(* timestamp is kept as its age, which counts no further than is compared. *)
(* The three timeouts (15 s, 5 min and 8 min) are constants, of which only *)
(* the order matters.                                                      *)
(*                                                                         *)
(* Bounds: MaxGeneration uses of each node slot.                           *)
(***************************************************************************)
EXTENDS Naturals, FiniteSets

CONSTANTS Users,           \* UserPass strings of valid form
          Nodes,           \* slots of AuthCacheNodePool
          Requests,        \* slots of RequestPool
          NoUser, NoNode,
          MaxGeneration,   \* bound of the model
          RequestTimeout,  \* AUTH_CACHE_REQUEST_TIMEOUT_MS
          ReconfirmTimeout,\* AUTH_CACHE_RECONFIRM_TIMEOUT_MS
          NodeTimeout      \* AUTH_CACHE_NODE_TIMEOUT_MS

ASSUME TimeoutsAssumption ==
    /\ RequestTimeout \in Nat /\ ReconfirmTimeout \in Nat /\ NodeTimeout \in Nat
    /\ RequestTimeout < ReconfirmTimeout /\ ReconfirmTimeout < NodeTimeout
ASSUME NullsAssumption == NoUser \notin Users /\ NoNode \notin Nodes
ASSUME MaxGenerationAssumption == MaxGeneration \in Nat \ {0}

VARIABLES
    generation,    \* generation[n]: of the node in slot n, or the last one
    UserPass,      \* UserPass[n]: of the node in slot n, NoUser when it is free
    Ready,         \* slots whose node has a result
    updating,      \* slots whose node is on AuthCacheUpdateList
    sinceUpdate,   \* age of each node's LastUpdateTimestampMS
    sinceUsed,     \* age of each node's LastUsedTimestampMS
    resultAge,     \* history: age of each node's result
    resultOf,      \* history: the user whose result each node holds
    RequestList,   \* RequestList[n]: the requests that wait for n's first result
    AuthMap,       \* AuthMap[u]: the node of u
    request,       \* request[q]: the request in slot q
    dispatching,   \* the requests on DispatchResultList
    queries,       \* the queries the server may still answer
    answers,       \* the answers given by the last step
    failedAsserts  \* assertions of the code reached while false

nodeVars    == <<generation, UserPass, Ready, updating, sinceUpdate, sinceUsed,
                 resultAge, resultOf, RequestList, AuthMap>>
requestVars == <<request, dispatching>>
vars        == <<nodeVars, requestVars, queries, answers, failedAsserts>>

Bound(a, b) == IF a < b THEN a ELSE b
AgeLimit    == NodeTimeout + 1
\* What a result's age can be compared with (ResultIsRecent).
StaleLimit  == RequestTimeout + ReconfirmTimeout + NodeTimeout

NodeIds   == [slot : Nodes, gen : 1..MaxGeneration]
NullId    == [slot |-> NoNode, gen |-> 0]
Queries   == [node : NodeIds, user : Users]
NoRequest == [user |-> NoUser, node |-> NullId]
Answers   == [request : Requests, user : Users, result : Users \cup {NoUser},
              age : 0..StaleLimit]

TypeOK ==
    /\ generation \in [Nodes -> 0..MaxGeneration]
    /\ UserPass \in [Nodes -> Users \cup {NoUser}]
    /\ Ready \in SUBSET Nodes
    /\ updating \in SUBSET Nodes
    /\ sinceUpdate \in [Nodes -> 0..AgeLimit]
    /\ sinceUsed \in [Nodes -> 0..AgeLimit]
    /\ resultAge \in [Nodes -> 0..StaleLimit]
    /\ resultOf \in [Nodes -> Users \cup {NoUser}]
    /\ RequestList \in [Nodes -> SUBSET Requests]
    /\ AuthMap \in [Users -> Nodes \cup {NoNode}]
    /\ request \in [Requests -> [user : Users, node : NodeIds \cup {NullId}] \cup {NoRequest}]
    /\ dispatching \in SUBSET Requests
    /\ queries \in SUBSET Queries
    /\ answers \in SUBSET Answers
    /\ failedAsserts \in SUBSET {"LRU.RequestList"}

Init ==
    /\ generation = [n \in Nodes |-> 0]
    /\ UserPass = [n \in Nodes |-> NoUser]
    /\ Ready = {} /\ updating = {}
    /\ sinceUpdate = [n \in Nodes |-> 0]
    /\ sinceUsed = [n \in Nodes |-> 0]
    /\ resultAge = [n \in Nodes |-> 0]
    /\ resultOf = [n \in Nodes |-> NoUser]
    /\ RequestList = [n \in Nodes |-> {}]
    /\ AuthMap = [u \in Users |-> NoNode]
    /\ request = [q \in Requests |-> NoRequest]
    /\ dispatching = {} /\ queries = {} /\ answers = {} /\ failedAsserts = {}

InUse(n)  == UserPass[n] # NoUser
IdOf(n)   == [slot |-> n, gen |-> generation[n]]
Pending(q) == request[q] # NoRequest

\* AuthCacheNodePool.CheckAndGet(id), after the nodes of gone were released.
\* Faulty variant: the node is found by its slot alone.
FoundBySlot(id, gone) == id # NullId /\ InUse(id.slot) /\ id.slot \notin gone

Found(id, gone) ==
    /\ id # NullId
    /\ InUse(id.slot) /\ id.slot \notin gone
    /\ generation[id.slot] = id.gen

-----------------------------------------------------------------------------
(* RequestAuth *)

\* No node is left for a new user: the request is answered, with nothing, by
\* the next Tick.
RequestWithoutNode(q, u) ==
    /\ ~Pending(q) /\ AuthMap[u] = NoNode
    /\ \A n \in Nodes : InUse(n)
    /\ request' = [request EXCEPT ![q] = [user |-> u, node |-> NullId]]
    /\ dispatching' = dispatching \cup {q}
    /\ answers' = {}
    /\ UNCHANGED <<nodeVars, queries, failedAsserts>>

\* The first request of a user: a new node, the query, the node's lists.
RequestNewNode(q, u, n) ==
    /\ ~Pending(q) /\ AuthMap[u] = NoNode
    /\ ~InUse(n) /\ generation[n] < MaxGeneration
    /\ generation' = [generation EXCEPT ![n] = @ + 1]
    /\ UserPass' = [UserPass EXCEPT ![n] = u]
    /\ AuthMap' = [AuthMap EXCEPT ![u] = n]
    /\ request' = [request EXCEPT ![q] = [user |-> u, node |-> IdOf(n)']]
    /\ RequestList' = [RequestList EXCEPT ![n] = {q}]
    /\ queries' = queries \cup {[node |-> IdOf(n)', user |-> u]}
    /\ updating' = updating \cup {n}
    /\ sinceUpdate' = [sinceUpdate EXCEPT ![n] = 0]
    /\ sinceUsed' = [sinceUsed EXCEPT ![n] = 0]
    /\ answers' = {}
    /\ UNCHANGED <<Ready, resultAge, resultOf, dispatching, failedAsserts>>

\* Faulty variant: the query is posted, its deadline is not watched.
ReconfirmUnwatched(n) ==
    /\ queries' = queries \cup {[node |-> IdOf(n), user |-> UserPass[n]]}
    /\ sinceUpdate' = [sinceUpdate EXCEPT ![n] = 0]
    /\ UNCHANGED updating

PerformAuthRequest(n) ==
    /\ queries' = queries \cup {[node |-> IdOf(n), user |-> UserPass[n]]}
    /\ sinceUpdate' = [sinceUpdate EXCEPT ![n] = 0]
    /\ updating' = updating \cup {n}

\* Faulty variant: a request for a known user waits for the next result.
AlwaysWaits(q, n) ==
    /\ RequestList' = [RequestList EXCEPT ![n] = @ \cup {q}]
    /\ UNCHANGED dispatching

\* Faulty variant: a request that waits is put on the dispatch list as well.
AlwaysQueued(q, n) ==
    /\ RequestList' = [RequestList EXCEPT ![n] = IF n \in Ready THEN @ ELSE @ \cup {q}]
    /\ dispatching' = dispatching \cup {q}

\* A request for a known user is answered from the result or waits for it.
Enqueue(q, n) ==
    \/ /\ n \in Ready
       /\ dispatching' = dispatching \cup {q}
       /\ UNCHANGED RequestList
    \/ /\ n \notin Ready
       /\ RequestList' = [RequestList EXCEPT ![n] = @ \cup {q}]
       /\ UNCHANGED dispatching

RequestKnownUser(q, u, n) ==
    /\ ~Pending(q) /\ AuthMap[u] = n
    /\ request' = [request EXCEPT ![q] = [user |-> u, node |-> IdOf(n)]]
    /\ Enqueue(q, n)
    /\ IF sinceUpdate[n] >= ReconfirmTimeout
       THEN PerformAuthRequest(n)
       ELSE UNCHANGED <<queries, sinceUpdate, updating>>
    /\ sinceUsed' = [sinceUsed EXCEPT ![n] = 0]
    /\ answers' = {}
    /\ UNCHANGED <<generation, UserPass, AuthMap, Ready, resultAge, resultOf, failedAsserts>>

-----------------------------------------------------------------------------
(* OnServerPacket *)

\* The answer to a query that is not for a node any more is dropped.
LateResponse(query) ==
    /\ ~Found(query.node, {})
    /\ queries' = queries \ {query}
    /\ answers' = {}
    /\ UNCHANGED <<nodeVars, requestVars, failedAsserts>>

OnServerPacket(query) ==
    /\ Found(query.node, {})
    /\ LET n == query.node.slot IN
       /\ Ready' = Ready \cup {n}
       /\ resultOf' = [resultOf EXCEPT ![n] = query.user]
       /\ resultAge' = [resultAge EXCEPT ![n] = 0]
       /\ dispatching' = dispatching \cup RequestList[n]
       /\ RequestList' = [RequestList EXCEPT ![n] = {}]
       /\ sinceUsed' = [sinceUsed EXCEPT ![n] = 0]
       /\ updating' = updating \ {n}
    /\ queries' = queries \ {query}
    /\ answers' = {}
    /\ UNCHANGED <<generation, UserPass, sinceUpdate, AuthMap, request, failedAsserts>>

-----------------------------------------------------------------------------
(* OnTick *)

\* The nodes on the update list whose query is older than RequestTimeout, and
\* those on the LRU list unused for NodeTimeout, after step units of time.
QueryExpired(step) == {n \in updating : sinceUpdate[n] + step > RequestTimeout}
Unused(step)       == {n \in Nodes : InUse(n) /\ sinceUsed[n] + step > NodeTimeout}

ReleaseCacheNodes(gone) ==
    /\ UserPass' = [n \in Nodes |-> IF n \in gone THEN NoUser ELSE UserPass[n]]
    /\ RequestList' = [n \in Nodes |-> IF n \in gone THEN {} ELSE RequestList[n]]
    /\ Ready' = Ready \ gone
    /\ updating' = updating \ gone
    /\ AuthMap' = [u \in Users |-> IF AuthMap[u] \in gone THEN NoNode ELSE AuthMap[u]]

\* Time passes for the nodes that stay; released ones are forgotten.
Grow(step, gone) ==
    /\ sinceUpdate' = [n \in Nodes |->
          IF InUse(n) /\ n \notin gone THEN Bound(sinceUpdate[n] + step, AgeLimit) ELSE 0]
    /\ sinceUsed' = [n \in Nodes |->
          IF InUse(n) /\ n \notin gone THEN Bound(sinceUsed[n] + step, AgeLimit) ELSE 0]
    /\ resultAge' = [n \in Nodes |->
          IF n \in Ready \ gone THEN Bound(resultAge[n] + step, StaleLimit) ELSE 0]
    /\ resultOf' = [n \in Nodes |-> IF n \in gone THEN NoUser ELSE resultOf[n]]

\* OnAuthResult for request q, and RequestPool.Release.
AnswerOf(q, gone, step) ==
    LET id == request[q].node IN
    IF Found(id, gone)
    THEN [request |-> q, user |-> request[q].user, result |-> resultOf[id.slot],
          age |-> Bound(resultAge[id.slot] + step, StaleLimit)]
    ELSE [request |-> q, user |-> request[q].user, result |-> NoUser, age |-> 0]

Dispatch(done, gone, step) ==
    /\ answers' = {AnswerOf(q, gone, step) : q \in done}
    /\ request' = [q \in Requests |-> IF q \in done THEN NoRequest ELSE request[q]]
    /\ dispatching' = {}

\* Expired queries give their waiting requests up with their nodes; then the
\* unused nodes go, whose RequestList is asserted to be empty; then everything
\* on the dispatch list is answered.
OnTick(step) ==
    LET expired == QueryExpired(step)
        unused  == Unused(step) \ expired
        gone    == expired \cup unused
    IN
    /\ failedAsserts' = IF \A n \in unused : RequestList[n] = {}
                        THEN failedAsserts ELSE failedAsserts \cup {"LRU.RequestList"}
    /\ ReleaseCacheNodes(gone)
    /\ Grow(step, gone)
    /\ Dispatch(dispatching \cup UNION {RequestList[n] : n \in expired}, gone, step)
    /\ UNCHANGED <<generation, queries>>

Tick == \E step \in 1..AgeLimit : OnTick(step)

RequestAuth(q, u) ==
    \/ RequestWithoutNode(q, u)
    \/ \E n \in Nodes : RequestNewNode(q, u, n) \/ RequestKnownUser(q, u, n)

Next ==
    \/ \E q \in Requests, u \in Users : RequestAuth(q, u)
    \/ \E query \in queries : OnServerPacket(query) \/ LateResponse(query)
    \/ Tick

Spec == Init /\ [][Next]_vars

\* The main loop never stops and time goes on.
FairSpec == Spec /\ WF_vars(Tick)

-----------------------------------------------------------------------------
(* Properties *)

\* The assertion of OnTick (client_auth_cache_manager.cpp:39): no request
\* waits in a node that is dropped as unused, however long the loop stalls.
NoWaiterDropped == failedAsserts = {}

\* A request is answered with the result of its own user or with nothing, even
\* when its node was released, the slot taken by another user and the server's
\* answer for the first user comes only then.
AnswerIsOwn == \A a \in answers : a.result \in {a.user, NoUser}

\* AuthMap leads to the node of each user and to nothing else: the assertions
\* of AcquireCacheNode and ReleaseCacheNode (lines 64 and 73 to 77).
MapAgrees ==
    /\ \A u \in Users : AuthMap[u] # NoNode => UserPass[AuthMap[u]] = u
    /\ \A n \in Nodes : InUse(n) => AuthMap[UserPass[n]] = n

\* A pending request is on exactly one list, and on none once it is answered:
\* no request is answered twice, none is forgotten with its node.
OnOneList ==
    \A q \in Requests :
        Cardinality({n \in Nodes : q \in RequestList[n]})
            + (IF q \in dispatching THEN 1 ELSE 0) = IF Pending(q) THEN 1 ELSE 0

\* The types, and the agreement of the map, the nodes and the lists, which the
\* assertions of the code rely on.
CacheConsistent == TypeOK /\ MapAgrees /\ OnOneList /\ NoWaiterDropped

\* A result that is given out is younger than the three timeouts together: one
\* that is used all the time is reconfirmed, and dropped when that fails.
ResultIsRecent == \A a \in answers : a.age < StaleLimit

\* Every request is answered, whether or not the auth server ever is.
EveryRequestAnswered == \A q \in Requests : Pending(q) ~> ~Pending(q)
=============================================================================
