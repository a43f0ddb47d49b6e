-------------------------- MODULE AuthCacheProofs --------------------------
(***************************************************************************)
(* Proofs about AuthCache, for every number of users, node slots, requests *)
(* and uses of a slot, and every three timeouts in their order.  The       *)
(* inductive invariant IInv says, of each node, what a free slot, a node   *)
(* that waits for its first result and a node with a result look like, and *)
(* what its ages bound; and, of each request and query, that its node id   *)
(* names no node but its own user's.                                       *)
(***************************************************************************)
EXTENDS AuthCache, FiniteSetTheorems, TLAPS

\* A free slot is on no list and holds nothing; a used one was acquired.
SlotsAgree ==
    \A n \in Nodes :
        IF InUse(n) THEN generation[n] >= 1
        ELSE n \notin Ready /\ n \notin updating /\ RequestList[n] = {} /\ resultOf[n] = NoUser

\* Requests wait only for a first result, while its query is watched, and the
\* node was used no longer ago than the query was posted.
Watched ==
    /\ \A n \in Nodes : InUse(n) /\ n \notin Ready =>
          n \in updating /\ sinceUsed[n] <= sinceUpdate[n]
    /\ \A n \in Ready : RequestList[n] = {}
    /\ \A n \in updating : sinceUpdate[n] <= RequestTimeout

\* A pending request is on a list, and no request is on two.
ListsDisjoint ==
    /\ \A q \in Requests :
          Pending(q) <=> q \in dispatching \/ \E n \in Nodes : q \in RequestList[n]
    /\ \A n \in Nodes : RequestList[n] \cap dispatching = {}
    /\ \A m, n \in Nodes : m # n => RequestList[m] \cap RequestList[n] = {}

\* id was given out before now, and if its node still exists it is u's.
Names(id, u) ==
    /\ id.gen <= generation[id.slot]
    /\ Found(id, {}) => UserPass[id.slot] = u

\* A query or a request names node id for user u.
Known(id, u) ==
    \/ [node |-> id, user |-> u] \in queries
    \/ \E q \in Requests : request[q] = [user |-> u, node |-> id]

\* Queries and requests name the node of their user; results are the user's.
IdsAreOwn ==
    /\ \A id \in NodeIds, u \in Users : Known(id, u) => Names(id, u)
    /\ \A n \in Nodes : resultOf[n] \in {UserPass[n], NoUser}

\* How old a result can be: one that is not being reconfirmed was last used
\* when its query was younger than ReconfirmTimeout, and one that is reconfirmed
\* was still that young when the query was posted.
ResultsFresh ==
    /\ \A n \in Nodes : InUse(n) => sinceUsed[n] <= NodeTimeout
    /\ \A n \in Nodes \ Ready : resultAge[n] = 0
    /\ \A n \in Ready \cap updating :
          resultAge[n] < ReconfirmTimeout + NodeTimeout + sinceUpdate[n]
    /\ \A n \in Ready \ updating :
          /\ resultAge[n] < ReconfirmTimeout + sinceUsed[n]
          /\ sinceUpdate[n] < ReconfirmTimeout => resultAge[n] <= sinceUpdate[n]

IInv ==
    /\ TypeOK /\ SlotsAgree /\ MapAgrees /\ Watched /\ ListsDisjoint /\ IdsAreOwn
    /\ ResultsFresh /\ NoWaiterDropped /\ AnswerIsOwn /\ ResultIsRecent

-----------------------------------------------------------------------------
(* Constants, ages and node ids *)

LEMMA TimeFacts ==
    /\ RequestTimeout \in Nat /\ ReconfirmTimeout \in Nat /\ NodeTimeout \in Nat
    /\ RequestTimeout < ReconfirmTimeout /\ ReconfirmTimeout < NodeTimeout
    /\ AgeLimit = NodeTimeout + 1
    /\ StaleLimit = RequestTimeout + ReconfirmTimeout + NodeTimeout
    /\ AgeLimit \in Nat /\ StaleLimit \in Nat
BY TimeoutsAssumption DEF AgeLimit, StaleLimit

LEMMA BoundFacts ==
    ASSUME NEW a \in Nat, NEW b \in Nat
    PROVE  /\ Bound(a, b) \in 0..b
           /\ Bound(a, b) <= a
           /\ a <= b => Bound(a, b) = a
           /\ Bound(a, b) < b => Bound(a, b) = a
BY DEF Bound

LEMMA NodeIdFacts ==
    ASSUME NEW id \in NodeIds
    PROVE  /\ id.slot \in Nodes /\ id.gen \in 1..MaxGeneration /\ id # NullId
BY NullsAssumption DEF NodeIds, NullId

\* The id of a node in use is a node id.
LEMMA IdOfIsId ==
    ASSUME TypeOK, SlotsAgree, NEW n \in Nodes, InUse(n)
    PROVE  IdOf(n) \in NodeIds
BY MaxGenerationAssumption DEF TypeOK, SlotsAgree, NodeIds, IdOf

LEMMA RequestType ==
    ASSUME TypeOK, NEW q \in Requests
    PROVE  /\ request[q].node \in NodeIds \cup {NullId}
           /\ Pending(q) => request[q].user \in Users
           /\ request[q].node # NullId => Pending(q)
BY DEF TypeOK, NoRequest, Pending

LEMMA NewRequestIsPending ==
    ASSUME NEW u \in Users, NEW id
    PROVE  [user |-> u, node |-> id] # NoRequest
BY NullsAssumption DEF NoRequest

\* A free slot's owner is nobody, a used one's is a user.
LEMMA OwnerType ==
    ASSUME TypeOK, NEW n \in Nodes
    PROVE  InUse(n) <=> UserPass[n] \in Users
BY NullsAssumption DEF TypeOK, InUse

\* A node id stays its user's as long as slots only fall free or are taken
\* under a new generation.
LEMMA NamesKept ==
    ASSUME TypeOK, NEW id \in NodeIds, NEW u, Names(id, u),
           generation'[id.slot] \in Nat,
           \/ generation'[id.slot] = generation[id.slot]
                /\ UserPass'[id.slot] \in {UserPass[id.slot], NoUser}
           \/ generation'[id.slot] > generation[id.slot]
    PROVE  Names(id, u)'
BY NodeIdFacts DEF Names, Found, InUse, TypeOK

-----------------------------------------------------------------------------
LEMMA InitIInv == Init => IInv
<1> SUFFICES ASSUME Init PROVE IInv
  OBVIOUS
<1> USE DEF Init
<1>1. TypeOK
  BY TimeFacts, MaxGenerationAssumption DEF TypeOK
<1>2. SlotsAgree /\ MapAgrees /\ Watched /\ ListsDisjoint
  BY DEF SlotsAgree, InUse, MapAgrees, Watched, ListsDisjoint, Pending
<1>3. IdsAreOwn /\ ResultsFresh
  BY TimeFacts, NewRequestIsPending DEF IdsAreOwn, Known, ResultsFresh, InUse
<1>4. NoWaiterDropped /\ AnswerIsOwn /\ ResultIsRecent
  BY DEF NoWaiterDropped, AnswerIsOwn, ResultIsRecent
<1> QED BY <1>1, <1>2, <1>3, <1>4 DEF IInv

\* The actions other than OnTick answer nothing and assert nothing.
LEMMA QuietStep ==
    ASSUME NoWaiterDropped, answers' = {}, UNCHANGED failedAsserts
    PROVE  NoWaiterDropped' /\ AnswerIsOwn' /\ ResultIsRecent'
BY DEF NoWaiterDropped, AnswerIsOwn, ResultIsRecent

LEMMA WithoutNodeKeepsIInv ==
    ASSUME IInv, NEW q \in Requests, NEW u \in Users, RequestWithoutNode(q, u)
    PROVE  IInv'
<1> USE DEF IInv
<1>1. /\ ~Pending(q)
      /\ request' = [request EXCEPT ![q] = [user |-> u, node |-> NullId]]
      /\ dispatching' = dispatching \cup {q}
      /\ answers' = {}
      /\ UNCHANGED <<nodeVars, queries, failedAsserts>>
  BY DEF RequestWithoutNode
<1>2. TypeOK'
  BY <1>1 DEF TypeOK, nodeVars
<1>3. SlotsAgree' /\ MapAgrees' /\ Watched' /\ ResultsFresh'
  BY <1>1 DEF SlotsAgree, InUse, MapAgrees, Watched, ResultsFresh, nodeVars
<1>4. /\ request'[q] = [user |-> u, node |-> NullId]
      /\ \A r \in Requests : r # q => request'[r] = request[r]
  BY <1>1 DEF TypeOK
<1>5. ListsDisjoint'
  <2>1. \A r \in Requests : Pending(r)' <=> r = q \/ Pending(r)
    BY <1>4, NewRequestIsPending DEF Pending
  <2> QED BY <1>1, <2>1 DEF ListsDisjoint, nodeVars
<1>6. IdsAreOwn'
  <2>1. ASSUME NEW id \in NodeIds, NEW v \in Users, Known(id, v)' PROVE Names(id, v)'
    <3>1. Known(id, v)
      BY <1>1, <1>4, <2>1, NodeIdFacts DEF Known
    <3>2. Names(id, v)
      BY <3>1 DEF IdsAreOwn
    <3> QED BY <1>1, <3>2 DEF Names, Found, InUse, nodeVars
  <2> QED BY <1>1, <2>1 DEF IdsAreOwn, nodeVars
<1>7. NoWaiterDropped' /\ AnswerIsOwn' /\ ResultIsRecent'
  BY <1>1, QuietStep
<1> QED BY <1>2, <1>3, <1>5, <1>6, <1>7

\* A free slot is taken under a new generation, which no query or request names.
LEMMA NewNodeKeepsIInv ==
    ASSUME IInv, NEW q \in Requests, NEW u \in Users, NEW n \in Nodes,
           RequestNewNode(q, u, n)
    PROVE  IInv'
<1> USE DEF IInv
<1>1. /\ ~Pending(q) /\ AuthMap[u] = NoNode
      /\ ~InUse(n) /\ generation[n] < MaxGeneration
      /\ generation' = [generation EXCEPT ![n] = @ + 1]
      /\ UserPass' = [UserPass EXCEPT ![n] = u]
      /\ AuthMap' = [AuthMap EXCEPT ![u] = n]
      /\ RequestList' = [RequestList EXCEPT ![n] = {q}]
      /\ updating' = updating \cup {n}
      /\ sinceUpdate' = [sinceUpdate EXCEPT ![n] = 0]
      /\ sinceUsed' = [sinceUsed EXCEPT ![n] = 0]
      /\ answers' = {}
      /\ UNCHANGED <<Ready, resultAge, resultOf, dispatching, failedAsserts>>
  BY DEF RequestNewNode
<1>2. generation'[n] = generation[n] + 1 /\ generation[n] \in Nat
  BY <1>1 DEF TypeOK
<1>3. [slot |-> n, gen |-> generation[n] + 1] \in NodeIds
  BY <1>1, <1>2, MaxGenerationAssumption DEF NodeIds, TypeOK
<1>4. PICK id \in NodeIds :
         /\ id.slot = n /\ id.gen = generation[n] + 1
         /\ request' = [request EXCEPT ![q] = [user |-> u, node |-> id]]
         /\ queries' = queries \cup {[node |-> id, user |-> u]}
  BY <1>2, <1>3 DEF RequestNewNode, IdOf
<1>5. u # NoUser /\ n # NoNode
  BY NullsAssumption
<1>6. n \notin Ready /\ n \notin updating /\ RequestList[n] = {} /\ resultOf[n] = NoUser
  BY <1>1 DEF SlotsAgree
<1>7. TypeOK'
  <2>1. [user |-> u, node |-> id] \in [user : Users, node : NodeIds \cup {NullId}]
    BY <1>4
  <2>2. request' \in [Requests -> [user : Users, node : NodeIds \cup {NullId}] \cup {NoRequest}]
    BY <1>4, <2>1 DEF TypeOK
  <2>3. queries' \in SUBSET Queries
    BY <1>4 DEF TypeOK, Queries
  <2>4. generation' \in [Nodes -> 0..MaxGeneration]
    BY <1>1, MaxGenerationAssumption DEF TypeOK
  <2> QED BY <1>1, <2>2, <2>3, <2>4, TimeFacts DEF TypeOK
<1>8. /\ UserPass'[n] = u
      /\ \A m \in Nodes : m # n => UserPass'[m] = UserPass[m]
  BY <1>1 DEF TypeOK
<1>9. SlotsAgree'
  BY <1>1, <1>2, <1>5, <1>6, <1>8 DEF SlotsAgree, InUse, TypeOK
<1>10. MapAgrees'
  <2>1. \A v \in Users : v # u => AuthMap'[v] = AuthMap[v]
    BY <1>1 DEF TypeOK
  <2>2. AuthMap'[u] = n
    BY <1>1 DEF TypeOK
  <2>3. \A m \in Nodes : InUse(m) => UserPass[m] # u
    BY <1>1 , NullsAssumption DEF MapAgrees
  <2>4. \A v \in Users : AuthMap[v] # n
    BY <1>1, <1>5, NullsAssumption DEF MapAgrees, InUse
  <2> QED BY <1>5, <1>8, <2>1, <2>2, <2>3, <2>4 DEF MapAgrees, InUse, TypeOK
<1>11. Watched'
  BY <1>1, <1>6, <1>8, TimeFacts DEF Watched, InUse, TypeOK
<1>12. /\ request'[q] = [user |-> u, node |-> id]
       /\ \A r \in Requests : r # q => request'[r] = request[r]
  BY <1>4 DEF TypeOK
<1>13. ListsDisjoint'
  <2>1. \A r \in Requests : Pending(r)' <=> r = q \/ Pending(r)
    BY <1>12, NewRequestIsPending DEF Pending
  <2>2. /\ RequestList'[n] = {q}
        /\ \A m \in Nodes : m # n => RequestList'[m] = RequestList[m]
    BY <1>1 DEF TypeOK
  <2> QED BY <1>1, <1>6, <2>1, <2>2 DEF ListsDisjoint
<1>14. IdsAreOwn'
  <2>1. Names(id, u)'
    BY <1>2, <1>4, <1>8 DEF Names, Found
  <2>2. ASSUME NEW i \in NodeIds, NEW v \in Users, Known(i, v) PROVE Names(i, v)'
    <3>1. i.slot \in Nodes /\ Names(i, v)
      BY <2>2, NodeIdFacts DEF IdsAreOwn
    <3>2. CASE i.slot = n
      BY <1>2, <3>1, <3>2, NamesKept
    <3>3. CASE i.slot # n
      BY <1>1, <1>8, <3>1, <3>3, NamesKept DEF TypeOK
    <3> QED BY <3>2, <3>3
  <2>3. ASSUME NEW i \in NodeIds, NEW v \in Users, Known(i, v)'
        PROVE  Known(i, v) \/ (i = id /\ v = u)
    BY <1>4, <1>12, <2>3 DEF Known
  <2> QED BY <1>1, <1>6, <1>8, <2>1, <2>2, <2>3 DEF IdsAreOwn
<1>15. ResultsFresh'
  BY <1>1, <1>6, <1>8, TimeFacts DEF ResultsFresh, InUse, TypeOK
<1>16. NoWaiterDropped' /\ AnswerIsOwn' /\ ResultIsRecent'
  BY <1>1, QuietStep
<1> QED BY <1>7, <1>9, <1>10, <1>11, <1>13, <1>14, <1>15, <1>16

\* A request for a known user: it is answered from a result, or joins the
\* requests that wait for the first one, whose query is too young to be repeated.
LEMMA KnownUserKeepsIInv ==
    ASSUME IInv, NEW q \in Requests, NEW u \in Users, NEW n \in Nodes,
           RequestKnownUser(q, u, n)
    PROVE  IInv'
<1> USE DEF IInv
<1>1. /\ ~Pending(q) /\ AuthMap[u] = n
      /\ request' = [request EXCEPT ![q] = [user |-> u, node |-> IdOf(n)]]
      /\ sinceUsed' = [sinceUsed EXCEPT ![n] = 0]
      /\ answers' = {}
      /\ UNCHANGED <<generation, UserPass, AuthMap, Ready, resultAge, resultOf, failedAsserts>>
  BY DEF RequestKnownUser
<1>2. UserPass[n] = u /\ InUse(n)
  BY <1>1, NullsAssumption DEF MapAgrees, InUse
<1>3. PICK id \in NodeIds :
         /\ id = IdOf(n) /\ id.slot = n /\ id.gen = generation[n]
         /\ request' = [request EXCEPT ![q] = [user |-> u, node |-> id]]
  BY <1>1, <1>2, IdOfIsId DEF IdOf
<1>4. \/ /\ n \in Ready
         /\ dispatching' = dispatching \cup {q} /\ RequestList' = RequestList
      \/ /\ n \notin Ready
         /\ RequestList' = [RequestList EXCEPT ![n] = @ \cup {q}]
         /\ dispatching' = dispatching
  BY DEF RequestKnownUser, Enqueue
<1>5. \/ /\ sinceUpdate[n] >= ReconfirmTimeout
         /\ queries' = queries \cup {[node |-> id, user |-> u]}
         /\ sinceUpdate' = [sinceUpdate EXCEPT ![n] = 0]
         /\ updating' = updating \cup {n}
      \/ /\ ~(sinceUpdate[n] >= ReconfirmTimeout)
         /\ UNCHANGED <<queries, sinceUpdate, updating>>
  BY <1>2, <1>3 DEF RequestKnownUser, PerformAuthRequest
<1>6. /\ sinceUpdate[n] \in Nat /\ sinceUsed[n] \in Nat /\ resultAge[n] \in Nat
      /\ sinceUpdate[n] >= ReconfirmTimeout => n \in Ready /\ n \notin updating
  BY <1>2, TimeFacts DEF TypeOK, Watched
<1>7. TypeOK'
  <2>1. [user |-> u, node |-> id] \in [user : Users, node : NodeIds \cup {NullId}]
    OBVIOUS
  <2>2. request' \in [Requests -> [user : Users, node : NodeIds \cup {NullId}] \cup {NoRequest}]
    BY <1>3, <2>1 DEF TypeOK
  <2>3. queries' \in SUBSET Queries
    BY <1>5 DEF TypeOK, Queries
  <2>4. RequestList' \in [Nodes -> SUBSET Requests] /\ dispatching' \in SUBSET Requests
    BY <1>4 DEF TypeOK
  <2>5. /\ sinceUpdate' \in [Nodes -> 0..AgeLimit] /\ sinceUsed' \in [Nodes -> 0..AgeLimit]
        /\ updating' \in SUBSET Nodes
    BY <1>1, <1>5, TimeFacts DEF TypeOK
  <2> QED BY <1>1, <2>2, <2>3, <2>4, <2>5 DEF TypeOK
<1>8. SlotsAgree' /\ MapAgrees'
  BY <1>1, <1>2, <1>4, <1>5 DEF SlotsAgree, MapAgrees, InUse, TypeOK
<1>9. Watched'
  <2>1. \A m \in Nodes : InUse(m)' /\ m \notin Ready' =>
           m \in updating' /\ sinceUsed'[m] <= sinceUpdate'[m]
    BY <1>1, <1>5, <1>6 DEF Watched, InUse, TypeOK
  <2>2. \A m \in Ready' : RequestList'[m] = {}
    BY <1>1, <1>4 DEF Watched, TypeOK
  <2>3. \A m \in updating' : sinceUpdate'[m] <= RequestTimeout
    BY <1>5, TimeFacts DEF Watched, TypeOK
  <2> QED BY <2>1, <2>2, <2>3 DEF Watched
<1>10. /\ request'[q] = [user |-> u, node |-> id]
       /\ \A r \in Requests : r # q => request'[r] = request[r]
  BY <1>3 DEF TypeOK
<1>11. ListsDisjoint'
  <2>1. \A r \in Requests : Pending(r)' <=> r = q \/ Pending(r)
    BY <1>10, NewRequestIsPending DEF Pending
  <2>2. CASE RequestList' = RequestList /\ dispatching' = dispatching \cup {q}
    BY <1>1, <2>1, <2>2 DEF ListsDisjoint
  <2>3. CASE /\ RequestList' = [RequestList EXCEPT ![n] = @ \cup {q}]
             /\ dispatching' = dispatching
    <3>1. /\ RequestList'[n] = RequestList[n] \cup {q}
          /\ \A m \in Nodes : m # n => RequestList'[m] = RequestList[m]
      BY <2>3 DEF TypeOK
    <3>2. q \notin dispatching /\ \A m \in Nodes : q \notin RequestList[m]
      BY <1>1 DEF ListsDisjoint
    <3>3. \A r \in Requests :
             Pending(r)' <=> r \in dispatching' \/ \E m \in Nodes : r \in RequestList'[m]
      BY <2>1, <2>3, <3>1 DEF ListsDisjoint
    <3> QED BY <2>3, <3>1, <3>2, <3>3 DEF ListsDisjoint
  <2> QED BY <1>4, <2>2, <2>3
<1>12. IdsAreOwn'
  <2>1. ASSUME NEW i \in NodeIds, NEW v \in Users, Known(i, v)'
        PROVE  Known(i, v) \/ (i = id /\ v = u)
    BY <1>5, <1>10, <2>1 DEF Known
  <2>2. Names(id, u)
    BY <1>2, <1>3 DEF Names, Found, TypeOK
  <2>3. ASSUME NEW i \in NodeIds, NEW v \in Users, Names(i, v) PROVE Names(i, v)'
    BY <1>1, <2>3 DEF Names, Found, InUse
  <2> QED BY <1>1, <2>1, <2>2, <2>3 DEF IdsAreOwn
<1>13. ResultsFresh'
  <2>1. \A m \in Nodes : InUse(m)' => sinceUsed'[m] <= NodeTimeout
    BY <1>1, TimeFacts DEF ResultsFresh, InUse, TypeOK
  <2>2. \A m \in Nodes \ Ready' : resultAge'[m] = 0
    BY <1>1 DEF ResultsFresh
  <2>3. \A m \in Ready' \cap updating' :
           resultAge'[m] < ReconfirmTimeout + NodeTimeout + sinceUpdate'[m]
    <3> SUFFICES ASSUME NEW m \in Ready, m \in updating'
                 PROVE  resultAge[m] < ReconfirmTimeout + NodeTimeout + sinceUpdate'[m]
      BY <1>1
    <3>1. CASE m = n /\ sinceUpdate[n] >= ReconfirmTimeout
      <4>1. sinceUpdate'[n] = 0
        BY <1>5, <3>1 DEF TypeOK
      <4>2. resultAge[n] < ReconfirmTimeout + sinceUsed[n] /\ sinceUsed[n] <= NodeTimeout
        BY <1>2, <1>6, <3>1 DEF ResultsFresh
      <4> QED BY <1>6, <3>1, <4>1, <4>2, TimeFacts
    <3>2. CASE ~(m = n /\ sinceUpdate[n] >= ReconfirmTimeout)
      BY <1>5, <3>2 DEF ResultsFresh, TypeOK
    <3> QED BY <3>1, <3>2
  <2>4. \A m \in Ready' \ updating' :
           /\ resultAge'[m] < ReconfirmTimeout + sinceUsed'[m]
           /\ sinceUpdate'[m] < ReconfirmTimeout => resultAge'[m] <= sinceUpdate'[m]
    <3> SUFFICES ASSUME NEW m \in Ready, m \notin updating'
                 PROVE  /\ resultAge[m] < ReconfirmTimeout + sinceUsed'[m]
                        /\ sinceUpdate'[m] < ReconfirmTimeout => resultAge[m] <= sinceUpdate'[m]
      BY <1>1
    <3>1. m \notin updating /\ sinceUpdate'[m] = sinceUpdate[m]
      BY <1>5 DEF TypeOK
    <3>2. CASE m = n
      <4>1. sinceUpdate[n] < ReconfirmTimeout /\ sinceUsed'[n] = 0
        BY <1>1, <1>5, <1>6, <3>2, TimeFacts DEF TypeOK
      <4> QED BY <1>6, <3>1, <3>2, <4>1, TimeFacts DEF ResultsFresh
    <3>3. CASE m # n
      BY <1>1, <3>1, <3>3 DEF ResultsFresh, TypeOK
    <3> QED BY <3>2, <3>3
  <2> QED BY <2>1, <2>2, <2>3, <2>4 DEF ResultsFresh
<1>14. NoWaiterDropped' /\ AnswerIsOwn' /\ ResultIsRecent'
  BY <1>1, QuietStep
<1> QED BY <1>7, <1>8, <1>9, <1>11, <1>12, <1>13, <1>14

\* The answer to a query whose node is gone changes nothing but the queries.
LEMMA LateResponseKeepsIInv ==
    ASSUME IInv, NEW query \in queries, LateResponse(query)
    PROVE  IInv'
<1> USE DEF IInv
<1>1. /\ queries' = queries \ {query} /\ answers' = {}
      /\ UNCHANGED <<nodeVars, requestVars, failedAsserts>>
  BY DEF LateResponse
<1>2. TypeOK'
  BY <1>1 DEF TypeOK, nodeVars, requestVars
<1>3. SlotsAgree' /\ MapAgrees' /\ Watched' /\ ListsDisjoint' /\ ResultsFresh'
  BY <1>1 DEF SlotsAgree, InUse, MapAgrees, Watched, ListsDisjoint, Pending, ResultsFresh,
     nodeVars, requestVars
<1>4. IdsAreOwn'
  BY <1>1 DEF IdsAreOwn, Known, Names, Found, InUse, nodeVars, requestVars
<1>5. NoWaiterDropped' /\ AnswerIsOwn' /\ ResultIsRecent'
  BY <1>1, QuietStep
<1> QED BY <1>2, <1>3, <1>4, <1>5

\* A result arrives for a node that exists, which is the node of the query's
\* user: those that wait for it are due.
LEMMA ServerPacketKeepsIInv ==
    ASSUME IInv, NEW query \in queries, OnServerPacket(query)
    PROVE  IInv'
<1> USE DEF IInv
<1>1. query \in Queries /\ query.node \in NodeIds /\ query.user \in Users
  BY DEF TypeOK, Queries
<1>2. PICK n \in Nodes, u \in Users : n = query.node.slot /\ u = query.user
  BY <1>1, NodeIdFacts
<1>3. /\ Ready' = Ready \cup {n}
      /\ resultOf' = [resultOf EXCEPT ![n] = u]
      /\ resultAge' = [resultAge EXCEPT ![n] = 0]
      /\ dispatching' = dispatching \cup RequestList[n]
      /\ RequestList' = [RequestList EXCEPT ![n] = {}]
      /\ sinceUsed' = [sinceUsed EXCEPT ![n] = 0]
      /\ updating' = updating \ {n}
      /\ queries' = queries \ {query} /\ answers' = {}
      /\ UNCHANGED <<generation, UserPass, sinceUpdate, AuthMap, request, failedAsserts>>
  BY <1>2 DEF OnServerPacket
<1>4. InUse(n) /\ UserPass[n] = u
  <2>1. query = [node |-> query.node, user |-> query.user]
    BY <1>1 DEF Queries
  <2>2. Names(query.node, query.user)
    BY <1>1, <2>1 DEF IdsAreOwn, Known
  <2> QED BY <1>2, <2>2 DEF Names, OnServerPacket, Found
<1>5. TypeOK'
  BY <1>3, TimeFacts DEF TypeOK
<1>6. SlotsAgree' /\ MapAgrees'
  BY <1>3, <1>4 DEF SlotsAgree, MapAgrees, InUse, TypeOK
<1>7. Watched'
  BY <1>3 DEF Watched, InUse, TypeOK
<1>8. ListsDisjoint'
  <2>1. /\ RequestList'[n] = {}
        /\ \A m \in Nodes : m # n => RequestList'[m] = RequestList[m]
    BY <1>3 DEF TypeOK
  <2>2. \A r \in Requests : Pending(r)' <=> Pending(r)
    BY <1>3 DEF Pending
  <2>3. \A r \in Requests :
           Pending(r)' <=> r \in dispatching' \/ \E m \in Nodes : r \in RequestList'[m]
    BY <1>3, <2>1, <2>2 DEF ListsDisjoint
  <2> QED BY <1>3, <2>1, <2>3 DEF ListsDisjoint
<1>9. IdsAreOwn'
  <2>1. \A i \in NodeIds, v \in Users : Known(i, v)' => Names(i, v)'
    BY <1>3 DEF IdsAreOwn, Known, Names, Found, InUse
  <2>2. \A m \in Nodes : resultOf'[m] \in {UserPass'[m], NoUser}
    BY <1>3, <1>4 DEF IdsAreOwn, TypeOK
  <2> QED BY <2>1, <2>2 DEF IdsAreOwn
<1>10. ResultsFresh'
  BY <1>3, TimeFacts DEF ResultsFresh, InUse, TypeOK
<1>11. NoWaiterDropped' /\ AnswerIsOwn' /\ ResultIsRecent'
  BY <1>3, QuietStep
<1> QED BY <1>5, <1>6, <1>7, <1>8, <1>9, <1>10, <1>11

-----------------------------------------------------------------------------
(* OnTick *)

\* The nodes that OnTick releases, and the requests that it answers.
Gone(step) == QueryExpired(step) \cup Unused(step)
Due(step)  == dispatching \cup UNION {RequestList[n] : n \in QueryExpired(step)}

\* A node that stays was used and, if its query is watched, asked for recently.
LEMMA StayingNode ==
    ASSUME IInv, NEW step \in 1..AgeLimit, NEW n \in Nodes, InUse(n), n \notin Gone(step)
    PROVE  /\ sinceUsed[n] + step <= NodeTimeout
           /\ n \in updating => sinceUpdate[n] + step <= RequestTimeout
           /\ Bound(sinceUsed[n] + step, AgeLimit) = sinceUsed[n] + step
<1> USE DEF IInv
<1>1. sinceUsed[n] \in Nat /\ sinceUpdate[n] \in Nat /\ step \in Nat
  BY TimeFacts DEF TypeOK
<1>2. ~(sinceUsed[n] + step > NodeTimeout)
  BY DEF Gone, Unused
<1>3. n \in updating => ~(sinceUpdate[n] + step > RequestTimeout)
  BY DEF Gone, QueryExpired
<1> QED BY <1>1, <1>2, <1>3, TimeFacts DEF Bound

\* No request waits in a node that is only unused.
LEMMA UnusedIsEmpty ==
    ASSUME IInv, NEW step \in 1..AgeLimit,
           NEW n \in Unused(step) \ QueryExpired(step)
    PROVE  RequestList[n] = {}
<1> USE DEF IInv
<1>1. n \in Nodes /\ InUse(n) /\ sinceUsed[n] + step > NodeTimeout
  BY DEF Unused
<1>2. n \in updating => ~(sinceUpdate[n] + step > RequestTimeout)
  BY DEF QueryExpired
<1>3. sinceUsed[n] \in Nat /\ sinceUpdate[n] \in Nat /\ step \in Nat
  BY <1>1, TimeFacts DEF TypeOK
<1>4. n \in Ready
  BY <1>1, <1>2, <1>3, TimeFacts DEF Watched
<1> QED BY <1>4 DEF Watched

\* What OnTick does, with the sets it computes named.
LEMMA TickMoves ==
    ASSUME IInv, NEW step \in 1..AgeLimit, OnTick(step)
    PROVE  /\ failedAsserts' = failedAsserts
           /\ ReleaseCacheNodes(Gone(step)) /\ Grow(step, Gone(step))
           /\ Dispatch(Due(step), Gone(step), step)
           /\ UNCHANGED <<generation, queries>>
           /\ Gone(step) \subseteq Nodes
<1>1. QueryExpired(step) \cup (Unused(step) \ QueryExpired(step)) = Gone(step)
  BY DEF Gone
<1>2. Gone(step) \subseteq Nodes
  BY DEF Gone, QueryExpired, Unused, IInv, TypeOK
<1> QED BY <1>1, <1>2, UnusedIsEmpty DEF OnTick, Due

\* Every request that is answered was pending, with its user.
LEMMA DueIsPending ==
    ASSUME IInv, NEW step \in 1..AgeLimit, NEW q \in Due(step)
    PROVE  q \in Requests /\ Pending(q) /\ request[q].user \in Users
<1>1. q \in Requests /\ Pending(q)
  BY DEF Due, QueryExpired, IInv, TypeOK, ListsDisjoint
<1> QED BY <1>1, RequestType DEF IInv

\* The answer to a request is its user's own result, and not too old.
LEMMA AnswerIsGood ==
    ASSUME IInv, NEW step \in 1..AgeLimit, NEW q \in Due(step)
    PROVE  LET a == AnswerOf(q, Gone(step), step) IN
           a \in Answers /\ a.result \in {a.user, NoUser} /\ a.age < StaleLimit
<1> USE DEF IInv
<1>1. q \in Requests /\ Pending(q) /\ request[q].user \in Users
  BY DueIsPending
<1>2. 0 \in 0..StaleLimit /\ 0 < StaleLimit
  BY TimeFacts
<1>3. CASE ~Found(request[q].node, Gone(step))
  BY <1>1, <1>2, <1>3 DEF AnswerOf, Answers
<1>4. CASE Found(request[q].node, Gone(step))
  <2>1. PICK id \in NodeIds, u \in Users, n \in Nodes :
           /\ id = request[q].node /\ u = request[q].user /\ n = id.slot
    BY <1>1, <1>4, RequestType, NodeIdFacts DEF Found
  <2>2. /\ InUse(n) /\ n \notin Gone(step) /\ Found(id, {})
    BY <1>4, <2>1 DEF Found
  <2>3. request[q] = [user |-> u, node |-> id]
    BY <1>1, <2>1 DEF TypeOK, Pending
  <2>4. UserPass[n] = u
    BY <1>1, <2>1, <2>2, <2>3 DEF IdsAreOwn, Known, Names
  <2>5. resultOf[n] \in {u, NoUser}
    BY <2>4 DEF IdsAreOwn
  <2>6. /\ sinceUsed[n] + step <= NodeTimeout
        /\ n \in updating => sinceUpdate[n] + step <= RequestTimeout
    BY <2>2, StayingNode
  <2>7. /\ sinceUsed[n] \in Nat /\ sinceUpdate[n] \in Nat /\ resultAge[n] \in Nat
        /\ step \in Nat
    BY TimeFacts DEF TypeOK
  <2>8. resultAge[n] + step < StaleLimit
    <3>1. CASE n \notin Ready
      BY <2>2, <2>6, <2>7, <3>1, TimeFacts DEF Watched, ResultsFresh
    <3>2. CASE n \in Ready /\ n \in updating
      BY <2>6, <2>7, <3>2, TimeFacts DEF ResultsFresh
    <3>3. CASE n \in Ready /\ n \notin updating
      BY <2>6, <2>7, <3>3, TimeFacts DEF ResultsFresh
    <3> QED BY <3>1, <3>2, <3>3
  <2>9. /\ Bound(resultAge[n] + step, StaleLimit) \in 0..StaleLimit
        /\ Bound(resultAge[n] + step, StaleLimit) < StaleLimit
    BY <2>7, <2>8, TimeFacts DEF Bound
  <2>10. AnswerOf(q, Gone(step), step)
           = [request |-> q, user |-> u, result |-> resultOf[n],
              age |-> Bound(resultAge[n] + step, StaleLimit)]
    BY <1>4, <2>1 DEF AnswerOf
  <2> QED BY <1>1, <2>5, <2>9, <2>10 DEF Answers
<1> QED BY <1>3, <1>4

LEMMA TickKeepsLists ==
    ASSUME IInv, NEW step \in 1..AgeLimit, OnTick(step)
    PROVE  ListsDisjoint'
<1> USE DEF IInv
<1>1. /\ \A n \in Nodes : RequestList'[n] = IF n \in Gone(step) THEN {} ELSE RequestList[n]
      /\ dispatching' = {}
  BY TickMoves DEF ReleaseCacheNodes, Dispatch
<1>2. \A q \in Requests : Pending(q)' <=> Pending(q) /\ q \notin Due(step)
  BY TickMoves DEF Dispatch, Pending
<1>3. ASSUME NEW q \in Requests, Pending(q), q \notin Due(step)
      PROVE  \E n \in Nodes : q \in RequestList'[n]
  <2>1. PICK n \in Nodes : q \in RequestList[n]
    BY <1>3 DEF ListsDisjoint, Due
  <2>2. n \notin QueryExpired(step)
    BY <1>3, <2>1 DEF Due
  <2>3. n \notin Gone(step)
    BY <2>1, <2>2, UnusedIsEmpty DEF Gone
  <2> QED BY <1>1, <2>1, <2>3
<1>4. ASSUME NEW q \in Requests, NEW n \in Nodes, q \in RequestList'[n]
      PROVE  Pending(q) /\ q \notin Due(step)
  <2>1. q \in RequestList[n] /\ n \notin Gone(step)
    BY <1>1, <1>4
  <2>2. Pending(q) /\ q \notin dispatching
    BY <2>1 DEF ListsDisjoint
  <2>3. \A m \in QueryExpired(step) : m \in Nodes /\ m # n
    BY <2>1 DEF Gone, QueryExpired, TypeOK
  <2>4. \A m \in QueryExpired(step) : q \notin RequestList[m]
    BY <2>1, <2>3 DEF ListsDisjoint
  <2> QED BY <2>2, <2>4 DEF Due
<1>5. \A m, n \in Nodes : m # n => RequestList'[m] \cap RequestList'[n] = {}
  BY <1>1 DEF ListsDisjoint
<1>6. \A q \in Requests :
         Pending(q)' <=> q \in dispatching' \/ \E n \in Nodes : q \in RequestList'[n]
  BY <1>1, <1>2, <1>3, <1>4
<1>7. \A n \in Nodes : RequestList'[n] \cap dispatching' = {}
  BY <1>1
<1> QED BY <1>5, <1>6, <1>7 DEF ListsDisjoint

LEMMA TickKeepsIds ==
    ASSUME IInv, NEW step \in 1..AgeLimit, OnTick(step)
    PROVE  IdsAreOwn'
<1> USE DEF IInv
<1>1. /\ \A n \in Nodes : UserPass'[n] = IF n \in Gone(step) THEN NoUser ELSE UserPass[n]
      /\ \A n \in Nodes : resultOf'[n] = IF n \in Gone(step) THEN NoUser ELSE resultOf[n]
      /\ \A q \in Requests : request'[q] = IF q \in Due(step) THEN NoRequest ELSE request[q]
      /\ UNCHANGED <<generation, queries>>
  BY TickMoves DEF ReleaseCacheNodes, Grow, Dispatch
<1>2. ASSUME NEW id \in NodeIds, NEW u \in Users, Known(id, u)' PROVE Names(id, u)'
  <2>1. Known(id, u)
    BY <1>1, <1>2, NewRequestIsPending DEF Known
  <2>2. Names(id, u) /\ id.slot \in Nodes
    BY <2>1, NodeIdFacts DEF IdsAreOwn
  <2> QED BY <1>1, <2>2, NamesKept DEF TypeOK
<1>3. \A n \in Nodes : resultOf'[n] \in {UserPass'[n], NoUser}
  BY <1>1 DEF IdsAreOwn
<1> QED BY <1>2, <1>3 DEF IdsAreOwn

\* The ages of the nodes that stay keep their bounds.
LEMMA TickKeepsAges ==
    ASSUME IInv, NEW step \in 1..AgeLimit, OnTick(step)
    PROVE  Watched' /\ ResultsFresh'
<1> USE DEF IInv
<1>1. /\ \A n \in Nodes : InUse(n)' <=> InUse(n) /\ n \notin Gone(step)
      /\ Ready' = Ready \ Gone(step) /\ updating' = updating \ Gone(step)
      /\ \A n \in Nodes : RequestList'[n] = IF n \in Gone(step) THEN {} ELSE RequestList[n]
  BY TickMoves DEF ReleaseCacheNodes, InUse
<1>2. ASSUME NEW n \in Nodes, InUse(n), n \notin Gone(step)
      PROVE  /\ sinceUpdate[n] \in Nat /\ sinceUsed[n] \in Nat /\ resultAge[n] \in Nat
             /\ step \in Nat
             /\ sinceUsed'[n] = sinceUsed[n] + step
             /\ sinceUsed[n] + step <= NodeTimeout
             /\ sinceUpdate'[n] = Bound(sinceUpdate[n] + step, AgeLimit)
             /\ n \in updating => /\ sinceUpdate'[n] = sinceUpdate[n] + step
                                  /\ sinceUpdate[n] + step <= RequestTimeout
             /\ resultAge'[n] = IF n \in Ready THEN Bound(resultAge[n] + step, StaleLimit) ELSE 0
  <2>1. /\ sinceUpdate[n] \in Nat /\ sinceUsed[n] \in Nat /\ resultAge[n] \in Nat
        /\ step \in Nat
    BY TimeFacts DEF TypeOK
  <2>2. /\ sinceUpdate'[n] = Bound(sinceUpdate[n] + step, AgeLimit)
        /\ sinceUsed'[n] = Bound(sinceUsed[n] + step, AgeLimit)
        /\ resultAge'[n] = IF n \in Ready THEN Bound(resultAge[n] + step, StaleLimit) ELSE 0
    BY <1>2, TickMoves DEF Grow
  <2>3. /\ sinceUsed[n] + step <= NodeTimeout
        /\ n \in updating => sinceUpdate[n] + step <= RequestTimeout
        /\ Bound(sinceUsed[n] + step, AgeLimit) = sinceUsed[n] + step
    BY <1>2, StayingNode
  <2>4. n \in updating => Bound(sinceUpdate[n] + step, AgeLimit) = sinceUpdate[n] + step
    BY <2>1, <2>3, TimeFacts DEF Bound
  <2> QED BY <2>1, <2>2, <2>3, <2>4
<1>3. \A n \in Ready : n \in Nodes /\ InUse(n)
  BY DEF TypeOK, SlotsAgree
<1>4. \A n \in updating : n \in Nodes /\ InUse(n)
  BY DEF TypeOK, SlotsAgree
<1>5. Watched'
  <2>1. \A n \in Nodes : InUse(n)' /\ n \notin Ready' =>
           n \in updating' /\ sinceUsed'[n] <= sinceUpdate'[n]
    <3> SUFFICES ASSUME NEW n \in Nodes, InUse(n), n \notin Gone(step), n \notin Ready
                 PROVE  n \in updating /\ sinceUsed'[n] <= sinceUpdate'[n]
      BY <1>1
    <3>1. n \in updating /\ sinceUsed[n] <= sinceUpdate[n]
      BY DEF Watched
    <3> QED BY <1>2, <3>1
  <2>2. \A n \in Ready' : RequestList'[n] = {}
    BY <1>1, <1>3 DEF Watched
  <2>3. \A n \in updating' : sinceUpdate'[n] <= RequestTimeout
    BY <1>1, <1>2, <1>4
  <2> QED BY <2>1, <2>2, <2>3 DEF Watched
<1>6. ResultsFresh'
  <2>1. \A n \in Nodes : InUse(n)' => sinceUsed'[n] <= NodeTimeout
    BY <1>1, <1>2
  <2>2. \A n \in Nodes \ Ready' : resultAge'[n] = 0
    BY <1>1, TickMoves DEF Grow
  <2>3. \A n \in Ready' \cap updating' :
           resultAge'[n] < ReconfirmTimeout + NodeTimeout + sinceUpdate'[n]
    <3> SUFFICES ASSUME NEW n \in Ready \cap updating, n \notin Gone(step)
                 PROVE  resultAge'[n] < ReconfirmTimeout + NodeTimeout + sinceUpdate'[n]
      BY <1>1
    <3>1. resultAge[n] < ReconfirmTimeout + NodeTimeout + sinceUpdate[n]
      BY DEF ResultsFresh
    <3>2. Bound(resultAge[n] + step, StaleLimit) <= resultAge[n] + step
      BY <1>2, <1>3, TimeFacts DEF Bound
    <3>3. Bound(resultAge[n] + step, StaleLimit) \in Nat
      BY <1>2, <1>3, TimeFacts DEF Bound
    <3>4. /\ resultAge'[n] = Bound(resultAge[n] + step, StaleLimit)
          /\ sinceUpdate'[n] = sinceUpdate[n] + step
          /\ sinceUpdate[n] \in Nat /\ resultAge[n] \in Nat /\ step \in Nat
      BY <1>2, <1>3
    <3> QED BY <3>1, <3>2, <3>3, <3>4, TimeFacts
  <2>4. \A n \in Ready' \ updating' :
           /\ resultAge'[n] < ReconfirmTimeout + sinceUsed'[n]
           /\ sinceUpdate'[n] < ReconfirmTimeout => resultAge'[n] <= sinceUpdate'[n]
    <3> SUFFICES ASSUME NEW n \in Ready \ updating, n \notin Gone(step)
                 PROVE  /\ resultAge'[n] < ReconfirmTimeout + sinceUsed'[n]
                        /\ sinceUpdate'[n] < ReconfirmTimeout => resultAge'[n] <= sinceUpdate'[n]
      BY <1>1
    <3>1. /\ resultAge[n] < ReconfirmTimeout + sinceUsed[n]
          /\ sinceUpdate[n] < ReconfirmTimeout => resultAge[n] <= sinceUpdate[n]
      BY DEF ResultsFresh
    <3>2. /\ resultAge'[n] = Bound(resultAge[n] + step, StaleLimit)
          /\ sinceUpdate'[n] = Bound(sinceUpdate[n] + step, AgeLimit)
          /\ sinceUsed'[n] = sinceUsed[n] + step
          /\ sinceUpdate[n] \in Nat /\ resultAge[n] \in Nat /\ sinceUsed[n] \in Nat
          /\ step \in Nat
      BY <1>2, <1>3
    <3>3. /\ Bound(resultAge[n] + step, StaleLimit) <= resultAge[n] + step
          /\ Bound(resultAge[n] + step, StaleLimit) \in Nat
      BY <3>2, TimeFacts DEF Bound
    <3>4. Bound(sinceUpdate[n] + step, AgeLimit) < ReconfirmTimeout
             => Bound(sinceUpdate[n] + step, AgeLimit) = sinceUpdate[n] + step
      BY <3>2, TimeFacts DEF Bound
    <3> QED BY <3>1, <3>2, <3>3, <3>4, TimeFacts
  <2> QED BY <2>1, <2>2, <2>3, <2>4 DEF ResultsFresh
<1> QED BY <1>5, <1>6

LEMMA TickKeepsIInv ==
    ASSUME IInv, NEW step \in 1..AgeLimit, OnTick(step)
    PROVE  IInv'
<1> USE DEF IInv
<1>1. /\ failedAsserts' = failedAsserts
      /\ ReleaseCacheNodes(Gone(step)) /\ Grow(step, Gone(step))
      /\ Dispatch(Due(step), Gone(step), step)
      /\ UNCHANGED <<generation, queries>>
      /\ Gone(step) \subseteq Nodes
  BY TickMoves
<1>2. answers' = {AnswerOf(q, Gone(step), step) : q \in Due(step)}
  BY <1>1 DEF Dispatch
<1>3. \A a \in answers' : a \in Answers /\ a.result \in {a.user, NoUser} /\ a.age < StaleLimit
  BY <1>2, AnswerIsGood
<1>4. NoWaiterDropped' /\ AnswerIsOwn' /\ ResultIsRecent'
  BY <1>1, <1>3 DEF NoWaiterDropped, AnswerIsOwn, ResultIsRecent
<1>5. TypeOK'
  <2>1. \A a \in Nat : /\ Bound(a, AgeLimit) \in 0..AgeLimit
                       /\ Bound(a, StaleLimit) \in 0..StaleLimit
    BY BoundFacts, TimeFacts
  <2>2. \A n \in Nodes : /\ sinceUpdate[n] + step \in Nat
                         /\ sinceUsed[n] + step \in Nat
                         /\ resultAge[n] + step \in Nat
    BY TimeFacts DEF TypeOK
  <2>3. 0 \in 0..AgeLimit /\ 0 \in 0..StaleLimit
    BY TimeFacts
  <2>4. /\ sinceUpdate' \in [Nodes -> 0..AgeLimit] /\ sinceUsed' \in [Nodes -> 0..AgeLimit]
        /\ resultAge' \in [Nodes -> 0..StaleLimit]
    BY <1>1, <2>1, <2>2, <2>3 DEF Grow
  <2>5. /\ resultOf' \in [Nodes -> Users \cup {NoUser}]
        /\ UserPass' \in [Nodes -> Users \cup {NoUser}]
        /\ AuthMap' \in [Users -> Nodes \cup {NoNode}]
    BY <1>1 DEF Grow, ReleaseCacheNodes, TypeOK
  <2>6. /\ RequestList' \in [Nodes -> SUBSET Requests]
        /\ Ready' \in SUBSET Nodes /\ updating' \in SUBSET Nodes
    BY <1>1 DEF ReleaseCacheNodes, TypeOK
  <2>7. /\ request' \in [Requests ->
              [user : Users, node : NodeIds \cup {NullId}] \cup {NoRequest}]
        /\ dispatching' \in SUBSET Requests
    BY <1>1 DEF Dispatch, TypeOK
  <2>8. answers' \in SUBSET Answers
    BY <1>3
  <2> QED BY <1>1, <2>4, <2>5, <2>6, <2>7, <2>8 DEF TypeOK
<1>6. SlotsAgree'
  BY <1>1 DEF SlotsAgree, InUse, ReleaseCacheNodes, Grow, TypeOK
<1>7. MapAgrees'
  <2>1. \A n \in Nodes : InUse(n)' => InUse(n) /\ n \notin Gone(step) /\ UserPass'[n] = UserPass[n]
    BY <1>1 DEF ReleaseCacheNodes, InUse
  <2>2. \A u \in Users : AuthMap'[u] # NoNode => AuthMap'[u] = AuthMap[u] /\ AuthMap[u] \notin Gone(step)
    BY <1>1 DEF ReleaseCacheNodes
  <2>3. \A u \in Users : AuthMap'[u] # NoNode => UserPass'[AuthMap'[u]] = u
    BY <1>1, <2>2 DEF MapAgrees, ReleaseCacheNodes, TypeOK
  <2>4. \A n \in Nodes : InUse(n)' => AuthMap'[UserPass'[n]] = n
    BY <1>1, <2>1, OwnerType DEF MapAgrees, ReleaseCacheNodes
  <2> QED BY <2>3, <2>4 DEF MapAgrees
<1> QED BY <1>4, <1>5, <1>6, <1>7, TickKeepsLists, TickKeepsIds, TickKeepsAges

-----------------------------------------------------------------------------
LEMMA NextKeepsIInv == IInv /\ [Next]_vars => IInv'
<1> SUFFICES ASSUME IInv, [Next]_vars
             PROVE  IInv'
  OBVIOUS
<1>1. ASSUME NEW q \in Requests, NEW u \in Users, RequestAuth(q, u) PROVE IInv'
  BY <1>1, WithoutNodeKeepsIInv, NewNodeKeepsIInv, KnownUserKeepsIInv DEF RequestAuth
<1>2. ASSUME NEW query \in queries, OnServerPacket(query) \/ LateResponse(query)
      PROVE  IInv'
  BY <1>2, ServerPacketKeepsIInv, LateResponseKeepsIInv
<1>3. CASE Tick
  BY <1>3, TickKeepsIInv DEF Tick
<1>4. CASE UNCHANGED vars
  <2> USE <1>4 DEF vars, nodeVars, requestVars, IInv
  <2>1. TypeOK' BY DEF TypeOK
  <2>2. SlotsAgree' /\ MapAgrees' /\ Watched' BY DEF SlotsAgree, MapAgrees, Watched, InUse
  <2>3. ListsDisjoint' BY DEF ListsDisjoint, Pending
  <2>4. IdsAreOwn' BY DEF IdsAreOwn, Known, Names, Found, InUse
  <2>5. ResultsFresh' BY DEF ResultsFresh, InUse
  <2>6. NoWaiterDropped' /\ AnswerIsOwn' /\ ResultIsRecent'
    BY DEF NoWaiterDropped, AnswerIsOwn, ResultIsRecent
  <2> QED BY <2>1, <2>2, <2>3, <2>4, <2>5, <2>6
<1> QED BY <1>1, <1>2, <1>3, <1>4 DEF Next

\* The inductive invariant holds in every state of every behaviour.
THEOREM Invariance == Spec => []IInv
<1> QED BY InitIInv, NextKeepsIInv, PTL DEF Spec

\* A request is answered with its own user's result or with nothing, whoever has
\* had its node's slot since.
THEOREM AnswersAreOwn == Spec => []AnswerIsOwn
<1>1. IInv => AnswerIsOwn BY DEF IInv
<1> QED BY <1>1, Invariance, PTL

\* A result that is given out is younger than the three timeouts together,
\* whatever their values and however long the loop stalls between two ticks.
THEOREM ResultsAreRecent == Spec => []ResultIsRecent
<1>1. IInv => ResultIsRecent BY DEF IInv
<1> QED BY <1>1, Invariance, PTL

\* Lists that are disjoint hold a request exactly once.
LEMMA ListsCountOnce == TypeOK /\ ListsDisjoint => OnOneList
<1> SUFFICES ASSUME TypeOK, ListsDisjoint, NEW q \in Requests
             PROVE  Cardinality({n \in Nodes : q \in RequestList[n]})
                       + (IF q \in dispatching THEN 1 ELSE 0) = IF Pending(q) THEN 1 ELSE 0
  BY DEF OnOneList
<1> DEFINE waits == {n \in Nodes : q \in RequestList[n]}
<1>1. CASE waits = {}
  <2>1. Cardinality(waits) = 0
    BY <1>1, FS_EmptySet
  <2>2. Pending(q) <=> q \in dispatching
    BY <1>1 DEF ListsDisjoint
  <2> QED BY <2>1, <2>2
<1>2. CASE waits # {}
  <2>1. PICK n \in Nodes : q \in RequestList[n]
    BY <1>2
  <2>2. waits = {n}
    BY <2>1 DEF ListsDisjoint
  <2>3. Cardinality(waits) = 1
    BY <2>2, FS_Singleton
  <2>4. Pending(q) /\ q \notin dispatching
    BY <2>1 DEF ListsDisjoint
  <2> QED BY <2>3, <2>4
<1> QED BY <1>1, <1>2

\* The map, the nodes and the lists agree, no request is on two lists or on
\* none, and no node is dropped under a request that waits in it.
THEOREM CacheIsConsistent == Spec => []CacheConsistent
<1>1. IInv => CacheConsistent
  BY ListsCountOnce DEF IInv, CacheConsistent
<1> QED BY <1>1, Invariance, PTL
=============================================================================
