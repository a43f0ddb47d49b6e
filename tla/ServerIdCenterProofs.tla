------------------------ MODULE ServerIdCenterProofs ------------------------
(***************************************************************************)
(* Proofs about ServerIdCenter, for every number of ids, connections and   *)
(* clients.  The inductive invariant IInv ties the three places that know  *)
(* about an id, IdManager's bitmap, RandomPool and the connection's user   *)
(* context, to each other; from it follow the exclusiveness of the ids,    *)
(* that none leaks, that the center's assertions hold, and that the        *)
(* center implements IdLease.                                              *)
(***************************************************************************)
EXTENDS ServerIdCenter, TLAPS

\* A random slot is 0 exactly when its index is free.
PoolAgrees == \A i \in Indices : i \in idInUse <=> RandomPool[i] # 0

\* A connection's id is the one its slot holds, and only an open one has an id.
LeaseHeld ==
    \A k \in Conns : userId[k] # NoId =>
        /\ serverEnd[k]
        /\ RandomPool[userId[k].idx] = userId[k].rnd

IInv ==
    /\ TypeOK
    /\ PoolAgrees
    /\ LeaseHeld
    /\ LeaseExclusive
    /\ NoIdLeak
    /\ CenterNeverAborts

-----------------------------------------------------------------------------
\* An id is not 0, its index is in range and its random half is not 0.
LEMMA IdFacts ==
    ASSUME NEW id \in ServerIds
    PROVE  /\ id # NoId
           /\ id.idx \in Indices /\ id.idx # 0
           /\ id.rnd \in Randoms /\ id.rnd # 0
BY RandomsAssumption, MaxObjectIdAssumption DEF ServerIds, NoId, Indices

LEMMA InitIInv == Init => IInv
BY MaxObjectIdAssumption
   DEF Init, IInv, TypeOK, PoolAgrees, LeaseHeld, LeaseExclusive, NoIdLeak,
       CenterNeverAborts, Indices, PreviousIds, NoId, ServerIds

\* What a step that closes connection k leaves behind (OnClientClose): every
\* other connection keeps its id and its slot.
LEMMA CloseKeepsIInv ==
    ASSUME IInv, NEW k \in Conns, OnClientClose(k),
           clientEnd' = clientEnd, down' = down, LocalServerId' = LocalServerId
    PROVE  IInv'
<1> USE DEF IInv
<1>1. CASE userId[k] = NoId
  <2>1. /\ UNCHANGED <<idInUse, RandomPool, failedAsserts>>
        /\ userId' = userId
    BY <1>1 DEF OnClientClose, TypeOK
  <2>2. TypeOK'
    BY <2>1 DEF OnClientClose, TypeOK
  <2>3. \A l \in Conns : userId[l] # NoId => l # k /\ serverEnd'[l]
    BY <1>1 DEF OnClientClose, TypeOK, LeaseHeld
  <2>4. PoolAgrees' /\ LeaseHeld' /\ LeaseExclusive' /\ CenterNeverAborts'
    BY <2>1, <2>3 DEF PoolAgrees, LeaseHeld, LeaseExclusive, CenterNeverAborts
  <2>5. NoIdLeak'
    <3> SUFFICES ASSUME NEW i \in idInUse'
                 PROVE  \E l \in Conns : serverEnd'[l] /\ userId'[l].idx = i
      BY DEF NoIdLeak
    <3>1. PICK l \in Conns : serverEnd[l] /\ userId[l].idx = i
      BY <2>1 DEF NoIdLeak
    <3>2. i \in Indices /\ i # 0
      BY <2>1 DEF TypeOK, Indices
    <3>3. userId[l] # NoId
      BY <3>1, <3>2 DEF NoId
    <3> QED BY <2>1, <2>3, <3>1, <3>3
  <2> QED BY <2>2, <2>4, <2>5
<1>2. CASE userId[k] # NoId
  <2> DEFINE id == userId[k]
  <2>1. id \in ServerIds /\ RandomPool[id.idx] = id.rnd
    BY <1>2 DEF TypeOK, LeaseHeld
  <2>2. id.idx \in Indices /\ id.rnd # 0
    BY <2>1, IdFacts
  <2>3. /\ idInUse' = idInUse \ {id.idx}
        /\ RandomPool' = [RandomPool EXCEPT ![id.idx] = 0]
        /\ failedAsserts' = failedAsserts
    BY <1>2, <2>1 DEF OnClientClose, ReleaseServerId, Require
  <2>4. /\ userId' = [userId EXCEPT ![k] = NoId]
        /\ serverEnd' = [serverEnd EXCEPT ![k] = FALSE]
        /\ up' = [up EXCEPT ![k] = {}]
    BY DEF OnClientClose
  <2> HIDE DEF id
  <2>5. TypeOK'
    BY <2>2, <2>3, <2>4 DEF TypeOK
  <2>6. PoolAgrees'
    BY <2>2, <2>3 DEF PoolAgrees, TypeOK
  <2>7. \A l \in Conns : userId'[l] # NoId =>
           /\ l # k /\ userId'[l] = userId[l] /\ userId[l] \in ServerIds
           /\ userId[l].idx # id.idx
    BY <1>2, <2>4 DEF TypeOK, LeaseExclusive, id
  <2>8. LeaseHeld'
    BY <2>2, <2>3, <2>4, <2>7, IdFacts DEF LeaseHeld, TypeOK
  <2>9. LeaseExclusive' /\ CenterNeverAborts'
    BY <2>3, <2>7 DEF LeaseExclusive, CenterNeverAborts
  <2>10. NoIdLeak'
    <3> SUFFICES ASSUME NEW i \in idInUse'
                 PROVE  \E l \in Conns : serverEnd'[l] /\ userId'[l].idx = i
      BY DEF NoIdLeak
    <3>1. PICK l \in Conns : serverEnd[l] /\ userId[l].idx = i
      BY <2>3 DEF NoIdLeak
    <3>2. l # k
      BY <2>3, <3>1 DEF id
    <3> QED BY <2>4, <3>1, <3>2 DEF TypeOK
  <2> QED BY <2>5, <2>6, <2>8, <2>9, <2>10
<1> QED BY <1>1, <1>2

\* Handing index i with random r to connection k, which has no id, when the
\* index is free.
LEMMA GrantKeepsIInv ==
    ASSUME IInv, NEW k \in Conns, NEW i \in Indices, NEW r \in Randoms,
           userId[k] = NoId, serverEnd[k], i \notin idInUse,
           idInUse' = idInUse \cup {i},
           RandomPool' = [RandomPool EXCEPT ![i] = r],
           Answer(k, [idx |-> i, rnd |-> r]),
           up' = [up EXCEPT ![k] = {}],
           failedAsserts' = failedAsserts,
           serverEnd' = serverEnd, clientEnd' = clientEnd,
           LocalServerId' = LocalServerId
    PROVE  IInv'
<1> USE DEF IInv
<1> DEFINE id == [idx |-> i, rnd |-> r]
<1>1. id \in ServerIds /\ id.idx = i /\ id.rnd = r
  BY DEF ServerIds
<1>2. id # NoId /\ r # 0 /\ i # 0
  BY <1>1, IdFacts
<1>3. /\ userId' = [userId EXCEPT ![k] = id]
      /\ down' = [down EXCEPT ![k] = @ \cup {id}]
  BY DEF Answer
<1> HIDE DEF id
<1>4. TypeOK'
  BY <1>1, <1>3 DEF TypeOK
<1>5. PoolAgrees'
  BY <1>2 DEF PoolAgrees, TypeOK
<1>6. \A l \in Conns : l # k /\ userId[l] # NoId =>
         /\ userId'[l] = userId[l] /\ userId[l] \in ServerIds
         /\ userId[l].idx \in Indices /\ userId[l].idx # i
  <2> TAKE l \in Conns
  <2> HAVE l # k /\ userId[l] # NoId
  <2>1. userId'[l] = userId[l] /\ userId[l] \in ServerIds
    BY <1>3 DEF TypeOK
  <2>2. /\ userId[l].idx \in Indices
        /\ RandomPool[userId[l].idx] # 0
    BY <2>1, IdFacts DEF LeaseHeld
  <2>3. userId[l].idx \in idInUse
    BY <2>2 DEF PoolAgrees
  <2> QED BY <2>1, <2>2, <2>3
<1>7. userId'[k] = id
  BY <1>3 DEF TypeOK
<1>8. LeaseHeld'
  BY <1>1, <1>6, <1>7, <1>3 DEF LeaseHeld, TypeOK
<1>9. LeaseExclusive' /\ CenterNeverAborts'
  BY <1>1, <1>3, <1>6, <1>7 DEF LeaseExclusive, CenterNeverAborts, TypeOK
<1>10. NoIdLeak'
  <2> SUFFICES ASSUME NEW j \in idInUse'
               PROVE  \E l \in Conns : serverEnd'[l] /\ userId'[l].idx = j
    BY DEF NoIdLeak
  <2>1. CASE j = i
    BY <1>1, <1>7, <2>1
  <2>2. CASE j # i
    <3>1. PICK l \in Conns : serverEnd[l] /\ userId[l].idx = j
      BY <2>2 DEF NoIdLeak
    <3>2. l # k
      BY <2>2, <3>1 DEF NoId, TypeOK, Indices
    <3> QED BY <1>3, <3>1, <3>2 DEF TypeOK
  <2> QED BY <2>1, <2>2
<1> QED BY <1>4, <1>5, <1>8, <1>9, <1>10

\* The center's answer to a request on a connection without an id.
LEMMA RegainKeepsIInv ==
    ASSUME IInv, NEW k \in Conns, NEW prev \in PreviousIds, OnClientPacket(k, prev),
           serverEnd[k]
    PROVE  IInv'
<1> USE DEF IInv
<1>1. /\ userId[k] = NoId
      /\ RegainServerId(k, prev)
      /\ up' = [up EXCEPT ![k] = {}]
      /\ UNCHANGED <<serverEnd, clientEnd, LocalServerId>>
  BY DEF OnClientPacket
<1>2. CASE Regainable(prev)
  <2>1. prev \in ServerIds /\ RandomPool[prev.idx] = 0
    BY <1>2 DEF Regainable
  <2>2. prev.idx \in Indices /\ prev.rnd \in Randoms
    BY <2>1, IdFacts
  <2>3. prev.idx \notin idInUse
    BY <2>1, <2>2 DEF PoolAgrees
  <2>4. /\ idInUse' = idInUse \cup {prev.idx}
        /\ RandomPool' = [RandomPool EXCEPT ![prev.idx] = prev.rnd]
        /\ Answer(k, prev)
        /\ failedAsserts' = failedAsserts
    BY <1>1, <1>2, <2>3 DEF RegainServerId, Require
  <2>5. prev = [idx |-> prev.idx, rnd |-> prev.rnd]
    BY <2>1 DEF ServerIds
  <2> QED BY <1>1, <2>2, <2>3, <2>4, <2>5, GrantKeepsIInv
<1>3. CASE ~Regainable(prev)
  <2>1. AcquireServerId(k)
    BY <1>1, <1>3 DEF RegainServerId
  <2>2. CASE idInUse = Indices /\ Answer(k, NoId) /\ UNCHANGED <<centerVars, failedAsserts>>
    <3>1. userId' = userId
      BY <1>1, <2>2 DEF Answer, TypeOK
    <3>2. TypeOK'
      BY <1>1, <2>2, <3>1 DEF Answer, TypeOK, centerVars
    <3> QED BY <1>1, <2>2, <3>1, <3>2
            DEF PoolAgrees, LeaseHeld, LeaseExclusive, NoIdLeak, CenterNeverAborts, centerVars
  <2>3. ASSUME NEW i \in Indices \ idInUse, NEW r \in Randoms,
               idInUse' = idInUse \cup {i},
               RandomPool' = [RandomPool EXCEPT ![i] = r],
               Answer(k, [idx |-> i, rnd |-> r]),
               failedAsserts' = failedAsserts
        PROVE  IInv'
    BY <1>1, <2>3, GrantKeepsIInv
  <2> QED BY <2>1, <2>2, <2>3 DEF AcquireServerId, centerVars
<1> QED BY <1>2, <1>3

\* A request only waits on a connection the center has open.
RequestsOpen == \A k \in Conns : up[k] # {} => serverEnd[k]

LEMMA RequestsOpenStep == TypeOK /\ RequestsOpen /\ [Next]_vars => RequestsOpen'
<1> SUFFICES ASSUME TypeOK, RequestsOpen, [Next]_vars
             PROVE  RequestsOpen'
  OBVIOUS
<1> USE DEF RequestsOpen, TypeOK
<1>1. ASSUME NEW k \in Conns, CenterCloses(k) PROVE RequestsOpen'
  BY <1>1 DEF CenterCloses, OnClientClose
<1>2. ASSUME NEW k \in Conns, NEW prev \in PreviousIds, OnClientPacket(k, prev)
      PROVE  RequestsOpen'
  BY <1>2 DEF OnClientPacket
<1>3. ASSUME NEW k \in Conns, NEW prev \in PreviousIds, OnSecondRequest(k, prev)
      PROVE  RequestsOpen'
  BY <1>3 DEF OnSecondRequest, OnClientClose
<1>4. CASE CenterRestarts
  BY <1>4 DEF CenterRestarts
<1>5. ASSUME NEW c \in Clients, NEW k \in Conns, Client(c, k) PROVE RequestsOpen'
  <2>1. CASE OnServerConnected(c, k)
    BY <2>1 DEF OnServerConnected
  <2>2. CASE AskAgain(c, k)
    BY <2>2 DEF AskAgain
  <2>3. CASE ClientCloses(c, k)
    BY <2>3 DEF ClientCloses
  <2>4. ASSUME NEW id \in ServerIds \cup {NoId},
               OnServerPacket(c, k, id) \/ DiesInDump(c, k, id)
        PROVE  RequestsOpen'
    BY <2>4 DEF OnServerPacket, DiesInDump
  <2> QED BY <1>5, <2>1, <2>2, <2>3, <2>4 DEF Client
<1>6. CASE UNCHANGED vars
  BY <1>6 DEF vars
<1> QED BY <1>1, <1>2, <1>3, <1>4, <1>5, <1>6 DEF Next, Center

\* The clients' steps leave the ids alone; what they change keeps its type.
LEMMA ClientKeepsIInv ==
    ASSUME IInv, NEW c \in Clients, NEW k \in Conns, Client(c, k)
    PROVE  IInv' /\ userId' = userId
<1> USE DEF IInv
<1> DEFINE Kept == /\ UNCHANGED <<idInUse, RandomPool, userId>>
                   /\ \A l \in Conns : serverEnd[l] => serverEnd'[l]
                   /\ CenterNeverAborts'
                   /\ TypeOK'
<1>1. Kept
  <2>1. CASE OnServerConnected(c, k)
    BY <2>1 DEF OnServerConnected, TypeOK, CenterNeverAborts
  <2>2. CASE AskAgain(c, k)
    BY <2>2 DEF AskAgain, TypeOK, CenterNeverAborts
  <2>3. CASE ClientCloses(c, k)
    BY <2>3 DEF ClientCloses, TypeOK, CenterNeverAborts
  <2>4. ASSUME NEW id \in ServerIds \cup {NoId}, OnServerPacket(c, k, id)
        PROVE  Kept
    <3>1. id \in PreviousIds
      BY DEF PreviousIds
    <3>2. failedAsserts' \in SUBSET AssertSites /\ CenterNeverAborts'
      BY <2>4 DEF OnServerPacket, Require, TypeOK, CenterNeverAborts, AssertSites
    <3> QED BY <2>4, <3>1, <3>2 DEF OnServerPacket, TypeOK
  <2>5. ASSUME NEW id \in ServerIds \cup {NoId}, DiesInDump(c, k, id)
        PROVE  Kept
    <3>1. PICK rest \in {NoId, BadId} : LocalServerId' = [LocalServerId EXCEPT ![c] = rest]
      BY <2>5 DEF DiesInDump
    <3>2. rest \in PreviousIds
      BY DEF PreviousIds
    <3> QED BY <2>5, <3>1, <3>2 DEF DiesInDump, TypeOK, CenterNeverAborts
  <2> QED BY <2>1, <2>2, <2>3, <2>4, <2>5 DEF Client
<1>2. PoolAgrees' /\ LeaseHeld' /\ LeaseExclusive' /\ NoIdLeak'
  BY <1>1 DEF PoolAgrees, LeaseHeld, LeaseExclusive, NoIdLeak
<1> QED BY <1>1, <1>2

LEMMA NextKeepsIInv == IInv /\ RequestsOpen /\ [Next]_vars => IInv'
<1> SUFFICES ASSUME IInv, RequestsOpen, [Next]_vars
             PROVE  IInv'
  OBVIOUS
<1>1. ASSUME NEW k \in Conns, CenterCloses(k) PROVE IInv'
  BY <1>1, CloseKeepsIInv DEF CenterCloses
<1>2. ASSUME NEW k \in Conns, NEW prev \in PreviousIds, OnClientPacket(k, prev)
      PROVE  IInv'
  <2>1. serverEnd[k]
    BY <1>2 DEF OnClientPacket, RequestsOpen
  <2> QED BY <1>2, <2>1, RegainKeepsIInv
<1>3. ASSUME NEW k \in Conns, NEW prev \in PreviousIds, OnSecondRequest(k, prev)
      PROVE  IInv'
  BY <1>3, CloseKeepsIInv DEF OnSecondRequest
<1>4. CASE CenterRestarts
  <2> USE <1>4 DEF CenterRestarts, IInv
  <2>1. TypeOK' BY DEF TypeOK
  <2>2. PoolAgrees' BY DEF PoolAgrees
  <2>3. LeaseHeld' /\ LeaseExclusive' BY DEF LeaseHeld, LeaseExclusive
  <2>4. NoIdLeak' /\ CenterNeverAborts' BY DEF NoIdLeak, CenterNeverAborts
  <2> QED BY <2>1, <2>2, <2>3, <2>4
<1>5. ASSUME NEW c \in Clients, NEW k \in Conns, Client(c, k) PROVE IInv'
  BY <1>5, ClientKeepsIInv
<1>6. CASE UNCHANGED vars
  BY <1>6 DEF vars, IInv, TypeOK, PoolAgrees, LeaseHeld, LeaseExclusive, NoIdLeak,
              CenterNeverAborts
<1> QED BY <1>1, <1>2, <1>3, <1>4, <1>5, <1>6 DEF Next, Center

-----------------------------------------------------------------------------
\* The inductive invariant holds in every state of every behaviour.
THEOREM Invariance == Spec => [](IInv /\ RequestsOpen)
<1>1. Init => IInv /\ RequestsOpen
  <2>1. Init => RequestsOpen BY DEF Init, RequestsOpen
  <2> QED BY <2>1, InitIInv
<1>2. (IInv /\ RequestsOpen) /\ [Next]_vars => (IInv /\ RequestsOpen)'
  BY NextKeepsIInv, RequestsOpenStep DEF IInv
<1> QED BY <1>1, <1>2, PTL DEF Spec

\* Every variable of the center and its clients keeps its type.
THEOREM TypeCorrect == Spec => []TypeOK
<1>1. IInv => TypeOK BY DEF IInv
<1> QED BY <1>1, Invariance, PTL

\* No two open connections of the center hold ids with the same index, for any
\* number of connections and any ids the clients ask to regain.
THEOREM IdsAreExclusive == Spec => []LeaseExclusive
<1>1. IInv => LeaseExclusive BY DEF IInv
<1> QED BY <1>1, Invariance, PTL

\* Every index handed out is held by an open connection (OnClientClose gives
\* back what RegainServerId took).
THEOREM NoIdLeaks == Spec => []NoIdLeak
<1>1. IInv => NoIdLeak BY DEF IInv
<1> QED BY <1>1, Invariance, PTL

\* The center's X_RUNTIME_ASSERTs never end its process.
THEOREM CenterSurvives == Spec => []CenterNeverAborts
<1>1. IInv => CenterNeverAborts BY DEF IInv
<1> QED BY <1>1, Invariance, PTL

\* The four together: the center's bookkeeping is consistent whatever its
\* clients ask for and in whatever order connections come and go.
THEOREM CenterIsConsistent == Spec => []IdsConsistent
<1>1. IInv => IdsConsistent BY DEF IInv, IdsConsistent
<1> QED BY <1>1, Invariance, PTL

-----------------------------------------------------------------------------
(* The center implements IdLease. *)

\* A closing connection's id expires; nothing happens when it has none.
LEMMA CloseExpires ==
    ASSUME TypeOK, NEW k \in Conns, OnClientClose(k)
    PROVE  Lease!Next \/ UNCHANGED userId
<1>1. userId' = [userId EXCEPT ![k] = NoId]
  BY DEF OnClientClose
<1>2. CASE userId[k] = NoId
  BY <1>1, <1>2 DEF TypeOK
<1>3. CASE userId[k] # NoId
  BY <1>1, <1>3 DEF Lease!Next, Lease!Expire, Lease!NoId, NoId
<1> QED BY <1>2, <1>3

\* An answer that carries a free index is a grant.
LEMMA AnswerGrants ==
    ASSUME IInv, NEW k \in Conns, userId[k] = NoId,
           NEW id \in ServerIds, id.idx \notin idInUse, Answer(k, id)
    PROVE  Lease!Next
<1> USE DEF IInv
<1>1. \A l \in Conns : userId[l].idx # id.idx
  <2> SUFFICES ASSUME NEW l \in Conns, userId[l].idx = id.idx
               PROVE  FALSE
    OBVIOUS
  <2>1. id.idx \in Indices /\ id.idx # 0
    BY IdFacts
  <2>2. userId[l] # NoId
    BY <2>1 DEF NoId
  <2>3. userId[l] \in ServerIds /\ RandomPool[id.idx] = userId[l].rnd
    BY <2>2 DEF TypeOK, LeaseHeld
  <2>4. userId[l].rnd # 0
    BY <2>3, IdFacts
  <2> QED BY <2>1, <2>3, <2>4 DEF PoolAgrees
<1>2. Lease!Grant(k, id)
  BY <1>1 DEF Lease!Grant, Lease!NoId, NoId, Answer
<1>3. id \in Lease!ServerIds
  BY DEF Lease!ServerIds, ServerIds
<1> QED BY <1>2, <1>3 DEF Lease!Next

LEMMA AnswerRefines ==
    ASSUME IInv, NEW k \in Conns, NEW prev \in PreviousIds, OnClientPacket(k, prev)
    PROVE  Lease!Next \/ UNCHANGED userId
<1> USE DEF IInv
<1>1. userId[k] = NoId /\ RegainServerId(k, prev)
  BY DEF OnClientPacket
<1>2. CASE Regainable(prev)
  <2>1. prev \in ServerIds /\ RandomPool[prev.idx] = 0 /\ prev.idx \in Indices
    BY <1>2, IdFacts DEF Regainable
  <2>2. prev.idx \notin idInUse /\ Answer(k, prev)
    BY <1>1, <1>2, <2>1 DEF PoolAgrees, RegainServerId
  <2> QED BY <1>1, <2>1, <2>2, AnswerGrants
<1>3. CASE ~Regainable(prev)
  <2>1. AcquireServerId(k)
    BY <1>1, <1>3 DEF RegainServerId
  <2>2. CASE Answer(k, NoId)
    BY <1>1, <2>2 DEF Answer, TypeOK
  <2>3. ASSUME NEW i \in Indices \ idInUse, NEW r \in Randoms,
               Answer(k, [idx |-> i, rnd |-> r])
        PROVE  Lease!Next
    <3> DEFINE id == [idx |-> i, rnd |-> r]
    <3>1. id \in ServerIds /\ id.idx \notin idInUse
      BY DEF ServerIds
    <3> QED BY <1>1, <2>3, <3>1, AnswerGrants
  <2> QED BY <2>1, <2>2, <2>3 DEF AcquireServerId
<1> QED BY <1>2, <1>3

LEMMA StepRefines == IInv /\ [Next]_vars => [Lease!Next]_userId
<1> SUFFICES ASSUME IInv, [Next]_vars
             PROVE  Lease!Next \/ UNCHANGED userId
  OBVIOUS
<1>0. TypeOK
  BY DEF IInv
<1>1. ASSUME NEW k \in Conns, CenterCloses(k)
      PROVE  Lease!Next \/ UNCHANGED userId
  BY <1>0, <1>1, CloseExpires DEF CenterCloses
<1>2. ASSUME NEW k \in Conns, NEW prev \in PreviousIds, OnClientPacket(k, prev)
      PROVE  Lease!Next \/ UNCHANGED userId
  BY <1>2, AnswerRefines
<1>3. ASSUME NEW k \in Conns, NEW prev \in PreviousIds, OnSecondRequest(k, prev)
      PROVE  Lease!Next \/ UNCHANGED userId
  BY <1>0, <1>3, CloseExpires DEF OnSecondRequest
<1>4. CASE CenterRestarts
  BY <1>4 DEF CenterRestarts, Lease!Next, Lease!Forget, Lease!NoId, NoId
<1>5. ASSUME NEW c \in Clients, NEW k \in Conns, Client(c, k)
      PROVE  UNCHANGED userId
  BY <1>5, ClientKeepsIInv
<1>6. CASE UNCHANGED vars
  BY <1>6 DEF vars
<1> QED BY <1>1, <1>2, <1>3, <1>4, <1>5, <1>6 DEF Next, Center

\* The ids in the connections' user contexts are leases: granted only when
\* nobody holds the index, never changed, ended by the close or a restart.
THEOREM CenterImplementsLease == Spec => LeaseSpec
<1>1. Init => Lease!Init
  BY DEF Init, Lease!Init, Lease!NoId, NoId
<1>2. IInv /\ [Next]_vars => [Lease!Next]_userId
  BY StepRefines
<1> QED BY <1>1, <1>2, Invariance, PTL DEF Spec, LeaseSpec, Lease!Spec

-----------------------------------------------------------------------------
\* What OutOfIdsOnlyWhenAllHeld says of a step.
ZeroIsDue ==
    \A k \in Conns : NoId \in down'[k] \ down[k] =>
        \A i \in Indices : \E j \in Conns \ {k} : serverEnd[j] /\ userId[j].idx = i

\* An answer of 0 is given when every index is in use, and none leaks.
LEMMA AnswerIsDue ==
    ASSUME IInv, NEW k \in Conns, NEW prev \in PreviousIds, OnClientPacket(k, prev)
    PROVE  ZeroIsDue
<1> USE DEF IInv
<1>1. userId[k] = NoId /\ RegainServerId(k, prev)
  BY DEF OnClientPacket
<1>2. CASE Regainable(prev)
  <2>1. prev # NoId /\ Answer(k, prev)
    BY <1>1, <1>2, IdFacts DEF Regainable, RegainServerId
  <2> QED BY <2>1 DEF ZeroIsDue, Answer, TypeOK
<1>3. CASE ~Regainable(prev)
  <2>1. AcquireServerId(k)
    BY <1>1, <1>3 DEF RegainServerId
  <2>2. CASE idInUse = Indices /\ Answer(k, NoId)
    <3>1. \A i \in Indices : \E j \in Conns : serverEnd[j] /\ userId[j].idx = i
      BY <2>2 DEF NoIdLeak
    <3>2. userId[k].idx \notin Indices
      BY <1>1, MaxObjectIdAssumption DEF NoId, Indices
    <3>3. \A l \in Conns : l # k => down'[l] = down[l]
      BY <2>2 DEF Answer, TypeOK
    <3> QED BY <3>1, <3>2, <3>3 DEF ZeroIsDue
  <2>3. ASSUME NEW i \in Indices, NEW r \in Randoms, Answer(k, [idx |-> i, rnd |-> r])
        PROVE  ZeroIsDue
    <3>1. [idx |-> i, rnd |-> r] # NoId
      BY IdFacts DEF ServerIds
    <3> QED BY <2>3, <3>1 DEF ZeroIsDue, Answer, TypeOK
  <2> QED BY <2>1, <2>2, <2>3 DEF AcquireServerId
<1> QED BY <1>2, <1>3

LEMMA StepIsDue == IInv /\ [Next]_vars => ZeroIsDue
<1> SUFFICES ASSUME IInv, [Next]_vars
             PROVE  ZeroIsDue
  OBVIOUS
<1>0. TypeOK
  BY DEF IInv
<1>1. ASSUME NEW k \in Conns, CenterCloses(k) PROVE ZeroIsDue
  BY <1>1 DEF CenterCloses, ZeroIsDue
<1>2. ASSUME NEW k \in Conns, NEW prev \in PreviousIds, OnClientPacket(k, prev)
      PROVE  ZeroIsDue
  BY <1>2, AnswerIsDue
<1>3. ASSUME NEW k \in Conns, NEW prev \in PreviousIds, OnSecondRequest(k, prev)
      PROVE  ZeroIsDue
  BY <1>3 DEF OnSecondRequest, ZeroIsDue
<1>4. CASE CenterRestarts
  BY <1>4 DEF CenterRestarts, ZeroIsDue
<1>5. ASSUME NEW c \in Clients, NEW k \in Conns, Client(c, k) PROVE ZeroIsDue
  <2>1. \A l \in Conns : down'[l] \subseteq down[l]
    BY <1>0, <1>5 DEF Client, OnServerConnected, AskAgain, ClientCloses, OnServerPacket,
       DiesInDump, TypeOK
  <2> QED BY <2>1 DEF ZeroIsDue
<1>6. CASE UNCHANGED vars
  BY <1>6 DEF vars, ZeroIsDue
<1> QED BY <1>1, <1>2, <1>3, <1>4, <1>5, <1>6 DEF Next, Center

\* The center says that it has no id left, which ends the client's process, only
\* when open connections hold them all.
THEOREM ZeroOnlyWhenAllHeld == Spec => OutOfIdsOnlyWhenAllHeld
<1>1. IInv /\ [Next]_vars => [ZeroIsDue]_vars
  BY StepIsDue
<1> QED BY <1>1, Invariance, PTL DEF Spec, OutOfIdsOnlyWhenAllHeld, ZeroIsDue
-----------------------------------------------------------------------------
(* The clients agree with the center. *)

\* A client has at most one connection.
OneConnection ==
    \A k, l \in Conns :
        (clientEnd[k] # NoClient /\ clientEnd[k] = clientEnd[l]) => k = l

\* What a client has still to read on an open connection is the id the center
\* keeps for it, and nobody asks while an answer of 0 is on its way.
AnswersFit ==
    \A k \in Conns :
        /\ serverEnd[k] => down[k] \subseteq {userId[k]}
        /\ up[k] # {} => NoId \notin down[k]

\* A client that has read its answer works under the center's id, even when it
\* has asked again since.
KnowsId ==
    \A k \in Conns :
        (serverEnd[k] /\ clientEnd[k] # NoClient /\ userId[k] # NoId /\ down[k] = {})
            => LocalServerId[clientEnd[k]] = userId[k]

Agreement == OneConnection /\ AnswersFit /\ KnowsId

\* A step that closes connections at the center and touches nothing else
\* of the other ones.
LEMMA CenterEndsKeepAgreement ==
    ASSUME TypeOK, Agreement, UNCHANGED <<clientEnd, down, LocalServerId>>,
           \A l \in Conns : serverEnd'[l] =>
               serverEnd[l] /\ userId'[l] = userId[l],
           \A l \in Conns : up'[l] # {} => up[l] # {}
    PROVE  Agreement'
<1>1. OneConnection' BY DEF Agreement, OneConnection
<1>2. AnswersFit' BY DEF Agreement, AnswersFit
<1>3. KnowsId' BY DEF Agreement, KnowsId
<1> QED BY <1>1, <1>2, <1>3 DEF Agreement

LEMMA CloseKeepsAgreement ==
    ASSUME TypeOK, Agreement, NEW k \in Conns, OnClientClose(k),
           UNCHANGED <<clientEnd, down, LocalServerId>>
    PROVE  Agreement'
<1>1. \A l \in Conns : serverEnd'[l] => serverEnd[l] /\ userId'[l] = userId[l]
  BY DEF OnClientClose, TypeOK
<1>2. \A l \in Conns : up'[l] # {} => up[l] # {}
  BY DEF OnClientClose, TypeOK
<1> QED BY <1>1, <1>2, CenterEndsKeepAgreement

\* The answer to a request is the only one on its connection: the request was
\* read, and what came before it was read by the client.
LEMMA AnswerKeepsAgreement ==
    ASSUME TypeOK, Agreement, NEW k \in Conns, NEW prev \in PreviousIds,
           OnClientPacket(k, prev), serverEnd[k]
    PROVE  Agreement'
<1>1. /\ userId[k] = NoId /\ up[k] # {}
      /\ RegainServerId(k, prev)
      /\ up' = [up EXCEPT ![k] = {}]
      /\ UNCHANGED <<serverEnd, clientEnd, LocalServerId>>
  BY DEF OnClientPacket
<1>2. PICK id \in ServerIds \cup {NoId} : Answer(k, id)
  <2>1. CASE Regainable(prev)
    BY <1>1, <2>1 DEF RegainServerId, Regainable
  <2>2. CASE ~Regainable(prev)
    <3>1. AcquireServerId(k)
      BY <1>1, <2>2 DEF RegainServerId
    <3>2. \A i \in Indices, r \in Randoms : [idx |-> i, rnd |-> r] \in ServerIds
      BY DEF ServerIds
    <3> QED BY <3>1, <3>2 DEF AcquireServerId
  <2> QED BY <2>1, <2>2
<1>3. down[k] = {}
  BY <1>1 DEF Agreement, AnswersFit
<1>4. /\ userId'[k] = id /\ down'[k] = {id}
      /\ \A l \in Conns : l # k => userId'[l] = userId[l] /\ down'[l] = down[l]
  BY <1>2, <1>3 DEF Answer, TypeOK
<1>5. OneConnection'
  BY <1>1 DEF Agreement, OneConnection
<1>6. AnswersFit'
  BY <1>1, <1>4 DEF Agreement, AnswersFit, TypeOK
<1>7. KnowsId'
  BY <1>1, <1>4 DEF Agreement, KnowsId
<1> QED BY <1>5, <1>6, <1>7 DEF Agreement

\* A new connection starts with nothing on its way and without an id.
LEMMA ConnectKeepsAgreement ==
    ASSUME TypeOK, LeaseHeld, Agreement, NEW c \in Clients, NEW k \in Conns,
           OnServerConnected(c, k)
    PROVE  Agreement'
<1>1. userId[k] = NoId
  BY DEF OnServerConnected, LeaseHeld
<1>2. \A l \in Conns : clientEnd[l] # c
  BY DEF OnServerConnected, Connected
<1>3. /\ clientEnd'[k] = c /\ down'[k] = {}
      /\ \A l \in Conns : l # k =>
            /\ clientEnd'[l] = clientEnd[l] /\ serverEnd'[l] = serverEnd[l]
            /\ down'[l] = down[l] /\ up'[l] = up[l]
      /\ UNCHANGED <<userId, LocalServerId>>
  BY DEF OnServerConnected, TypeOK
<1>4. OneConnection'
  BY <1>2, <1>3 DEF Agreement, OneConnection
<1>5. AnswersFit'
  BY <1>3 DEF Agreement, AnswersFit
<1>6. KnowsId'
  BY <1>1, <1>3 DEF Agreement, KnowsId
<1> QED BY <1>4, <1>5, <1>6 DEF Agreement

\* The client adopts the one answer on its connection.
LEMMA AdoptKeepsAgreement ==
    ASSUME TypeOK, Agreement, NEW c \in Clients, NEW k \in Conns,
           NEW id \in ServerIds \cup {NoId}, OnServerPacket(c, k, id)
    PROVE  Agreement'
<1>1. c # NoClient
  BY NoClientAssumption
<1>2. /\ clientEnd[k] = c
      /\ LocalServerId'[c] = id
      /\ \A d \in Clients : d # c => LocalServerId'[d] = LocalServerId[d]
      /\ \A l \in Conns : l # k => down'[l] = down[l]
      /\ down'[k] = down[k] \ {id} /\ id \in down[k]
      /\ UNCHANGED <<serverEnd, userId, clientEnd, up>>
  BY DEF OnServerPacket, TypeOK
<1>3. serverEnd[k] => userId[k] = id
  BY <1>2 DEF Agreement, AnswersFit
<1>4. OneConnection' /\ AnswersFit'
  BY <1>2 DEF Agreement, OneConnection, AnswersFit
<1>5. KnowsId'
  <2> SUFFICES ASSUME NEW l \in Conns, serverEnd[l], clientEnd[l] # NoClient,
                      userId[l] # NoId, down'[l] = {}
               PROVE  LocalServerId'[clientEnd[l]] = userId[l]
    BY <1>2 DEF KnowsId
  <2>1. CASE l = k
    BY <1>2, <1>3, <2>1
  <2>2. CASE l # k
    <3>1. clientEnd[l] \in Clients /\ clientEnd[l] # c
      BY <1>1, <1>2, <2>2 DEF Agreement, OneConnection, TypeOK
    <3> QED BY <1>2, <2>2, <3>1 DEF Agreement, KnowsId
  <2> QED BY <2>1, <2>2
<1> QED BY <1>4, <1>5 DEF Agreement

\* A client end closes; the id the client keeps may be any: it has no other
\* connection.
LEMMA ClientEndKeepsAgreement ==
    ASSUME TypeOK, Agreement, NEW c \in Clients, NEW k \in Conns, clientEnd[k] = c,
           clientEnd' = [clientEnd EXCEPT ![k] = NoClient],
           down' = [down EXCEPT ![k] = {}],
           \A d \in Clients : d # c => LocalServerId'[d] = LocalServerId[d],
           UNCHANGED <<serverEnd, userId, up>>
    PROVE  Agreement'
<1>1. c # NoClient
  BY NoClientAssumption
<1>2. /\ clientEnd'[k] = NoClient /\ down'[k] = {}
      /\ \A l \in Conns : l # k => clientEnd'[l] = clientEnd[l] /\ down'[l] = down[l]
  BY DEF TypeOK
<1>3. OneConnection' /\ AnswersFit'
  BY <1>2 DEF Agreement, OneConnection, AnswersFit
<1>4. KnowsId'
  <2> SUFFICES ASSUME NEW l \in Conns, l # k, serverEnd[l], clientEnd[l] # NoClient,
                      userId[l] # NoId, down[l] = {}
               PROVE  LocalServerId'[clientEnd[l]] = userId[l]
    BY <1>2 DEF KnowsId
  <2>1. clientEnd[l] \in Clients /\ clientEnd[l] # c
    BY <1>1 DEF Agreement, OneConnection, TypeOK
  <2> QED BY <2>1 DEF Agreement, KnowsId
<1> QED BY <1>3, <1>4 DEF Agreement

LEMMA ClientKeepsAgreement ==
    ASSUME TypeOK, LeaseHeld, Agreement, NEW c \in Clients, NEW k \in Conns, Client(c, k)
    PROVE  Agreement'
<1>1. CASE OnServerConnected(c, k)
  BY <1>1, ConnectKeepsAgreement
<1>2. CASE AskAgain(c, k)
  BY <1>2 DEF AskAgain, TypeOK, Agreement, OneConnection, AnswersFit, KnowsId
<1>3. CASE ClientCloses(c, k)
  BY <1>3, ClientEndKeepsAgreement DEF ClientCloses
<1>4. ASSUME NEW id \in ServerIds \cup {NoId}, OnServerPacket(c, k, id)
      PROVE  Agreement'
  BY <1>4, AdoptKeepsAgreement
<1>5. ASSUME NEW id \in ServerIds \cup {NoId}, DiesInDump(c, k, id)
      PROVE  Agreement'
  <2>1. \A d \in Clients : d # c => LocalServerId'[d] = LocalServerId[d]
    BY <1>5 DEF DiesInDump, TypeOK
  <2> QED BY <1>5, <2>1, ClientEndKeepsAgreement DEF DiesInDump
<1> QED BY <1>1, <1>2, <1>3, <1>4, <1>5 DEF Client

LEMMA NextKeepsAgreement ==
    TypeOK /\ LeaseHeld /\ RequestsOpen /\ Agreement /\ [Next]_vars => Agreement'
<1> SUFFICES ASSUME TypeOK, LeaseHeld, RequestsOpen, Agreement, [Next]_vars
             PROVE  Agreement'
  OBVIOUS
<1>1. ASSUME NEW k \in Conns, CenterCloses(k) PROVE Agreement'
  BY <1>1, CloseKeepsAgreement DEF CenterCloses
<1>2. ASSUME NEW k \in Conns, NEW prev \in PreviousIds, OnClientPacket(k, prev)
      PROVE  Agreement'
  <2>1. serverEnd[k]
    BY <1>2 DEF OnClientPacket, RequestsOpen
  <2> QED BY <1>2, <2>1, AnswerKeepsAgreement
<1>3. ASSUME NEW k \in Conns, NEW prev \in PreviousIds, OnSecondRequest(k, prev)
      PROVE  Agreement'
  BY <1>3, CloseKeepsAgreement DEF OnSecondRequest
<1>4. CASE CenterRestarts
  BY <1>4, CenterEndsKeepAgreement DEF CenterRestarts
<1>5. ASSUME NEW c \in Clients, NEW k \in Conns, Client(c, k) PROVE Agreement'
  BY <1>5, ClientKeepsAgreement
<1>6. CASE UNCHANGED vars
  BY <1>6 DEF vars, Agreement, OneConnection, AnswersFit, KnowsId
<1> QED BY <1>1, <1>2, <1>3, <1>4, <1>5, <1>6 DEF Next, Center

\* A client with nothing in flight works under the id the center has reserved
\* for its connection, whatever was lost, refused or asked for twice before.
THEOREM ClientsAgree == Spec => []ClientAgrees
<1>1. Init => Agreement
  BY DEF Init, Agreement, OneConnection, AnswersFit, KnowsId
<1>2. (IInv /\ RequestsOpen) /\ Agreement /\ [Next]_vars => Agreement'
  BY NextKeepsAgreement DEF IInv
<1>3. Agreement => ClientAgrees
  BY DEF Agreement, KnowsId, ClientAgrees
<1> QED BY <1>1, <1>2, <1>3, Invariance, PTL DEF Spec
=============================================================================
