-------------------------- MODULE ServerListProofs --------------------------
(***************************************************************************)
(* Proofs about the server list, for any number of kinds, processes,       *)
(* connections and download clients, and any limits: its lists are sorted  *)
(* and in bounds, who loses an entry and why, and what versions mean to a  *)
(* client.                                                                 *)
(***************************************************************************)
EXTENDS ServerList, ListLemmas, FiniteSetTheorems

-----------------------------------------------------------------------------
(* Sorted lists *)

Sorted(s) == \A i, j \in 1..Len(s) : i < j => s[i] < s[j]

LEMMA InsertAtProperties ==
    ASSUME NEW S, NEW s \in Seq(S), NEW p \in 1..Len(s) + 1, NEW e \in S
    PROVE  /\ InsertAt(s, p, e) \in Seq(S)
           /\ Len(InsertAt(s, p, e)) = Len(s) + 1
           /\ \A i \in 1..Len(s) + 1 :
                 InsertAt(s, p, e)[i] = IF i < p THEN s[i] ELSE IF i = p THEN e ELSE s[i - 1]
<1>1. Len(s) \in Nat /\ p \in Nat \ {0}
  BY LenProperties
<1>2. PICK a : a = SubSeq(s, 1, p - 1)
  OBVIOUS
<1>3. PICK b : b = SubSeq(s, p, Len(s))
  OBVIOUS
<1>4. /\ a \in Seq(S) /\ Len(a) = p - 1 /\ \A i \in 1..p - 1 : a[i] = s[i]
  <2>1. \A i \in 1..p - 1 : s[i] \in S
    BY <1>1, ElementOfSeq
  <2>. QED BY <1>1, <1>2, <2>1, SubSeqProperties
<1>5. /\ b \in Seq(S) /\ Len(b) = Len(s) - p + 1 /\ \A i \in 1..Len(s) - p + 1 : b[i] = s[p + i - 1]
  <2>1. \A i \in p..Len(s) : s[i] \in S
    BY <1>1, ElementOfSeq
  <2>. QED BY <1>1, <1>3, <2>1, SubSeqProperties
<1>6. PICK c : c = a \o <<e>>
  OBVIOUS
<1>7. <<e>> \in Seq(S) /\ Len(<<e>>) = 1 /\ <<e>>[1] = e
  OBVIOUS
<1>8. /\ c \in Seq(S) /\ Len(c) = p
      /\ \A i \in 1..p - 1 : c[i] = s[i]
      /\ c[p] = e
  <2>1. /\ c \in Seq(S) /\ Len(c) = Len(a) + 1
        /\ \A i \in 1..Len(a) + 1 : c[i] = IF i <= Len(a) THEN a[i] ELSE <<e>>[i - Len(a)]
    BY <1>4, <1>6, <1>7, ConcatProperties
  <2>. QED BY <1>1, <1>4, <1>7, <2>1
<1>9. PICK t : t = c \o b
  OBVIOUS
<1>10. /\ t \in Seq(S) /\ Len(t) = Len(c) + Len(b)
       /\ \A i \in 1..Len(c) + Len(b) : t[i] = IF i <= Len(c) THEN c[i] ELSE b[i - Len(c)]
  BY <1>5, <1>8, <1>9, ConcatProperties
<1>11. t = InsertAt(s, p, e)
  BY <1>2, <1>3, <1>6, <1>9 DEF InsertAt
<1>12. Len(t) = Len(s) + 1
  BY <1>1, <1>5, <1>8, <1>10
<1>13. ASSUME NEW i \in 1..Len(s) + 1
       PROVE  t[i] = IF i < p THEN s[i] ELSE IF i = p THEN e ELSE s[i - 1]
  <2>1. t[i] = IF i <= p THEN c[i] ELSE b[i - p]
    BY <1>1, <1>5, <1>8, <1>10
  <2>2. CASE i <= p
    <3>1. t[i] = c[i] /\ (i \in 1..p - 1 \/ i = p)
      BY <1>1, <2>1, <2>2
    <3>2. CASE i \in 1..p - 1
      BY <1>1, <1>8, <3>1, <3>2
    <3>3. CASE i = p
      BY <1>1, <1>8, <3>1, <3>3
    <3>. QED BY <3>1, <3>2, <3>3
  <2>3. CASE i > p
    <3>1. i - p \in 1..Len(s) - p + 1
      BY <1>1, <2>3
    <3>2. b[i - p] = s[p + (i - p) - 1] /\ p + (i - p) - 1 = i - 1
      BY <1>1, <1>5, <3>1
    <3>. QED BY <1>1, <2>1, <2>3, <3>2
  <2>4. i \in Int /\ p \in Int /\ (i <= p \/ i > p)
    BY <1>1
  <2>. QED BY <2>2, <2>3, <2>4
<1>. QED BY <1>10, <1>11, <1>12, <1>13

LowerBound(s, e) == Min({i \in 1..Len(s) + 1 : i <= Len(s) => e <= s[i]})

\* Where lower_bound says, a new number fits in.
LEMMA InsertSorted ==
    ASSUME NEW S \in SUBSET Nat, NEW s \in Seq(S), Sorted(s), NEW e \in S, e \notin ToSet(s),
           NEW p, p = LowerBound(s, e)
    PROVE  /\ p \in 1..Len(s) + 1
           /\ \A i \in 1..Len(s) : i < p <=> s[i] < e
           /\ Sorted(InsertAt(s, p, e))
<1>. DEFINE T == {i \in 1..Len(s) + 1 : i <= Len(s) => e <= s[i]}
<1>1. Len(s) \in Nat /\ \A i \in 1..Len(s) : s[i] \in Nat
  BY LenProperties, ElementOfSeq
<1>2. T \in SUBSET Nat /\ Len(s) + 1 \in T
  BY <1>1
<1>3. p \in T /\ \A i \in T : p <= i
  BY <1>2, MinIsLeast DEF LowerBound
<1>4. p \in 1..Len(s) + 1
  BY <1>3
<1>5. \A i \in 1..Len(s) : s[i] # e
  <2>1. DOMAIN s = 1..Len(s)
    BY LenProperties
  <2>. QED BY <2>1 DEF ToSet
<1>6. ASSUME NEW i \in 1..Len(s) PROVE i < p <=> s[i] < e
  <2>1. ASSUME i < p PROVE s[i] < e
    <3>1. i \notin T
      BY <1>1, <1>3, <1>4, <2>1
    <3>2. i \in 1..Len(s) + 1 /\ i <= Len(s)
      BY <1>1
    <3>3. ~(e <= s[i])
      BY <3>1, <3>2
    <3>. QED BY <1>1, <3>3
  <2>2. ASSUME ~(i < p) PROVE ~(s[i] < e)
    <3>1. p <= Len(s) /\ p \in 1..Len(s) /\ e <= s[p]
      BY <1>1, <1>3, <1>4, <2>2
    <3>2. s[p] <= s[i]
      <4>1. CASE p = i
        BY <1>1, <4>1
      <4>2. CASE p < i
        BY <1>1, <3>1, <4>2 DEF Sorted
      <4>. QED BY <1>1, <3>1, <2>2, <4>1, <4>2
    <3>. QED BY <1>1, <3>1, <3>2
  <2>. QED BY <2>1, <2>2
<1>0. PICK q \in 1..Len(s) + 1 : q = p
  BY <1>4
<1>7. PICK t : t = InsertAt(s, q, e)
  OBVIOUS
<1>8. /\ Len(t) = Len(s) + 1
      /\ \A i \in 1..Len(s) + 1 : t[i] = IF i < p THEN s[i] ELSE IF i = p THEN e ELSE s[i - 1]
  <2>1. /\ Len(t) = Len(s) + 1
        /\ \A i \in 1..Len(s) + 1 : t[i] = IF i < q THEN s[i] ELSE IF i = q THEN e ELSE s[i - 1]
    BY ONLY <1>7, InsertAtProperties, s \in Seq(S), e \in S
  <2>. QED BY <1>0, <2>1
<1>9. ASSUME NEW i \in 1..Len(t), NEW j \in 1..Len(t), i < j PROVE t[i] < t[j]
  <2>1. i \in Nat /\ j \in Nat /\ p \in Nat /\ i \in 1..Len(s) + 1 /\ j \in 1..Len(s) + 1
    BY <1>1, <1>4, <1>8
  <2>2. CASE j < p
    <3>1. i \in 1..Len(s) /\ j \in 1..Len(s) /\ t[i] = s[i] /\ t[j] = s[j]
      BY <1>1, <1>4, <1>8, <1>9, <2>1, <2>2
    <3>. QED BY <1>9, <3>1 DEF Sorted
  <2>3. CASE j = p
    <3>1. i \in 1..Len(s) /\ t[i] = s[i] /\ t[j] = e /\ i < p
      BY <1>1, <1>4, <1>8, <1>9, <2>1, <2>3
    <3>. QED BY <1>6, <3>1
  <2>4. CASE p < j
    <3>1. j - 1 \in 1..Len(s) /\ t[j] = s[j - 1] /\ ~(j - 1 < p)
      BY <1>1, <1>4, <1>8, <2>1, <2>4
    <3>2. e < s[j - 1]
      <4>1. ~(s[j - 1] < e)
        BY <1>6, <3>1
      <4>2. s[j - 1] \in Nat /\ s[j - 1] # e /\ e \in Nat
        BY <1>1, <1>5, <3>1
      <4>. QED BY <4>1, <4>2
    <3>3. CASE i = p
      BY <1>8, <2>1, <3>1, <3>2, <3>3
    <3>4. CASE i < p
      <4>1. i \in 1..Len(s) /\ t[i] = s[i]
        BY <1>1, <1>4, <1>8, <2>1, <3>4
      <4>2. s[i] < e /\ s[i] \in Nat /\ s[j - 1] \in Nat /\ e \in Nat
        BY <1>1, <1>6, <3>1, <3>4, <4>1
      <4>. QED BY <3>1, <3>2, <4>1, <4>2
    <3>5. CASE p < i
      <4>1. i - 1 \in 1..Len(s) /\ t[i] = s[i - 1] /\ i - 1 < j - 1
        BY <1>1, <1>4, <1>8, <1>9, <2>1, <3>5
      <4>. QED BY <3>1, <4>1 DEF Sorted
    <3>. QED BY <2>1, <3>3, <3>4, <3>5
  <2>. QED BY <2>1, <2>2, <2>3, <2>4
<1>. QED BY <1>0, <1>4, <1>6, <1>7, <1>9 DEF Sorted

\* What is erased leaves the rest sorted, and those before it where they were.
LEMMA RemoveSorted ==
    ASSUME NEW S \in SUBSET Nat, NEW s \in Seq(S), Sorted(s), NEW x \in Nat
    PROVE  /\ RemoveFirst(s, x) \in Seq(S)
           /\ Len(RemoveFirst(s, x)) <= Len(s)
           /\ Sorted(RemoveFirst(s, x))
           /\ \A i \in 1..Len(s) : s[i] < x =>
                 i \in 1..Len(RemoveFirst(s, x)) /\ RemoveFirst(s, x)[i] = s[i]
           /\ \A i \in 1..Len(s) : s[i] # x => s[i] \in ToSet(RemoveFirst(s, x))
<1>1. Len(s) \in Nat /\ DOMAIN s = 1..Len(s) /\ \A i \in 1..Len(s) : s[i] \in Nat
  BY LenProperties, ElementOfSeq
<1>2. CASE x \notin ToSet(s)
  <2>1. RemoveFirst(s, x) = s
    BY <1>2, RemoveFirstOfOther
  <2>2. \A i \in 1..Len(s) : s[i] \in ToSet(s)
    BY <1>1 DEF ToSet
  <2>. QED BY <1>1, <2>1, <2>2
<1>3. CASE x \in ToSet(s)
  <2>0. PICK p \in 1..Len(s) :
           /\ s[p] = x
           /\ RemoveFirst(s, x) \in Seq(S)
           /\ Len(RemoveFirst(s, x)) = Len(s) - 1
           /\ \A k \in 1..Len(s) - 1 :
                 RemoveFirst(s, x)[k] = IF k < p THEN s[k] ELSE s[k + 1]
    BY <1>3, RemoveFirstProperties, Zenon
  <2>1. PICK t : t = RemoveFirst(s, x)
    OBVIOUS
  <2>2. /\ s[p] = x
        /\ t \in Seq(S)
        /\ Len(t) = Len(s) - 1
        /\ \A k \in 1..Len(s) - 1 : t[k] = IF k < p THEN s[k] ELSE s[k + 1]
    BY <2>0, <2>1
  <2>3. ASSUME NEW i \in 1..Len(t), NEW j \in 1..Len(t), i < j PROVE t[i] < t[j]
    <3>1. /\ i \in 1..Len(s) - 1 /\ j \in 1..Len(s) - 1 /\ i + 1 \in 1..Len(s) /\ j + 1 \in 1..Len(s)
          /\ i \in 1..Len(s) /\ j \in 1..Len(s)
      BY <1>1, <2>2
    <3>2. PICK m \in {i, i + 1}, n \in {j, j + 1} : t[i] = s[m] /\ t[j] = s[n] /\ m < n
      BY <2>2, <2>3, <3>1
    <3>3. m \in 1..Len(s) /\ n \in 1..Len(s)
      BY <3>1
    <3>. QED BY <3>2, <3>3 DEF Sorted
  <2>4. ASSUME NEW i \in 1..Len(s), s[i] < x PROVE i \in 1..Len(t) /\ t[i] = s[i]
    <3>1. i # p
      BY <1>1, <2>2, <2>4
    <3>2. ~(p < i)
      <4>1. p < i => s[p] < s[i]
        BY DEF Sorted
      <4>. QED BY <1>1, <2>2, <2>4, <4>1
    <3>3. i < p
      BY <3>1, <3>2
    <3>. QED BY <1>1, <2>2, <3>3
  <2>5. ASSUME NEW i \in 1..Len(s), s[i] # x PROVE s[i] \in ToSet(t)
    <3>1. DOMAIN t = 1..Len(t)
      BY <2>2, LenProperties
    <3>2. CASE i < p
      BY <1>1, <2>2, <3>1, <3>2 DEF ToSet
    <3>3. CASE p < i
      <4>1. i - 1 \in 1..Len(t) /\ t[i - 1] = s[i]
        BY <1>1, <2>2, <3>3
      <4>. QED BY <3>1, <4>1 DEF ToSet
    <3>. QED BY <2>2, <2>5, <3>2, <3>3
  <2>. QED BY <1>1, <2>1, <2>2, <2>3, <2>4, <2>5 DEF Sorted
<1>. QED BY <1>2, <1>3
-----------------------------------------------------------------------------
(* Registration: the inductive invariant *)

RegistrationTypeOK ==
    /\ serverId \in [Processes -> ServerIds \cup {None}]
    /\ link \in [Processes -> Connections \cup {None}]
    /\ conn \in [Connections -> {"unused", "open", "closed"}]
    /\ kind \in [Connections -> Kinds \cup {None}]
    /\ posted \in [Connections -> Seq(ServerIds)]
    /\ context \in [Connections -> 1..MaxServers \cup {NoContext, Dangling}]
    /\ registered \in [Connections -> ServerIds \cup {None}]
    /\ disturbed \in [Connections -> BOOLEAN]

\* A vector does not outgrow its memory, nor the limit.
ListTypeOK ==
    /\ list \in [Kinds -> Seq(ServerIds)]
    /\ capacity \in [Kinds -> Nat]
    /\ \A k \in Kinds : Len(list[k]) <= capacity[k] /\ Len(list[k]) <= MaxServers

\* A connection has a kind while it is open, and a context once it registered.
ConnectionsKept ==
    \A c \in Connections :
        /\ conn[c] = "open" => kind[c] \in Kinds
        /\ conn[c] # "open" => kind[c] = None
        /\ kind[c] = None => context[c] = NoContext
        /\ context[c] = NoContext <=> registered[c] = None
        /\ registered[c] = None => ~disturbed[c]

\* Where no element was moved, the context is that of the id that registered.
PointsAtOwn ==
    \A c \in Connections : registered[c] # None /\ ~disturbed[c] =>
        /\ context[c] \in 1..Len(list[kind[c]])
        /\ list[kind[c]][context[c]] = registered[c]

RegistrationInv ==
    RegistrationTypeOK /\ ListTypeOK /\ ConnectionsKept /\ PointsAtOwn /\ ListsSorted

LEMMA RegistrationInit == Init => RegistrationInv
<1>. SUFFICES ASSUME Init PROVE RegistrationInv
  OBVIOUS
<1>1. Len(<<>>) = 0 /\ <<>> \in Seq(ServerIds)
  BY EmptySeq
<1>2. RegistrationTypeOK /\ ListTypeOK
  BY <1>1, ListAssumption DEF Init, RegistrationTypeOK, ListTypeOK
<1>3. ConnectionsKept
  BY DEF Init, ConnectionsKept
<1>4. PointsAtOwn /\ ListsSorted
  BY <1>1 DEF Init, PointsAtOwn, ListsSorted
<1>. QED BY <1>2, <1>3, <1>4 DEF RegistrationInv

\* Steps of the processes, which leave what is registered alone.
LEMMA ConnectedInv ==
    ASSUME RegistrationInv, NEW g \in Processes, NEW c \in Connections, OnServerConnected(g, c)
    PROVE  RegistrationInv'
<1>1. KindOf[g] \in Kinds /\ None \notin Kinds
  BY ListAssumption
<1>2. posted' \in [Connections -> Seq(ServerIds)]
  <2>1. (IF serverId[g] = None THEN <<>> ELSE <<serverId[g]>>) \in Seq(ServerIds)
    <3>1. CASE serverId[g] = None
      BY <3>1, EmptySeq
    <3>2. CASE serverId[g] # None
      BY <3>2 DEF RegistrationInv, RegistrationTypeOK
    <3>. QED BY <3>1, <3>2
  <2>2. PICK p \in Seq(ServerIds) : p = IF serverId[g] = None THEN <<>> ELSE <<serverId[g]>>
    BY <2>1
  <2>3. posted' = [posted EXCEPT ![c] = p]
    BY <2>2 DEF OnServerConnected
  <2>. QED BY <2>3 DEF RegistrationInv, RegistrationTypeOK
<1>3. RegistrationTypeOK' /\ ListTypeOK'
  BY <1>1, <1>2 DEF RegistrationInv, RegistrationTypeOK, ListTypeOK, OnServerConnected, listVars
<1>4. ConnectionsKept'
  BY <1>1 DEF RegistrationInv, RegistrationTypeOK, ConnectionsKept, OnServerConnected
<1>5. registered[c] = None
  BY DEF RegistrationInv, ConnectionsKept, OnServerConnected
<1>6. PointsAtOwn' /\ ListsSorted'
  BY <1>5 DEF RegistrationInv, RegistrationTypeOK, PointsAtOwn, ListsSorted, OnServerConnected, listVars
<1>. QED BY <1>3, <1>4, <1>6 DEF RegistrationInv

LEMMA SameListInv ==
    ASSUME RegistrationInv, RegistrationTypeOK',
           UNCHANGED <<conn, kind, context, registered, disturbed, listVars>>
    PROVE  RegistrationInv'
<1>1. ListTypeOK' /\ ListsSorted' /\ PointsAtOwn'
  BY DEF RegistrationInv, ListTypeOK, ListsSorted, PointsAtOwn, listVars
<1>2. ConnectionsKept'
  BY DEF RegistrationInv, ConnectionsKept
<1>. QED BY <1>1, <1>2 DEF RegistrationInv

LEMMA UpdateServerIdInv ==
    ASSUME RegistrationInv, NEW g \in Processes, NEW s \in ServerIds, UpdateServerId(g, s)
    PROVE  RegistrationInv'
<1>1. posted' \in [Connections -> Seq(ServerIds)]
  <2>1. posted \in [Connections -> Seq(ServerIds)] /\ link \in [Processes -> Connections \cup {None}]
    BY DEF RegistrationInv, RegistrationTypeOK
  <2>2. CASE posted' = posted
    BY <2>1, <2>2
  <2>3. CASE link[g] # None /\ posted' = [posted EXCEPT ![link[g]] = Append(@, s)]
    <3>1. PICK p \in Seq(ServerIds) : p = Append(posted[link[g]], s)
      BY <2>1, <2>3, AppendProperties
    <3>2. posted' = [posted EXCEPT ![link[g]] = p]
      BY <2>3, <3>1
    <3>. QED BY <2>1, <3>2
  <2>. QED BY <2>2, <2>3 DEF UpdateServerId
<1>2. RegistrationTypeOK'
  BY <1>1 DEF RegistrationInv, RegistrationTypeOK, UpdateServerId
<1>. QED BY <1>2, SameListInv DEF UpdateServerId

LEMMA ProcessClosesInv ==
    ASSUME RegistrationInv, NEW g \in Processes, ProcessCloses(g)
    PROVE  RegistrationInv'
<1>1. RegistrationTypeOK'
  BY DEF RegistrationInv, RegistrationTypeOK, ProcessCloses, connVars
<1>. QED BY <1>1, SameListInv DEF ProcessCloses, connVars

-----------------------------------------------------------------------------
(* The close of a connection *)

\* An id that is no more on list k at the close of c was removed as that of c,
\* or c's element was disturbed.
RemovesFor(c, k, s) ==
    /\ k \in Kinds /\ s \in ServerIds
    /\ list' = [list EXCEPT ![k] = RemoveFirst(@, s)]
    /\ Disturb(k, s, FALSE)
    /\ disturbed[c] \/ (kind[c] = k /\ registered[c] = s)

LEMMA UnregisterCases ==
    ASSUME RegistrationInv, NEW c \in Connections, conn[c] = "open", Unregister(c)
    PROVE  \/ list' = list /\ disturbed' = [disturbed EXCEPT ![c] = FALSE]
           \/ \E k \in Kinds, s \in ServerIds : RemovesFor(c, k, s)
<1>1. PICK k \in Kinds : k = kind[c]
  BY DEF RegistrationInv, ConnectionsKept
<1>2. PICK i \in 1..MaxServers \cup {NoContext, Dangling} : i = context[c]
  BY DEF RegistrationInv, RegistrationTypeOK
<1>3. Len(list[k]) \in Nat /\ list[k] \in Seq(ServerIds) /\ Len(list[k]) <= MaxServers /\ MaxServers \in Nat
  BY LenProperties, ListAssumption DEF RegistrationInv, ListTypeOK
<1>4. i \in 1..Len(list[k]) => i # NoContext
  <2>1. NoContext \notin 1..MaxServers
    BY ListAssumption, Zenon
  <2>2. i \in 1..Len(list[k]) => i \in 1..MaxServers
    BY <1>3
  <2>. QED BY <2>1, <2>2
<1>5. CASE i = NoContext
  <2>1. list' = list /\ disturbed' = [disturbed EXCEPT ![c] = FALSE]
    BY <1>1, <1>2, <1>4, <1>5 DEF Unregister
  <2>. QED BY <2>1
<1>6. CASE i # NoContext /\ i \in 1..Len(list[k])
  <2>1. PICK s \in ServerIds : s = list[k][i]
    BY <1>3, <1>6, ElementOfSeq
  <2>2. RemoveServerInfo(k, s) /\ Disturb(k, s, FALSE)
    BY <1>1, <1>2, <1>6, <2>1 DEF Unregister
  <2>3. disturbed[c] \/ registered[c] = s
    <3>1. registered[c] # None
      BY <1>2, <1>6 DEF RegistrationInv, ConnectionsKept
    <3>. QED BY <1>1, <1>2, <2>1, <3>1 DEF RegistrationInv, PointsAtOwn
  <2>. QED BY <1>1, <2>2, <2>3 DEF RemovesFor, RemoveServerInfo
<1>7. CASE i # NoContext /\ i \notin 1..Len(list[k])
  <2>1. disturbed[c]
    <3>1. registered[c] # None
      BY <1>2, <1>7 DEF RegistrationInv, ConnectionsKept
    <3>. QED BY <1>1, <1>2, <1>7, <3>1 DEF RegistrationInv, PointsAtOwn
  <2>2. \/ list' = list /\ disturbed' = [disturbed EXCEPT ![c] = FALSE]
        \/ \E e \in Listed : RemoveServerInfo(e[1], e[2]) /\ Disturb(e[1], e[2], FALSE)
    BY <1>1, <1>2, <1>7 DEF Unregister
  <2>3. ASSUME NEW e \in Listed, RemoveServerInfo(e[1], e[2]), Disturb(e[1], e[2], FALSE)
        PROVE  RemovesFor(c, e[1], e[2]) /\ e[1] \in Kinds /\ e[2] \in ServerIds
    BY <2>1, <2>3 DEF RemovesFor, RemoveServerInfo, Listed
  <2>. QED BY <2>2, <2>3
<1>. QED BY <1>5, <1>6, <1>7

LEMMA CloseFacts ==
    ASSUME RegistrationInv, NEW c \in Connections, OnClientClose(c)
    PROVE  /\ conn[c] = "open" /\ conn'[c] = "closed"
           /\ registered' = [registered EXCEPT ![c] = None]
           /\ conn' = [conn EXCEPT ![c] = "closed"]
           /\ posted' = [posted EXCEPT ![c] = <<>>]
           /\ context' = [context EXCEPT ![c] = NoContext]
           /\ kind' = [kind EXCEPT ![c] = None]
           /\ UNCHANGED <<capacity, serverId, link>>
           /\ \/ list' = list /\ disturbed' = [disturbed EXCEPT ![c] = FALSE]
              \/ \E k \in Kinds, s \in ServerIds : RemovesFor(c, k, s)
<1>1. \/ list' = list /\ disturbed' = [disturbed EXCEPT ![c] = FALSE]
      \/ \E k \in Kinds, s \in ServerIds : RemovesFor(c, k, s)
  BY UnregisterCases DEF OnClientClose
<1>2. conn'[c] = "closed"
  BY DEF OnClientClose, RegistrationInv, RegistrationTypeOK
<1>. QED BY <1>1, <1>2 DEF OnClientClose, processVars

\* What a removal makes of the lists.
LEMMA RemovesLists ==
    ASSUME RegistrationInv, NEW c \in Connections, NEW k \in Kinds, NEW s \in ServerIds,
           RemovesFor(c, k, s)
    PROVE  /\ list' \in [Kinds -> Seq(ServerIds)]
           /\ \A q \in Kinds \ {k} : list'[q] = list[q]
           /\ Len(list'[k]) <= Len(list[k])
           /\ Sorted(list'[k])
           /\ \A i \in 1..Len(list[k]) : list[k][i] < s =>
                 i \in 1..Len(list'[k]) /\ list'[k][i] = list[k][i]
           /\ \A i \in 1..Len(list[k]) : list[k][i] # s => list[k][i] \in ToSet(list'[k])
<1>1. ServerIds \in SUBSET Nat
  BY ListAssumption
<1>2. PICK l \in Seq(ServerIds) : l = list[k] /\ Sorted(l)
  BY DEF RegistrationInv, ListTypeOK, ListsSorted, Sorted
<1>3. PICK t : t = RemoveFirst(l, s)
  OBVIOUS
<1>4. /\ t \in Seq(ServerIds) /\ Len(t) <= Len(l) /\ Sorted(t)
      /\ \A i \in 1..Len(l) : l[i] < s => i \in 1..Len(t) /\ t[i] = l[i]
      /\ \A i \in 1..Len(l) : l[i] # s => l[i] \in ToSet(t)
  <2>1. s \in Nat
    BY <1>1
  <2>. QED BY ONLY <1>1, <1>2, <1>3, <2>1, RemoveSorted, l \in Seq(ServerIds)
<1>5. list' = [list EXCEPT ![k] = t]
  BY <1>2, <1>3 DEF RemovesFor
<1>6. list \in [Kinds -> Seq(ServerIds)]
  BY DEF RegistrationInv, ListTypeOK
<1>. QED BY <1>2, <1>4, <1>5, <1>6

LEMMA CloseInv ==
    ASSUME RegistrationInv, NEW c \in Connections, OnClientClose(c)
    PROVE  RegistrationInv'
<1>0. None \notin Kinds /\ None \notin ServerIds
  BY ListAssumption
<1>1. /\ conn[c] = "open"
      /\ registered' = [registered EXCEPT ![c] = None]
      /\ conn' = [conn EXCEPT ![c] = "closed"]
      /\ posted' = [posted EXCEPT ![c] = <<>>]
      /\ context' = [context EXCEPT ![c] = NoContext]
      /\ kind' = [kind EXCEPT ![c] = None]
      /\ UNCHANGED <<capacity, serverId, link>>
  BY CloseFacts
<1>2. /\ registered'[c] = None /\ context'[c] = NoContext /\ kind'[c] = None /\ conn'[c] = "closed"
      /\ \A d \in Connections \ {c} : /\ registered'[d] = registered[d] /\ context'[d] = context[d]
                                      /\ kind'[d] = kind[d] /\ conn'[d] = conn[d]
  BY <1>1 DEF RegistrationInv, RegistrationTypeOK
<1>3. <<>> \in Seq(ServerIds)
  BY EmptySeq
<1>4. disturbed' \in [Connections -> BOOLEAN] /\ ~disturbed'[c]
      /\ \A d \in Connections \ {c} : registered[d] = None => ~disturbed'[d]
  <2>1. CASE list' = list /\ disturbed' = [disturbed EXCEPT ![c] = FALSE]
    BY <2>1 DEF RegistrationInv, RegistrationTypeOK, ConnectionsKept
  <2>2. ASSUME NEW k \in Kinds, NEW s \in ServerIds, RemovesFor(c, k, s)
        PROVE  disturbed' \in [Connections -> BOOLEAN] /\ ~disturbed'[c]
               /\ \A d \in Connections \ {c} : registered[d] = None => ~disturbed'[d]
    BY <1>2, <2>2 DEF RemovesFor, Disturb
  <2>. QED BY <2>1, <2>2, CloseFacts
<1>5. RegistrationTypeOK'
  BY <1>1, <1>3, <1>4 DEF RegistrationInv, RegistrationTypeOK
<1>6. ConnectionsKept'
  BY <1>2, <1>4 DEF RegistrationInv, ConnectionsKept
<1>7. ListTypeOK' /\ ListsSorted' /\ PointsAtOwn'
  <2>1. CASE list' = list /\ disturbed' = [disturbed EXCEPT ![c] = FALSE]
    <3>1. \A d \in Connections \ {c} : disturbed'[d] = disturbed[d]
      BY <2>1 DEF RegistrationInv, RegistrationTypeOK
    <3>2. ListTypeOK' /\ ListsSorted'
      BY <1>1, <2>1 DEF RegistrationInv, ListTypeOK, ListsSorted
    <3>. QED BY <1>2, <2>1, <3>1, <3>2 DEF RegistrationInv, PointsAtOwn
  <2>2. ASSUME NEW k \in Kinds, NEW s \in ServerIds, RemovesFor(c, k, s)
        PROVE  ListTypeOK' /\ ListsSorted' /\ PointsAtOwn'
    <3>1. /\ list' \in [Kinds -> Seq(ServerIds)]
          /\ \A q \in Kinds \ {k} : list'[q] = list[q]
          /\ Len(list'[k]) <= Len(list[k])
          /\ Sorted(list'[k])
          /\ \A i \in 1..Len(list[k]) : list[k][i] < s =>
                i \in 1..Len(list'[k]) /\ list'[k][i] = list[k][i]
      BY <2>2, RemovesLists
    <3>2. ListTypeOK'
      <4>1. ASSUME NEW q \in Kinds
            PROVE  Len(list'[q]) <= capacity[q] /\ Len(list'[q]) <= MaxServers
        <5>1. /\ Len(list[q]) \in Nat /\ Len(list'[q]) \in Nat /\ capacity[q] \in Nat
              /\ Len(list[q]) <= capacity[q] /\ Len(list[q]) <= MaxServers /\ MaxServers \in Nat
          BY <3>1, LenProperties, ListAssumption DEF RegistrationInv, ListTypeOK
        <5>2. Len(list'[q]) <= Len(list[q])
          BY <3>1, <5>1
        <5>. QED BY <5>1, <5>2
      <4>. QED BY <1>1, <3>1, <4>1 DEF RegistrationInv, ListTypeOK
    <3>3. ListsSorted'
      BY <3>1 DEF RegistrationInv, ListsSorted, Sorted
    <3>4. ASSUME NEW d \in Connections, registered'[d] # None, ~disturbed'[d]
          PROVE  context'[d] \in 1..Len(list'[kind'[d]]) /\ list'[kind'[d]][context'[d]] = registered'[d]
      <4>1. d # c /\ registered[d] # None /\ registered[d] \in ServerIds
        BY <1>2, <3>4 DEF RegistrationInv, RegistrationTypeOK
      <4>2. ~disturbed[d] /\ ~(kind[d] = k /\ s <= registered[d])
        BY <1>2, <2>2, <3>4, <4>1 DEF RemovesFor, Disturb
      <4>3. context[d] \in 1..Len(list[kind[d]]) /\ list[kind[d]][context[d]] = registered[d]
        BY <4>1, <4>2 DEF RegistrationInv, PointsAtOwn
      <4>4. kind[d] \in Kinds
        BY <1>0, <4>1 DEF RegistrationInv, RegistrationTypeOK, ConnectionsKept
      <4>5. CASE kind[d] = k
        <5>1. registered[d] < s
          <6>1. s \in Nat /\ registered[d] \in Nat
            BY <4>1, ListAssumption
          <6>2. ~(s <= registered[d])
            BY <4>2, <4>5
          <6>. QED BY <6>1, <6>2
        <5>. QED BY <1>2, <3>1, <4>1, <4>3, <4>5, <5>1
      <4>6. CASE kind[d] # k
        BY <1>2, <3>1, <4>1, <4>3, <4>4, <4>6
      <4>. QED BY <4>5, <4>6
    <3>. QED BY <3>2, <3>3, <3>4 DEF PointsAtOwn
  <2>. QED BY <2>1, <2>2, CloseFacts
<1>. QED BY <1>5, <1>6, <1>7 DEF RegistrationInv
-----------------------------------------------------------------------------
(* A registration *)

LEMMA MaxOfTwo ==
    ASSUME NEW a \in Nat, NEW b \in Nat
    PROVE  Max({a, b}) \in {a, b} /\ a <= Max({a, b}) /\ b <= Max({a, b})
<1>1. \E x \in {a, b} : \A y \in {a, b} : x >= y
  <2>1. CASE a >= b
    BY <2>1
  <2>2. CASE b >= a
    BY <2>2
  <2>. QED BY <2>1, <2>2
<1>. QED BY <1>1 DEF Max

LEMMA GrownFits ==
    ASSUME ListTypeOK, NEW k \in Kinds
    PROVE  Grown(k) \in Nat /\ Len(list[k]) + 1 <= Grown(k)
<1>1. PICK n \in Nat, m \in Nat : n = Len(list[k]) /\ m = capacity[k] /\ n <= m
  BY LenProperties DEF ListTypeOK
<1>2. CASE n < m
  BY <1>1, <1>2 DEF Grown
<1>3. CASE ~(n < m)
  <2>1. Grown(k) = Max({1, 2 * m})
    BY <1>1, <1>3 DEF Grown
  <2>2. Max({1, 2 * m}) \in {1, 2 * m} /\ 1 <= Max({1, 2 * m}) /\ 2 * m <= Max({1, 2 * m})
    <3>1. 1 \in Nat /\ 2 * m \in Nat
      OBVIOUS
    <3>2. PICK w \in Nat : w = 2 * m
      BY <3>1
    <3>. QED BY <3>1, <3>2, MaxOfTwo
  <2>3. Max({1, 2 * m}) \in Nat
    BY <2>2
  <2>4. n + 1 <= Max({1, 2 * m})
    BY <1>1, <1>3, <2>2, <2>3
  <2>. QED BY <1>1, <2>1, <2>3, <2>4
<1>. QED BY <1>2, <1>3

\* What an insertion makes of the list.
LEMMA InsertsLists ==
    ASSUME RegistrationInv, NEW c \in Connections, NEW k \in Kinds, NEW s \in ServerIds,
           Addable(k, s), Insert(c, k, s)
    PROVE  /\ list' \in [Kinds -> Seq(ServerIds)]
           /\ \A q \in Kinds \ {k} : list'[q] = list[q]
           /\ Len(list'[k]) = Len(list[k]) + 1
           /\ Sorted(list'[k])
           /\ Position(k, s) \in 1..Len(list[k]) + 1
           /\ list'[k][Position(k, s)] = s
           /\ \A i \in 1..Len(list[k]) : list[k][i] < s => list'[k][i] = list[k][i]
           /\ \A i \in 1..Len(list[k]) : list[k][i] \in ToSet(list'[k])
<1>1. ServerIds \in SUBSET Nat
  BY ListAssumption
<1>2. PICK l \in Seq(ServerIds) : l = list[k] /\ Sorted(l) /\ ~Contains(l, s)
  BY DEF RegistrationInv, ListTypeOK, ListsSorted, Sorted, Addable
<1>3. PICK p : p = LowerBound(l, s)
  OBVIOUS
<1>4. p = Position(k, s)
  BY <1>2, <1>3 DEF Position, LowerBound
<1>5. s \notin ToSet(l)
  <2>1. DOMAIN l = 1..Len(l)
    BY LenProperties
  <2>. QED BY <1>2, <2>1 DEF Contains, ToSet
<1>6. PICK t : t = InsertAt(l, p, s)
  OBVIOUS
<1>7. /\ p \in 1..Len(l) + 1
      /\ \A i \in 1..Len(l) : i < p <=> l[i] < s
      /\ Sorted(t)
  BY ONLY <1>1, <1>2, <1>3, <1>5, <1>6, InsertSorted, l \in Seq(ServerIds), s \in ServerIds
<1>8. /\ t \in Seq(ServerIds) /\ Len(t) = Len(l) + 1
      /\ \A i \in 1..Len(l) + 1 : t[i] = IF i < p THEN l[i] ELSE IF i = p THEN s ELSE l[i - 1]
  BY ONLY <1>6, <1>7, InsertAtProperties, l \in Seq(ServerIds), s \in ServerIds
<1>9. Len(l) \in Nat
  BY LenProperties
<1>10. t[p] = s
  BY <1>7, <1>8, <1>9
<1>11. ASSUME NEW i \in 1..Len(l), l[i] < s PROVE t[i] = l[i]
  <2>1. i < p /\ i \in 1..Len(l) + 1
    BY <1>7, <1>9, <1>11
  <2>. QED BY <1>8, <2>1
<1>12. ASSUME NEW i \in 1..Len(l) PROVE l[i] \in ToSet(t)
  <2>1. DOMAIN t = 1..Len(l) + 1
    BY <1>8, LenProperties
  <2>2. CASE i < p
    <3>1. i \in 1..Len(l) + 1 /\ t[i] = l[i]
      BY <1>8, <1>9, <2>2
    <3>. QED BY <2>1, <3>1 DEF ToSet
  <2>3. CASE ~(i < p)
    <3>1. i + 1 \in 1..Len(l) + 1 /\ ~(i + 1 < p) /\ i + 1 # p
      BY <1>7, <1>9, <2>3
    <3>2. t[i + 1] = l[i]
      <4>1. t[i + 1] = l[(i + 1) - 1] /\ (i + 1) - 1 = i
        BY <1>8, <3>1
      <4>. QED BY <4>1
    <3>. QED BY <2>1, <3>1, <3>2 DEF ToSet
  <2>. QED BY <2>2, <2>3
<1>13. list' = [list EXCEPT ![k] = t]
  BY <1>2, <1>4, <1>6 DEF Insert
<1>14. list \in [Kinds -> Seq(ServerIds)]
  BY DEF RegistrationInv, ListTypeOK
<1>. QED BY <1>2, <1>4, <1>7, <1>8, <1>10, <1>11, <1>12, <1>13, <1>14

LEMMA RegisterFacts ==
    ASSUME RegistrationInv, NEW c \in Connections, OnRegisterServer(c)
    PROVE  \E k \in Kinds, s \in ServerIds :
              /\ k = kind[c] /\ conn[c] = "open" /\ context[c] = NoContext
              /\ Addable(k, s) /\ Insert(c, k, s)
              /\ dirty' = [dirty EXCEPT ![k] = TRUE] /\ age' = [age EXCEPT ![k] = 0]
              /\ registered' = [registered EXCEPT ![c] = s]
              /\ Disturb(k, s, Grown(k) # capacity[k])
              /\ posted' = [posted EXCEPT ![c] = Tail(@)] /\ posted[c] # <<>>
              /\ UNCHANGED <<conn, kind, serverId, link>>
<1>1. PICK k \in Kinds : k = kind[c]
  BY DEF RegistrationInv, ConnectionsKept, OnRegisterServer
<1>2. PICK q \in Seq(ServerIds) : q = posted[c] /\ q # <<>>
  BY DEF RegistrationInv, RegistrationTypeOK, OnRegisterServer
<1>3. PICK s \in ServerIds : s = Head(q)
  BY <1>2, HeadTailProperties
<1>. QED BY <1>1, <1>2, <1>3 DEF OnRegisterServer, Refused, AddServerInfo, processVars

LEMMA RegisterInv ==
    ASSUME RegistrationInv, NEW c \in Connections, OnRegisterServer(c)
    PROVE  RegistrationInv'
<1>1. PICK k \in Kinds, s \in ServerIds :
         /\ k = kind[c] /\ conn[c] = "open" /\ context[c] = NoContext
         /\ Addable(k, s) /\ Insert(c, k, s)
         /\ registered' = [registered EXCEPT ![c] = s]
         /\ Disturb(k, s, Grown(k) # capacity[k])
         /\ posted' = [posted EXCEPT ![c] = Tail(@)] /\ posted[c] # <<>>
         /\ UNCHANGED <<conn, kind, serverId, link>>
  BY RegisterFacts
<1>2. /\ list' \in [Kinds -> Seq(ServerIds)]
      /\ \A q \in Kinds \ {k} : list'[q] = list[q]
      /\ Len(list'[k]) = Len(list[k]) + 1
      /\ Sorted(list'[k])
      /\ Position(k, s) \in 1..Len(list[k]) + 1
      /\ list'[k][Position(k, s)] = s
      /\ \A i \in 1..Len(list[k]) : list[k][i] < s => list'[k][i] = list[k][i]
  BY <1>1, InsertsLists
<1>3. PICK p : p = Position(k, s)
  OBVIOUS
<1>4. PICK g \in Nat : g = Grown(k) /\ Len(list[k]) + 1 <= g
  BY GrownFits DEF RegistrationInv
<1>5. Len(list[k]) \in Nat /\ MaxServers \in Nat /\ Len(list[k]) < MaxServers
  BY <1>1, LenProperties, ListAssumption DEF RegistrationInv, ListTypeOK, Addable
<1>6. p \in 1..MaxServers /\ p \in 1..Len(list'[k]) /\ p # NoContext
  <2>1. p \in 1..MaxServers /\ p \in 1..Len(list'[k])
    BY <1>2, <1>3, <1>5
  <2>2. NoContext \notin 1..MaxServers
    BY ListAssumption, Zenon
  <2>. QED BY <2>1, <2>2
<1>7. /\ context' = [[d \in Connections |->
                        IF kind[d] = k /\ context[d] # NoContext /\ g # capacity[k]
                        THEN Dangling ELSE context[d]] EXCEPT ![c] = p]
      /\ capacity' = [capacity EXCEPT ![k] = g]
  BY <1>1, <1>3, <1>4 DEF Insert
<1>8. /\ context'[c] = p
      /\ \A d \in Connections \ {c} : context'[d] =
            IF kind[d] = k /\ context[d] # NoContext /\ g # capacity[k] THEN Dangling ELSE context[d]
  BY <1>7
<1>9. registered'[c] = s /\ \A d \in Connections \ {c} : registered'[d] = registered[d]
  BY <1>1 DEF RegistrationInv, RegistrationTypeOK
<1>10. None \notin ServerIds /\ None \notin Kinds /\ Dangling # NoContext
  BY ListAssumption
<1>11. registered[c] = None
  BY <1>1 DEF RegistrationInv, ConnectionsKept
<1>12. disturbed' \in [Connections -> BOOLEAN]
       /\ \A d \in Connections : disturbed'[d] <=>
             /\ registered[d] # None /\ registered'[d] # None
             /\ disturbed[d] \/ (kind[d] = k /\ (g # capacity[k] \/ s <= registered[d]))
  BY <1>1, <1>4 DEF Disturb
<1>13. RegistrationTypeOK'
  <2>1. context' \in [Connections -> 1..MaxServers \cup {NoContext, Dangling}]
    BY <1>6, <1>7 DEF RegistrationInv, RegistrationTypeOK
  <2>2. posted' \in [Connections -> Seq(ServerIds)]
    <3>1. PICK q \in Seq(ServerIds) : q = Tail(posted[c])
      BY <1>1, HeadTailProperties DEF RegistrationInv, RegistrationTypeOK
    <3>. QED BY <1>1, <3>1 DEF RegistrationInv, RegistrationTypeOK
  <2>. QED BY <1>1, <1>12, <2>1, <2>2 DEF RegistrationInv, RegistrationTypeOK
<1>14. ListTypeOK'
  <2>1. capacity' \in [Kinds -> Nat] /\ capacity'[k] = g
        /\ \A q \in Kinds \ {k} : capacity'[q] = capacity[q]
    BY <1>7 DEF RegistrationInv, ListTypeOK
  <2>2. ASSUME NEW q \in Kinds
        PROVE  Len(list'[q]) <= capacity'[q] /\ Len(list'[q]) <= MaxServers
    <3>1. CASE q = k
      BY <1>2, <1>4, <1>5, <2>1, <3>1
    <3>2. CASE q # k
      BY <1>2, <2>1, <3>2 DEF RegistrationInv, ListTypeOK
    <3>. QED BY <3>1, <3>2
  <2>. QED BY <1>2, <2>1, <2>2 DEF ListTypeOK
<1>15. ConnectionsKept'
  <2>1. ASSUME NEW d \in Connections
        PROVE  /\ conn'[d] = "open" => kind'[d] \in Kinds
               /\ conn'[d] # "open" => kind'[d] = None
               /\ kind'[d] = None => context'[d] = NoContext
               /\ context'[d] = NoContext <=> registered'[d] = None
               /\ registered'[d] = None => ~disturbed'[d]
    <3>1. /\ conn[d] = "open" => kind[d] \in Kinds
          /\ conn[d] # "open" => kind[d] = None
          /\ kind[d] = None => context[d] = NoContext
          /\ context[d] = NoContext <=> registered[d] = None
      BY DEF RegistrationInv, ConnectionsKept
    <3>2. CASE d = c
      BY <1>1, <1>6, <1>8, <1>9, <1>10, <1>12, <3>1, <3>2
    <3>3. CASE d # c
      BY <1>1, <1>8, <1>9, <1>10, <1>12, <3>1, <3>3
    <3>. QED BY <3>2, <3>3
  <2>. QED BY <2>1 DEF ConnectionsKept
<1>16. PointsAtOwn'
  <2>1. ASSUME NEW d \in Connections, registered'[d] # None, ~disturbed'[d]
        PROVE  context'[d] \in 1..Len(list'[kind'[d]]) /\ list'[kind'[d]][context'[d]] = registered'[d]
    <3>1. CASE d = c
      BY <1>1, <1>2, <1>3, <1>6, <1>8, <1>9, <3>1
    <3>2. CASE d # c
      <4>1. registered[d] # None /\ registered'[d] = registered[d] /\ kind'[d] = kind[d]
        BY <1>1, <1>9, <2>1, <3>2
      <4>2. ~disturbed[d] /\ ~(kind[d] = k /\ (g # capacity[k] \/ s <= registered[d]))
        BY <1>12, <2>1, <4>1
      <4>3. context[d] \in 1..Len(list[kind[d]]) /\ list[kind[d]][context[d]] = registered[d]
        BY <4>1, <4>2 DEF RegistrationInv, PointsAtOwn
      <4>4. kind[d] \in Kinds /\ context'[d] = context[d]
        BY <1>8, <1>10, <3>2, <4>1, <4>2 DEF RegistrationInv, RegistrationTypeOK, ConnectionsKept
      <4>5. CASE kind[d] = k
        <5>1. registered[d] < s
          <6>1. s \in Nat /\ registered[d] \in Nat
            BY <4>1, ListAssumption DEF RegistrationInv, RegistrationTypeOK
          <6>2. ~(s <= registered[d])
            BY <4>2, <4>5
          <6>. QED BY <6>1, <6>2
        <5>2. context[d] \in 1..Len(list'[k])
          BY <1>2, <1>5, <4>3, <4>5
        <5>. QED BY <1>2, <4>1, <4>3, <4>4, <4>5, <5>1, <5>2
      <4>6. CASE kind[d] # k
        BY <1>2, <4>1, <4>3, <4>4, <4>6
      <4>. QED BY <4>5, <4>6
    <3>. QED BY <3>1, <3>2
  <2>. QED BY <2>1 DEF PointsAtOwn
<1>17. ListsSorted'
  BY <1>2 DEF RegistrationInv, ListsSorted, Sorted
<1>. QED BY <1>13, <1>14, <1>15, <1>16, <1>17 DEF RegistrationInv

LEMMA RestartRegistrationInv ==
    ASSUME RegistrationInv, Restart
    PROVE  RegistrationInv'
<1>1. Len(<<>>) = 0 /\ <<>> \in Seq(ServerIds)
  BY EmptySeq
<1>2. RegistrationTypeOK' /\ ListTypeOK'
  BY <1>1, ListAssumption
     DEF RegistrationInv, RegistrationTypeOK, ListTypeOK, Restart, processVars
<1>3. ConnectionsKept'
  BY DEF RegistrationInv, RegistrationTypeOK, ConnectionsKept, Restart
<1>4. PointsAtOwn' /\ ListsSorted'
  BY <1>1 DEF PointsAtOwn, ListsSorted, Restart
<1>. QED BY <1>2, <1>3, <1>4 DEF RegistrationInv
\* Every step: what is registered stays consistent.
LEMMA RegistrationStep == RegistrationInv /\ [Next]_vars => RegistrationInv'
<1>. SUFFICES ASSUME RegistrationInv, [Next]_vars PROVE RegistrationInv'
  OBVIOUS
<1>1. ASSUME NEW g \in Processes, NEW c \in Connections, OnServerConnected(g, c) PROVE RegistrationInv'
  BY <1>1, ConnectedInv
<1>2. ASSUME NEW g \in Processes, NEW s \in ServerIds, UpdateServerId(g, s) PROVE RegistrationInv'
  BY <1>2, UpdateServerIdInv
<1>3. ASSUME NEW g \in Processes, ProcessCloses(g) PROVE RegistrationInv'
  BY <1>3, ProcessClosesInv
<1>4. ASSUME NEW c \in Connections, OnRegisterServer(c) PROVE RegistrationInv'
  BY <1>4, RegisterInv
<1>5. ASSUME NEW c \in Connections, OnClientClose(c) PROVE RegistrationInv'
  BY <1>5, CloseInv
<1>6. CASE Restart
  BY <1>6, RestartRegistrationInv
<1>7. ASSUME UNCHANGED <<processVars, connVars, listVars>> PROVE RegistrationInv'
  <2>1. RegistrationTypeOK'
    BY <1>7 DEF RegistrationInv, RegistrationTypeOK, processVars, connVars
  <2>. QED BY <1>7, <2>1, SameListInv DEF connVars
<1>8. CASE SomeTick
  BY <1>7, <1>8 DEF SomeTick, OnTick
<1>9. ASSUME NEW x \in Clients,
             \/ Connect(x) \/ Disconnect(x) \/ PostDownloadRequest(x)
             \/ OnDownloadServerList(x) \/ OnServerPacket(x) \/ OnServerPacketInvalid(x)
      PROVE  RegistrationInv'
  BY <1>7, <1>9 DEF Connect, Disconnect, PostDownloadRequest, OnDownloadServerList, OnServerPacket,
                    OnServerPacketInvalid
<1>10. CASE UNCHANGED vars
  BY <1>7, <1>10 DEF vars
<1>. QED BY <1>1, <1>2, <1>3, <1>4, <1>5, <1>6, <1>8, <1>9, <1>10 DEF Next, OnRegisterServerRefused

-----------------------------------------------------------------------------
(* Publication *)

PublicationTypeOK ==
    /\ published \in [Kinds -> Seq(ServerIds)]
    /\ version \in [Kinds -> Versions]
    /\ dirty \in [Kinds -> BOOLEAN]
    /\ age \in [Kinds -> 0..MaxAge]

PublicationInv == PublicationTypeOK /\ PublishedIsNamed

LEMMA MinOfTwoAges ==
    ASSUME NEW a \in Nat, NEW b \in Nat
    PROVE  Min({a, b}) \in 0..a
<1>1. {a, b} \in SUBSET Nat /\ {a, b} # {}
  OBVIOUS
<1>. QED BY <1>1, MinIsLeast

LEMMA PublicationInit == Init => PublicationInv
<1>. SUFFICES ASSUME Init PROVE PublicationInv
  OBVIOUS
<1>1. 0 \in Versions /\ MaxAge \in 0..MaxAge /\ 0 \in 0..MaxAge /\ <<>> \in Seq(ServerIds)
  BY ListAssumption, EmptySeq DEF Versions, MaxAge
<1>. QED BY <1>1 DEF Init, PublicationInv, PublicationTypeOK, PublishedIsNamed

LEMMA NextVersionNamed ==
    ASSUME NEW v \in Versions
    PROVE  NextVersion(v) \in Versions /\ NextVersion(v) # 0
BY ListAssumption DEF NextVersion, Versions

\* What a tick does for one kind.
LEMMA TickFacts ==
    ASSUME PublicationTypeOK, ListTypeOK, NEW time \in 1..MaxAge, OnTick(time)
    PROVE  /\ PublicationTypeOK'
           /\ \A k \in Kinds :
                 \/ /\ dirty[k] /\ ~dirty'[k]
                    /\ version'[k] = NextVersion(version[k]) /\ published'[k] = list[k]
                 \/ /\ dirty'[k] = dirty[k]
                    /\ version'[k] = version[k] /\ published'[k] = published[k]
<1>0. MaxAge \in Nat /\ UpgradeLimit \in Nat
  BY ListAssumption DEF MaxAge
<1>. DEFINE now(k) == Min({MaxAge, age[k] + time})
            due(k) == dirty[k] /\ now(k) > UpgradeLimit
<1>1. ASSUME NEW k \in Kinds PROVE now(k) \in 0..MaxAge
  <2>1. PICK n \in Nat : n = age[k] + time
    BY <1>0 DEF PublicationTypeOK
  <2>. QED BY <1>0, <2>1, MinOfTwoAges
<1>2. /\ version' = [k \in Kinds |-> IF due(k) THEN NextVersion(version[k]) ELSE version[k]]
      /\ published' = [k \in Kinds |-> IF due(k) THEN list[k] ELSE published[k]]
      /\ age' = [k \in Kinds |-> IF due(k) THEN 0 ELSE now(k)]
      /\ dirty' = [k \in Kinds |-> dirty[k] /\ ~due(k)]
  BY DEF OnTick
<1>. HIDE DEF now
<1>3. version' \in [Kinds -> Versions]
  BY <1>2, NextVersionNamed DEF PublicationTypeOK
<1>4. published' \in [Kinds -> Seq(ServerIds)]
  BY <1>2 DEF PublicationTypeOK, ListTypeOK
<1>5. age' \in [Kinds -> 0..MaxAge]
  BY <1>0, <1>1, <1>2
<1>6. dirty' \in [Kinds -> BOOLEAN]
  BY <1>2 DEF PublicationTypeOK
<1>7. ASSUME NEW k \in Kinds
      PROVE  \/ /\ dirty[k] /\ ~dirty'[k]
                /\ version'[k] = NextVersion(version[k]) /\ published'[k] = list[k]
             \/ /\ dirty'[k] = dirty[k]
                /\ version'[k] = version[k] /\ published'[k] = published[k]
  <2>1. CASE due(k)
    BY <1>2, <2>1
  <2>2. CASE ~due(k)
    <3>1. dirty'[k] = dirty[k]
      BY <1>2, <2>2, Zenon DEF PublicationTypeOK
    <3>. QED BY <1>2, <2>2, <3>1
  <2>. QED BY <2>1, <2>2
<1>. QED BY <1>3, <1>4, <1>5, <1>6, <1>7 DEF PublicationTypeOK

LEMMA PublicationStep ==
    PublicationInv /\ RegistrationInv /\ [Next]_vars => PublicationInv'
<1>. SUFFICES ASSUME PublicationInv, RegistrationInv, [Next]_vars PROVE PublicationInv'
  OBVIOUS
<1>1. ASSUME NEW c \in Connections, OnRegisterServer(c) PROVE PublicationInv'
  <2>1. PICK k \in Kinds : dirty' = [dirty EXCEPT ![k] = TRUE] /\ age' = [age EXCEPT ![k] = 0]
    BY <1>1, RegisterFacts
  <2>2. 0 \in 0..MaxAge
    BY ListAssumption DEF MaxAge
  <2>3. published' = published /\ version' = version
    BY <1>1 DEF OnRegisterServer
  <2>. QED BY <2>1, <2>2, <2>3 DEF PublicationInv, PublicationTypeOK, PublishedIsNamed
<1>2. CASE SomeTick
  <2>1. PICK time \in 1..MaxAge : OnTick(time)
    BY <1>2 DEF SomeTick
  <2>2. /\ PublicationTypeOK'
        /\ \A k \in Kinds :
              \/ version'[k] = NextVersion(version[k])
              \/ version'[k] = version[k] /\ published'[k] = published[k]
    BY <2>1, TickFacts DEF PublicationInv, RegistrationInv
  <2>3. ASSUME NEW k \in Kinds, published'[k] # <<>> PROVE version'[k] # 0
    <3>1. CASE version'[k] = NextVersion(version[k])
      BY <3>1, NextVersionNamed DEF PublicationInv, PublicationTypeOK
    <3>2. CASE version'[k] = version[k] /\ published'[k] = published[k]
      BY <2>3, <3>2 DEF PublicationInv, PublishedIsNamed
    <3>. QED BY <2>2, <3>1, <3>2
  <2>. QED BY <2>2, <2>3 DEF PublicationInv, PublishedIsNamed
<1>3. CASE Restart
  <2>1. 0 \in Versions /\ MaxAge \in 0..MaxAge /\ <<>> \in Seq(ServerIds)
    BY ListAssumption, EmptySeq DEF Versions, MaxAge
  <2>. QED BY <1>3, <2>1 DEF Restart, PublicationInv, PublicationTypeOK, PublishedIsNamed
<1>4. ASSUME UNCHANGED versionVars PROVE PublicationInv'
  BY <1>4 DEF PublicationInv, PublicationTypeOK, PublishedIsNamed, versionVars
<1>5. ASSUME NEW g \in Processes,
             \/ \E c \in Connections : OnServerConnected(g, c)
             \/ \E s \in ServerIds : UpdateServerId(g, s)
             \/ ProcessCloses(g)
      PROVE  PublicationInv'
  BY <1>4, <1>5 DEF OnServerConnected, UpdateServerId, ProcessCloses
<1>6. ASSUME NEW c \in Connections, OnClientClose(c) PROVE PublicationInv'
  BY <1>4, <1>6 DEF OnClientClose
<1>7. ASSUME NEW x \in Clients,
             \/ Connect(x) \/ Disconnect(x) \/ PostDownloadRequest(x)
             \/ OnDownloadServerList(x) \/ OnServerPacket(x) \/ OnServerPacketInvalid(x)
      PROVE  PublicationInv'
  BY <1>4, <1>7 DEF Connect, Disconnect, PostDownloadRequest, OnDownloadServerList, OnServerPacket,
                    OnServerPacketInvalid
<1>8. CASE UNCHANGED vars
  BY <1>4, <1>8 DEF vars
<1>. QED BY <1>1, <1>2, <1>3, <1>5, <1>6, <1>7, <1>8 DEF Next, OnRegisterServerRefused
-----------------------------------------------------------------------------
(* Download *)

ClientTypeOK ==
    /\ connected \in [Clients -> BOOLEAN] /\ heard \in [Clients -> BOOLEAN]
    /\ request \in [Clients -> Versions \cup {None}]
    /\ response \in [Clients -> Responses \cup {None}]
    /\ ServerListVersion \in [Clients -> Versions]
    /\ SortedServerInfoList = [x \in Clients |-> SortedServerInfoList[x]]
    /\ \A x \in Clients : BagToSet(SortedServerInfoList[x]) \subseteq ServerIds

LEMMA ClientInit == Init => ClientTypeOK
<1>. SUFFICES ASSUME Init PROVE ClientTypeOK
  OBVIOUS
<1>1. 0 \in Versions
  BY ListAssumption DEF Versions
<1>2. BagToSet(EmptyBag) = {}
  BY DEF BagToSet, EmptyBag, SetToBag
<1>. QED BY <1>1, <1>2 DEF Init, ClientTypeOK

\* What the server answers.
LEMMA AnswerType ==
    ASSUME PublicationTypeOK, NEW k \in Kinds, NEW v \in Versions
    PROVE  Answer(k, v) \in Responses \cup {None}
<1>1. <<>> \in Seq(ServerIds)
  BY EmptySeq
<1>. QED BY <1>1 DEF Answer, Responses, PublicationTypeOK

\* A response that is taken adds its servers to the client's.
LEMMA AddsServers ==
    ASSUME NEW b, NEW S
    PROVE  BagToSet(b (+) SetToBag(S)) = BagToSet(b) \cup S
BY DEF BagToSet, SetToBag, (+)

LEMMA PacketFacts ==
    ASSUME ClientTypeOK, NEW x \in Clients, OnServerPacket(x)
    PROVE  \E r \in Responses :
              /\ r = response[x] /\ r # None
              /\ response' = [response EXCEPT ![x] = None]
              /\ UNCHANGED <<connected, request, version, published, dirty, conn, registered>>
              /\ \/ /\ r.version = ServerListVersion[x]
                    /\ UNCHANGED <<ServerListVersion, SortedServerInfoList, heard>>
                 \/ /\ r.version # ServerListVersion[x]
                    /\ ServerListVersion' = [ServerListVersion EXCEPT ![x] = r.version]
                    /\ heard' = [heard EXCEPT ![x] = TRUE]
                    /\ SortedServerInfoList' = [SortedServerInfoList EXCEPT
                          ![x] = @ (+) SetToBag(ToSet(r.servers))]
<1>1. PICK r \in Responses : r = response[x] /\ r # None
  BY DEF OnServerPacket, ClientTypeOK
<1>. QED BY <1>1 DEF OnServerPacket, versionVars, connVars

LEMMA PacketType ==
    ASSUME ClientTypeOK, NEW x \in Clients, OnServerPacket(x)
    PROVE  ClientTypeOK'
<1>1. PICK r \in Responses :
         /\ r = response[x] /\ r # None
         /\ response' = [response EXCEPT ![x] = None]
         /\ UNCHANGED <<connected, request, version, published, dirty, conn, registered>>
         /\ \/ /\ r.version = ServerListVersion[x]
               /\ UNCHANGED <<ServerListVersion, SortedServerInfoList, heard>>
            \/ /\ r.version # ServerListVersion[x]
               /\ ServerListVersion' = [ServerListVersion EXCEPT ![x] = r.version]
               /\ heard' = [heard EXCEPT ![x] = TRUE]
               /\ SortedServerInfoList' = [SortedServerInfoList EXCEPT
                     ![x] = @ (+) SetToBag(ToSet(r.servers))]
  BY PacketFacts
<1>2. r.version \in Versions /\ r.servers \in Seq(ServerIds)
  BY DEF Responses
<1>3. CASE UNCHANGED <<ServerListVersion, SortedServerInfoList, heard>>
  BY <1>1, <1>3 DEF ClientTypeOK
<1>4. CASE /\ ServerListVersion' = [ServerListVersion EXCEPT ![x] = r.version]
           /\ heard' = [heard EXCEPT ![x] = TRUE]
           /\ SortedServerInfoList' = [SortedServerInfoList EXCEPT
                 ![x] = @ (+) SetToBag(ToSet(r.servers))]
  <2>1. PICK b : b = SortedServerInfoList[x] (+) SetToBag(ToSet(r.servers))
    OBVIOUS
  <2>2. SortedServerInfoList' = [SortedServerInfoList EXCEPT ![x] = b]
    BY <1>4, <2>1
  <2>3. ToSet(r.servers) \subseteq ServerIds
    <3>1. DOMAIN r.servers = 1..Len(r.servers) /\ \A i \in 1..Len(r.servers) : r.servers[i] \in ServerIds
      BY <1>2, LenProperties, ElementOfSeq
    <3>. QED BY <3>1 DEF ToSet
  <2>4. BagToSet(b) \subseteq ServerIds
    <3>1. BagToSet(b) = BagToSet(SortedServerInfoList[x]) \cup ToSet(r.servers)
      BY <2>1, AddsServers
    <3>. QED BY <2>3, <3>1 DEF ClientTypeOK
  <2>5. SortedServerInfoList' = [y \in Clients |-> IF y = x THEN b ELSE SortedServerInfoList[y]]
    BY <2>2 DEF ClientTypeOK
  <2>6. /\ SortedServerInfoList' = [y \in Clients |-> SortedServerInfoList'[y]]
        /\ \A y \in Clients : BagToSet(SortedServerInfoList'[y]) \subseteq ServerIds
    <3>1. \A y \in Clients :
             SortedServerInfoList'[y] = IF y = x THEN b ELSE SortedServerInfoList[y]
      BY <2>5
    <3>2. SortedServerInfoList' = [y \in Clients |-> SortedServerInfoList'[y]]
      BY <2>5, <3>1
    <3>3. ASSUME NEW y \in Clients PROVE BagToSet(SortedServerInfoList'[y]) \subseteq ServerIds
      BY <2>4, <3>1 DEF ClientTypeOK
    <3>. QED BY <3>2, <3>3
  <2>. QED BY <1>1, <1>2, <1>4, <2>6 DEF ClientTypeOK
<1>. QED BY <1>1, <1>3, <1>4

LEMMA ClientStep ==
    ClientTypeOK /\ PublicationTypeOK /\ [Next]_vars => ClientTypeOK'
<1>. SUFFICES ASSUME ClientTypeOK, PublicationTypeOK, [Next]_vars PROVE ClientTypeOK'
  OBVIOUS
<1>1. ASSUME NEW x \in Clients, OnServerPacket(x) PROVE ClientTypeOK'
  BY <1>1, PacketType
<1>2. ASSUME NEW x \in Clients, OnDownloadServerList(x) PROVE ClientTypeOK'
  <2>1. KindOf[x] \in Kinds /\ request[x] \in Versions
    BY <1>2, ListAssumption DEF OnDownloadServerList, ClientTypeOK
  <2>2. PICK a \in Responses \cup {None} : a = Answer(KindOf[x], request[x])
    BY <2>1, AnswerType
  <2>3. response' = [response EXCEPT ![x] = a]
    BY <1>2, <2>2 DEF OnDownloadServerList
  <2>. QED BY <1>2, <2>3 DEF OnDownloadServerList, ClientTypeOK
<1>3. ASSUME NEW x \in Clients,
             \/ Connect(x) \/ Disconnect(x) \/ PostDownloadRequest(x) \/ OnServerPacketInvalid(x)
      PROVE  ClientTypeOK'
  BY <1>3 DEF Connect, Disconnect, PostDownloadRequest, OnServerPacketInvalid, Breaks, ClientTypeOK
<1>4. CASE Restart
  BY <1>4 DEF Restart, ClientTypeOK
<1>5. ASSUME UNCHANGED clientVars PROVE ClientTypeOK'
  BY <1>5 DEF clientVars, ClientTypeOK
<1>6. ASSUME NEW g \in Processes,
             \/ \E c \in Connections : OnServerConnected(g, c)
             \/ \E s \in ServerIds : UpdateServerId(g, s)
             \/ ProcessCloses(g)
      PROVE  ClientTypeOK'
  BY <1>5, <1>6 DEF OnServerConnected, UpdateServerId, ProcessCloses
<1>7. ASSUME NEW c \in Connections, OnRegisterServer(c) \/ OnClientClose(c) PROVE ClientTypeOK'
  BY <1>5, <1>7 DEF OnRegisterServer, OnClientClose
<1>8. CASE SomeTick
  BY <1>5, <1>8 DEF SomeTick, OnTick
<1>9. CASE UNCHANGED vars
  BY <1>5, <1>9 DEF vars
<1>. QED BY <1>1, <1>2, <1>3, <1>4, <1>6, <1>7, <1>8, <1>9 DEF Next, OnRegisterServerRefused
-----------------------------------------------------------------------------
(* The theorems *)

ListInv == RegistrationInv /\ PublicationInv /\ ClientTypeOK

LEMMA ListInvariance == Spec => []ListInv
<1>1. Init => ListInv
  BY RegistrationInit, PublicationInit, ClientInit DEF ListInv
<1>2. ListInv /\ [Next]_vars => ListInv'
  BY RegistrationStep, PublicationStep, ClientStep DEF ListInv, PublicationInv
<1>. QED BY <1>1, <1>2, PTL DEF Spec

\* Whatever the order in which servers connect, register, move to a new
\* connection and close, through pointers that are not valid any more as well,
\* the lists stay sorted without duplicates and within their limits.
THEOREM ListsStaySorted == Spec => []ListsConsistent
<1>1. ListInv => ListsConsistent
  BY DEF ListInv, RegistrationInv, RegistrationTypeOK, ListTypeOK, PublicationInv, PublicationTypeOK,
         ClientTypeOK, ListsConsistent, TypeOK
<1>. QED BY <1>1, ListInvariance, PTL

\* No list of servers is published under version 0, the one of the clients
\* that have none, also when versions wrap.
THEOREM PublishedListsAreNamed == Spec => []PublishedIsNamed
<1>1. ListInv => PublishedIsNamed
  BY DEF ListInv, PublicationInv
<1>. QED BY <1>1, ListInvariance, PTL

\* What is on a list, by its elements.
LEMMA ListedElements ==
    ASSUME NEW e
    PROVE  e \in Listed <=> /\ e \in Kinds \X ServerIds
                            /\ e[2] \in ToSet(list[e[1]])
BY DEF Listed, Contains, ToSet

LEMMA RegistrationKeepsListed ==
    ASSUME RegistrationInv, NEW c \in Connections, OnRegisterServer(c)
    PROVE  Listed \subseteq Listed'
<1>1. PICK k \in Kinds, s \in ServerIds : k = kind[c] /\ Addable(k, s) /\ Insert(c, k, s)
  BY RegisterFacts
<1>2. /\ \A q \in Kinds \ {k} : list'[q] = list[q]
      /\ ToSet(list[k]) \subseteq ToSet(list'[k])
  <2>1. /\ \A q \in Kinds \ {k} : list'[q] = list[q]
        /\ \A i \in 1..Len(list[k]) : list[k][i] \in ToSet(list'[k])
    BY <1>1, InsertsLists
  <2>2. DOMAIN list[k] = 1..Len(list[k])
    BY LenProperties DEF RegistrationInv, ListTypeOK
  <2>. QED BY <2>1, <2>2 DEF ToSet
<1>3. ASSUME NEW q \in Kinds, NEW u \in ServerIds, u \in ToSet(list[q])
      PROVE  u \in ToSet(list'[q])
  BY <1>2, <1>3
<1>. QED BY <1>3 DEF Listed, Contains, ToSet

LEMMA RemovalUnlists ==
    ASSUME RegistrationInv, NEW c \in Connections, OnClientClose(c),
           NEW e \in Listed, e \notin Listed'
    PROVE  disturbed[c] \/ (kind[c] = e[1] /\ registered[c] = e[2])
<1>1. e[1] \in Kinds /\ e[2] \in ServerIds /\ e \in Kinds \X ServerIds
  BY DEF Listed
<1>2. e[2] \in ToSet(list[e[1]]) /\ e[2] \notin ToSet(list'[e[1]])
  BY <1>1 DEF Listed, Contains, ToSet
<1>3. list' # list
  BY <1>2
<1>4. PICK k \in Kinds, s \in ServerIds : RemovesFor(c, k, s)
  BY <1>3, CloseFacts
<1>5. /\ \A q \in Kinds \ {k} : list'[q] = list[q]
      /\ \A i \in 1..Len(list[k]) : list[k][i] # s => list[k][i] \in ToSet(list'[k])
  BY <1>4, RemovesLists
<1>6. e[1] = k
  BY <1>1, <1>2, <1>5
<1>7. e[2] = s
  <2>1. PICK i \in 1..Len(list[k]) : list[k][i] = e[2]
    <3>1. DOMAIN list[k] = 1..Len(list[k])
      BY LenProperties DEF RegistrationInv, ListTypeOK
    <3>. QED BY <1>2, <1>6, <3>1 DEF ToSet
  <2>. QED BY <1>2, <1>5, <1>6, <2>1
<1>. QED BY <1>4, <1>6, <1>7 DEF RemovesFor

\* A server is taken from the list by nothing but the end of the server list
\* itself, the close of its own connection, or the close of one whose element
\* was moved or erased: no other step, of any actor, unlists it.
THEOREM UnlistedByClose == Spec => UnlistedByOwnCloseOrMoved
<1>1. ASSUME ListInv, [Next]_vars, NEW e \in Listed \ Listed'
      PROVE  \/ capacity'[e[1]] = 0
             \/ \E c \in Connections :
                   /\ conn[c] = "open" /\ conn'[c] = "closed"
                   /\ disturbed[c] \/ (kind[c] = e[1] /\ registered[c] = e[2])
  <2>0. RegistrationInv
    BY <1>1 DEF ListInv
  <2>1. list' # list
    BY <1>1 DEF Listed
  <2>2. ~(\E c \in Connections : OnRegisterServer(c))
    BY <2>0, <1>1, RegistrationKeepsListed
  <2>3. ASSUME NEW c \in Connections, OnClientClose(c)
        PROVE  /\ conn[c] = "open" /\ conn'[c] = "closed"
               /\ disturbed[c] \/ (kind[c] = e[1] /\ registered[c] = e[2])
    BY <2>0, <2>3, <1>1, RemovalUnlists, CloseFacts
  <2>4. CASE Restart
    BY <1>1, <2>4 DEF Restart, Listed
  <2>5. Restart \/ (\E c \in Connections : OnRegisterServer(c) \/ OnClientClose(c))
    <3>1. ~UNCHANGED listVars
      BY <2>1 DEF listVars
    <3>2. ASSUME NEW g \in Processes
          PROVE  /\ \A c \in Connections : ~OnServerConnected(g, c)
                 /\ \A s \in ServerIds : ~UpdateServerId(g, s)
                 /\ ~ProcessCloses(g)
      BY <3>1 DEF OnServerConnected, UpdateServerId, ProcessCloses
    <3>3. ~SomeTick
      BY <3>1 DEF SomeTick, OnTick
    <3>4. ASSUME NEW x \in Clients
          PROVE  /\ ~Connect(x) /\ ~Disconnect(x) /\ ~PostDownloadRequest(x)
                 /\ ~OnDownloadServerList(x) /\ ~OnServerPacket(x) /\ ~OnServerPacketInvalid(x)
      BY <3>1 DEF Connect, Disconnect, PostDownloadRequest, OnDownloadServerList, OnServerPacket,
                  OnServerPacketInvalid
    <3>5. ~UNCHANGED vars
      BY <3>1 DEF vars
    <3>. QED BY <1>1, <3>2, <3>3, <3>4, <3>5 DEF Next, OnRegisterServerRefused
  <2>. QED BY <2>2, <2>3, <2>4, <2>5
<1>2. ListInv /\ [Next]_vars =>
         [\A e \in Listed \ Listed' :
             \/ capacity'[e[1]] = 0
             \/ \E c \in Connections :
                   /\ conn[c] = "open" /\ conn'[c] = "closed"
                   /\ disturbed[c] \/ (kind[c] = e[1] /\ registered[c] = e[2])]_vars
  BY <1>1
<1>. QED BY <1>2, ListInvariance, PTL DEF Spec, UnlistedByOwnCloseOrMoved
-----------------------------------------------------------------------------
(* What a client holds *)

\* A connection on which a server registered, or that is over, brings no more.
Spent == {c \in Connections : conn[c] = "closed" \/ registered[c] # None}

\* Each publication takes a registration: versions are counted by them.
VersionCount ==
    \A k \in Kinds : version[k] + (IF dirty[k] THEN 1 ELSE 0) <= Cardinality(Spent)

\* One question is under way at most, and it names the client's version.
OneAnswer ==
    \A x \in Clients :
        /\ ~connected[x] => request[x] = None /\ response[x] = None
        /\ response[x] # None => request[x] = None
        /\ request[x] # None => request[x] = ServerListVersion[x]

\* No version that was told or that is under way is greater than the server's.
HeardNotAhead ==
    \A x \in Clients : heard[x] => ServerListVersion[x] <= version[KindOf[x]]

ResponseNotAhead ==
    \A x \in Clients : response[x] # None =>
        \/ response[x].version = ServerListVersion[x]
        \/ /\ response[x].version <= version[KindOf[x]]
           /\ response[x].version = version[KindOf[x]] =>
                 response[x].servers = published[KindOf[x]]

DownloadInv == VersionCount /\ OneAnswer /\ HeardNotAhead /\ ResponseNotAhead /\ HasPublished

LEMMA ConnectionsCount ==
    ASSUME NEW S \in SUBSET Connections
    PROVE  IsFiniteSet(S) /\ Cardinality(S) \in Nat /\ Cardinality(S) <= MaxConnections
<1>1. IsFiniteSet(Connections) /\ Cardinality(Connections) = MaxConnections
  BY FS_Interval, ListAssumption DEF Connections
<1>2. IsFiniteSet(S) /\ Cardinality(S) <= MaxConnections
  BY <1>1, FS_Subset
<1>. QED BY <1>2, FS_CardinalityType

LEMMA DownloadInit == Init => DownloadInv
<1>. SUFFICES ASSUME Init PROVE DownloadInv
  OBVIOUS
<1>1. Cardinality(Spent) \in Nat
  BY ConnectionsCount DEF Spent
<1>. QED BY <1>1 DEF Init, DownloadInv, VersionCount, OneAnswer, HeardNotAhead, ResponseNotAhead,
                     HasPublished

\* Only a registration makes a list dirty, and it spends a connection.
LEMMA VersionsAreCounted ==
    ASSUME MaxConnections < VersionModulus - 1,
           VersionCount, ListInv, [Next]_vars
    PROVE  VersionCount'
<1>0. /\ Cardinality(Spent) \in Nat /\ Cardinality(Spent') \in Nat
      /\ Cardinality(Spent) <= MaxConnections
      /\ IsFiniteSet(Spent) /\ IsFiniteSet(Spent')
  BY ConnectionsCount DEF Spent
<1>1. /\ version \in [Kinds -> Versions] /\ dirty \in [Kinds -> BOOLEAN]
      /\ Versions \subseteq Nat /\ VersionModulus \in Nat /\ MaxConnections \in Nat
  BY ListAssumption DEF ListInv, PublicationInv, PublicationTypeOK, Versions
<1>2. ASSUME Spent \subseteq Spent', UNCHANGED <<version, dirty>> PROVE VersionCount'
  <2>1. Cardinality(Spent) <= Cardinality(Spent')
    BY <1>0, <1>2, FS_Subset
  <2>2. ASSUME NEW k \in Kinds
        PROVE  version'[k] + (IF dirty'[k] THEN 1 ELSE 0) <= Cardinality(Spent')
    <3>1. version[k] + (IF dirty[k] THEN 1 ELSE 0) <= Cardinality(Spent) /\ version[k] \in Nat
      BY <1>1 DEF VersionCount
    <3>. QED BY <1>0, <1>2, <2>1, <3>1
  <2>. QED BY <2>2 DEF VersionCount
<1>3. ASSUME UNCHANGED <<conn, registered, version, dirty>> PROVE VersionCount'
  BY <1>2, <1>3 DEF Spent
<1>4. ASSUME NEW g \in Processes, NEW c \in Connections, OnServerConnected(g, c) PROVE VersionCount'
  <2>1. Spent \subseteq Spent'
    BY <1>4 DEF OnServerConnected, Spent, ListInv, RegistrationInv, RegistrationTypeOK
  <2>. QED BY <1>2, <1>4, <2>1 DEF OnServerConnected, versionVars
<1>5. ASSUME NEW g \in Processes, NEW s \in ServerIds, UpdateServerId(g, s) PROVE VersionCount'
  BY <1>3, <1>5 DEF UpdateServerId, versionVars
<1>6. ASSUME NEW g \in Processes, ProcessCloses(g) PROVE VersionCount'
  BY <1>3, <1>6 DEF ProcessCloses, versionVars, connVars
<1>7. ASSUME NEW c \in Connections, OnRegisterServer(c) PROVE VersionCount'
  <2>1. PICK k \in Kinds, s \in ServerIds :
           /\ conn[c] = "open" /\ context[c] = NoContext /\ conn' = conn
           /\ dirty' = [dirty EXCEPT ![k] = TRUE]
           /\ registered' = [registered EXCEPT ![c] = s]
    BY <1>7, RegisterFacts DEF ListInv
  <2>2. registered[c] = None /\ s # None
    BY <2>1, ListAssumption DEF ListInv, RegistrationInv, ConnectionsKept
  <2>3. Spent' = Spent \cup {c} /\ c \notin Spent
    BY <2>1, <2>2 DEF Spent, ListInv, RegistrationInv, RegistrationTypeOK
  <2>4. Cardinality(Spent') = Cardinality(Spent) + 1
    BY <1>0, <2>3, FS_AddElement
  <2>5. version' = version
    BY <1>7 DEF OnRegisterServer
  <2>6. ASSUME NEW q \in Kinds
        PROVE  version'[q] + (IF dirty'[q] THEN 1 ELSE 0) <= Cardinality(Spent')
    <3>1. version[q] + (IF dirty[q] THEN 1 ELSE 0) <= Cardinality(Spent) /\ version[q] \in Nat
      BY <1>1 DEF VersionCount
    <3>2. version[q] <= Cardinality(Spent)
      BY <1>0, <3>1
    <3>. QED BY <1>0, <2>4, <2>5, <3>1, <3>2
  <2>. QED BY <2>6 DEF VersionCount
<1>8. ASSUME NEW c \in Connections, OnClientClose(c) PROVE VersionCount'
  <2>1. conn' = [conn EXCEPT ![c] = "closed"] /\ registered' = [registered EXCEPT ![c] = None]
    BY <1>8, CloseFacts DEF ListInv
  <2>2. Spent \subseteq Spent'
    BY <2>1 DEF Spent, ListInv, RegistrationInv, RegistrationTypeOK
  <2>. QED BY <1>2, <1>8, <2>2 DEF OnClientClose, versionVars
<1>9. CASE SomeTick
  <2>1. PICK time \in 1..MaxAge : OnTick(time)
    BY <1>9 DEF SomeTick
  <2>2. Spent' = Spent
    BY <2>1 DEF OnTick, connVars, Spent
  <2>3. ASSUME NEW k \in Kinds
        PROVE  version'[k] + (IF dirty'[k] THEN 1 ELSE 0) <= Cardinality(Spent')
    <3>1. \/ dirty[k] /\ ~dirty'[k] /\ version'[k] = NextVersion(version[k])
          \/ dirty'[k] = dirty[k] /\ version'[k] = version[k]
      BY <2>1, TickFacts DEF ListInv, PublicationInv, RegistrationInv
    <3>2. version[k] + (IF dirty[k] THEN 1 ELSE 0) <= Cardinality(Spent) /\ version[k] \in Nat
      BY <1>1 DEF VersionCount
    <3>3. CASE dirty[k] /\ ~dirty'[k] /\ version'[k] = NextVersion(version[k])
      <4>1. version[k] + 1 <= Cardinality(Spent)
        BY <3>2, <3>3
      <4>2. NextVersion(version[k]) = version[k] + 1
        BY <1>0, <1>1, <3>2, <4>1 DEF NextVersion
      <4>. QED BY <1>0, <2>2, <3>2, <3>3, <4>1, <4>2
    <3>4. CASE dirty'[k] = dirty[k] /\ version'[k] = version[k]
      BY <2>2, <3>2, <3>4
    <3>. QED BY <3>1, <3>3, <3>4
  <2>. QED BY <2>3 DEF VersionCount
<1>10. CASE Restart
  BY <1>0, <1>10 DEF Restart, VersionCount
<1>11. ASSUME NEW x \in Clients,
              \/ Connect(x) \/ Disconnect(x) \/ PostDownloadRequest(x)
              \/ OnDownloadServerList(x) \/ OnServerPacket(x) \/ OnServerPacketInvalid(x)
       PROVE  VersionCount'
  BY <1>3, <1>11 DEF Connect, Disconnect, PostDownloadRequest, OnDownloadServerList, OnServerPacket,
                     OnServerPacketInvalid, connVars, versionVars
<1>12. CASE UNCHANGED vars
  BY <1>3, <1>12 DEF vars, connVars, versionVars
<1>. QED BY <1>4, <1>5, <1>6, <1>7, <1>8, <1>9, <1>10, <1>11, <1>12 DEF Next, OnRegisterServerRefused
LEMMA QuestionsStep ==
    ASSUME OneAnswer, ClientTypeOK, [Next]_vars
    PROVE  OneAnswer'
<1>1. ASSUME NEW x \in Clients,
             \/ Connect(x) \/ Disconnect(x) \/ PostDownloadRequest(x) \/ OnServerPacketInvalid(x)
      PROVE  OneAnswer'
  BY <1>1 DEF Connect, Disconnect, PostDownloadRequest, OnServerPacketInvalid, Breaks, OneAnswer,
              ClientTypeOK
<1>2. ASSUME NEW x \in Clients, OnDownloadServerList(x) PROVE OneAnswer'
  <2>1. PICK a : a = Answer(KindOf[x], request[x])
    OBVIOUS
  <2>2. /\ request[x] # None /\ response' = [response EXCEPT ![x] = a]
        /\ request' = [request EXCEPT ![x] = None]
        /\ UNCHANGED <<connected, ServerListVersion>>
    BY <1>2, <2>1 DEF OnDownloadServerList
  <2>. QED BY <2>2 DEF OneAnswer, ClientTypeOK
<1>3. ASSUME NEW x \in Clients, OnServerPacket(x) PROVE OneAnswer'
  <2>1. /\ response[x] # None /\ response' = [response EXCEPT ![x] = None]
        /\ UNCHANGED <<connected, request>>
        /\ \A y \in Clients \ {x} : ServerListVersion'[y] = ServerListVersion[y]
    <3>1. PICK r \in Responses :
             /\ r = response[x] /\ r # None
             /\ response' = [response EXCEPT ![x] = None]
             /\ UNCHANGED <<connected, request, version, published, dirty, conn, registered>>
             /\ \/ /\ r.version = ServerListVersion[x]
                   /\ UNCHANGED <<ServerListVersion, SortedServerInfoList, heard>>
                \/ /\ r.version # ServerListVersion[x]
                   /\ ServerListVersion' = [ServerListVersion EXCEPT ![x] = r.version]
                   /\ heard' = [heard EXCEPT ![x] = TRUE]
                   /\ SortedServerInfoList' = [SortedServerInfoList EXCEPT
                         ![x] = @ (+) SetToBag(ToSet(r.servers))]
      BY <1>3, PacketFacts
    <3>. QED BY <3>1 DEF ClientTypeOK
  <2>2. ASSUME NEW y \in Clients
        PROVE  /\ ~connected'[y] => request'[y] = None /\ response'[y] = None
               /\ response'[y] # None => request'[y] = None
               /\ request'[y] # None => request'[y] = ServerListVersion'[y]
    <3>1. CASE y = x
      BY <2>1, <3>1 DEF OneAnswer, ClientTypeOK
    <3>2. CASE y # x
      BY <2>1, <3>2 DEF OneAnswer, ClientTypeOK
    <3>. QED BY <3>1, <3>2
  <2>. QED BY <2>2 DEF OneAnswer
<1>4. CASE Restart
  BY <1>4 DEF Restart, OneAnswer
<1>5. ASSUME UNCHANGED clientVars PROVE OneAnswer'
  BY <1>5 DEF clientVars, OneAnswer
<1>6. ASSUME NEW g \in Processes,
             \/ \E c \in Connections : OnServerConnected(g, c)
             \/ \E s \in ServerIds : UpdateServerId(g, s)
             \/ ProcessCloses(g)
      PROVE  OneAnswer'
  BY <1>5, <1>6 DEF OnServerConnected, UpdateServerId, ProcessCloses
<1>7. ASSUME NEW c \in Connections, OnRegisterServer(c) \/ OnClientClose(c) PROVE OneAnswer'
  BY <1>5, <1>7 DEF OnRegisterServer, OnClientClose
<1>8. CASE SomeTick
  BY <1>5, <1>8 DEF SomeTick, OnTick
<1>9. CASE UNCHANGED vars
  BY <1>5, <1>9 DEF vars
<1>. QED BY <1>1, <1>2, <1>3, <1>4, <1>6, <1>7, <1>8, <1>9 DEF Next, OnRegisterServerRefused

\* What is told and held, for one client.
Holds(x) ==
    LET k == KindOf[x] IN
    /\ heard[x] => ServerListVersion[x] <= version[k]
    /\ response[x] # None =>
          \/ response[x].version = ServerListVersion[x]
          \/ /\ response[x].version <= version[k]
             /\ response[x].version = version[k] => response[x].servers = published[k]
    /\ heard[x] /\ ServerListVersion[x] = version[k] =>
          ToSet(published[k]) \subseteq BagToSet(SortedServerInfoList[x])

LEMMA HoldsSplits ==
    (\A x \in Clients : Holds(x)) <=> HeardNotAhead /\ ResponseNotAhead /\ HasPublished
BY DEF Holds, HeardNotAhead, ResponseNotAhead, HasPublished

\* Steps of one client, and of the server towards it.
LEMMA ClientHolds ==
    ASSUME ListInv, OneAnswer, NEW x \in Clients, Holds(x),
           \/ Connect(x) \/ Disconnect(x) \/ PostDownloadRequest(x)
           \/ OnDownloadServerList(x) \/ OnServerPacket(x) \/ OnServerPacketInvalid(x)
    PROVE  /\ Holds(x)'
           /\ \A y \in Clients \ {x} : Holds(y) => Holds(y)'
<1>1. UNCHANGED <<version, published>>
  BY DEF Connect, Disconnect, PostDownloadRequest, OnDownloadServerList, OnServerPacket,
         OnServerPacketInvalid, versionVars
<1>2. /\ ClientTypeOK /\ KindOf[x] \in Kinds
      /\ version[KindOf[x]] \in Nat /\ ServerListVersion[x] \in Nat
  BY ListAssumption DEF ListInv, PublicationInv, PublicationTypeOK, ClientTypeOK, Versions
<1>3. ASSUME \/ Connect(x) \/ Disconnect(x) \/ PostDownloadRequest(x) \/ OnServerPacketInvalid(x)
      PROVE  /\ UNCHANGED <<ServerListVersion, SortedServerInfoList, heard>>
             /\ \A y \in Clients : response'[y] = response[y] \/ response'[y] = None
  BY <1>2, <1>3 DEF Connect, Disconnect, PostDownloadRequest, OnServerPacketInvalid, Breaks,
                    ClientTypeOK
<1>4. CASE \/ Connect(x) \/ Disconnect(x) \/ PostDownloadRequest(x) \/ OnServerPacketInvalid(x)
  BY <1>1, <1>3, <1>4 DEF Holds
<1>5. CASE OnDownloadServerList(x)
  <2>1. PICK a : a = Answer(KindOf[x], request[x])
    OBVIOUS
  <2>2. /\ request[x] = ServerListVersion[x]
        /\ response' = [response EXCEPT ![x] = a]
        /\ UNCHANGED <<ServerListVersion, SortedServerInfoList, heard>>
    BY <1>5, <2>1 DEF OnDownloadServerList, OneAnswer
  <2>3. response'[x] = a /\ \A y \in Clients \ {x} : response'[y] = response[y]
    BY <1>2, <2>2 DEF ClientTypeOK
  <2>4. \/ a = None
        \/ a.version = ServerListVersion[x]
        \/ a.version = version[KindOf[x]] /\ a.servers = published[KindOf[x]]
    BY <2>1, <2>2 DEF Answer
  <2>5. Holds(x)'
    BY <1>1, <1>2, <2>2, <2>3, <2>4 DEF Holds
  <2>. QED BY <1>1, <2>2, <2>3, <2>5 DEF Holds
<1>6. CASE OnServerPacket(x)
  <2>1. PICK r \in Responses :
           /\ r = response[x] /\ r # None
           /\ response' = [response EXCEPT ![x] = None]
           /\ UNCHANGED <<connected, request, version, published, dirty, conn, registered>>
           /\ \/ /\ r.version = ServerListVersion[x]
                 /\ UNCHANGED <<ServerListVersion, SortedServerInfoList, heard>>
              \/ /\ r.version # ServerListVersion[x]
                 /\ ServerListVersion' = [ServerListVersion EXCEPT ![x] = r.version]
                 /\ heard' = [heard EXCEPT ![x] = TRUE]
                 /\ SortedServerInfoList' = [SortedServerInfoList EXCEPT
                       ![x] = @ (+) SetToBag(ToSet(r.servers))]
    BY <1>2, <1>6, PacketFacts
  <2>2. response'[x] = None /\ \A y \in Clients \ {x} : response'[y] = response[y]
    BY <1>2, <2>1 DEF ClientTypeOK
  <2>3. CASE UNCHANGED <<ServerListVersion, SortedServerInfoList, heard>>
    BY <1>1, <2>2, <2>3 DEF Holds
  <2>4. CASE /\ r.version # ServerListVersion[x]
             /\ ServerListVersion' = [ServerListVersion EXCEPT ![x] = r.version]
             /\ heard' = [heard EXCEPT ![x] = TRUE]
             /\ SortedServerInfoList' = [SortedServerInfoList EXCEPT
                   ![x] = @ (+) SetToBag(ToSet(r.servers))]
    <3>1. PICK b : b = SortedServerInfoList[x] (+) SetToBag(ToSet(r.servers))
      OBVIOUS
    <3>2. ToSet(r.servers) \subseteq BagToSet(b)
      BY <3>1, AddsServers
    <3>3. SortedServerInfoList' = [y \in Clients |-> IF y = x THEN b ELSE SortedServerInfoList[y]]
      BY <1>2, <2>4, <3>1 DEF ClientTypeOK
    <3>4. /\ ServerListVersion'[x] = r.version /\ SortedServerInfoList'[x] = b
          /\ \A y \in Clients \ {x} : /\ ServerListVersion'[y] = ServerListVersion[y]
                                      /\ heard'[y] = heard[y]
                                      /\ SortedServerInfoList'[y] = SortedServerInfoList[y]
      BY <1>2, <2>4, <3>3 DEF ClientTypeOK
    <3>5. r.version <= version[KindOf[x]]
          /\ (r.version = version[KindOf[x]] => r.servers = published[KindOf[x]])
      BY <2>1, <2>4 DEF Holds
    <3>6. Holds(x)'
      BY <1>1, <2>2, <3>2, <3>4, <3>5 DEF Holds
    <3>7. ASSUME NEW y \in Clients \ {x}, Holds(y) PROVE Holds(y)'
      BY <1>1, <2>2, <3>4, <3>7 DEF Holds
    <3>. QED BY <3>6, <3>7
  <2>. QED BY <2>1, <2>3, <2>4
<1>. QED BY <1>4, <1>5, <1>6
\* A publication is under a version that nobody was told.
LEMMA TickHolds ==
    ASSUME MaxConnections < VersionModulus - 1,
           ListInv, VersionCount, NEW time \in 1..MaxAge, OnTick(time), NEW x \in Clients, Holds(x)
    PROVE  Holds(x)'
<1>1. PICK k \in Kinds : k = KindOf[x]
  BY ListAssumption
<1>2. UNCHANGED <<response, ServerListVersion, SortedServerInfoList, heard>>
  BY DEF OnTick, clientVars
<1>3. /\ version[k] \in Nat /\ ServerListVersion[x] \in Nat
      /\ response[x] # None => response[x].version \in Nat
  BY DEF ListInv, PublicationInv, PublicationTypeOK, ClientTypeOK, Versions, Responses
<1>4. \/ dirty[k] /\ version'[k] = NextVersion(version[k])
      \/ version'[k] = version[k] /\ published'[k] = published[k]
  BY TickFacts DEF ListInv, PublicationInv, RegistrationInv
<1>5. CASE version'[k] = version[k] /\ published'[k] = published[k]
  BY <1>1, <1>2, <1>5 DEF Holds
<1>6. CASE dirty[k] /\ version'[k] = NextVersion(version[k])
  <2>1. version[k] + 1 <= MaxConnections
    <3>1. version[k] + 1 <= Cardinality(Spent)
      BY <1>6 DEF VersionCount
    <3>2. Cardinality(Spent) \in Nat /\ Cardinality(Spent) <= MaxConnections /\ MaxConnections \in Nat
      BY ConnectionsCount, ListAssumption DEF Spent
    <3>. QED BY <1>3, <3>1, <3>2
  <2>2. version'[k] = version[k] + 1
    <3>1. MaxConnections \in Nat /\ VersionModulus \in Nat
      BY ListAssumption
    <3>. QED BY <1>3, <1>6, <2>1, <3>1 DEF NextVersion
  <2>. QED BY <1>1, <1>2, <1>3, <2>2 DEF Holds
<1>. QED BY <1>4, <1>5, <1>6

LEMMA HoldsStep ==
    ASSUME MaxConnections < VersionModulus - 1,
           ListInv, VersionCount, OneAnswer, [Next]_vars, \A x \in Clients : Holds(x)
    PROVE  \A x \in Clients : Holds(x)'
<1>1. ASSUME UNCHANGED <<versionVars, clientVars>> PROVE \A x \in Clients : Holds(x)'
  BY <1>1 DEF Holds, versionVars, clientVars
<1>2. ASSUME NEW x \in Clients,
             \/ Connect(x) \/ Disconnect(x) \/ PostDownloadRequest(x)
             \/ OnDownloadServerList(x) \/ OnServerPacket(x) \/ OnServerPacketInvalid(x)
      PROVE  \A y \in Clients : Holds(y)'
  <2>1. Holds(x)' /\ \A y \in Clients \ {x} : Holds(y) => Holds(y)'
    BY <1>2, ClientHolds
  <2>. QED BY <2>1
<1>3. CASE SomeTick
  BY <1>3, TickHolds DEF SomeTick
<1>4. CASE Restart
  BY <1>4 DEF Restart, Holds
<1>5. ASSUME NEW g \in Processes,
             \/ \E c \in Connections : OnServerConnected(g, c)
             \/ \E s \in ServerIds : UpdateServerId(g, s)
             \/ ProcessCloses(g)
      PROVE  \A x \in Clients : Holds(x)'
  BY <1>1, <1>5 DEF OnServerConnected, UpdateServerId, ProcessCloses
<1>6. ASSUME NEW c \in Connections, OnRegisterServer(c) PROVE \A x \in Clients : Holds(x)'
  BY <1>6 DEF OnRegisterServer, clientVars, Holds
<1>7. ASSUME NEW c \in Connections, OnClientClose(c) PROVE \A x \in Clients : Holds(x)'
  BY <1>1, <1>7 DEF OnClientClose
<1>8. CASE UNCHANGED vars
  BY <1>1, <1>8 DEF vars
<1>. QED BY <1>2, <1>3, <1>4, <1>5, <1>6, <1>7, <1>8 DEF Next, OnRegisterServerRefused

\* A client that was told the present version by this run of the server has
\* every server that is published under it.  Versions must not come round
\* within the life of the connections: a client that missed all 2^32 - 1
\* versions between would take the list of then for the present one.
THEOREM ClientsHavePublished ==
    ASSUME MaxConnections < VersionModulus - 1
    PROVE  Spec => []HasPublished
<1>1. Init => ListInv /\ DownloadInv
  BY RegistrationInit, PublicationInit, ClientInit, DownloadInit DEF ListInv
<1>2. (ListInv /\ DownloadInv) /\ [Next]_vars => (ListInv /\ DownloadInv)'
  <2>. SUFFICES ASSUME ListInv, DownloadInv, [Next]_vars PROVE (ListInv /\ DownloadInv)'
    OBVIOUS
  <2>1. ListInv'
    BY RegistrationStep, PublicationStep, ClientStep DEF ListInv, PublicationInv
  <2>2. VersionCount'
    BY VersionsAreCounted DEF DownloadInv
  <2>3. OneAnswer'
    BY QuestionsStep DEF DownloadInv, ListInv
  <2>4. \A x \in Clients : Holds(x)'
    BY HoldsStep, HoldsSplits DEF DownloadInv
  <2>5. HeardNotAhead' /\ ResponseNotAhead' /\ HasPublished'
    BY <2>4 DEF Holds, HeardNotAhead, ResponseNotAhead, HasPublished
  <2>. QED BY <2>1, <2>2, <2>3, <2>5 DEF DownloadInv
<1>3. DownloadInv => HasPublished
  BY DEF DownloadInv
<1>. QED BY <1>1, <1>2, <1>3, PTL DEF Spec

=============================================================================
