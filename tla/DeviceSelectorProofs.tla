------------------------ MODULE DeviceSelectorProofs ------------------------
(***************************************************************************)
(* Proofs about the device selector, for any number of devices, relays,    *)
(* areas and sessions, any time limit and any number of reports under way: *)
(* the map and the lists agree, the lists are served in turn, and what is  *)
(* given out of a device is neither over nor old.                          *)
(***************************************************************************)
EXTENDS DeviceSelector, ListLemmas

-----------------------------------------------------------------------------
(* The inductive invariant *)

RelayTypeOK ==
    /\ session \in [Sessions -> {"unknown", "online", "offline", "lost"}]
    /\ toStateRelay \in [Relays -> Seq(Reports)]
    /\ toSelector \in Seq(Reports)
    /\ over \in SUBSET Sessions

MapTypeOK ==
    /\ DeviceMap \in [Devices -> Contexts \cup {NoContext}]
    /\ DeviceList \in [Areas -> Seq(Devices)]
    /\ infoAge \in [Devices -> 0..InfoLimit]
    /\ overtaken \in [Areas -> [Devices -> SUBSET Devices]]

\* A device is held under its own DeviceUuid.
HeldAsItself == \A d \in Devices : Known(d) => DeviceMap[d].info.device = d

\* Who was selected from a list since d last was is behind d on it.
OvertakersAreBehind ==
    \A a \in Areas : \A d \in Devices : \A e \in overtaken[a][d] : Before(DeviceList[a], d, e)

\* While the information that is held was confirmed last (counter is full), it
\* is as old as the last report; behind one report of another session it may
\* be older by what a device stays without a report.
AgeOfInfo ==
    \A d \in Devices : Known(d) =>
        infoAge[d] <= DeviceMap[d].age + (IF DeviceMap[d].counter = ResistCounter THEN 0 ELSE Limit - 1)

MapInv == MapTypeOK /\ HeldAsItself /\ ListsAgree /\ OvertakersAreBehind /\ AgeOfInfo

\* A relay's queue holds reports of its own sessions; one that says offline
\* is the last of its session, before it and in what follows it.
RelayReportsEnd ==
    \A r \in Relays : \A i \in 1..Len(toStateRelay[r]) :
        /\ toStateRelay[r][i].session.relay = r
        /\ toStateRelay[r][i].offline => session[toStateRelay[r][i].session] = "offline"
        /\ \A j \in 1..Len(toStateRelay[r]) :
              i < j /\ toStateRelay[r][i].offline =>
                  toStateRelay[r][j].session # toStateRelay[r][i].session

SelectorReportsEnd ==
    \A i \in 1..Len(toSelector) :
        toSelector[i].offline =>
            /\ session[toSelector[i].session] = "offline"
            /\ \A j \in 1..Len(toSelector) :
                  i < j => toSelector[j].session # toSelector[i].session
            /\ \A r \in Relays : \A j \in 1..Len(toStateRelay[r]) :
                  toStateRelay[r][j].session # toSelector[i].session

\* Nothing is under way of a session that the selector was told is offline.
OverIsSilent ==
    \A s \in over :
        /\ session[s] = "offline"
        /\ \A i \in 1..Len(toSelector) : toSelector[i].session # s
        /\ \A r \in Relays : \A i \in 1..Len(toStateRelay[r]) : toStateRelay[r][i].session # s

SelectionIsTrue ==
    /\ selected \in Selections \cup {NoSelection}
    /\ OverIsForgotten

QueueInv == RelayTypeOK /\ RelayReportsEnd /\ SelectorReportsEnd /\ OverIsSilent

SelectorInv == MapInv /\ QueueInv /\ SelectionIsTrue

-----------------------------------------------------------------------------
(* The map and the lists *)

LEMMA ContainsIsMember ==
    ASSUME NEW S, NEW s \in Seq(S), NEW x
    PROVE  Contains(s, x) <=> x \in ToSet(s)
<1>1. DOMAIN s = 1..Len(s)
  BY LenProperties
<1>. QED BY <1>1 DEF Contains, ToSet

LEMMA MinOfTwo ==
    ASSUME NEW a \in Nat, NEW b \in Nat
    PROVE  Min({a, b}) \in {a, b} /\ Min({a, b}) <= a /\ Min({a, b}) <= b
<1>1. {a, b} \in SUBSET Nat /\ {a, b} # {}
  OBVIOUS
<1>. QED BY <1>1, MinIsLeast

LEMMA InitMapInv == Init => MapInv
<1>. SUFFICES ASSUME Init PROVE MapInv
  OBVIOUS
<1>1. Len(<<>>) = 0 /\ <<>> \in Seq(Devices) /\ 0 \in 0..InfoLimit
  BY EmptySeq, SelectorAssumption DEF InfoLimit
<1>2. IsInjective(<<>>)
  BY DEF IsInjective
<1>3. MapTypeOK
  BY <1>1 DEF Init, MapTypeOK
<1>4. ListsAgree
  BY <1>1, <1>2 DEF Init, ListsAgree, On, Known, Contains
<1>5. HeldAsItself /\ OvertakersAreBehind /\ AgeOfInfo
  BY DEF Init, HeldAsItself, OvertakersAreBehind, AgeOfInfo, Known
<1>. QED BY <1>3, <1>4, <1>5 DEF MapInv

\* Devices that leave the map leave the lists and the history.
LEMMA ListsWithout ==
    ASSUME MapInv, NEW D \in SUBSET Devices,
           DeviceList' = [a \in Areas |-> Unlinked(DeviceList[a], D)],
           overtaken' = WithoutHistory(D),
           \A d \in Devices : Known(d)' <=> Known(d) /\ d \notin D,
           \A d \in Devices : Known(d)' => DeviceMap'[d].home = DeviceMap[d].home
    PROVE  /\ DeviceList' \in [Areas -> Seq(Devices)]
           /\ overtaken' \in [Areas -> [Devices -> SUBSET Devices]]
           /\ ListsAgree' /\ OvertakersAreBehind'
<1>1. ASSUME NEW a \in Areas
      PROVE  /\ DeviceList[a] \in Seq(Devices) /\ IsInjective(DeviceList[a])
             /\ DeviceList'[a] = Unlinked(DeviceList[a], D)
             /\ DeviceList'[a] \in Seq(Devices) /\ IsInjective(DeviceList'[a])
             /\ ToSet(DeviceList'[a]) = ToSet(DeviceList[a]) \ D
  <2>1. PICK s \in Seq(Devices) : s = DeviceList[a] /\ IsInjective(s)
    BY DEF MapInv, MapTypeOK, ListsAgree
  <2>2. PICK t : t = Unlinked(s, D)
    OBVIOUS
  <2>3. t \in Seq(Devices) /\ ToSet(t) = ToSet(s) \ D /\ IsInjective(t)
    BY <2>1, <2>2, UnlinkedProperties
  <2>4. DeviceList'[a] = t
    BY <2>1, <2>2
  <2>. QED BY <2>1, <2>2, <2>3, <2>4
<1>2. DeviceList' \in [Areas -> Seq(Devices)]
  BY <1>1
<1>3. overtaken' \in [Areas -> [Devices -> SUBSET Devices]]
  BY DEF WithoutHistory, MapInv, MapTypeOK
<1>4. ListsAgree'
  <2>1. ASSUME NEW a \in Areas, NEW d \in Devices
        PROVE  Contains(DeviceList'[a], d) <=> Known(d)' /\ a \in AreasOf[DeviceMap'[d].home]
    <3>1. Contains(DeviceList'[a], d) <=> d \in ToSet(DeviceList'[a])
      BY <1>1, ContainsIsMember
    <3>2. Contains(DeviceList[a], d) <=> d \in ToSet(DeviceList[a])
      BY <1>1, ContainsIsMember
    <3>3. Contains(DeviceList[a], d) <=> Known(d) /\ a \in AreasOf[DeviceMap[d].home]
      BY DEF MapInv, ListsAgree, On
    <3>. QED BY <1>1, <3>1, <3>2, <3>3
  <2>. QED BY <1>1, <2>1 DEF ListsAgree, On
<1>5. OvertakersAreBehind'
  <2>1. ASSUME NEW a \in Areas, NEW d \in Devices, NEW e \in overtaken'[a][d]
        PROVE  Before(DeviceList'[a], d, e)
    <3>1. d \notin D /\ e \notin D /\ e \in overtaken[a][d]
      BY <2>1 DEF WithoutHistory
    <3>2. Before(DeviceList[a], d, e)
      BY <3>1 DEF MapInv, OvertakersAreBehind
    <3>3. Before(Unlinked(DeviceList[a], D), d, e)
      BY <1>1, <3>1, <3>2, UnlinkedKeepsOrder
    <3>. QED BY <1>1, <3>3
  <2>. QED BY <2>1 DEF OvertakersAreBehind
<1>. QED BY <1>2, <1>3, <1>4, <1>5

LEMMA RemoveDevicesInv ==
    ASSUME MapInv, NEW D \in SUBSET Devices, RemoveDevices(D)
    PROVE  MapInv'
<1>1. \A d \in Devices : DeviceMap'[d] = IF d \in D THEN NoContext ELSE DeviceMap[d]
  BY DEF RemoveDevices
<1>2. /\ \A d \in Devices : Known(d)' <=> Known(d) /\ d \notin D
      /\ \A d \in Devices : Known(d)' => DeviceMap'[d] = DeviceMap[d]
  BY <1>1 DEF Known
<1>3. /\ DeviceList' \in [Areas -> Seq(Devices)]
      /\ overtaken' \in [Areas -> [Devices -> SUBSET Devices]]
      /\ ListsAgree' /\ OvertakersAreBehind'
  <2>1. /\ DeviceList' = [a \in Areas |-> Unlinked(DeviceList[a], D)]
        /\ overtaken' = WithoutHistory(D)
    BY DEF RemoveDevices
  <2>. QED BY <1>2, <2>1, ListsWithout
<1>4. MapTypeOK'
  <2>1. 0 \in 0..InfoLimit
    BY SelectorAssumption DEF InfoLimit
  <2>. QED BY <1>3, <2>1 DEF MapTypeOK, MapInv, RemoveDevices
<1>5. HeldAsItself'
  BY <1>2 DEF HeldAsItself, MapInv
<1>6. AgeOfInfo'
  BY <1>2 DEF AgeOfInfo, MapInv, RemoveDevices
<1>. QED BY <1>3, <1>4, <1>5, <1>6 DEF MapInv
\* A session as the assumption describes it.
LEMMA SessionFields ==
    ASSUME NEW s \in Sessions
    PROVE  s.device \in Devices /\ s.relay \in Relays /\ s.place \in Places
BY SelectorAssumption

\* What a context holds, and what makes one.
LEMMA ContextFields ==
    ASSUME NEW c \in Contexts
    PROVE  /\ c.info \in Sessions /\ c.home \in Places
           /\ c.counter \in 1..ResistCounter /\ c.age \in 0..Limit - 1
           /\ c = [info |-> c.info, home |-> c.home, counter |-> c.counter, age |-> c.age]
BY DEF Contexts

LEMMA ContextOf ==
    ASSUME NEW i \in Sessions, NEW p \in Places, NEW k \in 1..ResistCounter, NEW t \in 0..Limit - 1
    PROVE  [info |-> i, home |-> p, counter |-> k, age |-> t] \in Contexts
BY DEF Contexts

LEMMA AddDeviceInv ==
    ASSUME MapInv, NEW s \in Sessions, ~Known(s.device), AddDevice(s)
    PROVE  MapInv'
<1>1. PICK d \in Devices : d = s.device
  BY SessionFields
<1>2. PICK c \in Contexts : c = [info |-> s, home |-> s.place, counter |-> ResistCounter, age |-> 0]
  <2>1. s.place \in Places /\ ResistCounter \in 1..ResistCounter /\ 0 \in 0..Limit - 1
    BY SessionFields, SelectorAssumption DEF ResistCounter
  <2>. QED BY <2>1, ContextOf
<1>3. /\ DeviceMap' = [DeviceMap EXCEPT ![d] = c]
      /\ DeviceList' = [a \in Areas |->
           IF a \in AreasOf[s.place] THEN Append(DeviceList[a], d) ELSE DeviceList[a]]
      /\ infoAge' = [infoAge EXCEPT ![d] = 0]
      /\ overtaken' = [a \in Areas |-> [overtaken[a] EXCEPT ![d] = {}]]
  BY <1>1, <1>2 DEF AddDevice
<1>4. c # NoContext /\ c.info = s /\ c.home = s.place /\ c.counter = ResistCounter /\ c.age = 0
  BY <1>2, NothingIsNoContext
<1>5. ~Known(d)
  BY <1>1
<1>6. /\ Known(d)' /\ DeviceMap'[d] = c
      /\ \A e \in Devices \ {d} : DeviceMap'[e] = DeviceMap[e] /\ (Known(e)' <=> Known(e))
  BY <1>3, <1>4 DEF Known, MapInv, MapTypeOK
<1>7. ASSUME NEW a \in Areas
      PROVE  /\ DeviceList[a] \in Seq(Devices) /\ IsInjective(DeviceList[a])
             /\ d \notin ToSet(DeviceList[a])
             /\ Append(DeviceList[a], d) \in Seq(Devices) /\ IsInjective(Append(DeviceList[a], d))
             /\ ToSet(Append(DeviceList[a], d)) = ToSet(DeviceList[a]) \cup {d}
  <2>1. PICK l \in Seq(Devices) : l = DeviceList[a] /\ IsInjective(l)
    BY DEF MapInv, MapTypeOK, ListsAgree
  <2>2. d \notin ToSet(l)
    BY <1>5, <2>1, ContainsIsMember DEF MapInv, ListsAgree, On
  <2>. QED BY <2>1, <2>2, AppendToInjective
<1>8. MapTypeOK'
  <2>1. DeviceMap' \in [Devices -> Contexts \cup {NoContext}]
    BY <1>3 DEF MapInv, MapTypeOK
  <2>2. DeviceList' \in [Areas -> Seq(Devices)]
    BY <1>3, <1>7
  <2>3. infoAge' \in [Devices -> 0..InfoLimit]
    BY <1>3, SelectorAssumption DEF MapInv, MapTypeOK, InfoLimit
  <2>4. overtaken' \in [Areas -> [Devices -> SUBSET Devices]]
    BY <1>3 DEF MapInv, MapTypeOK
  <2>. QED BY <2>1, <2>2, <2>3, <2>4 DEF MapTypeOK
<1>9. HeldAsItself'
  BY <1>1, <1>4, <1>6 DEF MapInv, HeldAsItself
<1>10. ListsAgree'
  <2>1. ASSUME NEW a \in Areas PROVE IsInjective(DeviceList'[a])
    BY <1>3, <1>7
  <2>2. ASSUME NEW a \in Areas, NEW e \in Devices
        PROVE  Contains(DeviceList'[a], e) <=> Known(e)' /\ a \in AreasOf[DeviceMap'[e].home]
    <3>1. Contains(DeviceList[a], e) <=> e \in ToSet(DeviceList[a])
      BY <1>7, ContainsIsMember
    <3>2. Contains(Append(DeviceList[a], d), e) <=> e \in ToSet(DeviceList[a]) \cup {d}
      BY <1>7, ContainsIsMember
    <3>3. Contains(DeviceList[a], e) <=> Known(e) /\ a \in AreasOf[DeviceMap[e].home]
      BY DEF MapInv, ListsAgree, On
    <3>4. CASE e = d
      <4>1. e \notin ToSet(DeviceList[a]) /\ Known(e)' /\ DeviceMap'[e].home = s.place
        BY <1>4, <1>6, <1>7, <3>4
      <4>2. CASE a \in AreasOf[s.place]
        BY <1>3, <3>2, <3>4, <4>1, <4>2
      <4>3. CASE a \notin AreasOf[s.place]
        BY <1>3, <3>1, <4>1, <4>3
      <4>. QED BY <4>2, <4>3
    <3>5. CASE e # d
      <4>1. DeviceMap'[e] = DeviceMap[e] /\ (Known(e)' <=> Known(e))
        BY <1>6, <3>5
      <4>2. CASE a \in AreasOf[s.place]
        BY <1>3, <3>1, <3>2, <3>3, <3>5, <4>1, <4>2
      <4>3. CASE a \notin AreasOf[s.place]
        BY <1>3, <3>3, <4>1, <4>3
      <4>. QED BY <4>2, <4>3
    <3>. QED BY <3>4, <3>5
  <2>. QED BY <2>1, <2>2 DEF ListsAgree, On
<1>11. OvertakersAreBehind'
  <2>1. ASSUME NEW a \in Areas, NEW e \in Devices, NEW o \in overtaken'[a][e]
        PROVE  Before(DeviceList'[a], e, o)
    <3>1. e # d /\ o \in overtaken[a][e]
      BY <1>3, <2>1 DEF MapInv, MapTypeOK
    <3>2. Before(DeviceList[a], e, o)
      BY <3>1 DEF MapInv, OvertakersAreBehind
    <3>3. Before(Append(DeviceList[a], d), e, o)
      BY <1>7, <3>2, AppendKeepsOrder
    <3>. QED BY <1>3, <3>2, <3>3
  <2>. QED BY <2>1 DEF OvertakersAreBehind
<1>12. AgeOfInfo'
  <2>1. infoAge'[d] = 0 /\ \A e \in Devices \ {d} : infoAge'[e] = infoAge[e]
    BY <1>3 DEF MapInv, MapTypeOK
  <2>2. ASSUME NEW e \in Devices, Known(e)'
        PROVE  infoAge'[e] <= DeviceMap'[e].age +
                  (IF DeviceMap'[e].counter = ResistCounter THEN 0 ELSE Limit - 1)
    <3>1. CASE e = d
      BY <1>4, <1>6, <2>1, <3>1
    <3>2. CASE e # d
      BY <1>6, <2>1, <2>2, <3>2 DEF MapInv, AgeOfInfo
    <3>. QED BY <3>1, <3>2
  <2>. QED BY <2>2 DEF AgeOfInfo
<1>. QED BY <1>8, <1>9, <1>10, <1>11, <1>12 DEF MapInv

\* A step that leaves the lists and the homes alone.
LEMMA ListsAsTheyAre ==
    ASSUME MapInv, DeviceList' = DeviceList, overtaken' = overtaken,
           \A d \in Devices : Known(d)' <=> Known(d),
           \A d \in Devices : Known(d) => DeviceMap'[d].home = DeviceMap[d].home
    PROVE  ListsAgree' /\ OvertakersAreBehind'
<1>1. ListsAgree'
  BY DEF MapInv, ListsAgree, On
<1>2. OvertakersAreBehind'
  BY DEF MapInv, OvertakersAreBehind
<1>. QED BY <1>1, <1>2

LEMMA UpdateKnownDeviceInv ==
    ASSUME MapInv, NEW s \in Sessions, Known(s.device), UpdateKnownDevice(s)
    PROVE  MapInv'
<1>1. PICK d \in Devices : d = s.device
  BY SessionFields
<1>2. PICK c \in Contexts : c = DeviceMap[d] /\ c.info.device = d
  BY <1>1 DEF MapInv, MapTypeOK, HeldAsItself, Known
<1>3. PICK same, replace \in BOOLEAN :
         /\ same = (s.relay = c.info.relay /\ s.id = c.info.id)
         /\ replace = (~(s.relay = c.info.relay /\ s.id = c.info.id) /\ c.counter = 1)
  OBVIOUS
<1>4. PICK n : n = [c EXCEPT !.age = 0,
                             !.info = IF replace THEN s ELSE @,
                             !.counter = IF same \/ replace THEN ResistCounter ELSE @ - 1]
  OBVIOUS
<1>5. /\ DeviceMap' = [DeviceMap EXCEPT ![d] = n]
      /\ infoAge' = IF same \/ replace THEN [infoAge EXCEPT ![d] = 0] ELSE infoAge
      /\ DeviceList' = DeviceList /\ overtaken' = overtaken
  BY <1>1, <1>2, <1>3, <1>4 DEF UpdateKnownDevice
<1>6. c.counter \in {1, 2} /\ (~same /\ ~replace => c.counter = 2) /\ c.age \in 0..Limit - 1
      /\ c.info \in Sessions /\ c.home \in Places
  <2>1. c.counter \in 1..2 /\ c.age \in 0..Limit - 1 /\ c.info \in Sessions /\ c.home \in Places
    BY <1>2, ContextFields DEF ResistCounter
  <2>2. c.counter \in {1, 2}
    BY <2>1
  <2>3. ~same /\ ~replace => c.counter # 1
    BY <1>3, Zenon
  <2>. QED BY <2>1, <2>2, <2>3
<1>7. /\ n = [info |-> n.info, home |-> n.home, counter |-> n.counter, age |-> n.age]
      /\ n.age = 0 /\ n.home = c.home /\ n.info \in {s, c.info}
      /\ n.counter = IF same \/ replace THEN 2 ELSE 1
  <2>1. PICK i \in Sessions, p \in Places, k \in 1..ResistCounter, t \in 0..Limit - 1 :
           c = [info |-> i, home |-> p, counter |-> k, age |-> t]
    BY <1>2, ContextFields
  <2>2. n = [info |-> IF replace THEN s ELSE i, home |-> p,
             counter |-> IF same \/ replace THEN ResistCounter ELSE k - 1, age |-> 0]
    BY <1>4, <2>1
  <2>3. same \/ replace \/ k = 2
    BY <1>6, <2>1
  <2>. QED BY <2>1, <2>2, <2>3 DEF ResistCounter
<1>8. n \in Contexts /\ n # NoContext /\ n.info.device = d
  <2>1. n.info \in Sessions /\ n.home \in Places /\ n.counter \in 1..ResistCounter
        /\ n.age \in 0..Limit - 1 /\ n.info.device = d
    BY <1>1, <1>2, <1>6, <1>7, SelectorAssumption DEF ResistCounter
  <2>2. n \in Contexts
    BY <1>7, <2>1 DEF Contexts
  <2>. QED BY <2>1, <2>2, NothingIsNoContext
<1>9. /\ Known(d) /\ Known(d)' /\ DeviceMap'[d] = n
      /\ \A e \in Devices \ {d} : DeviceMap'[e] = DeviceMap[e] /\ (Known(e)' <=> Known(e))
  BY <1>1, <1>5, <1>8 DEF Known, MapInv, MapTypeOK
<1>10. ListsAgree' /\ OvertakersAreBehind'
  <2>1. \A e \in Devices : /\ Known(e)' <=> Known(e)
                           /\ Known(e) => DeviceMap'[e].home = DeviceMap[e].home
    BY <1>2, <1>7, <1>9
  <2>. QED BY <1>5, <2>1, ListsAsTheyAre
<1>11. MapTypeOK'
  BY <1>5, <1>8, SelectorAssumption DEF MapInv, MapTypeOK, InfoLimit
<1>12. HeldAsItself'
  BY <1>8, <1>9 DEF MapInv, HeldAsItself
<1>13. AgeOfInfo'
  <2>1. ASSUME NEW e \in Devices, Known(e)'
        PROVE  infoAge'[e] <= DeviceMap'[e].age +
                  (IF DeviceMap'[e].counter = ResistCounter THEN 0 ELSE Limit - 1)
    <3>1. CASE e = d /\ (same \/ replace)
      <4>1. infoAge'[d] = 0
        BY <1>5, <3>1 DEF MapInv, MapTypeOK
      <4>. QED BY <1>7, <1>9, <3>1, <4>1 DEF ResistCounter
    <3>2. CASE e = d /\ ~(same \/ replace)
      <4>1. infoAge'[d] = infoAge[d] /\ infoAge[d] <= c.age /\ infoAge[d] \in Nat /\ Limit \in Nat
        BY <1>2, <1>5, <1>6, <1>9, <3>2, SelectorAssumption
           DEF MapInv, AgeOfInfo, ResistCounter, MapTypeOK, InfoLimit
      <4>. QED BY <1>6, <1>7, <1>9, <3>2, <4>1 DEF ResistCounter
    <3>3. CASE e # d
      <4>1. infoAge'[e] = infoAge[e]
        BY <1>5, <3>3 DEF MapInv, MapTypeOK
      <4>. QED BY <1>9, <2>1, <3>3, <4>1 DEF MapInv, AgeOfInfo
    <3>. QED BY <3>1, <3>2, <3>3
  <2>. QED BY <2>1 DEF AgeOfInfo
<1>. QED BY <1>10, <1>11, <1>12, <1>13 DEF MapInv
\* What is known of the list that a selection takes the first device of.
LEMMA SelectionFacts ==
    ASSUME MapInv, NEW a \in Areas, DeviceList[a] # <<>>
    PROVE  /\ DeviceList[a] \in Seq(Devices) /\ IsInjective(DeviceList[a])
           /\ Head(DeviceList[a]) \in ToSet(DeviceList[a]) /\ Head(DeviceList[a]) \in Devices
           /\ Known(Head(DeviceList[a]))
<1>1. PICK l \in Seq(Devices) : l = DeviceList[a] /\ IsInjective(l) /\ l # <<>>
  BY DEF MapInv, MapTypeOK, ListsAgree
<1>2. Head(l) \in ToSet(l) /\ Head(l) \in Devices
  BY <1>1, TailOfInjective
<1>3. Contains(l, Head(l))
  BY <1>2, ContainsIsMember
<1>. QED BY <1>1, <1>2, <1>3 DEF MapInv, ListsAgree, On

LEMMA SelectDeviceInv ==
    ASSUME MapInv, NEW a \in Areas, OnSelectDevice(a)
    PROVE  MapInv'
<1>1. /\ DeviceList[a] # <<>>
      /\ DeviceList' = [DeviceList EXCEPT ![a] = Append(Tail(DeviceList[a]), Head(DeviceList[a]))]
      /\ overtaken' = [overtaken EXCEPT
           ![a] = [e \in Devices |->
              IF On(a, e) /\ e # Head(DeviceList[a]) THEN @[e] \cup {Head(DeviceList[a])} ELSE {}]]
      /\ DeviceMap' = DeviceMap /\ infoAge' = infoAge
  BY DEF OnSelectDevice, SelectFrom, vars, history
<1>2. PICK l \in Seq(Devices), d \in Devices :
         /\ l = DeviceList[a] /\ d = Head(l) /\ IsInjective(l) /\ l # <<>> /\ d \in ToSet(l)
  BY <1>1, SelectionFacts
<1>3. PICK t : t = Append(Tail(l), Head(l))
  OBVIOUS
<1>4. t \in Seq(Devices) /\ IsInjective(t) /\ ToSet(t) = ToSet(l)
  BY <1>2, <1>3, RotateInjective
<1>5. DeviceList' = [DeviceList EXCEPT ![a] = t]
  BY <1>1, <1>2, <1>3
<1>6. DeviceList'[a] = t /\ \A b \in Areas \ {a} : DeviceList'[b] = DeviceList[b]
  BY <1>5 DEF MapInv, MapTypeOK
<1>7. /\ \A e \in Devices : overtaken'[a][e] = IF On(a, e) /\ e # d THEN overtaken[a][e] \cup {d} ELSE {}
      /\ \A b \in Areas \ {a} : overtaken'[b] = overtaken[b]
  BY <1>1, <1>2 DEF MapInv, MapTypeOK
<1>8. MapTypeOK'
  <2>1. DeviceList' \in [Areas -> Seq(Devices)]
    BY <1>4, <1>5 DEF MapInv, MapTypeOK
  <2>2. overtaken' \in [Areas -> [Devices -> SUBSET Devices]]
    <3>1. [e \in Devices |-> IF On(a, e) /\ e # d THEN overtaken[a][e] \cup {d} ELSE {}]
             \in [Devices -> SUBSET Devices]
      BY <1>2 DEF MapInv, MapTypeOK
    <3>2. PICK f \in [Devices -> SUBSET Devices] :
             f = [e \in Devices |-> IF On(a, e) /\ e # d THEN overtaken[a][e] \cup {d} ELSE {}]
      BY <3>1
    <3>3. overtaken' = [overtaken EXCEPT ![a] = f]
      BY <1>1, <1>2, <3>2
    <3>. QED BY <3>3 DEF MapInv, MapTypeOK
  <2>. QED BY <1>1, <2>1, <2>2 DEF MapInv, MapTypeOK
<1>9. ListsAgree'
  <2>1. ASSUME NEW b \in Areas PROVE IsInjective(DeviceList'[b])
    BY <1>4, <1>6 DEF MapInv, ListsAgree
  <2>2. ASSUME NEW b \in Areas, NEW e \in Devices
        PROVE  Contains(DeviceList'[b], e) <=> Known(e)' /\ b \in AreasOf[DeviceMap'[e].home]
    <3>1. Contains(DeviceList[b], e) <=> Known(e) /\ b \in AreasOf[DeviceMap[e].home]
      BY DEF MapInv, ListsAgree, On
    <3>2. Contains(DeviceList'[b], e) <=> Contains(DeviceList[b], e)
      <4>1. CASE b = a
        <5>1. Contains(t, e) <=> e \in ToSet(t)
          BY <1>4, ContainsIsMember
        <5>2. Contains(l, e) <=> e \in ToSet(l)
          BY <1>2, ContainsIsMember
        <5>. QED BY <1>2, <1>4, <1>6, <4>1, <5>1, <5>2
      <4>2. CASE b # a
        BY <1>6, <4>2
      <4>. QED BY <4>1, <4>2
    <3>. QED BY <1>1, <3>1, <3>2 DEF Known
  <2>. QED BY <2>1, <2>2 DEF ListsAgree, On
<1>10. OvertakersAreBehind'
  <2>1. ASSUME NEW b \in Areas, NEW e \in Devices, NEW o \in overtaken'[b][e]
        PROVE  Before(DeviceList'[b], e, o)
    <3>1. CASE b = a
      <4>1. On(a, e) /\ e # d /\ o \in overtaken[a][e] \cup {d}
        BY <1>7, <2>1, <3>1
      <4>2. e \in ToSet(l)
        BY <1>2, <4>1, ContainsIsMember DEF On
      <4>3. CASE o = d
        <5>1. Before(Append(Tail(l), Head(l)), e, Head(l))
          BY <1>2, <4>1, <4>2, RotateKeepsOrder
        <5>. QED BY <1>2, <1>3, <1>6, <3>1, <4>3, <5>1
      <4>4. CASE o # d
        <5>1. Before(l, e, o)
          BY <1>2, <4>1, <4>4 DEF MapInv, OvertakersAreBehind
        <5>2. Before(Append(Tail(l), Head(l)), e, o)
          BY <1>2, <4>1, <5>1, RotateKeepsOrder
        <5>. QED BY <1>3, <1>6, <3>1, <5>2
      <4>. QED BY <4>3, <4>4
    <3>2. CASE b # a
      BY <1>6, <1>7, <2>1, <3>2 DEF MapInv, OvertakersAreBehind
    <3>. QED BY <3>1, <3>2
  <2>. QED BY <2>1 DEF OvertakersAreBehind
<1>11. HeldAsItself' /\ AgeOfInfo'
  BY <1>1 DEF MapInv, HeldAsItself, AgeOfInfo, Known
<1>. QED BY <1>8, <1>9, <1>10, <1>11 DEF MapInv

\* The devices that a tick forgets.
LateAfter(time) == {d \in Devices : Known(d) /\ DeviceMap[d].age + time >= Limit}

LEMMA TickInv ==
    ASSUME MapInv, NEW time \in 1..Limit, Tick(time)
    PROVE  MapInv'
<1>0. Limit \in Nat \ {0}
  BY SelectorAssumption
<1>1. PICK late \in SUBSET Devices : late = LateAfter(time)
  BY DEF LateAfter
<1>2. /\ DeviceMap' = [d \in Devices |->
           IF d \in late \/ ~Known(d) THEN NoContext ELSE [DeviceMap[d] EXCEPT !.age = @ + time]]
      /\ DeviceList' = [a \in Areas |-> Unlinked(DeviceList[a], late)]
      /\ infoAge' = [d \in Devices |->
           IF d \in late \/ ~Known(d) THEN 0 ELSE Min({InfoLimit, infoAge[d] + time})]
      /\ overtaken' = WithoutHistory(late)
  BY <1>1 DEF Tick, LateAfter
<1>3. ASSUME NEW d \in Devices, Known(d), d \notin late
      PROVE  /\ DeviceMap'[d] \in Contexts /\ DeviceMap'[d] # NoContext
             /\ DeviceMap'[d].info = DeviceMap[d].info /\ DeviceMap'[d].home = DeviceMap[d].home
             /\ DeviceMap'[d].counter = DeviceMap[d].counter
             /\ DeviceMap'[d].age = DeviceMap[d].age + time
             /\ DeviceMap[d].age \in Nat
  <2>1. PICK c \in Contexts : c = DeviceMap[d]
    BY <1>3 DEF MapInv, MapTypeOK, Known
  <2>2. PICK i \in Sessions, p \in Places, k \in 1..ResistCounter, t \in 0..Limit - 1 :
           c = [info |-> i, home |-> p, counter |-> k, age |-> t]
    BY ContextFields
  <2>3. t + time \in 0..Limit - 1
    <3>1. DeviceMap[d].age = t
      BY <2>1, <2>2
    <3>2. ~(DeviceMap[d].age + time >= Limit)
      BY <1>1, <1>3 DEF LateAfter
    <3>. QED BY <1>0, <3>1, <3>2
  <2>4. DeviceMap'[d] = [info |-> i, home |-> p, counter |-> k, age |-> t + time]
    <3>1. DeviceMap'[d] = [c EXCEPT !.age = @ + time]
      BY <1>2, <1>3, <2>1
    <3>2. [c EXCEPT !.age = @ + time] = [info |-> i, home |-> p, counter |-> k, age |-> t + time]
      BY <2>2
    <3>. QED BY <3>1, <3>2
  <2>5. DeviceMap'[d] \in Contexts
    BY <2>3, <2>4, ContextOf
  <2>. QED BY <1>0, <2>1, <2>2, <2>4, <2>5, NothingIsNoContext
<1>4. /\ \A d \in Devices : Known(d)' <=> Known(d) /\ d \notin late
      /\ \A d \in Devices : Known(d)' => DeviceMap'[d].home = DeviceMap[d].home
  <2>1. ASSUME NEW d \in Devices, d \in late \/ ~Known(d) PROVE DeviceMap'[d] = NoContext
    BY <1>2, <2>1
  <2>. QED BY <1>3, <2>1 DEF Known
<1>5. /\ DeviceList' \in [Areas -> Seq(Devices)]
      /\ overtaken' \in [Areas -> [Devices -> SUBSET Devices]]
      /\ ListsAgree' /\ OvertakersAreBehind'
  BY <1>2, <1>4, ListsWithout
<1>6. ASSUME NEW d \in Devices, Known(d), d \notin late
      PROVE  /\ infoAge[d] \in Nat /\ infoAge'[d] \in 0..InfoLimit
             /\ infoAge'[d] <= infoAge[d] + time
  <2>1. infoAge[d] \in Nat /\ InfoLimit \in Nat
    BY <1>0 DEF MapInv, MapTypeOK, InfoLimit
  <2>2. PICK n \in Nat : n = infoAge[d] + time
    BY <1>0, <2>1
  <2>3. Min({InfoLimit, n}) \in Nat /\ Min({InfoLimit, n}) <= n /\ Min({InfoLimit, n}) <= InfoLimit
    BY <2>1, <2>2, MinOfTwo
  <2>4. infoAge'[d] = Min({InfoLimit, n})
    BY <1>2, <1>6, <2>2
  <2>. QED BY <2>1, <2>2, <2>3, <2>4
<1>7. ASSUME NEW d \in Devices, d \in late \/ ~Known(d)
      PROVE  DeviceMap'[d] = NoContext /\ infoAge'[d] = 0
  BY <1>2, <1>7
<1>8. MapTypeOK'
  <2>1. \A d \in Devices : DeviceMap'[d] \in Contexts \cup {NoContext}
    BY <1>3, <1>7
  <2>2. DeviceMap' \in [Devices -> Contexts \cup {NoContext}]
    BY <1>2, <2>1
  <2>3. 0 \in 0..InfoLimit
    BY <1>0 DEF InfoLimit
  <2>4. \A d \in Devices : infoAge'[d] \in 0..InfoLimit
    BY <1>6, <1>7, <2>3
  <2>5. infoAge' \in [Devices -> 0..InfoLimit]
    BY <1>2, <2>4
  <2>. QED BY <1>5, <2>2, <2>5 DEF MapTypeOK
<1>9. HeldAsItself'
  BY <1>3, <1>4 DEF MapInv, HeldAsItself
<1>10. AgeOfInfo'
  <2>1. ASSUME NEW d \in Devices, Known(d)'
        PROVE  infoAge'[d] <= DeviceMap'[d].age +
                  (IF DeviceMap'[d].counter = ResistCounter THEN 0 ELSE Limit - 1)
    <3>1. Known(d) /\ d \notin late
      BY <1>4, <2>1
    <3>2. PICK more \in Nat : more = IF DeviceMap[d].counter = ResistCounter THEN 0 ELSE Limit - 1
      BY <1>0
    <3>3. infoAge[d] <= DeviceMap[d].age + more
      BY <3>1, <3>2 DEF MapInv, AgeOfInfo
    <3>4. infoAge'[d] <= infoAge[d] + time /\ infoAge'[d] \in Nat /\ infoAge[d] \in Nat
      BY <1>0, <1>6, <3>1 DEF InfoLimit
    <3>5. DeviceMap'[d].age = DeviceMap[d].age + time /\ DeviceMap[d].age \in Nat
          /\ DeviceMap'[d].counter = DeviceMap[d].counter
      BY <1>3, <3>1
    <3>6. infoAge'[d] <= DeviceMap'[d].age + more
      BY <3>3, <3>4, <3>5
    <3>. QED BY <3>2, <3>5, <3>6
  <2>. QED BY <2>1 DEF AgeOfInfo
<1>. QED BY <1>5, <1>8, <1>9, <1>10 DEF MapInv

LEMMA RestartMapInv ==
    ASSUME SelectorRestarts
    PROVE  MapInv'
<1>1. Len(<<>>) = 0 /\ <<>> \in Seq(Devices) /\ 0 \in 0..InfoLimit
  BY EmptySeq, SelectorAssumption DEF InfoLimit
<1>2. IsInjective(<<>>)
  BY DEF IsInjective
<1>3. /\ \A d \in Devices : DeviceMap'[d] = NoContext
      /\ \A a \in Areas : DeviceList'[a] = <<>>
      /\ \A a \in Areas : \A d \in Devices : overtaken'[a][d] = {}
  BY DEF SelectorRestarts, WithoutHistory
<1>4. MapTypeOK'
  BY <1>1 DEF SelectorRestarts, WithoutHistory, MapTypeOK
<1>5. ListsAgree'
  BY <1>1, <1>2, <1>3 DEF ListsAgree, On, Known, Contains
<1>6. HeldAsItself' /\ OvertakersAreBehind' /\ AgeOfInfo'
  BY <1>3 DEF HeldAsItself, OvertakersAreBehind, AgeOfInfo, Known
<1>. QED BY <1>4, <1>5, <1>6 DEF MapInv
-----------------------------------------------------------------------------
(* The reports under way *)

LEMMA ReportFields ==
    ASSUME NEW q \in Seq(Reports), NEW i \in 1..Len(q)
    PROVE  q[i] \in Reports /\ q[i].session \in Sessions /\ q[i].offline \in BOOLEAN
<1>1. q[i] \in Reports
  BY ElementOfSeq
<1>. QED BY <1>1 DEF Reports

LEMMA InitQueueInv == Init => QueueInv
<1>. SUFFICES ASSUME Init PROVE QueueInv
  OBVIOUS
<1>1. Len(<<>>) = 0 /\ <<>> \in Seq(Reports)
  BY EmptySeq
<1>2. RelayTypeOK
  BY <1>1 DEF Init, RelayTypeOK
<1>3. RelayReportsEnd /\ SelectorReportsEnd /\ OverIsSilent
  BY <1>1 DEF Init, RelayReportsEnd, SelectorReportsEnd, OverIsSilent
<1>. QED BY <1>2, <1>3 DEF QueueInv

\* A relay reports of a session that it did not report as offline: there is no
\* such report under way, and there will be none unless this one is.
LEMMA ReportQueueInv ==
    ASSUME QueueInv, NEW s \in Sessions, session[s] # "offline",
           NEW to \in {"online", "offline", "lost"},
           session' = [session EXCEPT ![s] = to],
           NEW offline \in BOOLEAN, offline => to = "offline",
           ReportDeviceState(s, offline),
           toSelector' = toSelector, over' = over
    PROVE  QueueInv'
<1>1. PICK m \in Reports : m.session = s /\ m.offline = offline /\ m = [session |-> s, offline |-> offline]
  BY DEF Reports
<1>2. s.relay \in Relays
  BY SessionFields
<1>3. \A r \in Relays : toStateRelay[r] \in Seq(Reports) /\ Len(toStateRelay[r]) \in Nat
  BY LenProperties DEF QueueInv, RelayTypeOK
<1>4. \/ toStateRelay' = toStateRelay
      \/ toStateRelay' = [toStateRelay EXCEPT ![s.relay] = Append(@, m)]
  BY <1>1 DEF ReportDeviceState
<1>5. ASSUME NEW r \in Relays
      PROVE  /\ toStateRelay'[r] \in Seq(Reports)
             /\ \A i \in 1..Len(toStateRelay'[r]) :
                   \/ i \in 1..Len(toStateRelay[r]) /\ toStateRelay'[r][i] = toStateRelay[r][i]
                   \/ /\ r = s.relay /\ toStateRelay'[r][i] = m
                      /\ \A j \in 1..Len(toStateRelay'[r]) : ~(i < j)
  <2>1. CASE toStateRelay'[r] = toStateRelay[r]
    BY <1>3, <2>1
  <2>2. CASE toStateRelay'[r] # toStateRelay[r]
    <3>1. PICK q \in Seq(Reports) : q = toStateRelay[r] /\ Len(q) \in Nat
      BY <1>3
    <3>2. r = s.relay /\ toStateRelay'[r] = Append(q, m)
      BY <1>2, <1>4, <2>2, <3>1 DEF QueueInv, RelayTypeOK
    <3>3. PICK t : t = Append(q, m)
      OBVIOUS
    <3>4. /\ t \in Seq(Reports) /\ Len(t) = Len(q) + 1
          /\ \A i \in 1..Len(q) : t[i] = q[i]
          /\ t[Len(q) + 1] = m
      BY <3>3, AppendProperties
    <3>. QED BY <3>1, <3>2, <3>3, <3>4
  <2>. QED BY <2>1, <2>2
<1>6. ASSUME NEW x \in Sessions, session[x] = "offline"
      PROVE  x # s /\ session'[x] = "offline"
  BY <1>6 DEF QueueInv, RelayTypeOK
<1>7. \A r \in Relays : \A i \in 1..Len(toStateRelay[r]) : toStateRelay[r][i].session \in Sessions
  BY <1>3, ReportFields
<1>8. \A i \in 1..Len(toSelector) : toSelector[i].session \in Sessions
  <2>1. PICK q \in Seq(Reports) : q = toSelector
    BY DEF QueueInv, RelayTypeOK
  <2>. QED BY <2>1, ReportFields
<1>9. RelayTypeOK'
  <2>1. toStateRelay' \in [Relays -> Seq(Reports)]
    BY <1>4, <1>5 DEF QueueInv, RelayTypeOK
  <2>. QED BY <2>1 DEF QueueInv, RelayTypeOK
<1>10. RelayReportsEnd'
  <2>1. ASSUME NEW r \in Relays, NEW i \in 1..Len(toStateRelay'[r])
        PROVE  /\ toStateRelay'[r][i].session.relay = r
               /\ toStateRelay'[r][i].offline => session'[toStateRelay'[r][i].session] = "offline"
               /\ \A j \in 1..Len(toStateRelay'[r]) :
                     i < j /\ toStateRelay'[r][i].offline =>
                         toStateRelay'[r][j].session # toStateRelay'[r][i].session
    <3>1. CASE i \in 1..Len(toStateRelay[r]) /\ toStateRelay'[r][i] = toStateRelay[r][i]
      <4>1. toStateRelay[r][i].session.relay = r
        BY <3>1 DEF QueueInv, RelayReportsEnd
      <4>2. ASSUME toStateRelay[r][i].offline
            PROVE  /\ session[toStateRelay[r][i].session] = "offline"
                   /\ session'[toStateRelay[r][i].session] = "offline"
                   /\ toStateRelay[r][i].session # s
        <5>1. session[toStateRelay[r][i].session] = "offline"
          BY <3>1, <4>2 DEF QueueInv, RelayReportsEnd
        <5>. QED BY <1>6, <1>7, <3>1, <5>1
      <4>3. ASSUME NEW j \in 1..Len(toStateRelay'[r]), i < j, toStateRelay[r][i].offline
            PROVE  toStateRelay'[r][j].session # toStateRelay[r][i].session
        <5>1. CASE j \in 1..Len(toStateRelay[r]) /\ toStateRelay'[r][j] = toStateRelay[r][j]
          BY <3>1, <4>3, <5>1 DEF QueueInv, RelayReportsEnd
        <5>2. CASE toStateRelay'[r][j] = m
          BY <1>1, <4>2, <4>3, <5>2
        <5>. QED BY <1>5, <5>1, <5>2
      <4>. QED BY <3>1, <4>1, <4>2, <4>3
    <3>2. CASE /\ r = s.relay /\ toStateRelay'[r][i] = m
               /\ \A j \in 1..Len(toStateRelay'[r]) : ~(i < j)
      <4>1. m.offline => session'[s] = "offline"
        BY <1>1 DEF QueueInv, RelayTypeOK
      <4>. QED BY <1>1, <3>2, <4>1
    <3>. QED BY <1>5, <3>1, <3>2
  <2>. QED BY <2>1 DEF RelayReportsEnd
<1>11. SelectorReportsEnd'
  <2>1. ASSUME NEW i \in 1..Len(toSelector), toSelector[i].offline
        PROVE  /\ session'[toSelector[i].session] = "offline"
               /\ \A j \in 1..Len(toSelector) :
                     i < j => toSelector[j].session # toSelector[i].session
               /\ \A r \in Relays : \A j \in 1..Len(toStateRelay'[r]) :
                     toStateRelay'[r][j].session # toSelector[i].session
    <3>1. /\ session[toSelector[i].session] = "offline"
          /\ \A j \in 1..Len(toSelector) : i < j => toSelector[j].session # toSelector[i].session
          /\ \A r \in Relays : \A j \in 1..Len(toStateRelay[r]) :
                toStateRelay[r][j].session # toSelector[i].session
      BY <2>1 DEF QueueInv, SelectorReportsEnd
    <3>2. toSelector[i].session # s /\ session'[toSelector[i].session] = "offline"
      BY <1>6, <1>8, <3>1
    <3>3. ASSUME NEW r \in Relays, NEW j \in 1..Len(toStateRelay'[r])
          PROVE  toStateRelay'[r][j].session # toSelector[i].session
      BY <1>1, <1>5, <3>1, <3>2
    <3>. QED BY <3>1, <3>2, <3>3
  <2>. QED BY <2>1 DEF SelectorReportsEnd
<1>12. OverIsSilent'
  <2>1. ASSUME NEW x \in over
        PROVE  /\ session'[x] = "offline"
               /\ \A i \in 1..Len(toSelector) : toSelector[i].session # x
               /\ \A r \in Relays : \A i \in 1..Len(toStateRelay'[r]) :
                     toStateRelay'[r][i].session # x
    <3>1. /\ session[x] = "offline" /\ x \in Sessions
          /\ \A i \in 1..Len(toSelector) : toSelector[i].session # x
          /\ \A r \in Relays : \A i \in 1..Len(toStateRelay[r]) : toStateRelay[r][i].session # x
      BY DEF QueueInv, OverIsSilent, RelayTypeOK
    <3>2. x # s /\ session'[x] = "offline"
      BY <1>6, <3>1
    <3>3. ASSUME NEW r \in Relays, NEW i \in 1..Len(toStateRelay'[r])
          PROVE  toStateRelay'[r][i].session # x
      BY <1>1, <1>5, <3>1, <3>2
    <3>. QED BY <3>1, <3>2, <3>3
  <2>. QED BY <2>1 DEF OverIsSilent
<1>. QED BY <1>9, <1>10, <1>11, <1>12 DEF QueueInv

LEMMA DispatchQueueInv ==
    ASSUME QueueInv, NEW r \in Relays, DispatchData(r)
    PROVE  QueueInv'
<1>1. PICK q \in Seq(Reports) : q = toStateRelay[r] /\ q # <<>>
  BY DEF QueueInv, RelayTypeOK, DispatchData
<1>2. PICK m \in Reports, t \in Seq(Reports) :
         /\ m = Head(q) /\ t = Tail(q) /\ m = q[1] /\ Len(q) \in Nat \ {0}
         /\ Len(t) = Len(q) - 1 /\ \A i \in 1..Len(t) : t[i] = q[i + 1]
  <2>1. Len(q) \in Nat \ {0}
    BY <1>1, LenProperties, EmptySeq
  <2>2. /\ Head(q) \in Reports /\ Tail(q) \in Seq(Reports) /\ Len(Tail(q)) = Len(q) - 1
        /\ \A i \in 1..Len(q) - 1 : Tail(q)[i] = q[i + 1]
    BY <1>1, HeadTailProperties
  <2>3. Head(q) = q[1]
    BY <1>1
  <2>. QED BY <2>1, <2>2, <2>3
<1>3. /\ toStateRelay' = [toStateRelay EXCEPT ![r] = t]
      /\ toSelector' = toSelector \/ toSelector' = Append(toSelector, m)
      /\ session' = session /\ over' = over
  BY <1>1, <1>2 DEF DispatchData, history
<1>4. PICK p \in Seq(Reports) : p = toSelector /\ Len(p) \in Nat
  BY LenProperties DEF QueueInv, RelayTypeOK
<1>5. /\ toSelector' \in Seq(Reports)
      /\ \A i \in 1..Len(toSelector') :
            \/ i \in 1..Len(p) /\ toSelector'[i] = p[i]
            \/ toSelector'[i] = m /\ \A j \in 1..Len(toSelector') : ~(i < j)
  <2>1. CASE toSelector' = toSelector
    BY <1>4, <2>1
  <2>2. CASE toSelector' = Append(toSelector, m)
    <3>1. PICK u : u = Append(p, m)
      OBVIOUS
    <3>2. /\ u \in Seq(Reports) /\ Len(u) = Len(p) + 1
          /\ \A i \in 1..Len(p) : u[i] = p[i]
          /\ u[Len(p) + 1] = m
      BY <3>1, AppendProperties
    <3>3. PICK n \in Nat : n = Len(p)
      BY <1>4
    <3>4. \A i \in 1..n + 1 : (i \in 1..n \/ i = n + 1) /\ ~(n + 1 < i)
      BY <3>3
    <3>5. ASSUME NEW i \in 1..Len(u)
          PROVE  (i \in 1..n /\ u[i] = p[i]) \/ (u[i] = m /\ \A j \in 1..Len(u) : ~(i < j))
      BY <3>2, <3>3, <3>4, <3>5
    <3>6. toSelector' = u
      BY <1>4, <2>2, <3>1
    <3>. QED BY <3>2, <3>3, <3>5, <3>6
  <2>. QED BY <1>3, <2>1, <2>2
<1>6. toStateRelay'[r] = t /\ \A x \in Relays \ {r} : toStateRelay'[x] = toStateRelay[x]
  BY <1>3 DEF QueueInv, RelayTypeOK
<1>7. \A x \in Relays : \A i \in 1..Len(toStateRelay'[x]) :
         \E k \in 1..Len(toStateRelay[x]) :
            /\ toStateRelay'[x][i] = toStateRelay[x][k]
            /\ x = r => 1 < k
  <2>1. ASSUME NEW i \in 1..Len(t)
        PROVE  i + 1 \in 1..Len(q) /\ 1 < i + 1 /\ t[i] = q[i + 1]
    BY <1>2
  <2>. QED BY <1>1, <1>6, <2>1
<1>8. RelayTypeOK'
  BY <1>3, <1>5 DEF QueueInv, RelayTypeOK
<1>9. RelayReportsEnd'
  <2>1. ASSUME NEW x \in Relays, NEW i \in 1..Len(toStateRelay'[x])
        PROVE  /\ toStateRelay'[x][i].session.relay = x
               /\ toStateRelay'[x][i].offline => session'[toStateRelay'[x][i].session] = "offline"
               /\ \A j \in 1..Len(toStateRelay'[x]) :
                     i < j /\ toStateRelay'[x][i].offline =>
                         toStateRelay'[x][j].session # toStateRelay'[x][i].session
    <3>1. CASE x = r
      <4>1. i \in 1..Len(t) /\ t[i] = q[i + 1] /\ i + 1 \in 1..Len(q)
        BY <1>2, <1>6, <2>1, <3>1
      <4>2. /\ q[i + 1].session.relay = r
            /\ q[i + 1].offline => session[q[i + 1].session] = "offline"
            /\ \A j \in 1..Len(q) :
                  i + 1 < j /\ q[i + 1].offline => q[j].session # q[i + 1].session
        BY <1>1, <4>1 DEF QueueInv, RelayReportsEnd
      <4>3. ASSUME NEW j \in 1..Len(t), i < j, t[i].offline
            PROVE  t[j].session # t[i].session
        <5>1. j + 1 \in 1..Len(q) /\ i + 1 < j + 1 /\ t[j] = q[j + 1]
          BY <1>2, <4>3
        <5>. QED BY <4>1, <4>2, <4>3, <5>1
      <4>. QED BY <1>3, <1>6, <3>1, <4>1, <4>2, <4>3
    <3>2. CASE x # r
      <4>1. toStateRelay'[x] = toStateRelay[x] /\ i \in 1..Len(toStateRelay[x])
        BY <1>6, <2>1, <3>2
      <4>2. /\ toStateRelay[x][i].session.relay = x
            /\ toStateRelay[x][i].offline => session[toStateRelay[x][i].session] = "offline"
            /\ \A j \in 1..Len(toStateRelay[x]) :
                  i < j /\ toStateRelay[x][i].offline =>
                      toStateRelay[x][j].session # toStateRelay[x][i].session
        BY <4>1 DEF QueueInv, RelayReportsEnd
      <4>. QED BY <1>3, <4>1, <4>2
    <3>. QED BY <3>1, <3>2
  <2>. QED BY <2>1 DEF RelayReportsEnd
<1>10. SelectorReportsEnd'
  <2>1. ASSUME NEW i \in 1..Len(toSelector'), toSelector'[i].offline
        PROVE  /\ session'[toSelector'[i].session] = "offline"
               /\ \A j \in 1..Len(toSelector') :
                     i < j => toSelector'[j].session # toSelector'[i].session
               /\ \A x \in Relays : \A j \in 1..Len(toStateRelay'[x]) :
                     toStateRelay'[x][j].session # toSelector'[i].session
    <3>1. CASE i \in 1..Len(p) /\ toSelector'[i] = p[i]
      <4>1. /\ session[p[i].session] = "offline"
            /\ \A j \in 1..Len(p) : i < j => p[j].session # p[i].session
            /\ \A x \in Relays : \A j \in 1..Len(toStateRelay[x]) :
                  toStateRelay[x][j].session # p[i].session
        BY <1>4, <2>1, <3>1 DEF QueueInv, SelectorReportsEnd
      <4>2. m.session # p[i].session
        <5>1. 1 \in 1..Len(q)
          BY <1>2
        <5>. QED BY <1>1, <1>2, <4>1, <5>1
      <4>3. ASSUME NEW j \in 1..Len(toSelector'), i < j
            PROVE  toSelector'[j].session # p[i].session
        BY <1>5, <4>1, <4>2, <4>3
      <4>4. ASSUME NEW x \in Relays, NEW j \in 1..Len(toStateRelay'[x])
            PROVE  toStateRelay'[x][j].session # p[i].session
        BY <1>7, <4>1
      <4>. QED BY <1>3, <3>1, <4>1, <4>3, <4>4
    <3>2. CASE toSelector'[i] = m /\ \A j \in 1..Len(toSelector') : ~(i < j)
      <4>1. /\ m.session.relay = r /\ session[m.session] = "offline"
            /\ \A j \in 1..Len(q) : 1 < j => q[j].session # m.session
        <5>1. 1 \in 1..Len(q)
          BY <1>2
        <5>. QED BY <1>1, <1>2, <2>1, <3>2, <5>1 DEF QueueInv, RelayReportsEnd
      <4>2. ASSUME NEW x \in Relays, NEW j \in 1..Len(toStateRelay'[x])
            PROVE  toStateRelay'[x][j].session # m.session
        <5>1. PICK k \in 1..Len(toStateRelay[x]) :
                 toStateRelay'[x][j] = toStateRelay[x][k] /\ (x = r => 1 < k)
          BY <1>7
        <5>2. toStateRelay[x][k].session.relay = x
          BY DEF QueueInv, RelayReportsEnd
        <5>3. CASE x = r
          BY <1>1, <4>1, <5>1, <5>3
        <5>4. CASE x # r
          BY <4>1, <5>1, <5>2, <5>4
        <5>. QED BY <5>3, <5>4
      <4>. QED BY <1>3, <3>2, <4>1, <4>2
    <3>. QED BY <1>5, <3>1, <3>2
  <2>. QED BY <2>1 DEF SelectorReportsEnd
<1>11. OverIsSilent'
  <2>1. ASSUME NEW x \in over
        PROVE  /\ session'[x] = "offline"
               /\ \A i \in 1..Len(toSelector') : toSelector'[i].session # x
               /\ \A y \in Relays : \A i \in 1..Len(toStateRelay'[y]) :
                     toStateRelay'[y][i].session # x
    <3>1. /\ session[x] = "offline"
          /\ \A i \in 1..Len(p) : p[i].session # x
          /\ \A y \in Relays : \A i \in 1..Len(toStateRelay[y]) : toStateRelay[y][i].session # x
      BY <1>4 DEF QueueInv, OverIsSilent
    <3>2. m.session # x
      BY <1>1, <1>2, <3>1
    <3>3. \A i \in 1..Len(toSelector') : toSelector'[i].session # x
      BY <1>5, <3>1, <3>2
    <3>4. ASSUME NEW y \in Relays, NEW i \in 1..Len(toStateRelay'[y])
          PROVE  toStateRelay'[y][i].session # x
      BY <1>7, <3>1
    <3>. QED BY <1>3, <3>1, <3>3, <3>4
  <2>. QED BY <1>3, <2>1 DEF OverIsSilent
<1>. QED BY <1>8, <1>9, <1>10, <1>11 DEF QueueInv
\* What the selector takes is the first of its queue, the rest follows it.
LEMMA PacketFacts ==
    ASSUME QueueInv, OnServerPacket
    PROVE  \E m \in Reports :
              /\ m = Head(toSelector) /\ Len(toSelector) \in Nat \ {0} /\ m = toSelector[1]
              /\ m.session \in Sessions /\ m.offline \in BOOLEAN
              /\ toSelector' \in Seq(Reports)
              /\ \A i \in 1..Len(toSelector') :
                    i + 1 \in 1..Len(toSelector) /\ toSelector'[i] = toSelector[i + 1]
<1>1. PICK q \in Seq(Reports) : q = toSelector /\ q # <<>>
  BY DEF QueueInv, RelayTypeOK, OnServerPacket
<1>2. Len(q) \in Nat \ {0}
  BY <1>1, LenProperties, EmptySeq
<1>3. /\ Head(q) \in Reports /\ Tail(q) \in Seq(Reports) /\ Len(Tail(q)) = Len(q) - 1
      /\ \A i \in 1..Len(q) - 1 : Tail(q)[i] = q[i + 1]
  BY <1>1, HeadTailProperties
<1>4. Head(q) = q[1] /\ 1 \in 1..Len(q)
  BY <1>1, <1>2
<1>5. q[1].session \in Sessions /\ q[1].offline \in BOOLEAN
  BY <1>4, ReportFields
<1>6. toSelector' = Tail(q)
  BY <1>1 DEF OnServerPacket
<1>7. ASSUME NEW i \in 1..Len(Tail(q))
      PROVE  i + 1 \in 1..Len(q) /\ Tail(q)[i] = q[i + 1]
  BY <1>2, <1>3
<1>. QED BY <1>1, <1>2, <1>3, <1>4, <1>5, <1>6, <1>7

LEMMA PacketQueueInv ==
    ASSUME QueueInv, OnServerPacket
    PROVE  QueueInv'
<1>1. PICK m \in Reports :
         /\ m = Head(toSelector) /\ Len(toSelector) \in Nat \ {0} /\ m = toSelector[1]
         /\ m.session \in Sessions /\ m.offline \in BOOLEAN
         /\ toSelector' \in Seq(Reports)
         /\ \A i \in 1..Len(toSelector') :
               i + 1 \in 1..Len(toSelector) /\ toSelector'[i] = toSelector[i + 1]
  BY PacketFacts
<1>2. /\ session' = session /\ toStateRelay' = toStateRelay
      /\ over' = IF m.offline THEN over \cup {m.session} ELSE over
  BY <1>1 DEF OnServerPacket, relayVars
<1>3. RelayTypeOK' /\ RelayReportsEnd'
  BY <1>1, <1>2 DEF QueueInv, RelayTypeOK, RelayReportsEnd
<1>4. SelectorReportsEnd'
  <2>1. ASSUME NEW i \in 1..Len(toSelector'), toSelector'[i].offline
        PROVE  /\ session[toSelector'[i].session] = "offline"
               /\ \A j \in 1..Len(toSelector') :
                     i < j => toSelector'[j].session # toSelector'[i].session
               /\ \A r \in Relays : \A j \in 1..Len(toStateRelay[r]) :
                     toStateRelay[r][j].session # toSelector'[i].session
    <3>1. i + 1 \in 1..Len(toSelector) /\ toSelector'[i] = toSelector[i + 1]
      BY <1>1
    <3>2. /\ session[toSelector[i + 1].session] = "offline"
          /\ \A j \in 1..Len(toSelector) :
                i + 1 < j => toSelector[j].session # toSelector[i + 1].session
          /\ \A r \in Relays : \A j \in 1..Len(toStateRelay[r]) :
                toStateRelay[r][j].session # toSelector[i + 1].session
      BY <2>1, <3>1 DEF QueueInv, SelectorReportsEnd
    <3>3. ASSUME NEW j \in 1..Len(toSelector'), i < j
          PROVE  toSelector'[j].session # toSelector'[i].session
      <4>1. j + 1 \in 1..Len(toSelector) /\ toSelector'[j] = toSelector[j + 1] /\ i + 1 < j + 1
        BY <1>1, <3>3
      <4>. QED BY <3>1, <3>2, <4>1
    <3>. QED BY <3>1, <3>2, <3>3
  <2>. QED BY <1>2, <2>1 DEF SelectorReportsEnd
<1>5. OverIsSilent'
  <2>1. ASSUME NEW x \in over'
        PROVE  /\ session[x] = "offline"
               /\ \A i \in 1..Len(toSelector') : toSelector'[i].session # x
               /\ \A r \in Relays : \A i \in 1..Len(toStateRelay[r]) : toStateRelay[r][i].session # x
    <3>1. CASE x \in over
      <4>1. /\ session[x] = "offline"
            /\ \A i \in 1..Len(toSelector) : toSelector[i].session # x
            /\ \A r \in Relays : \A i \in 1..Len(toStateRelay[r]) : toStateRelay[r][i].session # x
        BY <3>1 DEF QueueInv, OverIsSilent
      <4>. QED BY <1>1, <4>1
    <3>2. CASE m.offline /\ x = m.session
      <4>1. 1 \in 1..Len(toSelector)
        BY <1>1
      <4>2. /\ session[x] = "offline"
            /\ \A j \in 1..Len(toSelector) : 1 < j => toSelector[j].session # x
            /\ \A r \in Relays : \A j \in 1..Len(toStateRelay[r]) : toStateRelay[r][j].session # x
        BY <1>1, <3>2, <4>1 DEF QueueInv, SelectorReportsEnd
      <4>3. ASSUME NEW i \in 1..Len(toSelector')
            PROVE  toSelector'[i].session # x
        <5>1. i + 1 \in 1..Len(toSelector) /\ 1 < i + 1 /\ toSelector'[i] = toSelector[i + 1]
          BY <1>1
        <5>. QED BY <4>2, <5>1
      <4>. QED BY <4>2, <4>3
    <3>. QED BY <1>2, <2>1, <3>1, <3>2
  <2>. QED BY <1>2, <2>1 DEF OverIsSilent
<1>. QED BY <1>3, <1>4, <1>5 DEF QueueInv

-----------------------------------------------------------------------------
(* The selector *)

\* A packet is taken with what the map, the lists and the histories say of it.
LEMMA PacketMapInv ==
    ASSUME MapInv, QueueInv, OnServerPacket
    PROVE  MapInv'
<1>1. PICK m \in Reports : m = Head(toSelector) /\ m.session \in Sessions /\ m.offline \in BOOLEAN
  BY PacketFacts
<1>2. m.session.device \in Devices
  BY <1>1, SessionFields
<1>3. CASE m.offline
  <2>1. RemoveDevices({m.session.device})
    BY <1>1, <1>3 DEF OnServerPacket
  <2>. QED BY <1>2, <2>1, RemoveDevicesInv
<1>4. CASE ~m.offline
  <2>1. UpdateDevice(m.session)
    BY <1>1, <1>4 DEF OnServerPacket
  <2>2. CASE Known(m.session.device)
    BY <1>1, <2>1, <2>2, UpdateKnownDeviceInv DEF UpdateDevice
  <2>3. CASE ~Known(m.session.device)
    BY <1>1, <2>1, <2>3, AddDeviceInv DEF UpdateDevice
  <2>. QED BY <2>2, <2>3
<1>. QED BY <1>3, <1>4

\* The information that is held after a report is what was held or what it says.
LEMMA UpdateInfo ==
    ASSUME MapInv, NEW s \in Sessions, UpdateDevice(s)
    PROVE  \A d \in Devices : Known(d)' =>
              DeviceMap'[d].info = s \/ (Known(d) /\ DeviceMap'[d].info = DeviceMap[d].info)
<1>1. PICK d \in Devices : d = s.device
  BY SessionFields
<1>2. CASE Known(d)
  <2>1. PICK c \in Contexts : c = DeviceMap[d]
    BY <1>2 DEF MapInv, MapTypeOK, Known
  <2>2. PICK replace, full \in BOOLEAN :
           /\ replace = (~(s.relay = c.info.relay /\ s.id = c.info.id) /\ c.counter = 1)
           /\ full = ((s.relay = c.info.relay /\ s.id = c.info.id) \/ replace)
    OBVIOUS
  <2>3. PICK n : n = [c EXCEPT !.age = 0,
                               !.info = IF replace THEN s ELSE @,
                               !.counter = IF full THEN ResistCounter ELSE @ - 1]
    OBVIOUS
  <2>4. DeviceMap' = [DeviceMap EXCEPT ![d] = n]
    BY <1>1, <1>2, <2>1, <2>2, <2>3 DEF UpdateDevice, UpdateKnownDevice
  <2>5. n.info \in {s, c.info}
    <3>1. PICK i \in Sessions, p \in Places, k \in 1..ResistCounter, t \in 0..Limit - 1 :
             c = [info |-> i, home |-> p, counter |-> k, age |-> t]
      BY <2>1, ContextFields
    <3>2. n.info = IF replace THEN s ELSE i
      BY <2>3, <3>1
    <3>. QED BY <3>1, <3>2
  <2>6. DeviceMap'[d] = n /\ \A e \in Devices \ {d} : DeviceMap'[e] = DeviceMap[e]
    BY <2>4 DEF MapInv, MapTypeOK
  <2>. QED BY <1>2, <2>1, <2>5, <2>6 DEF Known
<1>3. CASE ~Known(d)
  <2>1. DeviceMap' = [DeviceMap EXCEPT
           ![d] = [info |-> s, home |-> s.place, counter |-> ResistCounter, age |-> 0]]
    BY <1>1, <1>3 DEF UpdateDevice, AddDevice
  <2>2. /\ DeviceMap'[d].info = s
        /\ \A e \in Devices \ {d} : DeviceMap'[e] = DeviceMap[e]
    BY <2>1 DEF MapInv, MapTypeOK
  <2>. QED BY <2>2 DEF Known
<1>. QED BY <1>2, <1>3

LEMMA PacketSelectionIsTrue ==
    ASSUME MapInv, QueueInv, SelectionIsTrue, OnServerPacket
    PROVE  SelectionIsTrue'
<1>1. PICK m \in Reports :
         /\ m = Head(toSelector) /\ Len(toSelector) \in Nat \ {0} /\ m = toSelector[1]
         /\ m.session \in Sessions /\ m.offline \in BOOLEAN
  BY PacketFacts
<1>2. selected' = NoSelection
  BY DEF OnServerPacket
<1>3. ASSUME NEW d \in Devices, Known(d)'
      PROVE  DeviceMap'[d].info \notin over'
  <2>1. CASE m.offline
    <3>1. RemoveDevices({m.session.device}) /\ over' = over \cup {m.session}
      BY <1>1, <2>1 DEF OnServerPacket
    <3>2. d # m.session.device /\ Known(d) /\ DeviceMap'[d] = DeviceMap[d]
      BY <1>3, <3>1 DEF RemoveDevices, Known
    <3>3. DeviceMap[d].info.device = d /\ DeviceMap[d].info \notin over
      BY <3>2 DEF MapInv, HeldAsItself, SelectionIsTrue, OverIsForgotten
    <3>. QED BY <3>1, <3>2, <3>3
  <2>2. CASE ~m.offline
    <3>1. UpdateDevice(m.session) /\ over' = over
      BY <1>1, <2>2 DEF OnServerPacket
    <3>2. m.session \notin over
      <4>1. 1 \in 1..Len(toSelector)
        BY <1>1
      <4>. QED BY <1>1, <4>1 DEF QueueInv, OverIsSilent
    <3>3. DeviceMap'[d].info = m.session \/ (Known(d) /\ DeviceMap'[d].info = DeviceMap[d].info)
      BY <1>1, <1>3, <3>1, UpdateInfo
    <3>. QED BY <3>1, <3>2, <3>3 DEF SelectionIsTrue, OverIsForgotten
  <2>. QED BY <1>1, <2>1, <2>2
<1>. QED BY <1>2, <1>3 DEF SelectionIsTrue, OverIsForgotten

\* What is selected is a device of the list, with what the map says of it.
LEMMA SelectDeviceIsTrue ==
    ASSUME MapInv, SelectionIsTrue, NEW a \in Areas, OnSelectDevice(a)
    PROVE  SelectionIsTrue'
<1>1. DeviceList[a] # <<>> /\ DeviceMap' = DeviceMap /\ over' = over
  BY DEF OnSelectDevice, SelectFrom
<1>2. PICK d \in Devices : d = Head(DeviceList[a]) /\ Known(d)
  BY <1>1, SelectionFacts
<1>3. selected' = [area |-> a, device |-> d, info |-> DeviceMap[d].info]
  BY <1>2 DEF OnSelectDevice, SelectFrom
<1>4. DeviceMap[d].info \in Sessions
  <2>1. DeviceMap[d] \in Contexts
    BY <1>2 DEF MapInv, MapTypeOK, Known
  <2>. QED BY <2>1, ContextFields
<1>5. selected' \in Selections
  BY <1>3, <1>4 DEF Selections
<1>6. selected'.info \notin over
  <2>1. selected'.info = DeviceMap[d].info
    BY <1>3
  <2>. QED BY <1>2, <2>1 DEF SelectionIsTrue, OverIsForgotten
<1>. QED BY <1>1, <1>5, <1>6 DEF SelectionIsTrue, OverIsForgotten, Known

\* The map and the selection do not change with the relays' steps.
LEMMA SameMap ==
    ASSUME MapInv, SelectionIsTrue, selected' = NoSelection, over' = over,
           UNCHANGED <<DeviceMap, DeviceList, infoAge, overtaken>>
    PROVE  MapInv' /\ SelectionIsTrue'
<1>1. MapTypeOK' /\ HeldAsItself' /\ AgeOfInfo'
  BY DEF MapInv, MapTypeOK, HeldAsItself, AgeOfInfo, Known
<1>2. ListsAgree' /\ OvertakersAreBehind'
  BY DEF MapInv, ListsAgree, OvertakersAreBehind, On, Known
<1>3. SelectionIsTrue'
  BY DEF SelectionIsTrue, OverIsForgotten, Known
<1>. QED BY <1>1, <1>2, <1>3 DEF MapInv

\* The reports under way do not change with a selection or a tick.
LEMMA SameQueues ==
    ASSUME QueueInv, UNCHANGED <<session, toStateRelay, toSelector, over>>
    PROVE  QueueInv'
BY DEF QueueInv, RelayTypeOK, RelayReportsEnd, SelectorReportsEnd, OverIsSilent

LEMMA RelayStepInv ==
    ASSUME SelectorInv, NEW s \in Sessions,
           Bind(s) \/ ReportDeviceOnState(s) \/ RemoveDevice(s) \/ Lose(s)
    PROVE  SelectorInv'
<1>1. PICK to \in {"online", "offline", "lost"}, offline \in BOOLEAN :
         /\ session[s] # "offline" /\ session' = [session EXCEPT ![s] = to]
         /\ offline => to = "offline"
         /\ ReportDeviceState(s, offline)
         /\ selected' = NoSelection
         /\ UNCHANGED <<toSelector, DeviceMap, DeviceList, history>>
  <2>1. CASE Bind(s)
    BY <2>1 DEF Bind, RelayStep
  <2>2. CASE ReportDeviceOnState(s)
    BY <2>2 DEF ReportDeviceOnState, RelayStep
  <2>3. CASE RemoveDevice(s)
    BY <2>3 DEF RemoveDevice, RelayStep
  <2>4. CASE Lose(s)
    <3>1. ReportDeviceState(s, FALSE)
      BY <2>4 DEF Lose, ReportDeviceState
    <3>. QED BY <2>4, <3>1 DEF Lose, RelayStep
  <2>. QED BY <2>1, <2>2, <2>3, <2>4
<1>2. QueueInv'
  <2>1. toSelector' = toSelector /\ over' = over
    BY <1>1 DEF history
  <2>. QED BY <1>1, <2>1, ReportQueueInv DEF SelectorInv
<1>3. MapInv' /\ SelectionIsTrue'
  BY <1>1, SameMap DEF SelectorInv, history
<1>. QED BY <1>2, <1>3 DEF SelectorInv

LEMMA TickSelectionIsTrue ==
    ASSUME MapInv, SelectionIsTrue, NEW time \in 1..Limit, Tick(time)
    PROVE  SelectionIsTrue'
<1>1. selected' = NoSelection /\ over' = over
  BY DEF Tick
<1>2. ASSUME NEW d \in Devices, Known(d)'
      PROVE  Known(d) /\ DeviceMap'[d].info = DeviceMap[d].info
  <2>1. Known(d) /\ DeviceMap'[d] = [DeviceMap[d] EXCEPT !.age = @ + time]
    BY <1>2 DEF Tick, Known
  <2>2. PICK c \in Contexts : c = DeviceMap[d]
    BY <2>1 DEF MapInv, MapTypeOK, Known
  <2>3. [c EXCEPT !.age = @ + time].info = c.info
    BY ContextFields
  <2>. QED BY <2>1, <2>2, <2>3
<1>. QED BY <1>1, <1>2 DEF SelectionIsTrue, OverIsForgotten

LEMMA RestartQueueInv ==
    ASSUME QueueInv, SelectorRestarts
    PROVE  QueueInv'
<1>1. /\ toSelector' = <<>> /\ session' = session /\ toStateRelay' = toStateRelay /\ over' = over
  BY DEF SelectorRestarts, relayVars
<1>2. <<>> \in Seq(Reports) /\ Len(<<>>) = 0
  BY EmptySeq
<1>. QED BY <1>1, <1>2 DEF QueueInv, RelayTypeOK, RelayReportsEnd, SelectorReportsEnd, OverIsSilent

LEMMA SelectorInvStep == SelectorInv /\ [Next]_vars => SelectorInv'
<1>. SUFFICES ASSUME SelectorInv, [Next]_vars PROVE SelectorInv'
  OBVIOUS
<1>. USE DEF SelectorInv
<1>1. ASSUME NEW s \in Sessions, Bind(s) \/ ReportDeviceOnState(s) \/ RemoveDevice(s) \/ Lose(s)
      PROVE  SelectorInv'
  BY <1>1, RelayStepInv
<1>2. ASSUME NEW r \in Relays, DispatchData(r)
      PROVE  SelectorInv'
  <2>1. MapInv' /\ SelectionIsTrue'
    BY <1>2, SameMap DEF DispatchData, history
  <2>. QED BY <1>2, <2>1, DispatchQueueInv
<1>3. CASE OnServerPacket
  BY <1>3, PacketMapInv, PacketQueueInv, PacketSelectionIsTrue
<1>4. ASSUME NEW a \in Areas, OnSelectDevice(a)
      PROVE  SelectorInv'
  <2>1. QueueInv'
    BY <1>4, SameQueues DEF OnSelectDevice, relayVars
  <2>. QED BY <1>4, <2>1, SelectDeviceInv, SelectDeviceIsTrue
<1>5. CASE SomeTick
  <2>1. PICK time \in 1..Limit : Tick(time)
    BY <1>5 DEF SomeTick
  <2>2. QueueInv'
    BY <2>1, SameQueues DEF Tick, relayVars
  <2>. QED BY <2>1, <2>2, TickInv, TickSelectionIsTrue
<1>6. CASE SelectorRestarts
  <2>1. SelectionIsTrue'
    BY <1>6 DEF SelectorRestarts, SelectionIsTrue, OverIsForgotten, Known
  <2>. QED BY <1>6, <2>1, RestartMapInv, RestartQueueInv
<1>7. CASE UNCHANGED vars
  <2>1. /\ UNCHANGED <<session, toStateRelay, toSelector, over>>
        /\ UNCHANGED <<DeviceMap, DeviceList, infoAge, overtaken>>
        /\ selected' = selected
    BY <1>7 DEF vars, relayVars, history
  <2>2. MapTypeOK' /\ HeldAsItself' /\ AgeOfInfo'
    BY <2>1 DEF MapInv, MapTypeOK, HeldAsItself, AgeOfInfo, Known
  <2>3. ListsAgree' /\ OvertakersAreBehind'
    BY <2>1 DEF MapInv, ListsAgree, OvertakersAreBehind, On, Known
  <2>4. SelectionIsTrue'
    BY <2>1 DEF SelectionIsTrue, OverIsForgotten, Known
  <2>. QED BY <2>1, <2>2, <2>3, <2>4, SameQueues DEF MapInv
<1>. QED BY <1>1, <1>2, <1>3, <1>4, <1>5, <1>6, <1>7 DEF Next

-----------------------------------------------------------------------------
(* The theorems *)

\* The map, the lists, the reports under way and what is given out fit
\* together, whatever order the reports come in.
THEOREM SelectorInvariance == Spec => []SelectorInv
<1>1. Init => SelectorInv
  <2>1. Init => SelectionIsTrue
    BY DEF Init, SelectionIsTrue, OverIsForgotten, Known
  <2>. QED BY <2>1, InitMapInv, InitQueueInv DEF SelectorInv
<1>. QED BY <1>1, SelectorInvStep, PTL DEF Spec

\* The types, and the agreement of the device map and the lists: a device is
\* once on each list of its place, and on none when it is not known.
THEOREM MapAndListsAgree == Spec => []SelectorConsistent
<1>1. SelectorInv => SelectorConsistent
  BY DEF SelectorInv, MapInv, MapTypeOK, QueueInv, RelayTypeOK, SelectionIsTrue,
         SelectorConsistent, TypeOK
<1>. QED BY <1>1, SelectorInvariance, PTL

\* What is given out of a device is of a session that is not over, and was
\* reported within twice the time limit.
THEOREM OldIsForgotten == Spec => []ForgottenInTime
<1>1. SelectorInv => ForgottenInTime
  <2>. SUFFICES ASSUME SelectorInv PROVE ForgottenInTime
    OBVIOUS
  <2>1. OverIsForgotten
    BY DEF SelectorInv, SelectionIsTrue
  <2>2. ASSUME NEW d \in Devices, Known(d) PROVE infoAge[d] <= 2 * (Limit - 1)
    <3>1. PICK c \in Contexts : c = DeviceMap[d]
      BY <2>2 DEF SelectorInv, MapInv, MapTypeOK, Known
    <3>2. c.age \in 0..Limit - 1 /\ Limit \in Nat \ {0}
      BY ContextFields, SelectorAssumption
    <3>3. infoAge[d] <= c.age + (IF c.counter = ResistCounter THEN 0 ELSE Limit - 1)
      BY <2>2, <3>1 DEF SelectorInv, MapInv, AgeOfInfo
    <3>4. infoAge[d] \in Nat
      BY <3>2 DEF SelectorInv, MapInv, MapTypeOK, InfoLimit
    <3>. QED BY <3>2, <3>3, <3>4
  <2>. QED BY <2>1, <2>2 DEF ForgottenInTime, InfoIsRecent
<1>. QED BY <1>1, SelectorInvariance, PTL

\* No device is selected twice from a list on which another one waits.
THEOREM DevicesTakeTurns == Spec => SelectionRotates
<1>1. SelectorInv /\ [Next]_vars =>
        [\A a \in Areas : selected' # NoSelection /\ selected'.area = a =>
            \A d \in Devices : On(a, d) => selected'.device \notin overtaken[a][d]]_vars
  <2>. SUFFICES ASSUME SelectorInv, Next, NEW a \in Areas,
                       selected' # NoSelection, selected'.area = a,
                       NEW d \in Devices
                PROVE  selected'.device \notin overtaken[a][d]
    OBVIOUS
  <2>1. PICK b \in Areas : OnSelectDevice(b)
    BY DEF Next, Bind, ReportDeviceOnState, RemoveDevice, Lose, RelayStep, DispatchData,
           OnServerPacket, SomeTick, Tick, SelectorRestarts
  <2>2. /\ DeviceList[b] # <<>>
        /\ selected' = [area |-> b, device |-> Head(DeviceList[b]),
                        info |-> DeviceMap[Head(DeviceList[b])].info]
    BY <2>1 DEF OnSelectDevice, SelectFrom
  <2>3. a = b /\ selected'.device = Head(DeviceList[a])
    BY <2>2
  <2>4. DeviceList[a] \in Seq(Devices) /\ IsInjective(DeviceList[a]) /\ DeviceList[a] # <<>>
    BY <2>2, <2>3, SelectionFacts DEF SelectorInv
  <2>5. ~Before(DeviceList[a], d, Head(DeviceList[a]))
    BY <2>4, RotateKeepsOrder
  <2>. QED BY <2>3, <2>5 DEF SelectorInv, MapInv, OvertakersAreBehind
<1>. QED BY <1>1, SelectorInvariance, PTL DEF Spec, SelectionRotates

=============================================================================
