--------------------------- MODULE DeviceSelector ---------------------------
(***************************************************************************)
(* server_device_selector, fed by the relays through                       *)
(* server_device_state_relay: it keeps the devices that the relays report  *)
(* as online, and gives them out in turn to proxy access.                  *)
(*                                                                         *)
(* A device (DeviceUuid) may be reported by several relays at once, and by *)
(* one under several ids: a session is a relay's device id, reported       *)
(* as DevicePresence says.  A report may be lost on each of its two        *)
(* connections (what is posted while a connection is down is), those that  *)
(* arrive are in the order of their relay.                                 *)
(*                                                                         *)
(* An area is a country, a state or a city.  The id 0 has a list as well,  *)
(* from which nobody selects.                                              *)
(*                                                                         *)
(* Time passes at a Tick, by any amount; TimeoutDeviceList is sorted by    *)
(* age, so that those popped are those that reached the limit.             *)
(*                                                                         *)
(* Bounds: MaxReports under way from each relay, MaxForwarded to the       *)
(* selector.                                                               *)
(***************************************************************************)
EXTENDS Naturals, SequencesExt, Lists

CONSTANTS Devices, Relays, Places, Areas,
          AreasOf,     \* AreasOf[p]: the country, the state and the city of p
          Sessions,    \* records [device, relay, place, id]
          NoContext, NoSelection,
          Limit,       \* DEVICE_KEEPALIVE_TIMEOUT_MS
          MaxReports, MaxForwarded   \* bounds of the model

ASSUME SelectorAssumption ==
    /\ AreasOf \in [Places -> SUBSET Areas]
    /\ \A s \in Sessions : s.device \in Devices /\ s.relay \in Relays /\ s.place \in Places
    /\ Limit \in Nat \ {0} /\ MaxReports \in Nat /\ MaxForwarded \in Nat

VARIABLES
    session,      \* session[s]: "unknown", "online", "offline", or "lost" unreported
    toStateRelay, \* toStateRelay[r]: reports of r under way
    toSelector,   \* reports under way to the selector
    DeviceMap,    \* DeviceMap[d]: the xDS_DeviceContext of d
    DeviceList,   \* DeviceList[a]: the list of CountryDeviceList, StateDeviceList
                  \* or CityDeviceList for area a
    selected,     \* the selection of the last step
    infoAge,      \* history: time since the information on d was reported
    overtaken,    \* history: devices selected from a list since d last was
    over          \* history: sessions that the selector was told are offline

relayVars == <<session, toStateRelay>>
history   == <<infoAge, overtaken, over>>
vars      == <<relayVars, toSelector, DeviceMap, DeviceList, selected, history>>

ResistCounter == 2  \* DEVICE_INFO_RESIST_COUNTER

\* info: where the device is; home: the place of the lists it is on; age:
\* time since KeepAlive.
Contexts == [info : Sessions, home : Places, counter : 1..ResistCounter, age : 0..Limit - 1]
Reports  == [session : Sessions, offline : BOOLEAN]

Selections == [area : Areas, device : Devices, info : Sessions]

ASSUME NothingIsNoContext == NoContext \notin Contexts /\ NoSelection \notin Selections

Known(d)  == DeviceMap[d] # NoContext
On(a, d)  == Contains(DeviceList[a], d)
InfoLimit == 2 * Limit

TypeOK ==
    /\ session \in [Sessions -> {"unknown", "online", "offline", "lost"}]
    /\ toStateRelay \in [Relays -> Seq(Reports)]
    /\ toSelector \in Seq(Reports)
    /\ DeviceMap \in [Devices -> Contexts \cup {NoContext}]
    /\ DeviceList \in [Areas -> Seq(Devices)]
    /\ selected \in Selections \cup {NoSelection}
    /\ infoAge \in [Devices -> 0..InfoLimit]
    /\ overtaken \in [Areas -> [Devices -> SUBSET Devices]]
    /\ over \in SUBSET Sessions

Init ==
    /\ session = [s \in Sessions |-> "unknown"]
    /\ toStateRelay = [r \in Relays |-> <<>>]
    /\ toSelector = <<>>
    /\ DeviceMap = [d \in Devices |-> NoContext]
    /\ DeviceList = [a \in Areas |-> <<>>]
    /\ selected = NoSelection
    /\ infoAge = [d \in Devices |-> 0]
    /\ overtaken = [a \in Areas |-> [d \in Devices |-> {}]]
    /\ over = {}

-----------------------------------------------------------------------------
(* The relays *)

\* ReportDeviceState
ReportDeviceState(s, offline) ==
    \/ /\ Len(toStateRelay[s.relay]) < MaxReports
       /\ toStateRelay' = [toStateRelay EXCEPT
                             ![s.relay] = Append(@, [session |-> s, offline |-> offline])]
    \/ UNCHANGED toStateRelay

RelayStep(s, from, to) ==
    /\ session[s] = from
    /\ session' = [session EXCEPT ![s] = to]
    /\ selected' = NoSelection
    /\ UNCHANGED <<toSelector, DeviceMap, DeviceList, history>>

Bind(s) == RelayStep(s, "unknown", "online") /\ ReportDeviceState(s, FALSE)

\* At each keepalive of the device.
ReportDeviceOnState(s) == RelayStep(s, "online", "online") /\ ReportDeviceState(s, FALSE)

RemoveDevice(s) == RelayStep(s, "online", "offline") /\ ReportDeviceState(s, TRUE)

\* The control connection ran out of time, or the relay died.
Lose(s) == RelayStep(s, "online", "lost") /\ UNCHANGED toStateRelay

-----------------------------------------------------------------------------
(* The state relay: a report is passed on, or there is no observer *)

\* Faulty variant: the last report is passed on first.
DispatchLast(r) ==
    /\ toStateRelay[r] # <<>>
    /\ \/ /\ Len(toSelector) < MaxForwarded
          /\ toSelector' = Append(toSelector, Last(toStateRelay[r]))
       \/ UNCHANGED toSelector
    /\ toStateRelay' = [toStateRelay EXCEPT ![r] = Front(@)]
    /\ selected' = NoSelection
    /\ UNCHANGED <<session, DeviceMap, DeviceList, history>>

DispatchData(r) ==
    /\ toStateRelay[r] # <<>>
    /\ \/ /\ Len(toSelector) < MaxForwarded
          /\ toSelector' = Append(toSelector, Head(toStateRelay[r]))
       \/ UNCHANGED toSelector
    /\ toStateRelay' = [toStateRelay EXCEPT ![r] = Tail(@)]
    /\ selected' = NoSelection
    /\ UNCHANGED <<session, DeviceMap, DeviceList, history>>

-----------------------------------------------------------------------------
(* The selector *)

\* A new object is linked to the lists of its place.
AddDevice(s) ==
    LET d == s.device IN
    /\ DeviceMap' = [DeviceMap EXCEPT
         ![d] = [info |-> s, home |-> s.place, counter |-> ResistCounter, age |-> 0]]
    /\ DeviceList' = [a \in Areas |->
         IF a \in AreasOf[s.place] THEN Append(DeviceList[a], d) ELSE DeviceList[a]]
    /\ infoAge' = [infoAge EXCEPT ![d] = 0]
    /\ overtaken' = [a \in Areas |-> [overtaken[a] EXCEPT ![d] = {}]]

\* The information of another session must come twice to replace the one that
\* is held, with none of that between; the device stays on its lists.
UpdateKnownDevice(s) ==
    LET d == s.device
        c == DeviceMap[d]
        same    == s.relay = c.info.relay /\ s.id = c.info.id
        replace == ~same /\ c.counter = 1
    IN /\ DeviceMap' = [DeviceMap EXCEPT
            ![d] = [c EXCEPT !.age = 0,
                             !.info = IF replace THEN s ELSE @,
                             !.counter = IF same \/ replace THEN ResistCounter ELSE @ - 1]]
       /\ infoAge' = IF same \/ replace THEN [infoAge EXCEPT ![d] = 0] ELSE infoAge
       /\ UNCHANGED <<DeviceList, overtaken>>

UpdateDevice(s) == IF Known(s.device) THEN UpdateKnownDevice(s) ELSE AddDevice(s)

\* The history of unknown devices is dropped.
WithoutHistory(D) ==
    [a \in Areas |-> [d \in Devices |-> IF d \in D THEN {} ELSE overtaken[a][d] \ D]]

\* Faulty variant: the devices' list nodes are not unlinked.
RemovedButListed(D) ==
    /\ DeviceMap' = [d \in Devices |-> IF d \in D THEN NoContext ELSE DeviceMap[d]]
    /\ UNCHANGED <<DeviceList, infoAge, overtaken>>

\* RemoveDeviceById: the object is deleted and so unlinked.  It does not
\* matter which session the report is of.
RemoveDevices(D) ==
    /\ DeviceMap' = [d \in Devices |-> IF d \in D THEN NoContext ELSE DeviceMap[d]]
    /\ DeviceList' = [a \in Areas |-> Unlinked(DeviceList[a], D)]
    /\ infoAge' = [d \in Devices |-> IF d \in D THEN 0 ELSE infoAge[d]]
    /\ overtaken' = WithoutHistory(D)

OnServerPacket ==
    /\ toSelector # <<>> /\ toSelector' = Tail(toSelector)
    /\ LET m == Head(toSelector) IN
       IF m.offline
       THEN /\ RemoveDevices({m.session.device})
            /\ over' = over \cup {m.session}
       ELSE UpdateDevice(m.session) /\ UNCHANGED over
    /\ selected' = NoSelection
    /\ UNCHANGED relayVars

\* The selection from list a, and what it leaves: list.
SelectFrom(a, list) ==
    LET d == Head(DeviceList[a]) IN
    /\ DeviceList[a] # <<>>
    /\ DeviceList' = [DeviceList EXCEPT ![a] = list]
    /\ selected' = [area |-> a, device |-> d, info |-> DeviceMap[d].info]
    /\ overtaken' = [overtaken EXCEPT
         ![a] = [e \in Devices |-> IF On(a, e) /\ e # d THEN @[e] \cup {d} ELSE {}]]

\* Faulty variant: the device goes back to the head of the list.
SelectSame(a) ==
    /\ SelectFrom(a, DeviceList[a])
    /\ UNCHANGED <<relayVars, toSelector, DeviceMap, infoAge, over>>

\* Faulty variant: a device that is selected is kept alive.
SelectKeepsAlive(a) ==
    /\ SelectFrom(a, Append(Tail(DeviceList[a]), Head(DeviceList[a])))
    /\ DeviceMap' = [DeviceMap EXCEPT ![Head(DeviceList[a])].age = 0]
    /\ UNCHANGED <<relayVars, toSelector, infoAge, over>>

\* OnSelectDevice with a device found
OnSelectDevice(a) ==
    /\ SelectFrom(a, Append(Tail(DeviceList[a]), Head(DeviceList[a])))
    /\ UNCHANGED <<relayVars, toSelector, DeviceMap, infoAge, over>>

Tick(time) ==
    LET late == {d \in Devices : Known(d) /\ DeviceMap[d].age + time >= Limit} IN
    /\ DeviceMap' = [d \in Devices |->
         IF d \in late \/ ~Known(d) THEN NoContext ELSE [DeviceMap[d] EXCEPT !.age = @ + time]]
    /\ DeviceList' = [a \in Areas |-> Unlinked(DeviceList[a], late)]
    /\ infoAge' = [d \in Devices |->
         IF d \in late \/ ~Known(d) THEN 0 ELSE Min({InfoLimit, infoAge[d] + time})]
    /\ overtaken' = WithoutHistory(late)
    /\ selected' = NoSelection
    /\ UNCHANGED <<relayVars, toSelector, over>>

SelectorRestarts ==
    /\ DeviceMap' = [d \in Devices |-> NoContext]
    /\ DeviceList' = [a \in Areas |-> <<>>]
    /\ infoAge' = [d \in Devices |-> 0]
    /\ overtaken' = WithoutHistory(Devices)
    /\ toSelector' = <<>> /\ selected' = NoSelection
    /\ UNCHANGED <<relayVars, over>>

-----------------------------------------------------------------------------
SomeTick == \E time \in 1..Limit : Tick(time)

Next ==
    \/ \E s \in Sessions : Bind(s) \/ ReportDeviceOnState(s) \/ RemoveDevice(s) \/ Lose(s)
    \/ \E r \in Relays : DispatchData(r)
    \/ OnServerPacket
    \/ \E a \in Areas : OnSelectDevice(a)
    \/ SomeTick \/ SelectorRestarts

Spec == Init /\ [][Next]_vars

\* The loop keeps ticking and time goes on.
FairSpec == Spec /\ WF_vars(SomeTick)

-----------------------------------------------------------------------------
(* Properties *)

\* The device map and the lists of the three kinds agree: a device is once on
\* each list of its place, and on no list when it is not known.
ListsAgree ==
    \A a \in Areas :
        /\ IsInjective(DeviceList[a])
        /\ \A d \in Devices :
              On(a, d) <=> Known(d) /\ a \in AreasOf[DeviceMap[d].home]

\* The types, and the agreement of the map and the lists.
SelectorConsistent == TypeOK /\ ListsAgree

\* A session is not given out any more once the selector was told that it is
\* offline, although reports of the device's other sessions overtake it.
OverIsForgotten ==
    /\ \A d \in Devices : Known(d) => DeviceMap[d].info \notin over
    /\ selected # NoSelection => selected.info \notin over

\* The information that is given out was reported within twice the time limit:
\* reports of one other session keep the device alive, but two of them
\* replace what is held.
InfoIsRecent == \A d \in Devices : Known(d) => infoAge[d] <= 2 * (Limit - 1)

\* What is given out of a device is neither over nor old.
ForgottenInTime == OverIsForgotten /\ InfoIsRecent

\* No device is selected twice from a list on which another one waits.
SelectionRotates ==
    [][\A a \in Areas : selected' # NoSelection /\ selected'.area = a =>
          \A d \in Devices : On(a, d) => selected'.device \notin overtaken[a][d]]_vars

\* A device that no relay has any more is forgotten, whatever reports were
\* lost, and however often it is selected.
GoneIsForgotten ==
    \A d \in Devices :
        (\A s \in Sessions : s.device = d => session[s] # "online") /\ Known(d)
            ~> ~Known(d) \/ \E s \in Sessions : s.device = d /\ session[s] = "online"
=============================================================================
