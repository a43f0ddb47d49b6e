-------------------------- MODULE DeviceObserver ---------------------------
(***************************************************************************)
(* The device observer (observer_device_info/_main.cpp): takes the device  *)
(* updates that the device state relay dispatches and posts a report of    *)
(* each to a Kafka topic.                                                  *)
(*                                                                         *)
(* Nothing drains DeviceTimeoutList: a device whose last update is lost    *)
(* (the connection to the dispatcher is) stays in DeviceMap.  Times are    *)
(* counted in a clock that both GetTickTimeMS and the ticker read; the     *)
(* ticker is updated once in every pass of the main loop.                  *)
(*                                                                         *)
(* Bounds: MaxClock; times are kept in TimeWidth values (64 bits).         *)
(***************************************************************************)
EXTENDS Integers, SequencesExt

CONSTANTS Uuids, MaxClock, TimeWidth

\* In the time that is modelled the clock does not come near its width: a
\* difference that wrapped around is larger than any that did not.
ASSUME ObserverAssumption == {MaxClock, TimeWidth} \subseteq Nat /\ 2 * MaxClock < TimeWidth

VARIABLES
    clock, GlobalTicker,
    DeviceMap,           \* the devices in it
    OnlineTimestamp,     \* of a device in DeviceMap
    DeviceTimeoutList,
    \* history:
    update,              \* update[u]: the last that came: "none", "online", "offline"
    report,              \* report[u]: the last posted: [state, TotalOnlineTime]
    seenAt               \* seenAt[u]: the last KeepAlive

observerVars == <<clock, GlobalTicker, DeviceMap, OnlineTimestamp, DeviceTimeoutList, update,
                  report, seenAt>>

ObserverInit ==
    /\ clock = 0 /\ GlobalTicker = 0
    /\ DeviceMap = {} /\ OnlineTimestamp = [u \in Uuids |-> 0]
    /\ DeviceTimeoutList = <<>>
    /\ update = [u \in Uuids |-> "none"]
    /\ report = [u \in Uuids |-> [state |-> "none", TotalOnlineTime |-> 0]]
    /\ seenAt = [u \in Uuids |-> 0]

PostDeviceInfo(u, state, online) ==
    report' = [report EXCEPT ![u] = [state |-> state,
                                     TotalOnlineTime |-> (GlobalTicker - online) % TimeWidth]]

OnDeviceOffline(u) ==
    /\ update' = [update EXCEPT ![u] = "offline"]
    /\ IF u \in DeviceMap
       THEN /\ PostDeviceInfo(u, "offline", OnlineTimestamp[u])
            /\ DeviceMap' = DeviceMap \ {u}
            /\ DeviceTimeoutList' = RemoveFirst(DeviceTimeoutList, u)
       ELSE UNCHANGED <<DeviceMap, DeviceTimeoutList, report>>
    /\ UNCHANGED <<clock, GlobalTicker, OnlineTimestamp, seenAt>>

\* Faulty variant: every update is taken for the first one.
OnlineAlwaysNew(u) ==
    /\ update' = [update EXCEPT ![u] = "online"]
    /\ DeviceMap' = DeviceMap \cup {u}
    /\ OnlineTimestamp' = [OnlineTimestamp EXCEPT ![u] = clock]
    /\ PostDeviceInfo(u, "online", OnlineTimestamp'[u])
    /\ DeviceTimeoutList' = Append(RemoveFirst(DeviceTimeoutList, u), u)
    /\ seenAt' = [seenAt EXCEPT ![u] = clock]
    /\ UNCHANGED <<clock, GlobalTicker>>

\* A new device, or the heartbeat of a known one.
OnDeviceOnline(u) ==
    /\ update' = [update EXCEPT ![u] = "online"]
    /\ DeviceMap' = DeviceMap \cup {u}
    /\ OnlineTimestamp' = IF u \in DeviceMap THEN OnlineTimestamp
                          ELSE [OnlineTimestamp EXCEPT ![u] = clock]
    /\ PostDeviceInfo(u, "online", OnlineTimestamp'[u])
    /\ DeviceTimeoutList' = Append(RemoveFirst(DeviceTimeoutList, u), u)
    /\ seenAt' = [seenAt EXCEPT ![u] = clock]
    /\ UNCHANGED <<clock, GlobalTicker>>

\* A pass of the main loop begins.
ObserverPass ==
    /\ GlobalTicker' = clock
    /\ UNCHANGED <<clock, DeviceMap, OnlineTimestamp, DeviceTimeoutList, update, report, seenAt>>

ObserverTime ==
    /\ clock < MaxClock /\ clock' = clock + 1
    /\ UNCHANGED <<GlobalTicker, DeviceMap, OnlineTimestamp, DeviceTimeoutList, update, report,
                   seenAt>>

ObserverNext ==
    \/ \E u \in Uuids : OnDeviceOffline(u) \/ OnDeviceOnline(u)
    \/ ObserverPass \/ ObserverTime

-----------------------------------------------------------------------------
(* Properties *)

\* The last report of a device says what its last update said, DeviceMap
\* holds the online ones, and DeviceTimeoutList has them in the order of their
\* heartbeats.
ObserverReportsTrue ==
    /\ \A u \in Uuids : /\ u \in DeviceMap <=> update[u] = "online"
                        /\ update[u] = "online" <=> report[u].state = "online"
    /\ IsInjective(DeviceTimeoutList) /\ ToSet(DeviceTimeoutList) = DeviceMap
    /\ \A i, j \in 1..Len(DeviceTimeoutList) :
          i < j => seenAt[DeviceTimeoutList[i]] <= seenAt[DeviceTimeoutList[j]]

\* The online time that is posted is measured with the ticker, from a time
\* that may be later than it: it wraps around in the pass in which a device
\* comes online.  From the next pass on it does not, and never shrinks.
OnlineTimeGrows ==
    [][\A u \in Uuids :
          report'[u] # report[u] /\ u \in DeviceMap /\ OnlineTimestamp[u] <= GlobalTicker =>
              /\ report'[u].TotalOnlineTime <= MaxClock
              /\ report[u].TotalOnlineTime <= MaxClock =>
                   report[u].TotalOnlineTime <= report'[u].TotalOnlineTime]_observerVars

\* What PostDeviceInfo posts is true: the state is that of the last update,
\* and the online time, from the pass behind the first, is the one measured.
ReportsAreTrue == []ObserverReportsTrue /\ OnlineTimeGrows
=============================================================================
