------------------------------- MODULE MCParts ------------------------------
(***************************************************************************)
(* Seven parts that share no state, each on its own: a behaviour of this   *)
(* module is a behaviour of one of them, and the others stay as they were. *)
(***************************************************************************)
EXTENDS ServiceClientPool, BackendPool, BackendConnection, RelayGroups,
        HttpHeader, DeviceObserver, ConfigCenter

VARIABLE component

partsVars == <<poolVars, backendPoolVars, backendVars, relayGroupVars,
               httpVars, observerVars, configVars>>

vars == <<component, partsVars>>

Parts == {"hash pool", "backend pool", "backend connection", "relay groups",
          "http header", "device observer", "config center"}

MCInit ==
    /\ component \in Parts
    /\ PoolInit /\ BackendPoolInit /\ BackendInit /\ RelayGroupsInit
    /\ HttpInit /\ ObserverInit /\ ConfigInit
    /\ component # "http header" => header = <<>> /\ method = "GET"

\* A step of component c leaves the state of the others alone.
OthersUnchanged(c) ==
    /\ UNCHANGED component
    /\ c # "hash pool" => UNCHANGED poolVars
    /\ c # "backend pool" => UNCHANGED backendPoolVars
    /\ c # "backend connection" => UNCHANGED backendVars
    /\ c # "relay groups" => UNCHANGED relayGroupVars
    /\ c # "http header" => UNCHANGED httpVars
    /\ c # "device observer" => UNCHANGED observerVars
    /\ c # "config center" => UNCHANGED configVars

MCNext ==
    /\ \/ component = "hash pool" /\ PoolNext
       \/ component = "backend pool" /\ BackendPoolNext
       \/ component = "backend connection" /\ BackendConnectionNext
       \/ component = "relay groups" /\ RelayGroupsNext
       \/ component = "http header" /\ HttpNext
       \/ component = "http header" /\ received = Len(Bytes) /\ UNCHANGED httpVars   \* all is read
       \/ component = "device observer" /\ ObserverNext
       \/ component = "config center" /\ ConfigNext
    /\ OthersUnchanged(component)

\* Every program ticks its connections in each pass of its main loop.
BackendTick ==
    /\ component = "backend connection"
    /\ \E d \in Passes, opened \in BOOLEAN : OnTick(d, opened)
    /\ OthersUnchanged(component)

GroupsTick ==
    /\ component = "relay groups"
    /\ \E d \in PassTimes : RelayTick(d)
    /\ OthersUnchanged(component)

MCSpec == MCInit /\ [][MCNext]_vars /\ WF_vars(BackendTick) /\ WF_vars(GroupsTick)
=============================================================================
