---------------------------- MODULE BackendPool ----------------------------
(***************************************************************************)
(* xBackendConnectionPool (lib_backend_connection): connections to backend *)
(* servers, each introducing itself with a challenge when it is connected. *)
(* The keys of a server are in ContextList, under the index of its id.     *)
(*                                                                         *)
(* xClientPool, which is not part of the repository, is modelled from its  *)
(* use: AddServer gives an id (index, generation) while an index is free,  *)
(* the connection is opened again and again until RemoveServer, which is   *)
(* ignored for an id that is not valid any more, and a packet that is      *)
(* refused closes it.                                                      *)
(*                                                                         *)
(* Bounds: MaxGeneration servers after each other at an index.             *)
(***************************************************************************)
EXTENDS Naturals

CONSTANTS BackendSlots,      \* the indices below MaxConnectionCount
          AppKeys,           \* AppKey and AppSecret of a server
          NoKey,             \* the strings of a context that was Reset
          MaxGeneration      \* bound of the model

ASSUME BackendPoolAssumption == NoKey \notin AppKeys /\ MaxGeneration \in Nat

VARIABLES
    generation,   \* generation[i]: of the last server at index i
    link,         \* link[i]: "free", "down" or "up": the xClientConnection
    ContextList,  \* ContextList[i]: AppKey and IsChallengeReady
    told,         \* told[i]: the key in the challenge on the present connection
    \* history, of the present server and connection at an index:
    given,        \* the key it was added with
    wiped,        \* its context was Reset
    answered      \* the challenge has been answered

backendPoolVars == <<generation, link, ContextList, told, given, wiped, answered>>

NoContext == [AppKey |-> NoKey, IsChallengeReady |-> FALSE]

BackendPoolInit ==
    /\ generation = [i \in BackendSlots |-> 0]
    /\ link = [i \in BackendSlots |-> "free"]
    /\ ContextList = [i \in BackendSlots |-> NoContext]
    /\ told = [i \in BackendSlots |-> NoKey]
    /\ given = [i \in BackendSlots |-> NoKey]
    /\ wiped = [i \in BackendSlots |-> FALSE]
    /\ answered = [i \in BackendSlots |-> FALSE]

\* IsChallengeReady is left as it is.
AddServer(i, key) ==
    /\ link[i] = "free" /\ generation[i] < MaxGeneration
    /\ generation' = [generation EXCEPT ![i] = @ + 1]
    /\ link' = [link EXCEPT ![i] = "down"]
    /\ ContextList' = [ContextList EXCEPT ![i].AppKey = key]
    /\ given' = [given EXCEPT ![i] = key]
    /\ wiped' = [wiped EXCEPT ![i] = FALSE]
    /\ UNCHANGED <<told, answered>>

\* The context is looked up by the index alone: removing a server once more
\* resets the one that has taken its place.
RemoveServer(i, gen) ==
    /\ gen \in 1..generation[i]
    /\ ContextList' = [ContextList EXCEPT ![i] = NoContext]
    /\ wiped' = [wiped EXCEPT ![i] = TRUE]
    /\ link' = [link EXCEPT ![i] = IF gen = generation[i] THEN "free" ELSE @]
    /\ UNCHANGED <<generation, told, given, answered>>

OnServerConnected(i) ==
    /\ link[i] = "down"
    /\ link' = [link EXCEPT ![i] = "up"]
    /\ told' = [told EXCEPT ![i] = ContextList[i].AppKey]
    /\ answered' = [answered EXCEPT ![i] = FALSE]
    /\ UNCHANGED <<generation, ContextList, given, wiped>>

\* Faulty variant: the context outlives the connection.
CloseKeepsContext(i) ==
    /\ link' = [link EXCEPT ![i] = "down"]
    /\ UNCHANGED <<generation, ContextList, told, given, wiped, answered>>

\* The whole context is Reset, the keys too; the connection is opened again.
OnServerClose(i) ==
    /\ link' = [link EXCEPT ![i] = "down"]
    /\ ContextList' = [ContextList EXCEPT ![i] = NoContext]
    /\ wiped' = [wiped EXCEPT ![i] = TRUE]
    /\ UNCHANGED <<generation, told, given, answered>>

BackendPeerClose(i) == link[i] = "up" /\ OnServerClose(i)

\* A second answer is refused, and one that cannot be read.
OnCmdBackendChallengeResp(i) ==
    /\ link[i] = "up"
    /\ \/ /\ ~ContextList[i].IsChallengeReady
          /\ ContextList' = [ContextList EXCEPT ![i].IsChallengeReady = TRUE]
          /\ answered' = [answered EXCEPT ![i] = TRUE]
          /\ UNCHANGED <<generation, link, told, given, wiped>>
       \/ OnServerClose(i)

\* OnServerPacket, any other command: only after the answer.  What
\* OnBackendPacket refuses closes the connection too.
OnServerPacket(i) ==
    /\ link[i] = "up"
    /\ \/ ContextList[i].IsChallengeReady /\ UNCHANGED backendPoolVars
       \/ OnServerClose(i)

BackendPoolNext ==
    \E i \in BackendSlots :
        \/ \E key \in AppKeys : AddServer(i, key)
        \/ \E gen \in 1..MaxGeneration : RemoveServer(i, gen)
        \/ OnServerConnected(i)
        \/ BackendPeerClose(i)
        \/ OnCmdBackendChallengeResp(i)
        \/ OnServerPacket(i)

-----------------------------------------------------------------------------
(* Properties *)

\* Packets are taken (IsChallengeReady, OnServerPacket) only on a connection
\* that has answered its own challenge, not on the strength of an earlier
\* connection or of another server at the same index; and a challenge carries
\* the keys the server was added with, or none once they were Reset.
BackendIsIdentified ==
    \A i \in BackendSlots :
        /\ link[i] = "up" /\ ContextList[i].IsChallengeReady => answered[i]
        /\ link[i] = "up" => told[i] \in {given[i], NoKey}
        /\ link[i] # "free" => ContextList[i].AppKey = IF wiped[i] THEN NoKey ELSE given[i]
=============================================================================
