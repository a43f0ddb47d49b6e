-------------------------- MODULE MCServerListLive --------------------------
(* A process that registers for ever: a connection that has ended on both   *)
(* sides is taken again, so that MaxConnections bounds those that there are *)
(* at a time and registrations need not come to an end.  The download       *)
(* client takes part where connections are not taken again.                 *)
EXTENDS MCServerList

VARIABLE recycles  \* without a client, and on two connections at a time

Recycle(c) ==
    /\ recycles
    /\ conn[c] = "closed" /\ \A g \in Processes : link[g] # c
    /\ conn' = [conn EXCEPT ![c] = "unused"]
    /\ UNCHANGED <<processVars, kind, posted, context, registered, disturbed, listVars,
                   versionVars, clientVars>>

LiveNext ==
    /\ Next \/ \E c \in Connections : Recycle(c)
    /\ UNCHANGED recycles
    /\ recycles => UNCHANGED clientVars /\ \A c \in Connections : c > 2 => conn'[c] = "unused"

LiveSpec ==
    /\ Init /\ recycles \in BOOLEAN
    /\ [][LiveNext]_<<vars, recycles>>
    /\ Fairness
=============================================================================
