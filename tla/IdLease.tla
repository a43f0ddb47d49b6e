------------------------------- MODULE IdLease -------------------------------
(***************************************************************************)
(* What server_server_id_center promises to the servers that connect to   *)
(* it: while a connection is open it holds at most one server id, it keeps *)
(* the id it was given, and no two connections hold ids with the same      *)
(* index.  ServerIdCenter implements this specification.                   *)
(***************************************************************************)
EXTENDS Naturals

CONSTANTS Holders,   \* the connections that may hold an id
          Indices,   \* the index half of an id
          Randoms    \* the random half of an id

VARIABLE lease       \* lease[h] is the id held by h, NoId when it holds none

NoId      == [idx |-> 0, rnd |-> 0]
ServerIds == [idx : Indices, rnd : Randoms]

Init == lease = [h \in Holders |-> NoId]

\* An id whose index nobody holds is granted to a holder without an id.
Grant(h, id) ==
    /\ lease[h] = NoId
    /\ \A g \in Holders : lease[g].idx # id.idx
    /\ lease' = [lease EXCEPT ![h] = id]

\* A holder's connection is closed.
Expire(h) ==
    /\ lease[h] # NoId
    /\ lease' = [lease EXCEPT ![h] = NoId]

\* The center restarts: nobody holds anything.
Forget == lease' = [h \in Holders |-> NoId]

Next ==
    \/ \E h \in Holders, id \in ServerIds : Grant(h, id)
    \/ \E h \in Holders : Expire(h)
    \/ Forget

Spec == Init /\ [][Next]_lease
=============================================================================
