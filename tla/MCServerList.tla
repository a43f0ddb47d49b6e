---------------------------- MODULE MCServerList ----------------------------
(* The instances of ServerList that TLC checks, of one of the three kinds:  *)
(* registrations without a download client, and one process with one.       *)
EXTENDS ServerList, TLC

CONSTANTS k1, g1, g2, x1

MCKindOf == [p \in Processes \cup Clients |-> k1]
=============================================================================
