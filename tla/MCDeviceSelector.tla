-------------------------- MODULE MCDeviceSelector --------------------------
(* The instances of DeviceSelector that TLC checks.  One device with two    *)
(* sessions at different relays and places, of one country, and a second    *)
(* device beside it; for time, one device with three sessions.              *)
EXTENDS DeviceSelector, TLC

CONSTANTS d1, d2, r1, r2, p1, p2, country, city1, city2, i1, i2, i3

MCAreasOf == p1 :> {country, city1} @@ p2 :> {country, city2}

Session(d, r, p, i) == [device |-> d, relay |-> r, place |-> p, id |-> i]

MCSessions == {Session(d1, r1, p1, i1), Session(d1, r2, p2, i2), Session(d2, r1, p1, i3)}
OneDeviceSessions ==
    {Session(d1, r1, p1, i1), Session(d1, r2, p2, i2), Session(d1, r1, p1, i3)}
=============================================================================
