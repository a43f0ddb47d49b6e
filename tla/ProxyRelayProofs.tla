-------------------------- MODULE ProxyRelayProofs --------------------------
(***************************************************************************)
(* Proofs about ProxyRelay, for any number of slots, connections and       *)
(* messages.  The inductive invariant follows the authorisation of a       *)
(* client from the answer of the AuthCache to the message that asks the    *)
(* relay for its connection: devices are asked for authorised connections  *)
(* only, and a client that may name its target holds the device that was   *)
(* selected for it.  A second one, TrailInv, follows a relayed connection  *)
(* from the request for it to the data it carries, and a third, UploadInv, *)
(* the relay's id of it from the answer to the uploads that name it.       *)
(***************************************************************************)
EXTENDS ProxyRelay, SequenceTheorems, TLAPS

\* A connection in use has an id of the pool.
Named == \A s \in Slots : InUse(s) => client[s].gen \in 1..MaxGeneration

\* A SOCKS5 client that may name its target holds its own device.
Chosen ==
    \A s \in Slots : client[s].phase = "WaitForConnectionRequest" =>
        client[s].device = IdOf(s) /\ IdOf(s) \in authorised

\* A client that is connected knows the relay's id of its connection.
ReadyIsNamed ==
    \A s \in Slots : client[s].phase = "Ready" => client[s].relaySide \in RelayIds

ClientsSound ==
    /\ client \in [Slots -> Clients]
    /\ Named /\ Chosen /\ ReadyIsNamed

\* The part of the invariant that is about server_proxy_access.
ClientsInv ==
    /\ ClientsTypeOK /\ ClientsSound
    /\ deviceRequests \subseteq authorised
    /\ OpenedAsAuthorised

IInv == TypeOK /\ ClientsInv

\* What OpenedAsAuthorised asks of one message.
Good(m) == m.cmd = "Create" => m.proxySide \in authorised /\ m.device = m.proxySide

-----------------------------------------------------------------------------
\* The null values are of no type they stand beside.
LEMMA IdFacts ==
    /\ \A s \in Slots : InUse(s) /\ client[s].gen \in 1..MaxGeneration => IdOf(s) \in Ids
    /\ \A id \in Ids : id.slot \in Slots /\ id.gen \in 1..MaxGeneration
    /\ \A id \in Ids : Found(id) => IdOf(id.slot) = id /\ InUse(id.slot)
BY DEF Ids, IdOf, Found, InUse

LEMMA NewIsClient ==
    ASSUME NEW g \in 0..MaxGeneration
    PROVE  New(g) \in Clients /\ New(g).gen = g /\ New(g).phase = "Unknown"
BY DEF New, Clients, Phases, Protocols

LEMMA EmptyIsClient ==
    ASSUME NEW g \in 0..MaxGeneration
    PROVE  Empty(g) \in Clients /\ Empty(g).phase = "Free"
<1>. DEFINE c == [New(g) EXCEPT !.phase = "Free"]
<1>1. c \in Clients /\ c.phase = "Free"
  BY NewIsClient DEF Clients
<1>2. [c EXCEPT !.account = FALSE] \in Clients /\ [c EXCEPT !.account = FALSE].phase = "Free"
  BY <1>1 DEF Clients
<1>. QED  BY <1>2 DEF Empty

LEMMA InitIInv == Init => IInv
<1> SUFFICES ASSUME Init PROVE IInv
  OBVIOUS
<1>1. Empty(0) \in Clients /\ Empty(0).phase = "Free"
  BY EmptyIsClient, ClientBoundsAssumption
<1>2. TypeOK
  <2>1. toRelay \in Seq(RelayMessages) /\ toProxy \in Seq(ProxyMessages)
    BY EmptySeq DEF Init, ClientsInit
  <2>2. ClientsTypeOK
    BY <1>1, <2>1 DEF Init, ClientsInit, ClientsTypeOK
  <2>3. link \in 1..MaxLinks
    BY MaxLinksAssumption DEF Init
  <2>4. context \in [RelayIds -> Contexts \cup {Nothing}]
    BY DEF Init
  <2>. QED  BY <2>1, <2>2, <2>3, <2>4 DEF TypeOK, Init
<1>3. Named /\ Chosen /\ ReadyIsNamed
  BY <1>1 DEF Init, ClientsInit, Named, Chosen, ReadyIsNamed, InUse
<1>4. OpenedAsAuthorised
  BY EmptySeq DEF Init, ClientsInit, OpenedAsAuthorised
<1>. QED  BY <1>2, <1>3, <1>4 DEF IInv, ClientsInv, ClientsSound, TypeOK, ClientsTypeOK,
                                 Init, ClientsInit

-----------------------------------------------------------------------------
(* The queue to the relay *)

\* Nothing happens to the queue and nobody loses an authorisation.
LEMMA QueueKept ==
    ASSUME OpenedAsAuthorised, authorised \subseteq authorised', UNCHANGED toRelay
    PROVE  OpenedAsAuthorised'
BY DEF OpenedAsAuthorised

\* The queue is emptied, or its head is taken.
LEMMA QueueShrinks ==
    ASSUME toRelay \in Seq(RelayMessages), OpenedAsAuthorised,
           authorised \subseteq authorised',
           toRelay' = <<>> \/ (toRelay # <<>> /\ toRelay' = Tail(toRelay))
    PROVE  toRelay' \in Seq(RelayMessages) /\ OpenedAsAuthorised'
<1>1. CASE toRelay' = <<>>
  BY <1>1, EmptySeq DEF OpenedAsAuthorised
<1>2. CASE toRelay # <<>> /\ toRelay' = Tail(toRelay)
  <2>1. /\ toRelay' \in Seq(RelayMessages)
        /\ Len(toRelay') = Len(toRelay) - 1
        /\ \A i \in 1..Len(toRelay') : toRelay'[i] = toRelay[i + 1]
    BY <1>2, HeadTailProperties
  <2>2. Len(toRelay) \in Nat
    BY LenProperties
  <2>3. ASSUME NEW i \in 1..Len(toRelay') PROVE i + 1 \in 1..Len(toRelay)
    BY <2>1, <2>2, <2>3
  <2>. QED  BY <2>1, <2>3 DEF OpenedAsAuthorised
<1>. QED  BY <1>1, <1>2

\* Post of good messages.
LEMMA QueueGrows ==
    ASSUME toRelay \in Seq(RelayMessages), OpenedAsAuthorised,
           authorised \subseteq authorised',
           NEW ms \in Seq(RelayMessages),
           \A i \in 1..Len(ms) : Good(ms[i]),
           Post(ms)
    PROVE  toRelay' \in Seq(RelayMessages) /\ OpenedAsAuthorised'
<1>1. CASE toRelay' = toRelay
  BY <1>1, QueueKept
<1>2. CASE toRelay' = toRelay \o ms
  <2>1. /\ toRelay' \in Seq(RelayMessages)
        /\ Len(toRelay') = Len(toRelay) + Len(ms)
        /\ \A i \in 1..Len(toRelay) + Len(ms) :
              toRelay'[i] = IF i <= Len(toRelay) THEN toRelay[i] ELSE ms[i - Len(toRelay)]
    BY <1>2, ConcatProperties
  <2>2. Len(toRelay) \in Nat /\ Len(ms) \in Nat
    BY LenProperties
  <2>3. ASSUME NEW i \in 1..Len(toRelay'), toRelay'[i].cmd = "Create"
        PROVE  toRelay'[i].proxySide \in authorised' /\ toRelay'[i].device = toRelay'[i].proxySide
    <3>1. CASE i <= Len(toRelay)
      BY <2>1, <2>2, <2>3, <3>1 DEF OpenedAsAuthorised
    <3>2. CASE ~(i <= Len(toRelay))
      <4>1. i - Len(toRelay) \in 1..Len(ms)
        BY <2>1, <2>2, <2>3, <3>2
      <4>. QED  BY <2>1, <2>3, <3>2, <4>1 DEF Good
    <3>. QED  BY <3>1, <3>2
  <2>. QED  BY <2>1, <2>3 DEF OpenedAsAuthorised
<1>. QED  BY <1>1, <1>2 DEF Post

-----------------------------------------------------------------------------
(* The clients *)

\* The connection of slot s changes to c, or nothing does.
LEMMA OneClientChanges ==
    ASSUME ClientsSound, authorised \subseteq authorised',
           NEW s \in Slots, NEW c \in Clients,
           c.phase # "Free" => c.gen \in 1..MaxGeneration,
           c.phase = "WaitForConnectionRequest" =>
               c.device = [slot |-> s, gen |-> c.gen] /\ c.device \in authorised',
           c.phase = "Ready" => c.relaySide \in RelayIds,
           client' = [client EXCEPT ![s] = c]
    PROVE  ClientsSound'
BY DEF ClientsSound, Named, Chosen, ReadyIsNamed, InUse, IdOf

LEMMA NoClientChanges ==
    ASSUME ClientsSound, authorised \subseteq authorised', UNCHANGED client
    PROVE  ClientsSound'
BY DEF ClientsSound, Named, Chosen, ReadyIsNamed, InUse, IdOf

\* The fields that no part of the invariant looks at.
LEMMA ListChanges ==
    ASSUME ClientsSound, authorised \subseteq authorised', NEW s \in Slots,
           NEW l \in {"None", "Linger", "Kill"},
           client' = [client EXCEPT ![s].list = l]
    PROVE  ClientsSound'
BY DEF ClientsSound, Named, Chosen, ReadyIsNamed, InUse, IdOf, Clients

\* What the handlers write to a connection one field at a time.
LEMMA FieldWrites ==
    ASSUME NEW c \in Clients
    PROVE  /\ \A p \in Protocols : [c EXCEPT !.protocol = p] \in Clients
           /\ \A p \in Phases : [c EXCEPT !.phase = p] \in Clients
           /\ \A l \in {"None", "Linger", "Kill"} : [c EXCEPT !.list = l] \in Clients
           /\ \A b \in BOOLEAN : /\ [c EXCEPT !.account = b] \in Clients
                                /\ [c EXCEPT !.reading = b] \in Clients
                                /\ [c EXCEPT !.open = b] \in Clients
                                /\ [c EXCEPT !.relay = b] \in Clients
           /\ \A d \in Ids \cup {NoId} : [c EXCEPT !.device = d] \in Clients
           /\ \A r \in RelayIds : [c EXCEPT !.relaySide = r] \in Clients
BY DEF Clients

\* The connection of slot s moves on, to a phase nothing is asked of.
LEMMA ClientMoves ==
    ASSUME ClientsSound, authorised \subseteq authorised',
           NEW s \in Slots, NEW c \in Clients, InUse(s),
           c.gen = client[s].gen,
           c.phase \notin {"WaitForConnectionRequest", "Ready"},
           client' = [client EXCEPT ![s] = c]
    PROVE  ClientsSound'
BY OneClientChanges DEF ClientsSound, Named

\* Steps that change nothing but connections.
LEMMA ClientsOnly ==
    ASSUME ClientsInv, ClientsSound', Quiet, UNCHANGED <<backVars, linkVars>>
    PROVE  ClientsInv'
<1>1. OpenedAsAuthorised'
  BY QueueKept DEF ClientsInv, backVars, linkVars
<1>2. ClientsTypeOK'
  BY DEF ClientsInv, ClientsSound, ClientsTypeOK, Quiet, backVars, linkVars
<1>. QED  BY <1>1, <1>2 DEF ClientsInv, backVars

\* Steps that post messages, too.
LEMMA ClientsAndPost ==
    ASSUME ClientsInv, ClientsSound',
           deviceRequests' \subseteq deviceRequests, UNCHANGED <<authRequests, authorised>>,
           NEW ms \in Seq(RelayMessages), \A i \in 1..Len(ms) : Good(ms[i]), Post(ms),
           delivered' \in SUBSET [to : Ids, sender : Ids], UNCHANGED aborted
    PROVE  ClientsInv'
<1>1. toRelay' \in Seq(RelayMessages) /\ OpenedAsAuthorised'
  BY QueueGrows DEF ClientsInv, ClientsTypeOK
<1>2. ClientsTypeOK'
  BY <1>1 DEF ClientsInv, ClientsSound, ClientsTypeOK, Post
<1>. QED  BY <1>1, <1>2 DEF ClientsInv

LEMMA InUseIsNamed ==
    ASSUME ClientsSound, NEW s \in Slots, InUse(s)
    PROVE  /\ client[s] \in Clients /\ client[s].gen \in 1..MaxGeneration
           /\ IdOf(s) \in Ids
BY IdFacts DEF ClientsSound, Named

\* Messages other than the request for a connection.
LEMMA OtherMessages ==
    ASSUME ClientsSound, NEW s \in Slots, InUse(s),
           NEW r \in RelayIds \cup {None}
    PROVE  /\ r # None => Message("PostData", s, r) \in RelayMessages
           /\ Message("NotifyState", s, r) \in RelayMessages
           /\ Good(Message("PostData", s, r)) /\ Good(Message("NotifyState", s, r))
BY InUseIsNamed DEF Message, RelayMessages, Good

LEMMA OneMessage ==
    ASSUME NEW m \in RelayMessages, Good(m)
    PROVE  <<m>> \in Seq(RelayMessages) /\ \A i \in 1..Len(<<m>>) : Good(<<m>>[i])
OBVIOUS

LEMMA TwoMessages ==
    ASSUME NEW m \in RelayMessages, Good(m), NEW n \in RelayMessages, Good(n)
    PROVE  <<m, n>> \in Seq(RelayMessages) /\ \A i \in 1..Len(<<m, n>>) : Good(<<m, n>>[i])
OBVIOUS

LEMMA UploadSound ==
    ASSUME ClientsInv, ClientsSound', UNCHANGED backVars,
           NEW s \in Slots, InUse(s), NEW r \in RelayIds, Upload(s, r), Quiet
    PROVE  ClientsInv'
<1>. DEFINE d == Message("PostData", s, r)
            n == Message("NotifyState", s, r)
<1>1. d \in RelayMessages /\ n \in RelayMessages /\ Good(d) /\ Good(n)
  BY OtherMessages, NoneAssumption DEF ClientsInv
<1>2. CASE Post(<<d>>)
  BY <1>1, <1>2, OneMessage, ClientsAndPost DEF Quiet, backVars
<1>3. CASE Post(<<d, n>>)
  BY <1>1, <1>3, TwoMessages, ClientsAndPost DEF Quiet, backVars
<1>. QED  BY <1>2, <1>3 DEF Upload

-----------------------------------------------------------------------------
(* The steps of a client *)

\* The kill list, and the linger list.
LEMMA ListStep ==
    ASSUME ClientsInv, NEW s \in Slots, NEW l \in {"None", "Linger", "Kill"},
           client' = [client EXCEPT ![s].list = l],
           Quiet, UNCHANGED <<backVars, linkVars>>
    PROVE  ClientsInv'
<1>1. ClientsSound'
  BY ListChanges DEF ClientsInv, backVars
<1>. QED  BY <1>1, ClientsOnly

LEMMA NewConnectionStep ==
    ASSUME ClientsInv, NEW s \in Slots, OnNewConnection(s)
    PROVE  ClientsInv'
<1>1. client[s].gen + 1 \in 1..MaxGeneration
  BY ClientBoundsAssumption DEF OnNewConnection, ClientsInv, ClientsSound, Clients
<1>2. /\ New(client[s].gen + 1) \in Clients
      /\ New(client[s].gen + 1).gen \in 1..MaxGeneration
      /\ New(client[s].gen + 1).phase = "Unknown"
  BY <1>1, NewIsClient, ClientBoundsAssumption
<1>3. ClientsSound'
  BY <1>2, OneClientChanges DEF OnNewConnection, ClientsInv, backVars
<1>. QED  BY <1>3, ClientsOnly DEF OnNewConnection

LEMMA ChallengeStep ==
    ASSUME ClientsInv, NEW s \in Slots, OnChallenge(s)
    PROVE  ClientsInv'
<1>. DEFINE named(p) == [[client[s] EXCEPT !.protocol = p] EXCEPT !.phase = "Challenge"]
            dropped  == [named("S5") EXCEPT !.list = "Kill"]
<1>1. InUse(s) /\ client[s] \in Clients /\ authorised' = authorised
  BY DEF ClientsInv, ClientsSound, OnChallenge, Receives, InUse, backVars
<1>2. ASSUME NEW p \in Protocols
      PROVE  named(p) \in Clients /\ named(p).gen = client[s].gen /\ named(p).phase = "Challenge"
  <2>1. [client[s] EXCEPT !.protocol = p] \in Clients
    BY <1>1, FieldWrites
  <2>2. named(p) \in Clients
    BY <2>1, FieldWrites DEF Phases
  <2>. QED  BY <1>1, <2>1, <2>2 DEF Clients
<1>3. ASSUME NEW p \in Protocols,
             client' = [client EXCEPT ![s].protocol = p, ![s].phase = "Challenge"]
      PROVE  ClientsSound'
  <2>1. client' = [client EXCEPT ![s] = named(p)]
    BY <1>3 DEF ClientsInv, ClientsSound
  <2>. HIDE DEF named
  <2>. QED  BY <1>1, <1>2, <2>1, ClientMoves DEF ClientsInv
<1>4. ASSUME client' = [client EXCEPT ![s].protocol = "S5", ![s].phase = "Challenge",
                                      ![s].list = "Kill"]
      PROVE  ClientsSound'
  <2>1. client' = [client EXCEPT ![s] = dropped]
    BY <1>4 DEF ClientsInv, ClientsSound
  <2>2. named("S5") \in Clients /\ named("S5").gen = client[s].gen /\ named("S5").phase = "Challenge"
    BY <1>2 DEF Protocols
  <2>. HIDE DEF named
  <2>3. dropped \in Clients /\ dropped.gen = client[s].gen /\ dropped.phase = "Challenge"
    BY <2>2, FieldWrites DEF Clients
  <2>. HIDE DEF dropped
  <2>. QED  BY <1>1, <2>1, <2>3, ClientMoves DEF ClientsInv
<1>5. ASSUME Killed(s) PROVE ClientsSound'
  BY <1>1, <1>5, ListChanges DEF Killed, ClientsInv
<1>6. ClientsSound'
  BY <1>3, <1>4, <1>5 DEF OnChallenge
<1>. QED  BY <1>6, ClientsOnly DEF OnChallenge

LEMMA CredentialsStep ==
    ASSUME ClientsInv, NEW s \in Slots, OnCredentials(s)
    PROVE  ClientsInv'
<1>. DEFINE waiting == [client[s] EXCEPT !.phase = "WaitForAccountExchange"]
            c == [waiting EXCEPT !.reading = (client[s].protocol = "S5")]
<1>1. InUse(s) /\ client[s] \in Clients
  BY DEF ClientsInv, ClientsSound, OnCredentials, Receives, InUse
<1>2. waiting \in Clients /\ waiting.gen = client[s].gen /\ waiting.phase = "WaitForAccountExchange"
  <2>1. waiting \in Clients
    BY <1>1, FieldWrites DEF Phases
  <2>. QED  BY <2>1, <1>1 DEF Clients
<1>3. client' = [client EXCEPT ![s] = c]
  BY DEF OnCredentials, ClientsInv, ClientsSound
<1>. HIDE DEF waiting
<1>4. c \in Clients /\ c.gen = client[s].gen /\ c.phase = "WaitForAccountExchange"
  <2>1. c \in Clients
    BY <1>2, FieldWrites
  <2>. QED  BY <2>1, <1>2 DEF Clients
<1>. HIDE DEF c
<1>5. ClientsSound'
  BY <1>1, <1>3, <1>4, ClientMoves DEF ClientsInv, OnCredentials
<1>6. OpenedAsAuthorised'
  BY QueueKept DEF ClientsInv, OnCredentials, linkVars
<1>7. ClientsTypeOK'
  BY <1>1, <1>5, InUseIsNamed DEF ClientsInv, ClientsSound, ClientsTypeOK, OnCredentials, Quiet, linkVars
<1>. QED  BY <1>5, <1>6, <1>7 DEF ClientsInv, OnCredentials

LEMMA PeerCloseStep ==
    ASSUME ClientsInv, NEW s \in Slots, OnPeerClose(s)
    PROVE  ClientsInv'
<1>. DEFINE phase  == IF client[s].protocol = "S5" /\ client[s].phase = "Ready"
                      THEN "Closed" ELSE client[s].phase
            closed == [client[s] EXCEPT !.open = FALSE]
            moved  == [closed EXCEPT !.phase = phase]
            c      == [moved EXCEPT !.list = "Kill"]
<1>1. InUse(s) /\ client[s] \in Clients
  BY DEF ClientsInv, ClientsSound, OnPeerClose, InUse
<1>2. phase \in Phases /\ phase \in {client[s].phase, "Closed"}
  BY <1>1 DEF Clients, Phases, InUse
<1>3. client' = [client EXCEPT ![s] = c]
  BY DEF OnPeerClose, ClientsInv, ClientsSound
<1>. HIDE DEF phase
<1>4. closed \in Clients /\ closed.gen = client[s].gen /\ closed.device = client[s].device
                         /\ closed.relaySide = client[s].relaySide
  <2>1. closed \in Clients
    BY <1>1, FieldWrites
  <2>. QED  BY <1>1, <2>1 DEF Clients
<1>. HIDE DEF closed
<1>5. moved \in Clients /\ moved.gen = client[s].gen /\ moved.device = client[s].device
                        /\ moved.relaySide = client[s].relaySide /\ moved.phase = phase
  BY <1>2, <1>4, FieldWrites DEF Clients
<1>. HIDE DEF moved
<1>6. c \in Clients /\ c.gen = client[s].gen /\ c.device = client[s].device
                    /\ c.relaySide = client[s].relaySide /\ c.phase = phase
  BY <1>5, FieldWrites DEF Clients
<1>. HIDE DEF c
<1>7. ClientsSound'
  <2>1. c.gen \in 1..MaxGeneration
    BY <1>1, <1>6, InUseIsNamed DEF ClientsInv
  <2>2. c.phase = "WaitForConnectionRequest" =>
            c.device = [slot |-> s, gen |-> c.gen] /\ c.device \in authorised'
    BY <1>2, <1>6 DEF ClientsInv, ClientsSound, Chosen, IdOf, OnPeerClose, backVars
  <2>3. c.phase = "Ready" => c.relaySide \in RelayIds
    BY <1>2, <1>6 DEF ClientsInv, ClientsSound, ReadyIsNamed
  <2>. QED  BY <1>3, <1>6, <2>1, <2>2, <2>3, OneClientChanges
            DEF ClientsInv, OnPeerClose, backVars
<1>. QED  BY <1>7, ClientsOnly DEF OnPeerClose

\* OnOpenRemoteConnection: the connection is authorised, and when its relay is
\* known its device is its own.
LEMMA OpenSound ==
    ASSUME ClientsInv, NEW s \in Slots, InUse(s), IdOf(s) \in authorised,
           NEW c \in Clients, c.gen = client[s].gen, c.phase # "Ready",
           c.relay \/ c.phase = "WaitForConnectionRequest" => c.device = IdOf(s),
           Open(s, c), Quiet,
           deviceRequests' \subseteq deviceRequests, UNCHANGED <<authRequests, authorised>>
    PROVE  ClientsInv'
<1>. DEFINE opened == [c EXCEPT !.phase = "WaitForConnectionEstablish"]
            m == [cmd |-> "Create", proxySide |-> IdOf(s), device |-> c.device]
<1>1. CASE /\ c.relay
           /\ client' = [client EXCEPT ![s] = opened]
           /\ Post(<<m>>)
  <2>1. opened \in Clients
    BY FieldWrites DEF Phases
  <2>2. opened.gen = client[s].gen /\ opened.phase = "WaitForConnectionEstablish"
    BY <2>1 DEF Clients
  <2>3. m \in RelayMessages /\ Good(m)
    BY <1>1, InUseIsNamed DEF RelayMessages, Good, ClientsInv
  <2>. HIDE DEF opened, m
  <2>4. ClientsSound'
    BY <1>1, <2>1, <2>2, ClientMoves DEF ClientsInv
  <2>. QED  BY <1>1, <2>3, <2>4, OneMessage, ClientsAndPost DEF Quiet
<1>2. CASE /\ ~c.relay
           /\ client' = [client EXCEPT ![s] = c]
           /\ UNCHANGED linkVars
  <2>1. c.gen \in 1..MaxGeneration
    BY InUseIsNamed DEF ClientsInv
  <2>2. ClientsSound'
    BY <1>2, <2>1, OneClientChanges DEF ClientsInv, IdOf
  <2>3. OpenedAsAuthorised'
    BY <1>2, QueueKept DEF ClientsInv, linkVars
  <2>4. ClientsTypeOK'
    BY <1>2, <2>2 DEF ClientsInv, ClientsSound, ClientsTypeOK, Quiet, linkVars
  <2>. QED  BY <2>2, <2>3, <2>4 DEF ClientsInv
<1>. QED  BY <1>1, <1>2 DEF Open

LEMMA ClientStepOK ==
    ASSUME ClientsInv, NEW s \in Slots, ClientStep(s)
    PROVE  ClientsInv'
<1>1. CASE OnNewConnection(s)
  BY <1>1, NewConnectionStep
<1>2. CASE OnChallenge(s)
  BY <1>2, ChallengeStep
<1>3. CASE OnCredentials(s)
  BY <1>3, CredentialsStep
<1>4. CASE OnBadHttpChallenge(s)
  BY <1>4, ListStep DEF OnBadHttpChallenge
<1>5. CASE OnS5ConnectionRequest(s)
  <2>1. /\ InUse(s) /\ client[s] \in Clients
        /\ client[s].phase = "WaitForConnectionRequest"
    BY <1>5 DEF OnS5ConnectionRequest, Receives, InUse, ClientsInv, ClientsSound
  <2>2. client[s].device = IdOf(s) /\ IdOf(s) \in authorised
    BY <2>1 DEF ClientsInv, ClientsSound, Chosen
  <2>. QED  BY <1>5, <2>1, <2>2, OpenSound DEF OnS5ConnectionRequest, backVars
<1>6. CASE OnBadS5ConnectionRequest(s)
  BY <1>6, ListStep DEF OnBadS5ConnectionRequest
<1>7. CASE OnUploadData(s)
  <2>1. InUse(s) /\ client[s].relaySide \in RelayIds
    BY <1>7 DEF OnUploadData, Receives, InUse, ClientsInv, ClientsSound, ReadyIsNamed
  <2>2. ClientsSound'
    BY <1>7, NoClientChanges DEF OnUploadData, ClientsInv, backVars
  <2>. QED  BY <1>7, <2>1, <2>2, UploadSound DEF OnUploadData
<1>8. CASE OnUnexpectedData(s)
  BY <1>8, ListStep DEF OnUnexpectedData, Killed
<1>9. CASE OnPeerClose(s)
  BY <1>9, PeerCloseStep
<1>. QED  BY <1>1, <1>2, <1>3, <1>4, <1>5, <1>6, <1>7, <1>8, <1>9 DEF ClientStep

-----------------------------------------------------------------------------
(* The answers of the AuthCache and of the device selector *)

LEMMA AuthenticatedSound ==
    ASSUME ClientsSound, authorised \subseteq authorised',
           NEW s \in Slots, InUse(s), Authenticated(s)
    PROVE  ClientsSound'
<1>. DEFINE known == [client[s] EXCEPT !.account = FALSE]
            c     == [known EXCEPT !.phase = "WaitForDeviceSelection"]
<1>1. client[s] \in Clients
  BY InUseIsNamed
<1>2. client' = [client EXCEPT ![s] = c]
  BY DEF Authenticated, ClientsSound
<1>3. known \in Clients
  BY <1>1, FieldWrites
<1>4. known.gen = client[s].gen
  BY <1>1, <1>3 DEF Clients
<1>. HIDE DEF known
<1>5. c \in Clients
  BY <1>3, FieldWrites DEF Phases
<1>6. c.gen = client[s].gen /\ c.phase = "WaitForDeviceSelection"
  BY <1>3, <1>4, <1>5 DEF Clients
<1>. HIDE DEF c
<1>. QED  BY <1>2, <1>5, <1>6, ClientMoves

\* A device is asked for no connection but one that was just authenticated.
LEMMA AuthResultStep ==
    ASSUME ClientsInv, NEW id \in Ids, NEW ok \in BOOLEAN, OnAuthResult(id, ok)
    PROVE  ClientsInv'
<1>. DEFINE s == id.slot
<1>1. s \in Slots /\ authorised \subseteq authorised' /\ (ok => id \in authorised')
  BY IdFacts DEF OnAuthResult
<1>2. authorised' \in SUBSET Ids /\ authRequests' \in SUBSET Ids
  BY DEF OnAuthResult, ClientsInv, ClientsTypeOK
<1>3. ClientsSound' /\ deviceRequests' \subseteq deviceRequests \cup authorised'
  <2>1. CASE UNCHANGED <<client, deviceRequests>>
    BY <1>1, <2>1, NoClientChanges DEF ClientsInv
  <2>2. CASE Found(id) /\ Killed(s) /\ UNCHANGED deviceRequests
    BY <1>1, <2>2, ListChanges DEF ClientsInv, Killed
  <2>3. CASE Found(id) /\ ok /\ Authenticated(s)
    <3>1. InUse(s) /\ IdOf(s) = id
      BY <2>3, IdFacts
    <3>. QED  BY <1>1, <2>3, <3>1, AuthenticatedSound DEF ClientsInv, Authenticated
  <2>4. CASE Found(id) /\ Refused(s)
    BY <1>1, <2>4, ListChanges DEF ClientsInv, Refused
  <2>. QED  BY <2>1, <2>2, <2>3, <2>4 DEF OnAuthResult
<1>4. OpenedAsAuthorised'
  BY <1>1, QueueKept DEF ClientsInv, OnAuthResult, linkVars
<1>5. deviceRequests' \subseteq authorised'
  BY <1>1, <1>3 DEF ClientsInv
<1>6. ClientsTypeOK'
  BY <1>2, <1>3, <1>5
  DEF ClientsInv, ClientsSound, ClientsTypeOK, OnAuthResult, Quiet, linkVars
<1>. QED  BY <1>3, <1>4, <1>5, <1>6 DEF ClientsInv

LEMMA DeviceSelectedStep ==
    ASSUME ClientsInv, NEW id \in Ids, NEW device \in BOOLEAN, NEW relay \in BOOLEAN,
           OnDeviceSelected(id, device, relay)
    PROVE  ClientsInv'
<1>. DEFINE s     == id.slot
            given == [client[s] EXCEPT !.device = IF device THEN id ELSE NoId]
            c     == [given EXCEPT !.relay = relay]
            asked == [c EXCEPT !.phase = "WaitForConnectionRequest"]
<1>1. /\ s \in Slots /\ id \in authorised /\ (relay => device)
      /\ deviceRequests' \subseteq deviceRequests
      /\ UNCHANGED <<authRequests, authorised>> /\ Quiet
  BY IdFacts DEF OnDeviceSelected, ClientsInv
<1>2. ASSUME ClientsSound', UNCHANGED linkVars PROVE ClientsInv'
  <2>1. OpenedAsAuthorised'
    BY <1>1, <1>2, QueueKept DEF ClientsInv, linkVars
  <2>2. ClientsTypeOK'
    BY <1>1, <1>2 DEF ClientsInv, ClientsSound, ClientsTypeOK, Quiet, linkVars
  <2>. QED  BY <1>1, <1>2, <2>1, <2>2 DEF ClientsInv
<1>3. CASE UNCHANGED <<client, linkVars>>
  BY <1>1, <1>2, <1>3, NoClientChanges DEF ClientsInv
<1>4. CASE Killed(s) /\ UNCHANGED linkVars
  BY <1>1, <1>2, <1>4, ListChanges DEF ClientsInv, Killed
<1>5. ASSUME Found(id), client[s].phase = "WaitForDeviceSelection"
      PROVE  /\ InUse(s) /\ IdOf(s) = id
             /\ c \in Clients /\ c.gen = client[s].gen /\ c.phase = client[s].phase
             /\ c.relay = relay /\ c.device = (IF device THEN id ELSE NoId)
  <2>1. client[s] \in Clients /\ InUse(s) /\ IdOf(s) = id
    BY <1>1, <1>5, IdFacts, InUseIsNamed DEF ClientsInv
  <2>2. given \in Clients
    BY <2>1, FieldWrites
  <2>3. /\ given.gen = client[s].gen /\ given.phase = client[s].phase
        /\ given.device = (IF device THEN id ELSE NoId)
    BY <2>1, <2>2 DEF Clients
  <2>. HIDE DEF given
  <2>4. c \in Clients
    BY <2>2, FieldWrites
  <2>5. /\ c.gen = client[s].gen /\ c.phase = client[s].phase
        /\ c.relay = relay /\ c.device = (IF device THEN id ELSE NoId)
    BY <2>2, <2>3, <2>4 DEF Clients
  <2>. QED  BY <2>1, <2>4, <2>5
<1>6. CASE /\ Found(id) /\ client[s].phase = "WaitForDeviceSelection" /\ device
           /\ client' = [client EXCEPT ![s] = asked]
           /\ UNCHANGED linkVars
  <2>1. /\ InUse(s) /\ IdOf(s) = id /\ c \in Clients /\ c.gen = client[s].gen /\ c.device = id
    BY <1>5, <1>6
  <2>. HIDE DEF c
  <2>2. asked \in Clients
    BY <2>1, FieldWrites DEF Phases
  <2>3. asked.gen = client[s].gen /\ asked.device = id /\ asked.phase = "WaitForConnectionRequest"
    BY <2>1, <2>2 DEF Clients
  <2>. HIDE DEF asked
  <2>4. asked.gen \in 1..MaxGeneration /\ asked.device = [slot |-> s, gen |-> asked.gen]
    BY <1>1, <2>1, <2>3, InUseIsNamed DEF ClientsInv, IdOf
  <2>5. ClientsSound'
    BY <1>1, <1>6, <2>2, <2>3, <2>4, OneClientChanges DEF ClientsInv
  <2>. QED  BY <1>2, <1>6, <2>5
<1>7. CASE /\ Found(id) /\ client[s].phase = "WaitForDeviceSelection"
           /\ Open(s, c)
  <2>1. /\ InUse(s) /\ IdOf(s) = id /\ c \in Clients /\ c.gen = client[s].gen
        /\ c.phase = "WaitForDeviceSelection" /\ (c.relay => c.device = id)
    BY <1>1, <1>5, <1>7
  <2>. HIDE DEF c
  <2>. QED  BY <1>1, <1>7, <2>1, OpenSound
<1>8. c = [client[s] EXCEPT !.device = IF device THEN id ELSE NoId, !.relay = relay]
  OBVIOUS
<1>. HIDE DEF c, given
<1>. QED  BY <1>3, <1>4, <1>6, <1>7, <1>8 DEF OnDeviceSelected

-----------------------------------------------------------------------------
(* What the relay sends, and the ticks *)

LEMMA EstablishedStep ==
    ASSUME ClientsInv, NEW id \in Ids, NEW r \in RelayIds, StateEstablished(id, r)
    PROVE  ClientsInv'
<1>. DEFINE s       == id.slot
            ready   == [client[s] EXCEPT !.phase = "Ready"]
            reading == [ready EXCEPT !.reading = TRUE]
            c       == [reading EXCEPT !.relaySide = r]
<1>1. s \in Slots /\ InUse(s) /\ client[s] \in Clients
  BY IdFacts, InUseIsNamed DEF StateEstablished, ClientsInv
<1>2. ready \in Clients
  BY <1>1, FieldWrites DEF Phases
<1>3. ready.gen = client[s].gen /\ ready.phase = "Ready"
  BY <1>1, <1>2 DEF Clients
<1>8. client' = [client EXCEPT ![s] = c]
  BY <1>1 DEF StateEstablished, ClientsInv, ClientsSound
<1>. HIDE DEF ready
<1>4. reading \in Clients
  BY <1>2, FieldWrites
<1>5. reading.gen = client[s].gen /\ reading.phase = "Ready"
  BY <1>2, <1>3, <1>4 DEF Clients
<1>. HIDE DEF reading
<1>6. c \in Clients
  BY <1>4, FieldWrites
<1>7. c.gen = client[s].gen /\ c.phase = "Ready" /\ c.relaySide = r
  BY <1>4, <1>5, <1>6 DEF Clients
<1>. HIDE DEF c
<1>9. ClientsSound'
  <2>1. c.gen \in 1..MaxGeneration
    BY <1>1, <1>7, InUseIsNamed DEF ClientsInv
  <2>. QED  BY <1>1, <1>6, <1>7, <1>8, <2>1, OneClientChanges
            DEF ClientsInv, StateEstablished, backVars
<1>10. CASE client[s].protocol = "HttpNormal"
  BY <1>1, <1>9, <1>10, UploadSound DEF StateEstablished
<1>11. CASE client[s].protocol # "HttpNormal"
  BY <1>9, <1>11, ClientsOnly DEF StateEstablished
<1>. QED  BY <1>10, <1>11

\* The relayed connection is closed, and with it the client's.
LEMMA ClosedSound ==
    ASSUME ClientsInv, NEW s \in Slots, InUse(s),
           NEW l \in {"Linger", "Kill"},
           client' = [client EXCEPT ![s].phase = "Closed", ![s].list = l],
           Quiet, UNCHANGED <<backVars, linkVars>>
    PROVE  ClientsInv'
<1>. DEFINE closed == [client[s] EXCEPT !.phase = "Closed"]
            c      == [closed EXCEPT !.list = l]
<1>1. client' = [client EXCEPT ![s] = c]
  BY DEF ClientsInv, ClientsSound
<1>2. closed \in Clients
  BY InUseIsNamed, FieldWrites DEF ClientsInv, Phases
<1>3. closed.gen = client[s].gen /\ closed.phase = "Closed"
  BY <1>2, InUseIsNamed DEF Clients, ClientsInv
<1>. HIDE DEF closed
<1>4. c \in Clients
  BY <1>2, FieldWrites
<1>5. c.gen = client[s].gen /\ c.phase = "Closed"
  BY <1>2, <1>3, <1>4 DEF Clients
<1>. HIDE DEF c
<1>6. ClientsSound'
  BY <1>1, <1>4, <1>5, ClientMoves DEF ClientsInv, backVars
<1>. QED  BY <1>6, ClientsOnly

LEMMA StateChangeStep ==
    ASSUME ClientsInv, NEW id \in Ids, NEW r \in RelayIds \cup {None}, NEW state,
           state = "ESTABLISHED" => r \in RelayIds,
           OnRelaySideConnectionStateChange(id, state, r)
    PROVE  ClientsInv'
<1>. id.slot \in Slots
  BY IdFacts
<1>1. CASE StateAborts(id, state)
  <2>1. ClientsSound' /\ OpenedAsAuthorised'
    BY <1>1, NoClientChanges, QueueKept DEF StateAborts, ClientsInv, backVars, linkVars
  <2>2. ClientsTypeOK'
    BY <1>1 DEF StateAborts, ClientsInv, ClientsTypeOK, backVars, linkVars
  <2>. QED  BY <1>1, <2>1, <2>2 DEF ClientsInv, StateAborts, backVars
<1>2. CASE state = "ESTABLISHED" /\ StateEstablished(id, r)
  BY <1>2, EstablishedStep
<1>3. CASE StateClosed(id)
  BY <1>3, ClosedSound DEF StateClosed, Found
<1>4. CASE StateIgnored(id, state)
  BY <1>4, NoClientChanges, ClientsOnly DEF StateIgnored, ClientsInv, backVars
<1>. QED  BY <1>1, <1>2, <1>3, <1>4 DEF OnRelaySideConnectionStateChange

LEMMA DestroyStep ==
    ASSUME ClientsInv, NEW id \in Ids, OnDestroyConnection(id)
    PROVE  ClientsInv'
<1>. id.slot \in Slots
  BY IdFacts
<1>1. CASE UNCHANGED client
  BY <1>1, NoClientChanges, ClientsOnly DEF OnDestroyConnection, ClientsInv, backVars
<1>2. CASE Found(id)
  BY <1>2, ClosedSound, ListStep DEF OnDestroyConnection, Found, Killed
<1>. QED  BY <1>1, <1>2 DEF OnDestroyConnection

LEMMA PushDataStep ==
    ASSUME ClientsInv, NEW id \in Ids, OnRelaySidePushData(id)
    PROVE  ClientsInv'
<1>. DEFINE s == id.slot
            n == Message("NotifyState", s, client[s].relaySide)
<1>1. ClientsSound'
  BY NoClientChanges DEF OnRelaySidePushData, ClientsInv, backVars
<1>2. delivered' \in SUBSET [to : Ids, sender : Ids]
  BY IdFacts DEF OnRelaySidePushData
<1>3. CASE UNCHANGED linkVars
  <2>1. OpenedAsAuthorised'
    BY <1>3, QueueKept DEF OnRelaySidePushData, ClientsInv, backVars, linkVars
  <2>2. ClientsTypeOK'
    BY <1>2, <1>3 DEF OnRelaySidePushData, ClientsInv, ClientsTypeOK, backVars, linkVars
  <2>. QED  BY <1>1, <2>1, <2>2 DEF ClientsInv, OnRelaySidePushData, backVars
<1>4. CASE Found(id) /\ Post(<<n>>)
  <2>1. InUse(s) /\ s \in Slots /\ client[s] \in Clients
    BY <1>4, IdFacts, InUseIsNamed DEF ClientsInv
  <2>2. n \in RelayMessages /\ Good(n)
    BY <2>1, OtherMessages DEF ClientsInv, Clients
  <2>. HIDE DEF n
  <2>. QED  BY <1>1, <1>2, <1>4, <2>2, OneMessage, ClientsAndPost
            DEF OnRelaySidePushData, backVars
<1>. QED  BY <1>3, <1>4 DEF OnRelaySidePushData

LEMMA TickStep ==
    ASSUME ClientsInv, OnTick
    PROVE  ClientsInv'
<1>1. PICK C \in SUBSET Slots : Cleanup(C)
  BY DEF OnTick, TickWith
<1>2. Quiet /\ UNCHANGED <<backVars, linkVars>>
  BY DEF OnTick, TickWith
<1>3. ASSUME NEW s \in Slots
      PROVE  Empty(client[s].gen) \in Clients /\ Empty(client[s].gen).phase = "Free"
  BY EmptyIsClient DEF ClientsInv, ClientsSound, Clients
<1>4. ClientsSound'
  BY <1>1, <1>2, <1>3
  DEF Cleanup, ClientsInv, ClientsSound, Named, Chosen, ReadyIsNamed, InUse, IdOf, backVars
<1>. QED  BY <1>2, <1>4, ClientsOnly

-----------------------------------------------------------------------------
(* The connection to the relay, and the relay *)

\* Steps of which server_proxy_access sees nothing but its queue.
LEMMA UnseenStep ==
    ASSUME ClientsInv, UNCHANGED <<client, backVars, aborted>>,
           delivered' = {}, linkUp' \in BOOLEAN,
           \/ UNCHANGED toRelay
           \/ toRelay' = <<>>
           \/ toRelay # <<>> /\ toRelay' = Tail(toRelay)
    PROVE  ClientsInv'
<1>1. toRelay' \in Seq(RelayMessages) /\ OpenedAsAuthorised'
  BY QueueKept, QueueShrinks DEF ClientsInv, ClientsTypeOK, backVars
<1>2. ClientsSound'
  BY NoClientChanges DEF ClientsInv, backVars
<1>3. ClientsTypeOK'
  BY <1>1 DEF ClientsInv, ClientsTypeOK, backVars
<1>. QED  BY <1>1, <1>2, <1>3 DEF ClientsInv, backVars

\* What TypeOK says of the relay.
RelayTypeOK ==
    /\ link \in 1..MaxLinks
    /\ context \in [RelayIds -> Contexts \cup {Nothing}]
    /\ toProxy \in Seq(ProxyMessages)
    /\ forwarded \in SUBSET [sender : Ids, context : Contexts]

LEMMA TellSound ==
    ASSUME toProxy \in Seq(ProxyMessages), NEW m \in ProxyMessages, Tell(m)
    PROVE  toProxy' \in Seq(ProxyMessages)
BY AppendProperties DEF Tell

LEMMA HeadOfRelay ==
    ASSUME ClientsInv, toRelay # <<>>
    PROVE  Head(toRelay) \in RelayMessages
BY HeadTailProperties DEF ClientsInv, ClientsTypeOK

LEMMA RelayHandlesStep ==
    ASSUME IInv, RelayTypeOK, toRelay # <<>>, NEW m, m = Head(toRelay),
           RelayRefuses(m) \/ RelayForwards(m) \/ \E r \in RelayIds : RelayCreates(m, r)
    PROVE  ClientsInv' /\ RelayTypeOK'
<1>1. m \in RelayMessages
  BY HeadOfRelay DEF IInv
<1>2. m.proxySide \in Ids
  BY <1>1 DEF RelayMessages
<1>3. CASE RelayRefuses(m)
  <2>1. ClientsInv'
    BY <1>3, UnseenStep DEF IInv, ClientsInv, ClientsTypeOK, RelayRefuses, Takes, Took
  <2>2. /\ [cmd |-> "DestroyConnection", proxySide |-> m.proxySide] \in ProxyMessages
        /\ [cmd |-> "CLOSED", proxySide |-> m.proxySide, relaySide |-> None] \in ProxyMessages
    BY <1>2 DEF ProxyMessages
  <2>3. toProxy' \in Seq(ProxyMessages)
    BY <1>3, <2>2, TellSound DEF RelayRefuses, RelayTypeOK
  <2>. QED  BY <1>3, <2>1, <2>3 DEF RelayRefuses, Takes, RelayTypeOK
<1>4. CASE RelayForwards(m)
  <2>1. ClientsInv'
    BY <1>4, UnseenStep DEF IInv, ClientsInv, ClientsTypeOK, RelayForwards, Takes, Took
  <2>2. forwarded' \in SUBSET [sender : Ids, context : Contexts]
    <3>1. CASE m.cmd = "PostData" /\ Forward(m)
      <4>1. m.relaySide \in RelayIds
        BY <1>1, <3>1 DEF RelayMessages
      <4>2. context[m.relaySide] \in Contexts \cup {Nothing}
        BY <4>1 DEF RelayTypeOK
      <4>. QED  BY <1>2, <3>1, <4>2 DEF Forward
    <3>2. CASE forwarded' = {}
      BY <3>2
    <3>. QED  BY <1>4, <3>1, <3>2 DEF RelayForwards
  <2>. QED  BY <1>4, <2>1, <2>2 DEF RelayForwards, Takes, RelayTypeOK
<1>5. ASSUME NEW r \in RelayIds, RelayCreates(m, r) PROVE ClientsInv' /\ RelayTypeOK'
  <2>1. ClientsInv'
    BY <1>5, UnseenStep DEF IInv, ClientsInv, ClientsTypeOK, RelayCreates, Takes, Took, Break
  <2>2. [proxySide |-> m.proxySide, device |-> m.device, link |-> link,
         state |-> "Opening"] \in Contexts
    <3>1. m.device \in Ids
      BY <1>1, <1>5 DEF RelayCreates, RelayMessages
    <3>. QED  BY <1>2, <3>1 DEF Contexts, States, RelayTypeOK
  <2>3. context' \in [RelayIds -> Contexts \cup {Nothing}]
    BY <1>5, <2>2 DEF RelayCreates, RelayTypeOK
  <2>4. toProxy' \in Seq(ProxyMessages)
    BY <1>5, EmptySeq DEF RelayCreates, RelayTypeOK, Break
  <2>. QED  BY <1>5, <2>1, <2>3, <2>4 DEF RelayCreates, Takes, RelayTypeOK
<1>. QED  BY <1>3, <1>4, <1>5

LEMMA DeviceReportsStep ==
    ASSUME IInv, RelayTypeOK, NEW r \in RelayIds, DeviceReports(r)
    PROVE  ClientsInv' /\ RelayTypeOK'
<1>1. PICK cmd \in {"ESTABLISHED", "CLOSED", "UPDATE_TRANSFER", "PostData"} : RelayReports(r, cmd)
  BY DEF DeviceReports
<1>2. ClientsInv'
  BY <1>1, UnseenStep DEF RelayReports, linkVars, IInv, ClientsInv, ClientsTypeOK
<1>3. context[r] \in Contexts
  BY DEF DeviceReports, RelayTypeOK, Nothing
<1>4. context' \in [RelayIds -> Contexts \cup {Nothing}]
  <2>1. ASSUME NEW st \in States, context' = [context EXCEPT ![r].state = st]
        PROVE  context' \in [RelayIds -> Contexts \cup {Nothing}]
    <3>1. [context[r] EXCEPT !.state = st] \in Contexts
      BY <1>3 DEF Contexts
    <3>. QED  BY <2>1, <3>1 DEF RelayTypeOK
  <2>. QED  BY <2>1 DEF DeviceReports, States, RelayTypeOK
<1>5. toProxy' \in Seq(ProxyMessages)
  <2>1. [cmd |-> cmd, proxySide |-> context[r].proxySide, relaySide |-> r] \in ProxyMessages
    BY <1>3 DEF Contexts, ProxyMessages
  <2>. QED  BY <1>1, <2>1, TellSound DEF RelayReports, RelayTypeOK
<1>. QED  BY <1>1, <1>2, <1>4, <1>5 DEF RelayReports, RelayTypeOK

LEMMA ServerPacketStep ==
    ASSUME IInv, RelayTypeOK, OnServerPacket
    PROVE  ClientsInv' /\ RelayTypeOK'
<1>. DEFINE m == Head(toProxy)
<1>1. m \in ProxyMessages /\ toProxy' \in Seq(ProxyMessages)
  BY HeadTailProperties DEF OnServerPacket, RelayTypeOK
<1>2. RelayTypeOK'
  BY <1>1 DEF OnServerPacket, RelayTypeOK
<1>3. m.proxySide \in Ids
  BY <1>1 DEF ProxyMessages
<1>4. CASE /\ m.cmd \in {"ESTABLISHED", "UPDATE_TRANSFER", "CLOSED"}
           /\ OnRelaySideConnectionStateChange(m.proxySide, m.cmd, m.relaySide)
  <2>1. m.relaySide \in RelayIds \cup {None} /\ (m.cmd = "ESTABLISHED" => m.relaySide \in RelayIds)
    BY <1>1, <1>4 DEF ProxyMessages
  <2>. HIDE DEF m
  <2>. QED  BY <1>2, <1>3, <1>4, <2>1, StateChangeStep DEF IInv
<1>5. CASE OnDestroyConnection(m.proxySide)
  BY <1>2, <1>3, <1>5, DestroyStep DEF IInv
<1>6. CASE OnRelaySidePushData(m.proxySide)
  BY <1>2, <1>3, <1>6, PushDataStep DEF IInv
<1>. QED  BY <1>4, <1>5, <1>6 DEF OnServerPacket

LEMMA NextStep ==
    ASSUME IInv, RelayTypeOK, Next
    PROVE  ClientsInv' /\ RelayTypeOK'
<1>1. CASE ProxyStep
  <2>1. RelayTypeOK'
    BY <1>1 DEF ProxyStep, relayVars, RelayTypeOK
  <2>2. CASE \E s \in Slots : ClientStep(s)
    BY <2>1, <2>2, ClientStepOK DEF IInv
  <2>3. CASE \E id \in Ids : BackStep(id)
    BY <2>1, <2>3, AuthResultStep, DeviceSelectedStep DEF IInv, BackStep
  <2>4. CASE OnTick
    BY <2>1, <2>4, TickStep DEF IInv
  <2>. QED  BY <1>1, <2>1, <2>2, <2>3, <2>4 DEF ProxyStep
<1>2. CASE OnServerPacket
  BY <1>2, ServerPacketStep
<1>3. CASE RelayStep
  BY <1>3, RelayHandlesStep, DeviceReportsStep DEF RelayStep
<1>4. CASE LinkBreaks
  BY <1>4, UnseenStep, EmptySeq DEF LinkBreaks, Break, IInv, RelayTypeOK
<1>5. CASE RelayRestarts
  BY <1>5, UnseenStep, EmptySeq DEF RelayRestarts, Break, IInv, RelayTypeOK
<1>6. CASE LinkUp
  <2>1. ClientsInv'
    BY <1>6, UnseenStep DEF LinkUp, IInv
  <2>2. link' \in 1..MaxLinks
    BY <1>6, MaxLinksAssumption DEF LinkUp, RelayTypeOK
  <2>. QED  BY <1>6, <2>1, <2>2 DEF LinkUp, RelayTypeOK
<1>. QED  BY <1>1, <1>2, <1>3, <1>4, <1>5, <1>6 DEF Next

\* Every step keeps the invariant (vars: all the variables of ProxyRelay).
THEOREM Invariance == Spec => []IInv
<1>1. IInv /\ [Next]_vars => IInv'
  <2>1. IInv => RelayTypeOK
    BY DEF IInv, TypeOK, RelayTypeOK
  <2>2. ClientsInv' /\ RelayTypeOK' => IInv'
    BY DEF IInv, ClientsInv, TypeOK, RelayTypeOK
  <2>3. CASE Next
    BY <2>1, <2>2, <2>3, NextStep
  <2>4. CASE UNCHANGED vars
    BY <2>4 DEF vars, clientVars, backVars, linkVars, relayVars, IInv, TypeOK, ClientsInv,
        ClientsTypeOK, ClientsSound, Named, Chosen, ReadyIsNamed, InUse, IdOf, OpenedAsAuthorised
  <2>. QED  BY <2>3, <2>4
<1>. QED  BY InitIInv, <1>1, PTL DEF Spec

\* The variables of both programs and the messages between them keep their types.
THEOREM TypeCorrect == Spec => []TypeOK
<1>1. IInv => TypeOK
  BY DEF IInv
<1>. QED  BY Invariance, <1>1, PTL

\* The relay is asked for connections only for clients that were authenticated
\* (OnAuthResult), and with the device that was selected for that very client
\* (OnDeviceSelected), although its slot may have had other clients.
THEOREM OnlyAuthorisedIsOpened == Spec => []OpenedAsAuthorised
<1>1. IInv => OpenedAsAuthorised
  BY DEF IInv, ClientsInv
<1>. QED  BY Invariance, <1>1, PTL

-----------------------------------------------------------------------------
(* Data behind its answer: the trail of a relayed connection, from the       *)
(* request for it to the data its device sends.  What the trail says of a    *)
(* connection's id stays true when the connection is gone and its slot has   *)
(* another client.                                                           *)

\* A connection was asked of the relay for the client with this id.
Opened(id) ==
    /\ id.gen <= client[id.slot].gen
    /\ Found(id) => client[id.slot].phase \in {"WaitForConnectionEstablish", "Ready", "Closed"}

\* The client with this id was told what became of it.
Told(id) ==
    /\ id.gen <= client[id.slot].gen
    /\ Found(id) => client[id.slot].phase \in {"Ready", "Closed"}

\* What the first n messages to server_proxy_access tell the client counts.
ToldBy(id, n) ==
    Told(id) \/ \E j \in 1..n : toProxy[j].cmd = "ESTABLISHED" /\ toProxy[j].proxySide = id

CreateIsOpened ==
    \A i \in 1..Len(toRelay), id \in Ids :
        toRelay[i].cmd = "Create" /\ toRelay[i].proxySide = id => Opened(id)

ContextIsOpened ==
    \A r \in RelayIds, id \in Ids :
        context[r] # Nothing /\ context[r].proxySide = id => Opened(id)

ContextIsPast == \A r \in RelayIds : context[r] # Nothing => context[r].link <= link

AnswerIsOpened ==
    \A i \in 1..Len(toProxy), id \in Ids :
        toProxy[i].cmd = "ESTABLISHED" /\ toProxy[i].proxySide = id => Opened(id)

DataIsBehind ==
    \A i \in 1..Len(toProxy), id \in Ids :
        toProxy[i].cmd = "PostData" /\ toProxy[i].proxySide = id => ToldBy(id, i - 1)

\* The device of an established context may send data.
EstablishedIsTold ==
    \A r \in RelayIds, id \in Ids :
        /\ context[r] # Nothing /\ context[r].state = "Established"
        /\ linkUp /\ context[r].link = link
        /\ context[r].proxySide = id
        => ToldBy(id, Len(toProxy))

Trail ==
    /\ CreateIsOpened /\ ContextIsOpened /\ ContextIsPast
    /\ AnswerIsOpened /\ DataIsBehind /\ EstablishedIsTold

\* The invariant of what is relayed.
TrailInv == IInv /\ Trail /\ DataIsOwnAndBehindAnswer

\* A connection goes on, is cleaned up, or has a successor in its slot.
Advance ==
    \A s \in Slots :
        \/ client'[s].gen > client[s].gen
        \/ client'[s].gen = client[s].gen /\ client'[s].phase = "Free"
        \/ /\ client'[s].gen = client[s].gen
           /\ client[s].phase # "Free"
           /\ client[s].phase \in {"WaitForConnectionEstablish", "Ready", "Closed"} =>
                  client'[s].phase \in {"WaitForConnectionEstablish", "Ready", "Closed"}
           /\ client[s].phase \in {"Ready", "Closed"} => client'[s].phase \in {"Ready", "Closed"}

LEMMA TrailKept ==
    ASSUME ClientsSound, ClientsSound', Advance, NEW id \in Ids
    PROVE  /\ Opened(id) => Opened(id)'
           /\ Told(id) => Told(id)'
<1>1. id.slot \in Slots /\ id.gen \in 1..MaxGeneration
  BY IdFacts
<1>2. client[id.slot].gen \in Nat /\ client'[id.slot].gen \in Nat
  BY <1>1, ClientBoundsAssumption DEF ClientsSound, Clients
<1>3. id.gen \in Nat
  BY <1>1, ClientBoundsAssumption
<1>. QED  BY <1>1, <1>2, <1>3 DEF Advance, Opened, Told, Found, InUse

LEMMA StillAdvances == UNCHANGED client /\ ClientsSound => Advance
BY ClientBoundsAssumption DEF Advance, ClientsSound, Clients

\* One connection changes, which was in use.
LEMMA OneAdvances ==
    ASSUME ClientsSound, NEW s \in Slots, NEW c, InUse(s),
           c.gen = client[s].gen,
           client[s].phase \in {"WaitForConnectionEstablish", "Ready", "Closed"} =>
               c.phase \in {"WaitForConnectionEstablish", "Ready", "Closed"},
           client[s].phase \in {"Ready", "Closed"} => c.phase \in {"Ready", "Closed"},
           client' = [client EXCEPT ![s] = c]
    PROVE  Advance
BY ClientBoundsAssumption DEF Advance, ClientsSound, Clients, InUse

\* The fields the trail does not look at.
LEMMA ListAdvances ==
    ASSUME ClientsSound, NEW s \in Slots, NEW l,
           client' = [client EXCEPT ![s].list = l]
    PROVE  Advance
BY ClientBoundsAssumption DEF Advance, ClientsSound, Clients

-----------------------------------------------------------------------------
(* The requests to the relay *)

LEMMA CreatesKept ==
    ASSUME ClientsInv, ClientsSound', Advance, CreateIsOpened, UNCHANGED toRelay
    PROVE  CreateIsOpened'
BY TrailKept DEF CreateIsOpened, ClientsInv

LEMMA CreatesShrink ==
    ASSUME ClientsInv, ClientsSound', Advance, CreateIsOpened,
           toRelay' = <<>> \/ (toRelay # <<>> /\ toRelay' = Tail(toRelay))
    PROVE  CreateIsOpened'
<1>1. CASE toRelay' = <<>>
  BY <1>1, EmptySeq DEF CreateIsOpened
<1>2. CASE toRelay # <<>> /\ toRelay' = Tail(toRelay)
  <2>1. /\ toRelay \in Seq(RelayMessages)
        /\ Len(toRelay') = Len(toRelay) - 1
        /\ \A i \in 1..Len(toRelay') : toRelay'[i] = toRelay[i + 1]
    BY <1>2, HeadTailProperties DEF ClientsInv, ClientsTypeOK
  <2>2. Len(toRelay) \in Nat
    BY <2>1, LenProperties
  <2>3. ASSUME NEW i \in 1..Len(toRelay'), NEW id \in Ids,
               toRelay'[i].cmd = "Create", toRelay'[i].proxySide = id
        PROVE  Opened(id)'
    <3>1. i + 1 \in 1..Len(toRelay)
      BY <2>1, <2>2
    <3>2. Opened(id)
      BY <2>1, <2>3, <3>1 DEF CreateIsOpened
    <3>. QED  BY <3>2, TrailKept DEF ClientsInv
  <2>. QED  BY <2>3 DEF CreateIsOpened
<1>. QED  BY <1>1, <1>2

\* Post, of requests for one connection or of none.
LEMMA CreatesGrow ==
    ASSUME ClientsInv, ClientsSound', Advance, CreateIsOpened,
           NEW ms \in Seq(RelayMessages), Post(ms),
           NEW own,
           \A i \in 1..Len(ms) : ms[i].cmd = "Create" => ms[i].proxySide = own /\ Opened(own)'
    PROVE  CreateIsOpened'
<1>1. CASE toRelay' = toRelay
  BY <1>1, CreatesKept
<1>2. CASE toRelay' = toRelay \o ms
  <2>. toRelay \in Seq(RelayMessages)
    BY DEF ClientsInv, ClientsTypeOK
  <2>1. /\ Len(toRelay') = Len(toRelay) + Len(ms)
        /\ \A i \in 1..Len(toRelay) + Len(ms) :
              toRelay'[i] = IF i <= Len(toRelay) THEN toRelay[i] ELSE ms[i - Len(toRelay)]
    BY <1>2, ConcatProperties
  <2>2. Len(toRelay) \in Nat /\ Len(ms) \in Nat
    BY LenProperties
  <2>3. ASSUME NEW i \in 1..Len(toRelay'), NEW id \in Ids,
               toRelay'[i].cmd = "Create", toRelay'[i].proxySide = id
        PROVE  Opened(id)'
    <3>1. CASE i <= Len(toRelay)
      <4>1. i \in 1..Len(toRelay) /\ toRelay'[i] = toRelay[i]
        BY <2>1, <2>2, <2>3, <3>1
      <4>2. Opened(id)
        BY <2>3, <4>1 DEF CreateIsOpened
      <4>. QED  BY <4>2, TrailKept DEF ClientsInv
    <3>2. CASE ~(i <= Len(toRelay))
      <4>1. i - Len(toRelay) \in 1..Len(ms)
        BY <2>1, <2>2, <2>3, <3>2
      <4>2. id = own /\ Opened(own)'
        BY <2>1, <2>3, <3>2, <4>1
      <4>. QED  BY <4>2
    <3>. QED  BY <3>1, <3>2
  <2>. QED  BY <2>3 DEF CreateIsOpened
<1>. QED  BY <1>1, <1>2 DEF Post

-----------------------------------------------------------------------------
(* Every step of server_proxy_access is an advance *)

\* The handlers that post nothing to the relay.
LEMMA QuietTrail ==
    ASSUME ClientsInv, ClientsSound', CreateIsOpened, Advance, UNCHANGED linkVars
    PROVE  CreateIsOpened'
BY CreatesKept DEF linkVars

LEMMA UploadTrail ==
    ASSUME ClientsInv, ClientsSound', CreateIsOpened, Advance,
           NEW s \in Slots, InUse(s), NEW r \in RelayIds, Upload(s, r)
    PROVE  CreateIsOpened'
<1>. DEFINE d == Message("PostData", s, r)
            n == Message("NotifyState", s, r)
<1>1. d \in RelayMessages /\ n \in RelayMessages /\ d.cmd # "Create" /\ n.cmd # "Create"
  BY OtherMessages, NoneAssumption DEF ClientsInv, Message
<1>. HIDE DEF d, n
<1>2. CASE Post(<<d>>)
  <2>1. <<d>> \in Seq(RelayMessages) /\ \A i \in 1..Len(<<d>>) : <<d>>[i].cmd # "Create"
    BY <1>1
  <2>. QED  BY <1>2, <2>1, CreatesGrow
<1>3. CASE Post(<<d, n>>)
  <2>1. <<d, n>> \in Seq(RelayMessages) /\ \A i \in 1..Len(<<d, n>>) : <<d, n>>[i].cmd # "Create"
    BY <1>1
  <2>. QED  BY <1>3, <2>1, CreatesGrow
<1>. QED  BY <1>2, <1>3 DEF Upload, d, n

\* OnOpenRemoteConnection: the request is sent with the phase that waits for
\* its answer.
LEMMA OpenTrail ==
    ASSUME ClientsInv, ClientsSound', CreateIsOpened,
           NEW s \in Slots, InUse(s), NEW c \in Clients, c.gen = client[s].gen,
           client[s].phase \notin {"WaitForConnectionEstablish", "Ready", "Closed"},
           c.relay => c.device = IdOf(s),
           Open(s, c)
    PROVE  Advance /\ CreateIsOpened'
<1>. DEFINE opened == [c EXCEPT !.phase = "WaitForConnectionEstablish"]
            m == [cmd |-> "Create", proxySide |-> IdOf(s), device |-> c.device]
<1>1. CASE /\ c.relay
           /\ client' = [client EXCEPT ![s] = opened]
           /\ Post(<<m>>)
  <2>1. PICK own \in Ids : own = IdOf(s)
    BY InUseIsNamed DEF ClientsInv
  <2>2. opened.gen = client[s].gen /\ opened.phase = "WaitForConnectionEstablish"
    BY DEF Clients
  <2>3. Advance
    BY <1>1, <2>2, OneAdvances DEF ClientsInv
  <2>4. Opened(own)'
    <3>1. own.slot = s /\ own.gen = client[s].gen
      BY <2>1 DEF IdOf
    <3>2. client[s].gen \in Nat
      BY ClientBoundsAssumption DEF ClientsInv, ClientsSound, Clients
    <3>3. client'[s] = opened
      BY <1>1 DEF ClientsInv, ClientsSound
    <3>. QED  BY <2>2, <3>1, <3>2, <3>3 DEF Opened
  <2>5. PICK asked \in {m} : asked.proxySide = own /\ asked \in RelayMessages
    BY <1>1, <2>1 DEF RelayMessages
  <2>6. /\ <<asked>> \in Seq(RelayMessages)
        /\ \A i \in 1..Len(<<asked>>) : <<asked>>[i].proxySide = own
    BY <2>5
  <2>. QED  BY <1>1, <2>3, <2>4, <2>5, <2>6, CreatesGrow
<1>2. CASE client' = [client EXCEPT ![s] = c] /\ UNCHANGED linkVars
  BY <1>2, OneAdvances, QuietTrail DEF ClientsInv
<1>. QED  BY <1>1, <1>2 DEF Open

LEMMA ClientStepTrail ==
    ASSUME ClientsInv, ClientsSound', CreateIsOpened, NEW s \in Slots, ClientStep(s)
    PROVE  Advance /\ CreateIsOpened'
<1>1. CASE OnNewConnection(s)
  <2>1. client[s].gen \in Nat
    BY ClientBoundsAssumption DEF ClientsInv, ClientsSound, Clients
  <2>2. New(client[s].gen + 1).gen > client[s].gen
    BY <2>1 DEF New
  <2>3. Advance
    BY <1>1, <2>2, ClientBoundsAssumption
    DEF OnNewConnection, Advance, ClientsInv, ClientsSound, InUse, Clients
  <2>. QED  BY <1>1, <2>3, QuietTrail DEF OnNewConnection
<1>2. CASE OnChallenge(s)
  <2>1. ASSUME NEW p \in Protocols, NEW l \in {client[s].list, "Kill"},
               client' = [client EXCEPT ![s].protocol = p, ![s].phase = "Challenge",
                                        ![s].list = l]
        PROVE  Advance
    BY <1>2, <2>1, ClientBoundsAssumption
    DEF OnChallenge, Receives, Advance, ClientsInv, ClientsSound, Clients
  <2>2. ASSUME NEW p \in Protocols,
               client' = [client EXCEPT ![s].protocol = p, ![s].phase = "Challenge"]
        PROVE  Advance
    BY <1>2, <2>2, ClientBoundsAssumption
    DEF OnChallenge, Receives, Advance, ClientsInv, ClientsSound, Clients
  <2>3. ASSUME Killed(s) PROVE Advance
    BY <2>3, ListAdvances DEF Killed, ClientsInv
  <2>4. "S5" \in Protocols
    BY DEF Protocols
  <2>5. Advance
    BY <1>2, <2>1, <2>2, <2>3, <2>4 DEF OnChallenge
  <2>6. UNCHANGED linkVars
    BY <1>2 DEF OnChallenge
  <2>. QED  BY <2>5, <2>6, QuietTrail
<1>3. CASE OnCredentials(s)
  <2>1. Advance
    BY <1>3, ClientBoundsAssumption
    DEF OnCredentials, Receives, Advance, ClientsInv, ClientsSound, Clients
  <2>. QED  BY <1>3, <2>1, QuietTrail DEF OnCredentials
<1>4. CASE OnBadHttpChallenge(s)
  BY <1>4, ListAdvances, QuietTrail DEF OnBadHttpChallenge, ClientsInv
<1>5. CASE OnS5ConnectionRequest(s)
  <2>1. /\ InUse(s) /\ client[s] \in Clients
        /\ client[s].phase = "WaitForConnectionRequest"
    BY <1>5 DEF OnS5ConnectionRequest, Receives, InUse, ClientsInv, ClientsSound
  <2>2. client[s].device = IdOf(s)
    BY <2>1 DEF ClientsInv, ClientsSound, Chosen
  <2>. QED  BY <1>5, <2>1, <2>2, OpenTrail DEF OnS5ConnectionRequest
<1>6. CASE OnBadS5ConnectionRequest(s)
  BY <1>6, ListAdvances, QuietTrail DEF OnBadS5ConnectionRequest, ClientsInv
<1>7. CASE OnUploadData(s)
  <2>1. InUse(s) /\ client[s].phase = "Ready" /\ client[s].relaySide \in RelayIds
    BY <1>7 DEF OnUploadData, Receives, InUse, ClientsInv, ClientsSound, ReadyIsNamed
  <2>2. Advance
    BY <1>7, StillAdvances DEF OnUploadData, ClientsInv
  <2>. QED  BY <1>7, <2>1, <2>2, UploadTrail DEF OnUploadData
<1>8. CASE OnUnexpectedData(s)
  BY <1>8, ListAdvances, QuietTrail DEF OnUnexpectedData, Killed, ClientsInv
<1>9. CASE OnPeerClose(s)
  <2>1. Advance
    BY <1>9, ClientBoundsAssumption
    DEF OnPeerClose, InUse, Advance, ClientsInv, ClientsSound, Clients
  <2>. QED  BY <1>9, <2>1, QuietTrail DEF OnPeerClose
<1>. QED  BY <1>1, <1>2, <1>3, <1>4, <1>5, <1>6, <1>7, <1>8, <1>9 DEF ClientStep

LEMMA AuthResultTrail ==
    ASSUME ClientsInv, ClientsSound', CreateIsOpened,
           NEW id \in Ids, NEW ok \in BOOLEAN, OnAuthResult(id, ok)
    PROVE  Advance /\ CreateIsOpened'
<1>. DEFINE s == id.slot
<1>. s \in Slots
  BY IdFacts
<1>1. CASE UNCHANGED client
  BY <1>1, StillAdvances, QuietTrail DEF OnAuthResult, ClientsInv
<1>2. CASE Killed(s) \/ Refused(s)
  BY <1>2, ListAdvances, QuietTrail DEF OnAuthResult, Killed, Refused, ClientsInv
<1>3. CASE Found(id) /\ client[s].phase = "WaitForAccountExchange" /\ Authenticated(s)
  <2>1. Advance
    BY <1>3, ClientBoundsAssumption
    DEF Authenticated, Advance, ClientsInv, ClientsSound, Clients
  <2>. QED  BY <1>3, <2>1, QuietTrail DEF OnAuthResult
<1>. QED  BY <1>1, <1>2, <1>3 DEF OnAuthResult

LEMMA DeviceSelectedTrail ==
    ASSUME ClientsInv, ClientsSound', CreateIsOpened,
           NEW id \in Ids, NEW device \in BOOLEAN, NEW relay \in BOOLEAN,
           OnDeviceSelected(id, device, relay)
    PROVE  Advance /\ CreateIsOpened'
<1>. DEFINE s     == id.slot
            given == [client[s] EXCEPT !.device = IF device THEN id ELSE NoId]
            c     == [given EXCEPT !.relay = relay]
<1>. s \in Slots
  BY IdFacts
<1>1. CASE UNCHANGED <<client, linkVars>>
  BY <1>1, StillAdvances, QuietTrail DEF ClientsInv
<1>2. CASE Killed(s) /\ UNCHANGED linkVars
  BY <1>2, ListAdvances, QuietTrail DEF Killed, ClientsInv
<1>3. ASSUME Found(id), client[s].phase = "WaitForDeviceSelection"
      PROVE  /\ InUse(s) /\ IdOf(s) = id
             /\ c \in Clients /\ c.gen = client[s].gen /\ (c.relay => c.device = IdOf(s))
  <2>1. client[s] \in Clients /\ InUse(s) /\ IdOf(s) = id
    BY <1>3, IdFacts, InUseIsNamed DEF ClientsInv
  <2>2. given \in Clients
    BY <2>1, FieldWrites
  <2>3. given.gen = client[s].gen /\ given.device = (IF device THEN id ELSE NoId)
    BY <2>1, <2>2 DEF Clients
  <2>. HIDE DEF given
  <2>4. c \in Clients
    BY <2>2, FieldWrites
  <2>5. /\ c.gen = client[s].gen /\ c.relay = relay
        /\ c.device = (IF device THEN id ELSE NoId)
    BY <2>2, <2>3, <2>4 DEF Clients
  <2>6. relay => device
    BY DEF OnDeviceSelected
  <2>. QED  BY <2>1, <2>4, <2>5, <2>6
<1>4. CASE /\ Found(id) /\ client[s].phase = "WaitForDeviceSelection"
           /\ client' = [client EXCEPT ![s] = [c EXCEPT !.phase = "WaitForConnectionRequest"]]
           /\ UNCHANGED linkVars
  <2>. DEFINE asked == [c EXCEPT !.phase = "WaitForConnectionRequest"]
  <2>1. asked.gen = client[s].gen /\ InUse(s)
    BY <1>3, <1>4
  <2>. HIDE DEF asked, c
  <2>2. Advance
    BY <1>4, <2>1, OneAdvances DEF ClientsInv, asked
  <2>. QED  BY <1>4, <2>2, QuietTrail
<1>5. CASE Found(id) /\ client[s].phase = "WaitForDeviceSelection" /\ Open(s, c)
  <2>1. /\ InUse(s) /\ c \in Clients /\ c.gen = client[s].gen
        /\ (c.relay => c.device = IdOf(s))
    BY <1>3, <1>5
  <2>. HIDE DEF c
  <2>. QED  BY <1>5, <2>1, OpenTrail
<1>6. c = [client[s] EXCEPT !.device = IF device THEN id ELSE NoId, !.relay = relay]
  OBVIOUS
<1>. HIDE DEF c, given
<1>. QED  BY <1>1, <1>2, <1>4, <1>5, <1>6 DEF OnDeviceSelected

LEMMA TickTrail ==
    ASSUME ClientsInv, ClientsSound', CreateIsOpened, OnTick
    PROVE  Advance /\ CreateIsOpened'
<1>1. PICK C \in SUBSET Slots : Cleanup(C)
  BY DEF OnTick, TickWith
<1>2. ASSUME NEW s \in Slots
      PROVE  /\ client[s].gen \in Nat
             /\ Empty(client[s].gen).gen = client[s].gen
             /\ Empty(client[s].gen).phase = "Free"
  BY ClientBoundsAssumption DEF ClientsInv, ClientsSound, Clients, Empty, New
<1>3. Advance
  BY <1>1, <1>2 DEF Cleanup, Advance
<1>. QED  BY <1>3, QuietTrail DEF OnTick, TickWith

-----------------------------------------------------------------------------
(* What is under way to server_proxy_access *)

RelayTrail ==
    /\ ContextIsOpened /\ ContextIsPast
    /\ AnswerIsOpened /\ DataIsBehind /\ EstablishedIsTold

\* The messages stay, and more may follow them.
LEMMA ToldByKept ==
    ASSUME ClientsSound, ClientsSound', Advance, NEW id \in Ids, NEW n \in Nat,
           \A j \in 1..n : toProxy'[j] = toProxy[j],
           ToldBy(id, n)
    PROVE  ToldBy(id, n)'
BY TrailKept DEF ToldBy

LEMMA MessagesKept ==
    ASSUME ClientsSound, ClientsSound', Advance, toProxy \in Seq(ProxyMessages),
           AnswerIsOpened, DataIsBehind, UNCHANGED toProxy
    PROVE  /\ AnswerIsOpened' /\ DataIsBehind'
           /\ \A id \in Ids : ToldBy(id, Len(toProxy)) => ToldBy(id, Len(toProxy))'
<1>1. PICK l \in Nat : l = Len(toProxy)
  BY LenProperties
<1>2. AnswerIsOpened'
  BY TrailKept DEF AnswerIsOpened
<1>3. ASSUME NEW id \in Ids, NEW n \in Nat, ToldBy(id, n) PROVE ToldBy(id, n)'
  BY <1>3, ToldByKept
<1>4. DataIsBehind'
  <2>1. ASSUME NEW i \in 1..l, NEW id \in Ids,
               toProxy[i].cmd = "PostData", toProxy[i].proxySide = id
        PROVE  ToldBy(id, i - 1)'
    <3>1. i - 1 \in Nat /\ ToldBy(id, i - 1)
      BY <1>1, <2>1 DEF DataIsBehind
    <3>. QED  BY <1>3, <3>1
  <2>. QED  BY <1>1, <2>1 DEF DataIsBehind
<1>5. \A id \in Ids : ToldBy(id, Len(toProxy)) => ToldBy(id, Len(toProxy))'
  <2>1. \A id \in Ids : ToldBy(id, l) => ToldBy(id, l)'
    BY <1>3
  <2>. QED  BY <1>1, <2>1 DEF ToldBy
<1>. QED  BY <1>2, <1>4, <1>5

LEMMA MessageAdded ==
    ASSUME ClientsSound, ClientsSound', Advance, toProxy \in Seq(ProxyMessages),
           AnswerIsOpened, DataIsBehind,
           NEW m \in ProxyMessages, toProxy' = Append(toProxy, m),
           NEW own \in Ids, own = m.proxySide,
           m.cmd = "ESTABLISHED" => Opened(own),
           m.cmd = "PostData" => ToldBy(own, Len(toProxy))
    PROVE  /\ AnswerIsOpened' /\ DataIsBehind'
           /\ \A id \in Ids : ToldBy(id, Len(toProxy)) => ToldBy(id, Len(toProxy))'
           /\ m.cmd = "ESTABLISHED" => ToldBy(own, Len(toProxy))'
<1>1. PICK l \in Nat : l = Len(toProxy)
  BY LenProperties
<1>2. /\ toProxy' \in Seq(ProxyMessages)
      /\ Len(toProxy') = l + 1
      /\ \A j \in 1..l : toProxy'[j] = toProxy[j]
      /\ toProxy'[l + 1] = m
  BY <1>1, AppendProperties
<1>3. ASSUME NEW id \in Ids, NEW n \in 0..l, ToldBy(id, n) PROVE ToldBy(id, n)'
  BY <1>2, <1>3, ToldByKept
<1>4. AnswerIsOpened'
  <2>1. ASSUME NEW i \in 1..(l + 1), NEW id \in Ids,
               toProxy'[i].cmd = "ESTABLISHED", toProxy'[i].proxySide = id
        PROVE  Opened(id)'
    <3>1. CASE i \in 1..l
      BY <1>1, <1>2, <2>1, <3>1, TrailKept DEF AnswerIsOpened
    <3>2. CASE i = l + 1
      BY <1>2, <2>1, <3>2, TrailKept
    <3>. QED  BY <3>1, <3>2
  <2>. QED  BY <1>2, <2>1 DEF AnswerIsOpened
<1>5. DataIsBehind'
  <2>1. ASSUME NEW i \in 1..(l + 1), NEW id \in Ids,
               toProxy'[i].cmd = "PostData", toProxy'[i].proxySide = id
        PROVE  ToldBy(id, i - 1)'
    <3>1. i - 1 \in 0..l
      OBVIOUS
    <3>2. ToldBy(id, i - 1)
      <4>1. CASE i \in 1..l
        BY <1>1, <1>2, <2>1, <4>1 DEF DataIsBehind
      <4>2. CASE i = l + 1
        <5>1. id = own /\ m.cmd = "PostData" /\ i - 1 = Len(toProxy)
          BY <1>1, <1>2, <2>1, <4>2
        <5>. QED  BY <5>1
      <4>. QED  BY <4>1, <4>2
    <3>. QED  BY <1>3, <3>1, <3>2
  <2>. QED  BY <1>2, <2>1 DEF DataIsBehind
<1>6. ASSUME NEW id \in Ids, ToldBy(id, Len(toProxy)) PROVE ToldBy(id, Len(toProxy))'
  <2>1. ToldBy(id, l)'
    BY <1>1, <1>3, <1>6
  <2>2. 1..l \subseteq 1..(l + 1)
    OBVIOUS
  <2>. QED  BY <1>2, <2>1, <2>2 DEF ToldBy
<1>7. m.cmd = "ESTABLISHED" => ToldBy(own, Len(toProxy))'
  <2>1. l + 1 \in 1..(l + 1)
    OBVIOUS
  <2>. QED  BY <1>2, <2>1 DEF ToldBy
<1>. QED  BY <1>4, <1>5, <1>6, <1>7

\* The queue is emptied when the connection breaks.
LEMMA MessagesLost ==
    ASSUME toProxy' = <<>>
    PROVE  AnswerIsOpened' /\ DataIsBehind'
BY EmptySeq DEF AnswerIsOpened, DataIsBehind

-----------------------------------------------------------------------------
(* The steps of the relay and of the connection *)

LEMMA ProxyStepTrail ==
    ASSUME ClientsSound, ClientsSound', Advance, RelayTypeOK, RelayTrail,
           UNCHANGED relayVars, UNCHANGED linkUp
    PROVE  RelayTrail'
<1>1. AnswerIsOpened' /\ DataIsBehind'
  BY MessagesKept DEF RelayTypeOK, RelayTrail, relayVars
<1>2. \A id \in Ids : ToldBy(id, Len(toProxy)) => ToldBy(id, Len(toProxy))'
  BY MessagesKept DEF RelayTypeOK, RelayTrail, relayVars
<1>3. ContextIsOpened' /\ ContextIsPast'
  BY TrailKept DEF RelayTrail, relayVars, ContextIsOpened, ContextIsPast
<1>4. EstablishedIsTold'
  BY <1>2 DEF RelayTrail, relayVars, EstablishedIsTold
<1>. QED  BY <1>1, <1>3, <1>4 DEF RelayTrail

\* The relay hands no data to server_proxy_access by handling a message of it.
LEMMA RelayRefusesTrail ==
    ASSUME IInv, IInv', Advance, RelayTypeOK, RelayTrail,
           NEW m \in RelayMessages, RelayRefuses(m)
    PROVE  RelayTrail'
<1>1. PICK own \in Ids : own = m.proxySide
  BY DEF RelayMessages
<1>2. UNCHANGED <<context, link, linkUp>>
  BY DEF RelayRefuses, Takes, Took
<1>. DEFINE gone   == [cmd |-> "DestroyConnection", proxySide |-> m.proxySide]
            closed == [cmd |-> "CLOSED", proxySide |-> m.proxySide, relaySide |-> None]
<1>3. /\ gone \in ProxyMessages /\ gone.proxySide = own /\ gone.cmd = "DestroyConnection"
      /\ closed \in ProxyMessages /\ closed.proxySide = own /\ closed.cmd = "CLOSED"
  BY <1>1 DEF ProxyMessages
<1>4. toProxy' = Append(toProxy, gone) \/ toProxy' = Append(toProxy, closed)
  BY DEF RelayRefuses, Tell
<1>. HIDE DEF gone, closed
<1>5. /\ AnswerIsOpened' /\ DataIsBehind'
      /\ \A id \in Ids : ToldBy(id, Len(toProxy)) => ToldBy(id, Len(toProxy))'
  BY <1>3, <1>4, MessageAdded DEF RelayTypeOK, RelayTrail, IInv, ClientsInv
<1>6. ContextIsOpened' /\ ContextIsPast'
  BY <1>2, TrailKept DEF RelayTrail, ContextIsOpened, ContextIsPast, IInv, ClientsInv
<1>7. EstablishedIsTold'
  BY <1>2, <1>5 DEF RelayTrail, EstablishedIsTold
<1>. QED  BY <1>5, <1>6, <1>7 DEF RelayTrail

LEMMA RelayForwardsTrail ==
    ASSUME IInv, IInv', Advance, RelayTypeOK, RelayTrail, NEW m, RelayForwards(m)
    PROVE  RelayTrail'
BY ProxyStepTrail DEF RelayForwards, Takes, Took, relayVars, IInv, ClientsInv

\* A new context, for the client that asked for it.
LEMMA RelayCreatesTrail ==
    ASSUME IInv, IInv', Advance, RelayTypeOK, RelayTrail, CreateIsOpened, toRelay # <<>>,
           NEW m \in RelayMessages, m = Head(toRelay), NEW r \in RelayIds, RelayCreates(m, r)
    PROVE  RelayTrail'
<1>1. PICK own \in Ids : own = m.proxySide
  BY DEF RelayMessages
<1>2. Opened(own)
  <2>1. Len(toRelay) \in Nat /\ toRelay[1] = m /\ 1 \in 1..Len(toRelay)
    BY HeadTailProperties, LenProperties, EmptySeq DEF IInv, ClientsInv, ClientsTypeOK
  <2>. QED  BY <1>1, <2>1 DEF CreateIsOpened, RelayCreates
<1>3. Opened(own)'
  BY <1>2, TrailKept DEF IInv, ClientsInv
<1>. DEFINE new == [proxySide |-> m.proxySide, device |-> m.device, link |-> link,
                    state |-> "Opening"]
<1>4. /\ context' = [context EXCEPT ![r] = new] /\ UNCHANGED link
      /\ new.proxySide = own /\ new.link = link /\ new.state = "Opening"
  BY <1>1 DEF RelayCreates, Takes
<1>. HIDE DEF new
<1>5. /\ context'[r] = new /\ \A q \in RelayIds \ {r} : context'[q] = context[q]
  BY <1>4 DEF RelayTypeOK
<1>6. ContextIsOpened'
  <2>1. ASSUME NEW q \in RelayIds, NEW id \in Ids,
               context'[q] # Nothing, context'[q].proxySide = id
        PROVE  Opened(id)'
    <3>1. CASE q = r
      BY <1>3, <1>4, <1>5, <2>1, <3>1
    <3>2. CASE q # r
      BY <1>5, <2>1, <3>2, TrailKept DEF RelayTrail, ContextIsOpened, IInv, ClientsInv
    <3>. QED  BY <3>1, <3>2
  <2>. QED  BY <2>1 DEF ContextIsOpened, Nothing
<1>7. ContextIsPast'
  <2>1. link <= link
    BY MaxLinksAssumption DEF RelayTypeOK
  <2>. QED  BY <1>4, <1>5, <2>1 DEF RelayTrail, ContextIsPast
<1>8. CASE UNCHANGED <<toProxy, linkUp>>
  <2>1. /\ AnswerIsOpened' /\ DataIsBehind'
        /\ \A id \in Ids : ToldBy(id, Len(toProxy)) => ToldBy(id, Len(toProxy))'
    BY <1>8, MessagesKept DEF RelayTypeOK, RelayTrail, IInv, ClientsInv
  <2>2. EstablishedIsTold'
    BY <1>4, <1>5, <1>8, <2>1 DEF RelayTrail, EstablishedIsTold
  <2>. QED  BY <1>6, <1>7, <2>1, <2>2 DEF RelayTrail
<1>9. CASE Break
  <2>1. AnswerIsOpened' /\ DataIsBehind'
    BY <1>9, MessagesLost DEF Break
  <2>2. EstablishedIsTold'
    BY <1>9 DEF Break, EstablishedIsTold
  <2>. QED  BY <1>6, <1>7, <2>1, <2>2 DEF RelayTrail
<1>. QED  BY <1>8, <1>9 DEF RelayCreates, Took

\* What a device reports.  ESTABLISHED is sent before the data.
LEMMA DeviceReportsTrail ==
    ASSUME IInv, IInv', Advance, RelayTypeOK, RelayTrail, NEW r \in RelayIds, DeviceReports(r)
    PROVE  RelayTrail'
<1>1. context[r] \in Contexts /\ context[r] # Nothing
  BY DEF DeviceReports, RelayTypeOK, Nothing, Contexts, States
<1>2. PICK own \in Ids : own = context[r].proxySide
  BY <1>1 DEF Contexts
<1>3. PICK cmd \in {"ESTABLISHED", "CLOSED", "UPDATE_TRANSFER", "PostData"} :
        /\ RelayReports(r, cmd)
        /\ \/ /\ cmd = "ESTABLISHED"
              /\ context' = [context EXCEPT ![r].state = "Established"]
           \/ /\ cmd = "CLOSED"
              /\ \E st \in {"Closed", "Failed"} : context' = [context EXCEPT ![r].state = st]
           \/ /\ cmd \in {"UPDATE_TRANSFER", "PostData"}
              /\ context[r].state = "Established"
              /\ UNCHANGED context
  BY DEF DeviceReports
<1>4. UNCHANGED <<link, linkUp>>
  BY <1>3 DEF RelayReports, linkVars
<1>5. /\ \A q \in RelayIds \ {r} : context'[q] = context[q]
      /\ context'[r].proxySide = own /\ context'[r].link = context[r].link
      /\ cmd = "ESTABLISHED" => context'[r].state = "Established"
      /\ cmd = "CLOSED" => context'[r].state \in {"Closed", "Failed"}
      /\ cmd \notin {"ESTABLISHED", "CLOSED"} => context'[r].state = context[r].state
  BY <1>1, <1>2, <1>3 DEF RelayTypeOK, Contexts
<1>6. Opened(own)
  BY <1>1, <1>2 DEF RelayTrail, ContextIsOpened
<1>7. ContextIsOpened'
  <2>1. ASSUME NEW q \in RelayIds, NEW id \in Ids,
               context'[q] # Nothing, context'[q].proxySide = id
        PROVE  Opened(id)'
    <3>1. CASE q = r
      BY <1>5, <1>6, <2>1, <3>1, TrailKept DEF IInv, ClientsInv
    <3>2. CASE q # r
      BY <1>5, <2>1, <3>2, TrailKept DEF RelayTrail, ContextIsOpened, IInv, ClientsInv
    <3>. QED  BY <3>1, <3>2
  <2>. QED  BY <2>1 DEF ContextIsOpened, Nothing
<1>8. ContextIsPast'
  BY <1>1, <1>4, <1>5 DEF RelayTrail, ContextIsPast
<1>. DEFINE m == [cmd |-> cmd, proxySide |-> context[r].proxySide, relaySide |-> r]
<1>9. CASE linkUp /\ context[r].link = link
  <2>1. m \in ProxyMessages /\ m.cmd = cmd /\ own = m.proxySide
    BY <1>2 DEF ProxyMessages
  <2>2. toProxy' = Append(toProxy, m)
    BY <1>3, <1>9 DEF RelayReports, Tell
  <2>. HIDE DEF m
  <2>3. m.cmd = "PostData" => ToldBy(own, Len(toProxy))
    BY <1>1, <1>2, <1>3, <1>9, <2>1 DEF RelayTrail, EstablishedIsTold
  <2>4. /\ AnswerIsOpened' /\ DataIsBehind'
        /\ \A id \in Ids : ToldBy(id, Len(toProxy)) => ToldBy(id, Len(toProxy))'
        /\ m.cmd = "ESTABLISHED" => ToldBy(own, Len(toProxy))'
    BY <1>6, <2>1, <2>2, <2>3, MessageAdded DEF RelayTypeOK, RelayTrail, IInv, ClientsInv
  <2>5. ASSUME NEW q \in RelayIds, NEW id \in Ids,
               context'[q] # Nothing, context'[q].state = "Established",
               linkUp', context'[q].link = link', context'[q].proxySide = id
        PROVE  ToldBy(id, Len(toProxy))'
    <3>1. CASE q # r
      BY <1>4, <1>5, <2>4, <2>5, <3>1 DEF RelayTrail, EstablishedIsTold
    <3>2. CASE q = r /\ cmd = "ESTABLISHED"
      BY <1>5, <2>1, <2>4, <2>5, <3>2
    <3>3. CASE q = r /\ cmd # "ESTABLISHED"
      <4>1. id = own /\ context[r].state = "Established"
        BY <1>3, <1>5, <2>5, <3>3
      <4>2. ToldBy(own, Len(toProxy))
        BY <1>1, <1>2, <1>9, <4>1 DEF RelayTrail, EstablishedIsTold
      <4>. QED  BY <2>4, <4>1, <4>2
    <3>. QED  BY <3>1, <3>2, <3>3
  <2>6. EstablishedIsTold'
    BY <2>5 DEF EstablishedIsTold, Nothing
  <2>. QED  BY <1>7, <1>8, <2>4, <2>6 DEF RelayTrail
<1>10. CASE ~(linkUp /\ context[r].link = link)
  <2>1. UNCHANGED toProxy
    BY <1>3, <1>10 DEF RelayReports
  <2>2. /\ AnswerIsOpened' /\ DataIsBehind'
        /\ \A id \in Ids : ToldBy(id, Len(toProxy)) => ToldBy(id, Len(toProxy))'
    BY <2>1, MessagesKept DEF RelayTypeOK, RelayTrail, IInv, ClientsInv
  <2>3. EstablishedIsTold'
    BY <1>4, <1>5, <1>10, <2>2 DEF RelayTrail, EstablishedIsTold
  <2>. QED  BY <1>7, <1>8, <2>2, <2>3 DEF RelayTrail
<1>. QED  BY <1>9, <1>10

\* The connection breaks, and the relay may have forgotten its contexts.
LEMMA BreakTrail ==
    ASSUME IInv, IInv', Advance, RelayTrail, Break, UNCHANGED link,
           \/ UNCHANGED context
           \/ context' = [r \in RelayIds |-> Nothing]
    PROVE  RelayTrail'
<1>1. AnswerIsOpened' /\ DataIsBehind'
  BY MessagesLost DEF Break
<1>2. EstablishedIsTold'
  BY DEF Break, EstablishedIsTold
<1>3. ContextIsOpened' /\ ContextIsPast'
  BY TrailKept DEF RelayTrail, ContextIsOpened, ContextIsPast, IInv, ClientsInv
<1>. QED  BY <1>1, <1>2, <1>3 DEF RelayTrail

\* No context of an earlier connection is served on the next one.
LEMMA LinkUpTrail ==
    ASSUME IInv, IInv', Advance, RelayTypeOK, RelayTrail, LinkUp
    PROVE  RelayTrail'
<1>1. AnswerIsOpened' /\ DataIsBehind'
  BY MessagesKept DEF LinkUp, RelayTypeOK, RelayTrail, IInv, ClientsInv
<1>2. ContextIsOpened'
  BY TrailKept DEF LinkUp, RelayTrail, ContextIsOpened, IInv, ClientsInv
<1>3. ASSUME NEW r \in RelayIds, context[r] # Nothing
      PROVE  context[r].link <= link' /\ context[r].link # link'
  <2>1. context[r].link \in Nat /\ link \in Nat /\ link' = link + 1
    BY <1>3, MaxLinksAssumption DEF LinkUp, RelayTypeOK, Contexts
  <2>. QED  BY <1>3, <2>1 DEF RelayTrail, ContextIsPast
<1>4. ContextIsPast' /\ EstablishedIsTold'
  BY <1>3 DEF LinkUp, ContextIsPast, EstablishedIsTold
<1>. QED  BY <1>1, <1>2, <1>4 DEF RelayTrail

-----------------------------------------------------------------------------
(* What arrives at server_proxy_access *)

LEMMA StateChangeAdvances ==
    ASSUME ClientsInv, NEW id \in Ids, NEW r, NEW state,
           OnRelaySideConnectionStateChange(id, state, r)
    PROVE  Advance
<1>. id.slot \in Slots
  BY IdFacts
<1>1. CASE StateAborts(id, state) \/ StateIgnored(id, state)
  BY <1>1, StillAdvances DEF StateAborts, StateIgnored, ClientsInv
<1>2. CASE StateEstablished(id, r) \/ StateClosed(id)
  BY <1>2, ClientBoundsAssumption
  DEF StateEstablished, StateClosed, Advance, ClientsInv, ClientsSound, Clients
<1>. QED  BY <1>1, <1>2 DEF OnRelaySideConnectionStateChange

LEMMA StateChangeTrail ==
    ASSUME ClientsInv, ClientsSound', CreateIsOpened, Advance,
           NEW id \in Ids, NEW r, NEW state, state = "ESTABLISHED" => r \in RelayIds,
           OnRelaySideConnectionStateChange(id, state, r)
    PROVE  CreateIsOpened'
<1>. id.slot \in Slots
  BY IdFacts
<1>1. CASE UNCHANGED linkVars
  BY <1>1, QuietTrail
<1>2. CASE state = "ESTABLISHED" /\ StateEstablished(id, r) /\ Upload(id.slot, r)
  <2>1. InUse(id.slot)
    BY <1>2 DEF StateEstablished, Found
  <2>. QED  BY <1>2, <2>1, UploadTrail
<1>. QED  BY <1>1, <1>2
     DEF OnRelaySideConnectionStateChange, StateAborts, StateClosed, StateIgnored, StateEstablished

\* After ESTABLISHED the client has its answer, whichever phase it was in.
LEMMA EstablishedTells ==
    ASSUME ClientsInv, NEW id \in Ids, NEW r, Opened(id),
           OnRelaySideConnectionStateChange(id, "ESTABLISHED", r)
    PROVE  Told(id)'
<1>. id.slot \in Slots
  BY IdFacts
<1>1. CASE StateEstablished(id, r)
  BY <1>1 DEF StateEstablished, Opened, Told, ClientsInv, ClientsSound, Clients
<1>2. CASE StateIgnored(id, "ESTABLISHED")
  BY <1>2 DEF StateIgnored, Opened, Told, Found, InUse
<1>. QED  BY <1>1, <1>2 DEF OnRelaySideConnectionStateChange, StateAborts

LEMMA DestroyTrail ==
    ASSUME ClientsInv, ClientsSound', CreateIsOpened, NEW id \in Ids, OnDestroyConnection(id)
    PROVE  Advance /\ CreateIsOpened'
<1>. id.slot \in Slots
  BY IdFacts
<1>1. CASE UNCHANGED client
  BY <1>1, StillAdvances, QuietTrail DEF OnDestroyConnection, ClientsInv
<1>2. CASE Killed(id.slot)
  BY <1>2, ListAdvances, QuietTrail DEF OnDestroyConnection, Killed, ClientsInv
<1>3. CASE \E l \in {"Linger", "Kill"} :
             /\ Found(id)
             /\ client' = [client EXCEPT ![id.slot].phase = "Closed", ![id.slot].list = l]
  <2>1. Advance
    BY <1>3, ClientBoundsAssumption
    DEF Found, InUse, Advance, ClientsInv, ClientsSound, Clients
  <2>. QED  BY <2>1, QuietTrail DEF OnDestroyConnection
<1>. QED  BY <1>1, <1>2, <1>3 DEF OnDestroyConnection

LEMMA PushDataTrail ==
    ASSUME ClientsInv, ClientsSound', CreateIsOpened, NEW id \in Ids, OnRelaySidePushData(id)
    PROVE  Advance /\ CreateIsOpened'
<1>. DEFINE s == id.slot
            n == Message("NotifyState", s, client[s].relaySide)
<1>1. s \in Slots /\ Advance
  BY IdFacts, StillAdvances DEF OnRelaySidePushData, ClientsInv
<1>2. CASE UNCHANGED linkVars
  BY <1>1, <1>2, QuietTrail
<1>3. CASE Found(id) /\ Post(<<n>>)
  <2>1. InUse(s) /\ client[s] \in Clients
    BY <1>1, <1>3, IdFacts, InUseIsNamed DEF ClientsInv
  <2>2. n \in RelayMessages /\ n.cmd # "Create"
    BY <1>1, <2>1, OtherMessages DEF ClientsInv, Clients, Message
  <2>. HIDE DEF n
  <2>3. <<n>> \in Seq(RelayMessages) /\ \A i \in 1..Len(<<n>>) : <<n>>[i].cmd # "Create"
    BY <2>2
  <2>. QED  BY <1>1, <1>3, <2>3, CreatesGrow
<1>. QED  BY <1>2, <1>3 DEF OnRelaySidePushData

\* The first message is taken; an answer among the first n is then told to the
\* client or among the first n - 1.
LEMMA HeadTaken ==
    ASSUME ClientsSound, ClientsSound', Advance, toProxy \in Seq(ProxyMessages),
           toProxy # <<>>, toProxy' = Tail(toProxy),
           AnswerIsOpened, DataIsBehind,
           \A id \in Ids : /\ toProxy[1].cmd = "ESTABLISHED"
                           /\ toProxy[1].proxySide = id
                           => Told(id)'
    PROVE  /\ AnswerIsOpened' /\ DataIsBehind'
           /\ \A id \in Ids : ToldBy(id, Len(toProxy)) => ToldBy(id, Len(toProxy))'
<1>1. PICK l \in Nat : l = Len(toProxy)
  BY LenProperties
<1>2. /\ l \in Nat \ {0}
      /\ Len(toProxy') = l - 1
      /\ \A j \in 1..(l - 1) : toProxy'[j] = toProxy[j + 1]
  BY <1>1, HeadTailProperties, LenProperties, EmptySeq
<1>3. ASSUME NEW id \in Ids, NEW n \in 1..l, ToldBy(id, n) PROVE ToldBy(id, n - 1)'
  <2>1. CASE Told(id)
    BY <2>1, TrailKept DEF ToldBy
  <2>2. ASSUME NEW j \in 1..n, toProxy[j].cmd = "ESTABLISHED", toProxy[j].proxySide = id
        PROVE  ToldBy(id, n - 1)'
    <3>1. CASE j = 1
      BY <2>2, <3>1 DEF ToldBy
    <3>2. CASE j # 1
      <4>1. j - 1 \in 1..(n - 1) /\ j - 1 \in 1..(l - 1) /\ (j - 1) + 1 = j
        BY <1>2, <3>2
      <4>2. toProxy'[j - 1] = toProxy[j]
        BY <1>2, <4>1
      <4>. QED  BY <2>2, <4>1, <4>2 DEF ToldBy
    <3>. QED  BY <3>1, <3>2
  <2>. QED  BY <1>3, <2>1, <2>2 DEF ToldBy
<1>4. ASSUME NEW i \in 1..(l - 1)
      PROVE  i + 1 \in 1..l /\ (i + 1) - 1 = i /\ toProxy'[i] = toProxy[i + 1]
  BY <1>2
<1>5. AnswerIsOpened'
  BY <1>1, <1>2, <1>4, TrailKept DEF AnswerIsOpened
<1>6. DataIsBehind'
  <2>1. ASSUME NEW i \in 1..(l - 1), NEW id \in Ids,
               toProxy'[i].cmd = "PostData", toProxy'[i].proxySide = id
        PROVE  ToldBy(id, i - 1)'
    <3>1. ToldBy(id, i)
      BY <1>1, <1>4, <2>1 DEF DataIsBehind
    <3>2. i \in 1..l
      BY <1>2
    <3>. QED  BY <1>3, <3>1, <3>2
  <2>. QED  BY <1>2, <2>1 DEF DataIsBehind
<1>7. ASSUME NEW id \in Ids, ToldBy(id, Len(toProxy)) PROVE ToldBy(id, Len(toProxy))'
  <2>1. ToldBy(id, l - 1)'
    BY <1>1, <1>2, <1>3, <1>7
  <2>. QED  BY <1>2, <2>1 DEF ToldBy
<1>. QED  BY <1>5, <1>6, <1>7

LEMMA ServerPacketTrail ==
    ASSUME IInv, IInv', RelayTypeOK, CreateIsOpened, RelayTrail, OnServerPacket
    PROVE  CreateIsOpened' /\ RelayTrail' /\ DataIsOwnAndBehindAnswer'
<1>1. /\ toProxy \in Seq(ProxyMessages) /\ toProxy # <<>> /\ toProxy' = Tail(toProxy)
      /\ UNCHANGED <<link, context>>
  BY DEF OnServerPacket, RelayTypeOK
<1>2. PICK m \in ProxyMessages : m = Head(toProxy)
  BY <1>1, HeadTailProperties
<1>3. toProxy[1] = m /\ 1 \in 1..Len(toProxy)
  <2>1. Len(toProxy) \in Nat /\ Len(toProxy) # 0
    BY <1>1, LenProperties, EmptySeq
  <2>. QED  BY <1>1, <1>2, <2>1
<1>4. PICK own \in Ids : own = m.proxySide
  BY DEF ProxyMessages
<1>. ClientsInv /\ ClientsSound /\ ClientsSound' /\ own.slot \in Slots
  BY IdFacts DEF IInv, ClientsInv
<1>5. /\ Advance /\ CreateIsOpened' /\ UNCHANGED linkUp
      /\ m.cmd = "ESTABLISHED" => Told(own)'
      /\ DataIsOwnAndBehindAnswer'
  <2>1. CASE /\ m.cmd \in {"ESTABLISHED", "UPDATE_TRANSFER", "CLOSED"}
             /\ OnRelaySideConnectionStateChange(own, m.cmd, m.relaySide)
    <3>1. m.cmd = "ESTABLISHED" => m.relaySide \in RelayIds
      BY DEF ProxyMessages
    <3>2. Advance
      BY <2>1, StateChangeAdvances
    <3>3. CreateIsOpened'
      BY <2>1, <3>1, <3>2, StateChangeTrail
    <3>4. m.cmd = "ESTABLISHED" => Told(own)'
      <4>1. m.cmd = "ESTABLISHED" => Opened(own)
        BY <1>3, <1>4 DEF RelayTrail, AnswerIsOpened
      <4>2. m.cmd = "ESTABLISHED" => OnRelaySideConnectionStateChange(own, "ESTABLISHED", m.relaySide)
        BY <2>1
      <4>. QED  BY <4>1, <4>2, EstablishedTells
    <3>5. UNCHANGED linkUp /\ delivered' = {}
      BY <2>1 DEF OnRelaySideConnectionStateChange, StateAborts, StateEstablished, StateClosed,
         StateIgnored, Upload, Post, Quiet, linkVars
    <3>6. DataIsOwnAndBehindAnswer'
      BY <3>5 DEF DataIsOwnAndBehindAnswer
    <3>. QED  BY <3>2, <3>3, <3>4, <3>5, <3>6
  <2>2. CASE m.cmd = "DestroyConnection" /\ OnDestroyConnection(own)
    <3>1. UNCHANGED linkUp /\ delivered' = {}
      BY <2>2 DEF OnDestroyConnection, Quiet, linkVars
    <3>2. DataIsOwnAndBehindAnswer'
      BY <3>1 DEF DataIsOwnAndBehindAnswer
    <3>. QED  BY <2>2, <3>1, <3>2, DestroyTrail
  <2>3. CASE m.cmd = "PostData" /\ OnRelaySidePushData(own)
    <3>1. UNCHANGED linkUp
      BY <2>3 DEF OnRelaySidePushData, Post, linkVars
    <3>2. Told(own)
      <4>1. ToldBy(own, 1 - 1)
        BY <1>3, <1>4, <2>3 DEF RelayTrail, DataIsBehind
      <4>. QED  BY <4>1 DEF ToldBy
    <3>3. DataIsOwnAndBehindAnswer'
      <4>1. CASE delivered' = {}
        BY <4>1 DEF DataIsOwnAndBehindAnswer
      <4>2. CASE Found(own) /\ delivered' = {[to |-> IdOf(own.slot), sender |-> own]}
        <5>1. IdOf(own.slot) = own
          BY <4>2, IdFacts
        <5>2. client' = client /\ client[own.slot].phase \in {"Ready", "Closed"}
          BY <2>3, <3>2, <4>2 DEF OnRelaySidePushData, Told
        <5>. QED  BY <4>2, <5>1, <5>2 DEF DataIsOwnAndBehindAnswer
      <4>. QED  BY <2>3, <4>1, <4>2 DEF OnRelaySidePushData
    <3>. QED  BY <2>3, <3>1, <3>3, PushDataTrail
  <2>. QED  BY <1>2, <1>4, <2>1, <2>2, <2>3 DEF OnServerPacket
<1>6. /\ AnswerIsOpened' /\ DataIsBehind'
      /\ \A id \in Ids : ToldBy(id, Len(toProxy)) => ToldBy(id, Len(toProxy))'
  <2>1. \A id \in Ids : toProxy[1].cmd = "ESTABLISHED" /\ toProxy[1].proxySide = id => Told(id)'
    BY <1>3, <1>4, <1>5
  <2>. QED  BY <1>1, <1>5, <2>1, HeadTaken DEF RelayTrail
<1>7. ContextIsOpened' /\ ContextIsPast'
  BY <1>1, <1>5, TrailKept DEF RelayTrail, ContextIsOpened, ContextIsPast
<1>8. EstablishedIsTold'
  BY <1>1, <1>5, <1>6 DEF RelayTrail, EstablishedIsTold
<1>. QED  BY <1>5, <1>6, <1>7, <1>8 DEF RelayTrail

-----------------------------------------------------------------------------
LEMMA NoDelivery == delivered' = {} => DataIsOwnAndBehindAnswer'
BY DEF DataIsOwnAndBehindAnswer

LEMMA UnseenTrail ==
    ASSUME ClientsInv, ClientsSound', CreateIsOpened, UNCHANGED client,
           \/ UNCHANGED toRelay
           \/ toRelay' = <<>>
           \/ toRelay # <<>> /\ toRelay' = Tail(toRelay)
    PROVE  Advance /\ CreateIsOpened'
<1>1. Advance
  BY StillAdvances DEF ClientsInv
<1>. QED  BY <1>1, CreatesKept, CreatesShrink

LEMMA NextTrail ==
    ASSUME IInv, IInv', RelayTypeOK, CreateIsOpened, RelayTrail, Next
    PROVE  CreateIsOpened' /\ RelayTrail' /\ DataIsOwnAndBehindAnswer'
<1>. ClientsInv /\ ClientsSound /\ ClientsSound'
  BY DEF IInv, ClientsInv
<1>1. CASE ProxyStep
  <2>1. Advance /\ CreateIsOpened'
    BY <1>1, ClientStepTrail, AuthResultTrail, DeviceSelectedTrail, TickTrail
    DEF ProxyStep, BackStep
  <2>2. UNCHANGED linkUp /\ delivered' = {}
    <3>1. ASSUME NEW s \in Slots, ClientStep(s) PROVE UNCHANGED linkUp /\ delivered' = {}
      BY <3>1 DEF ClientStep, OnNewConnection, OnChallenge, OnCredentials, OnBadHttpChallenge,
         OnS5ConnectionRequest, OnBadS5ConnectionRequest, OnUploadData, OnUnexpectedData,
         OnPeerClose, Open, Upload, Post, Quiet, linkVars
    <3>2. ASSUME NEW id \in Ids, BackStep(id) PROVE UNCHANGED linkUp /\ delivered' = {}
      BY <3>2 DEF BackStep, OnAuthResult, OnDeviceSelected, Open, Post, Quiet, linkVars
    <3>3. ASSUME OnTick PROVE UNCHANGED linkUp /\ delivered' = {}
      BY <3>3 DEF OnTick, TickWith, Quiet, linkVars
    <3>. QED  BY <1>1, <3>1, <3>2, <3>3 DEF ProxyStep
  <2>. QED  BY <1>1, <2>1, <2>2, ProxyStepTrail, NoDelivery DEF ProxyStep
<1>2. CASE OnServerPacket
  BY <1>2, ServerPacketTrail
<1>3. CASE RelayStep
  <2>1. delivered' = {} /\ UNCHANGED client
    BY <1>3 DEF RelayStep, RelayRefuses, RelayForwards, RelayCreates, Takes,
       DeviceReports, RelayReports
  <2>2. \/ UNCHANGED toRelay
        \/ toRelay' = <<>>
        \/ toRelay # <<>> /\ toRelay' = Tail(toRelay)
    BY <1>3 DEF RelayStep, RelayRefuses, RelayForwards, RelayCreates, Takes, Took, Break,
       DeviceReports, RelayReports, linkVars
  <2>3. Advance /\ CreateIsOpened'
    BY <2>1, <2>2, UnseenTrail
  <2>4. ASSUME toRelay # <<>> PROVE Head(toRelay) \in RelayMessages
    BY <2>4, HeadOfRelay
  <2>5. RelayTrail'
    BY <1>3, <2>3, <2>4, RelayRefusesTrail, RelayForwardsTrail, RelayCreatesTrail,
       DeviceReportsTrail DEF RelayStep
  <2>. QED  BY <2>1, <2>3, <2>5, NoDelivery
<1>4. CASE LinkBreaks \/ RelayRestarts
  <2>1. Advance /\ CreateIsOpened'
    BY <1>4, UnseenTrail DEF LinkBreaks, RelayRestarts, Break
  <2>. QED  BY <1>4, <2>1, BreakTrail, NoDelivery DEF LinkBreaks, RelayRestarts
<1>5. CASE LinkUp
  <2>1. Advance /\ CreateIsOpened'
    BY <1>5, UnseenTrail DEF LinkUp
  <2>. QED  BY <1>5, <2>1, LinkUpTrail, NoDelivery DEF LinkUp
<1>. QED  BY <1>1, <1>2, <1>3, <1>4, <1>5 DEF Next

THEOREM TrailInvariance == Spec => []TrailInv
<1>1. Init => TrailInv
  BY InitIInv, EmptySeq
  DEF TrailInv, Trail, CreateIsOpened, ContextIsOpened, ContextIsPast, AnswerIsOpened,
      DataIsBehind, EstablishedIsTold, DataIsOwnAndBehindAnswer, Init, ClientsInit
<1>2. IInv /\ IInv' /\ TrailInv /\ [Next]_vars => TrailInv'
  <2>1. IInv => RelayTypeOK
    BY DEF IInv, TypeOK, RelayTypeOK
  <2>2. CASE Next
    BY <2>1, <2>2, NextTrail DEF TrailInv, Trail, RelayTrail
  <2>3. CASE UNCHANGED vars
    BY <2>3
    DEF vars, clientVars, backVars, linkVars, relayVars, TrailInv, Trail, CreateIsOpened,
        ContextIsOpened, ContextIsPast, AnswerIsOpened, DataIsBehind, EstablishedIsTold,
        DataIsOwnAndBehindAnswer, Opened, Told, ToldBy, Found, InUse
  <2>. QED  BY <2>2, <2>3
<1>. QED  BY <1>1, <1>2, Invariance, PTL DEF Spec

\* Data of the remote side (OnRelaySidePushData) is posted to the client it was
\* relayed for, which has had the answer that it is connected: ESTABLISHED
\* cannot be overtaken, and what is under way when the connection to the relay
\* breaks is lost together.
THEOREM DataIsOwn == Spec => []DataIsOwnAndBehindAnswer
<1>1. TrailInv => DataIsOwnAndBehindAnswer
  BY DEF TrailInv
<1>. QED  BY TrailInvariance, <1>1, PTL

-----------------------------------------------------------------------------
(* Uploads on established connections.  A client is ready, data of it is     *)
(* under way to the relay or its answer on the way to it only if the context *)
(* it names, when it is the client's own, was established; and as long as    *)
(* the request for a connection is under way there is no other trace of it.  *)

HasCreate(id) ==
    \E i \in 1..Len(toRelay) : toRelay[i].cmd = "Create" /\ toRelay[i].proxySide = id

HasData(id, r) ==
    \E i \in 1..Len(toRelay) :
        toRelay[i].cmd = "PostData" /\ toRelay[i].proxySide = id /\ toRelay[i].relaySide = r

HasAnswer(id, r) ==
    \E i \in 1..Len(toProxy) :
        toProxy[i].cmd = "ESTABLISHED" /\ toProxy[i].proxySide = id /\ toProxy[i].relaySide = r

IsReady(id, r) ==
    Found(id) /\ client[id.slot].phase = "Ready" /\ client[id.slot].relaySide = r

Use(id, r) == HasData(id, r) \/ HasAnswer(id, r) \/ IsReady(id, r)

HasContext(id, r) == context[r] # Nothing /\ context[r].proxySide = id

Past(id, r) == HasContext(id, r) => context[r].state \in {"Established", "Closed"}

UseIsPast ==
    \A id \in Ids, r \in RelayIds : Use(id, r) => Past(id, r) /\ Opened(id)

AskedIsNew ==
    \A id \in Ids, r \in RelayIds : HasCreate(id) => ~Use(id, r) /\ ~HasContext(id, r)

AskedOnce ==
    \A i, j \in 1..Len(toRelay) :
        /\ toRelay[i].cmd = "Create" /\ toRelay[j].cmd = "Create"
        /\ toRelay[i].proxySide = toRelay[j].proxySide
        => i = j

ContextIsOwn ==
    \A r \in RelayIds : context[r] # Nothing =>
        context[r].proxySide \in authorised /\ context[r].device = context[r].proxySide

UploadTrailInv == UseIsPast /\ AskedIsNew /\ AskedOnce /\ ContextIsOwn

\* The invariant of what is uploaded.
UploadInv == UploadTrailInv /\ UploadIsOnEstablished

\* Nothing is used that was not, and connections are asked for only by clients
\* of which nothing was asked.
Calm ==
    \A id \in Ids, r \in RelayIds :
        /\ Use(id, r)' => Use(id, r)
        /\ HasCreate(id)' => HasCreate(id) \/ ~Opened(id)

\* No client becomes ready.
NoNewReady ==
    \A s \in Slots : client'[s].phase = "Ready" =>
        /\ client[s].phase = "Ready" /\ client'[s].gen = client[s].gen
        /\ client'[s].relaySide = client[s].relaySide

AnswersKept == \A id \in Ids, r \in RelayIds : HasAnswer(id, r)' => HasAnswer(id, r)

-----------------------------------------------------------------------------
LEMMA ReadyKept ==
    ASSUME NoNewReady
    PROVE  \A id \in Ids, r \in RelayIds : IsReady(id, r)' => IsReady(id, r)
BY IdFacts DEF NoNewReady, IsReady, Found, InUse

LEMMA CalmKeeps ==
    ASSUME ClientsSound, ClientsSound', Advance, ContextIsOpened,
           UseIsPast, AskedIsNew, ContextIsOwn, Calm, UNCHANGED context,
           authorised \subseteq authorised'
    PROVE  UseIsPast' /\ AskedIsNew' /\ ContextIsOwn'
<1>1. ContextIsOwn'
  BY DEF ContextIsOwn
<1>2. \A id \in Ids : Opened(id) => Opened(id)'
  BY TrailKept
<1>3. \A id \in Ids, r \in RelayIds : /\ HasContext(id, r)' <=> HasContext(id, r)
                                      /\ Past(id, r)' <=> Past(id, r)
  BY DEF HasContext, Past
<1>4. \A id \in Ids, r \in RelayIds : HasContext(id, r) => Opened(id)
  BY DEF HasContext, ContextIsOpened
<1>5. UseIsPast'
  BY <1>2, <1>3 DEF UseIsPast, Calm
<1>6. AskedIsNew'
  BY <1>3, <1>4 DEF AskedIsNew, UseIsPast, Calm
<1>. QED  BY <1>1, <1>5, <1>6

-----------------------------------------------------------------------------
(* The requests and the data under way *)

LEMMA RequestsShrink ==
    ASSUME toRelay \in Seq(RelayMessages), AskedOnce,
           \/ UNCHANGED toRelay
           \/ toRelay' = <<>>
           \/ toRelay # <<>> /\ toRelay' = Tail(toRelay)
    PROVE  /\ \A id \in Ids : HasCreate(id)' => HasCreate(id)
           /\ \A id \in Ids, r \in RelayIds : HasData(id, r)' => HasData(id, r)
           /\ AskedOnce'
<1>1. CASE UNCHANGED toRelay
  BY <1>1 DEF HasCreate, HasData, AskedOnce
<1>2. CASE toRelay' = <<>>
  BY <1>2, EmptySeq DEF HasCreate, HasData, AskedOnce
<1>3. CASE toRelay # <<>> /\ toRelay' = Tail(toRelay)
  <2>1. PICK l \in Nat : l = Len(toRelay)
    BY LenProperties
  <2>2. /\ Len(toRelay') = l - 1
        /\ \A i \in 1..(l - 1) : toRelay'[i] = toRelay[i + 1]
    BY <1>3, <2>1, HeadTailProperties
  <2>3. \A i \in 1..(l - 1) : i + 1 \in 1..l
    BY <2>1
  <2>4. \A id \in Ids : HasCreate(id)' => HasCreate(id)
    BY <2>1, <2>2, <2>3 DEF HasCreate
  <2>5. \A id \in Ids, r \in RelayIds : HasData(id, r)' => HasData(id, r)
    BY <2>1, <2>2, <2>3 DEF HasData
  <2>6. AskedOnce'
    <3>1. ASSUME NEW i \in 1..(l - 1), NEW j \in 1..(l - 1),
                 toRelay'[i].cmd = "Create", toRelay'[j].cmd = "Create",
                 toRelay'[i].proxySide = toRelay'[j].proxySide
          PROVE  i = j
      <4>1. i + 1 = j + 1
        BY <2>1, <2>2, <2>3, <3>1 DEF AskedOnce
      <4>. QED  BY <4>1
    <3>. QED  BY <2>2, <3>1 DEF AskedOnce
  <2>. QED  BY <2>4, <2>5, <2>6
<1>. QED  BY <1>1, <1>2, <1>3

\* What the messages of a longer queue are.
LEMMA LongerQueue ==
    ASSUME toRelay \in Seq(RelayMessages), NEW ms \in Seq(RelayMessages),
           toRelay' = toRelay \o ms
    PROVE  \A i \in 1..Len(toRelay') :
              \/ i \in 1..Len(toRelay) /\ toRelay'[i] = toRelay[i]
              \/ i - Len(toRelay) \in 1..Len(ms) /\ toRelay'[i] = ms[i - Len(toRelay)]
<1>1. /\ Len(toRelay') = Len(toRelay) + Len(ms)
      /\ \A i \in 1..Len(toRelay) + Len(ms) :
            toRelay'[i] = IF i <= Len(toRelay) THEN toRelay[i] ELSE ms[i - Len(toRelay)]
  BY ConcatProperties
<1>2. Len(toRelay) \in Nat /\ Len(ms) \in Nat
  BY LenProperties
<1>3. ASSUME NEW i \in 1..Len(toRelay')
      PROVE  i \in 1..Len(toRelay) \/ (~(i <= Len(toRelay)) /\ i - Len(toRelay) \in 1..Len(ms))
  BY <1>1, <1>2
<1>4. \A i \in 1..Len(toRelay) : i <= Len(toRelay)
  BY <1>2
<1>. QED  BY <1>1, <1>3, <1>4

DataOf(m, own, q) ==
    \/ m.cmd = "PostData" /\ m.proxySide = own /\ m.relaySide = q
    \/ m.cmd = "NotifyState"

\* Post of data of a client, and of reports.
LEMMA DataPosted ==
    ASSUME toRelay \in Seq(RelayMessages), AskedOnce,
           NEW ms \in Seq(RelayMessages), Post(ms), NEW own, NEW q,
           \A i \in 1..Len(ms) : DataOf(ms[i], own, q)
    PROVE  /\ \A id \in Ids : HasCreate(id)' => HasCreate(id)
           /\ \A id \in Ids, r \in RelayIds :
                 HasData(id, r)' => HasData(id, r) \/ (id = own /\ r = q)
           /\ AskedOnce'
<1>1. CASE UNCHANGED toRelay
  BY <1>1, RequestsShrink
<1>2. CASE toRelay' = toRelay \o ms
  <2>1. \A i \in 1..Len(toRelay') :
           \/ i \in 1..Len(toRelay) /\ toRelay'[i] = toRelay[i]
           \/ toRelay'[i].cmd = "PostData" /\ toRelay'[i].proxySide = own /\ toRelay'[i].relaySide = q
           \/ toRelay'[i].cmd = "NotifyState"
    BY <1>2, LongerQueue DEF DataOf
  <2>2. \A id \in Ids : HasCreate(id)' => HasCreate(id)
    BY <2>1 DEF HasCreate
  <2>3. \A id \in Ids, r \in RelayIds :
           HasData(id, r)' => HasData(id, r) \/ (id = own /\ r = q)
    BY <2>1 DEF HasData
  <2>4. AskedOnce'
    BY <2>1 DEF AskedOnce
  <2>. QED  BY <2>2, <2>3, <2>4
<1>. QED  BY <1>1, <1>2 DEF Post

\* Post of the request for a connection.
LEMMA CreatePosted ==
    ASSUME toRelay \in Seq(RelayMessages), AskedOnce,
           NEW m \in RelayMessages, m.cmd = "Create", NEW own \in Ids, m.proxySide = own,
           ~HasCreate(own), Post(<<m>>)
    PROVE  /\ \A id \in Ids : HasCreate(id)' => HasCreate(id) \/ id = own
           /\ \A id \in Ids, r \in RelayIds : HasData(id, r)' => HasData(id, r)
           /\ AskedOnce'
<1>1. CASE UNCHANGED toRelay
  BY <1>1, RequestsShrink
<1>2. CASE toRelay' = toRelay \o <<m>>
  <2>1. PICK l \in Nat : l = Len(toRelay)
    BY LenProperties
  <2>2. \A i \in 1..Len(toRelay') :
           \/ i \in 1..l /\ toRelay'[i] = toRelay[i]
           \/ i = l + 1 /\ toRelay'[i] = m
    <3>1. <<m>> \in Seq(RelayMessages) /\ Len(<<m>>) = 1 /\ <<m>>[1] = m
      OBVIOUS
    <3>2. ASSUME NEW i \in 1..Len(toRelay'), i - l \in 1..1 PROVE i = l + 1
      <4>1. Len(toRelay') = l + 1
        BY <1>2, <2>1, <3>1, ConcatProperties
      <4>. QED  BY <3>2, <4>1
    <3>3. \A i \in 1..Len(toRelay') :
             \/ i \in 1..l /\ toRelay'[i] = toRelay[i]
             \/ i - l \in 1..1 /\ toRelay'[i] = <<m>>[i - l]
      BY <1>2, <2>1, <3>1, LongerQueue
    <3>4. (l + 1) - l = 1
      BY <2>1
    <3>. QED  BY <3>1, <3>2, <3>3, <3>4
  <2>3. \A id \in Ids : HasCreate(id)' => HasCreate(id) \/ id = own
    BY <2>1, <2>2 DEF HasCreate
  <2>4. \A id \in Ids, r \in RelayIds : HasData(id, r)' => HasData(id, r)
    BY <2>1, <2>2 DEF HasData
  <2>5. AskedOnce'
    BY <2>1, <2>2 DEF AskedOnce, HasCreate
  <2>. QED  BY <2>3, <2>4, <2>5
<1>. QED  BY <1>1, <1>2 DEF Post

-----------------------------------------------------------------------------
(* The steps of server_proxy_access are calm *)

\* Nothing is posted, and no client becomes ready.
LEMMA QuietCalm ==
    ASSUME ClientsInv, AskedOnce, AnswersKept, NoNewReady, UNCHANGED linkVars
    PROVE  Calm /\ AskedOnce'
<1>1. toRelay \in Seq(RelayMessages) /\ UNCHANGED toRelay
  BY DEF ClientsInv, ClientsTypeOK, linkVars
<1>2. /\ \A id \in Ids : HasCreate(id)' => HasCreate(id)
      /\ \A id \in Ids, r \in RelayIds : HasData(id, r)' => HasData(id, r)
      /\ AskedOnce'
  BY <1>1, RequestsShrink
<1>3. \A id \in Ids, r \in RelayIds : IsReady(id, r)' => IsReady(id, r)
  BY ReadyKept
<1>. QED  BY <1>2, <1>3 DEF Calm, Use, AnswersKept

\* Data of a client that is ready, or becomes so by an answer that was there.
LEMMA UploadCalm ==
    ASSUME ClientsInv, AskedOnce, AnswersKept,
           NEW s \in Slots, InUse(s), NEW q \in RelayIds, Upload(s, q), Use(IdOf(s), q),
           \A id \in Ids, r \in RelayIds :
               IsReady(id, r)' => IsReady(id, r) \/ (id = IdOf(s) /\ r = q)
    PROVE  Calm /\ AskedOnce'
<1>. DEFINE d == Message("PostData", s, q)
            n == Message("NotifyState", s, q)
<1>1. d \in RelayMessages /\ n \in RelayMessages
  BY OtherMessages, NoneAssumption DEF ClientsInv
<1>2. DataOf(d, IdOf(s), q) /\ DataOf(n, IdOf(s), q)
  BY DEF DataOf, Message
<1>4. toRelay \in Seq(RelayMessages)
  BY DEF ClientsInv, ClientsTypeOK
<1>. HIDE DEF d, n
<1>3. /\ \A id \in Ids : HasCreate(id)' => HasCreate(id)
      /\ \A id \in Ids, r \in RelayIds :
            HasData(id, r)' => HasData(id, r) \/ (id = IdOf(s) /\ r = q)
      /\ AskedOnce'
  <2>1. CASE Post(<<d>>)
    <3>1. <<d>> \in Seq(RelayMessages) /\ \A i \in 1..Len(<<d>>) : DataOf(<<d>>[i], IdOf(s), q)
      BY <1>1, <1>2
    <3>. QED  BY <1>4, <2>1, <3>1, DataPosted
  <2>2. CASE Post(<<d, n>>)
    <3>1. /\ <<d, n>> \in Seq(RelayMessages)
          /\ \A i \in 1..Len(<<d, n>>) : DataOf(<<d, n>>[i], IdOf(s), q)
      BY <1>1, <1>2
    <3>. QED  BY <1>4, <2>2, <3>1, DataPosted
  <2>. QED  BY <2>1, <2>2 DEF Upload, d, n
<1>. QED  BY <1>3 DEF Calm, Use, AnswersKept

\* One connection changes, and does not become ready.
LEMMA OneNotReady ==
    ASSUME ClientsSound, NEW s \in Slots, NEW c,
           c.phase = "Ready" =>
               /\ client[s].phase = "Ready" /\ c.gen = client[s].gen
               /\ c.relaySide = client[s].relaySide,
           client' = [client EXCEPT ![s] = c]
    PROVE  NoNewReady
BY DEF NoNewReady, ClientsSound

\* Fields that do not make it ready.
LEMMA StillNotReady ==
    ASSUME ClientsSound, NEW s \in Slots
    PROVE  /\ UNCHANGED client => NoNewReady
           /\ \A l : client' = [client EXCEPT ![s].list = l] => NoNewReady
           /\ \A a : client' = [client EXCEPT ![s].account = a] => NoNewReady
BY DEF NoNewReady, ClientsSound, Clients

\* OnOpenRemoteConnection, of a client for which nothing was opened.
LEMMA OpenCalm ==
    ASSUME ClientsInv, CreateIsOpened, AskedOnce, AnswersKept,
           NEW s \in Slots, InUse(s), NEW c \in Clients,
           c.phase # "Ready",
           client[s].phase \notin {"WaitForConnectionEstablish", "Ready", "Closed"},
           c.relay => c.device = IdOf(s),
           Open(s, c)
    PROVE  Calm /\ AskedOnce'
<1>. DEFINE opened == [c EXCEPT !.phase = "WaitForConnectionEstablish"]
            m == [cmd |-> "Create", proxySide |-> IdOf(s), device |-> c.device]
<1>1. CASE /\ c.relay
           /\ client' = [client EXCEPT ![s] = opened]
           /\ Post(<<m>>)
  <2>1. PICK own \in Ids : own = IdOf(s)
    BY InUseIsNamed DEF ClientsInv
  <2>2. opened.phase = "WaitForConnectionEstablish"
    BY DEF Clients
  <2>3. NoNewReady
    BY <1>1, <2>2, OneNotReady DEF ClientsInv
  <2>4. ~Opened(own)
    BY <2>1 DEF Opened, Found, IdOf
  <2>5. ~HasCreate(own)
    BY <2>4 DEF CreateIsOpened, HasCreate
  <2>6. PICK asked \in {m} : asked.proxySide = own /\ asked.cmd = "Create" /\ asked \in RelayMessages
    BY <1>1, <2>1 DEF RelayMessages
  <2>7. toRelay \in Seq(RelayMessages) /\ Post(<<asked>>)
    BY <1>1, <2>6 DEF ClientsInv, ClientsTypeOK
  <2>8. /\ \A id \in Ids : HasCreate(id)' => HasCreate(id) \/ id = own
        /\ \A id \in Ids, r \in RelayIds : HasData(id, r)' => HasData(id, r)
        /\ AskedOnce'
    <3>. HIDE DEF m
    <3>. QED  BY <2>5, <2>6, <2>7, CreatePosted
  <2>9. \A id \in Ids, r \in RelayIds : IsReady(id, r)' => IsReady(id, r)
    BY <2>3, ReadyKept
  <2>. QED  BY <2>4, <2>8, <2>9 DEF Calm, Use, AnswersKept
<1>2. CASE client' = [client EXCEPT ![s] = c] /\ UNCHANGED linkVars
  <2>1. NoNewReady
    BY <1>2, OneNotReady DEF ClientsInv
  <2>. QED  BY <1>2, <2>1, QuietCalm
<1>. QED  BY <1>1, <1>2 DEF Open

LEMMA ClientStepCalm ==
    ASSUME ClientsInv, CreateIsOpened, AskedOnce, AnswersKept, NEW s \in Slots, ClientStep(s)
    PROVE  Calm /\ AskedOnce'
<1>. ClientsSound /\ client \in [Slots -> Clients] /\ client[s] \in Clients
  BY DEF ClientsInv, ClientsSound
<1>1. CASE OnNewConnection(s)
  <2>1. New(client[s].gen + 1).phase = "Unknown"
    BY DEF New
  <2>2. NoNewReady
    BY <1>1, <2>1, OneNotReady DEF OnNewConnection
  <2>. QED  BY <1>1, <2>2, QuietCalm DEF OnNewConnection
<1>2. CASE OnChallenge(s)
  <2>1. ASSUME Killed(s) PROVE NoNewReady
    BY <2>1, StillNotReady DEF Killed
  <2>. DEFINE named(p) == [[client[s] EXCEPT !.protocol = p] EXCEPT !.phase = "Challenge"]
              dropped  == [named("S5") EXCEPT !.list = "Kill"]
  <2>2. /\ \A p \in Protocols : named(p).phase = "Challenge"
        /\ dropped.phase = "Challenge"
    BY DEF Clients
  <2>3. ASSUME NEW p \in Protocols,
               client' = [client EXCEPT ![s].protocol = p, ![s].phase = "Challenge"]
        PROVE  NoNewReady
    <3>1. client' = [client EXCEPT ![s] = named(p)]
      BY <2>3
    <3>. HIDE DEF named
    <3>. QED  BY <2>2, <3>1, OneNotReady
  <2>4. ASSUME client' = [client EXCEPT ![s].protocol = "S5", ![s].phase = "Challenge",
                                        ![s].list = "Kill"]
        PROVE  NoNewReady
    <3>1. client' = [client EXCEPT ![s] = dropped]
      BY <2>4
    <3>. HIDE DEF dropped
    <3>. QED  BY <2>2, <3>1, OneNotReady
  <2>. HIDE DEF named, dropped
  <2>5. NoNewReady
    BY <1>2, <2>1, <2>3, <2>4 DEF OnChallenge
  <2>. QED  BY <1>2, <2>5, QuietCalm DEF OnChallenge
<1>3. CASE OnCredentials(s)
  <2>1. NoNewReady
    <3>1. client'[s].phase = "WaitForAccountExchange"
      BY <1>3 DEF OnCredentials, Clients
    <3>2. \A t \in Slots \ {s} : client'[t] = client[t]
      BY <1>3 DEF OnCredentials
    <3>. QED  BY <3>1, <3>2 DEF NoNewReady
  <2>. QED  BY <1>3, <2>1, QuietCalm DEF OnCredentials
<1>4. CASE OnBadHttpChallenge(s)
  BY <1>4, StillNotReady, QuietCalm DEF OnBadHttpChallenge
<1>5. CASE OnS5ConnectionRequest(s)
  <2>1. InUse(s) /\ client[s].phase = "WaitForConnectionRequest" /\ client[s].device = IdOf(s)
    BY <1>5 DEF OnS5ConnectionRequest, Receives, InUse, ClientsSound, Chosen
  <2>. QED  BY <1>5, <2>1, OpenCalm DEF OnS5ConnectionRequest
<1>6. CASE OnBadS5ConnectionRequest(s)
  BY <1>6, StillNotReady, QuietCalm DEF OnBadS5ConnectionRequest
<1>7. CASE OnUploadData(s)
  <2>1. InUse(s) /\ client[s].phase = "Ready" /\ client[s].relaySide \in RelayIds
    BY <1>7 DEF OnUploadData, Receives, InUse, ClientsSound, ReadyIsNamed
  <2>2. PICK q \in RelayIds : q = client[s].relaySide
    BY <2>1
  <2>3. Use(IdOf(s), q)
    BY <2>1, <2>2 DEF Use, IsReady, Found, IdOf
  <2>4. \A id \in Ids, r \in RelayIds : IsReady(id, r)' => IsReady(id, r)
    BY <1>7, StillNotReady, ReadyKept DEF OnUploadData
  <2>. QED  BY <1>7, <2>1, <2>2, <2>3, <2>4, UploadCalm DEF OnUploadData
<1>8. CASE OnUnexpectedData(s)
  BY <1>8, StillNotReady, QuietCalm DEF OnUnexpectedData, Killed
<1>9. CASE OnPeerClose(s)
  <2>1. NoNewReady
    BY <1>9 DEF OnPeerClose, NoNewReady, Clients
  <2>. QED  BY <1>9, <2>1, QuietCalm DEF OnPeerClose
<1>. QED  BY <1>1, <1>2, <1>3, <1>4, <1>5, <1>6, <1>7, <1>8, <1>9 DEF ClientStep

LEMMA AuthResultCalm ==
    ASSUME ClientsInv, AskedOnce, AnswersKept,
           NEW id \in Ids, NEW ok \in BOOLEAN, OnAuthResult(id, ok)
    PROVE  Calm /\ AskedOnce'
<1>. id.slot \in Slots /\ ClientsSound /\ client \in [Slots -> Clients]
  BY IdFacts DEF ClientsInv, ClientsSound
<1>1. CASE UNCHANGED client \/ Killed(id.slot) \/ Refused(id.slot)
  <2>1. NoNewReady
    BY <1>1, StillNotReady DEF Killed, Refused
  <2>. QED  BY <2>1, QuietCalm DEF OnAuthResult
<1>2. CASE Authenticated(id.slot)
  <2>1. NoNewReady
    BY <1>2 DEF Authenticated, NoNewReady, Clients
  <2>. QED  BY <2>1, QuietCalm DEF OnAuthResult
<1>. QED  BY <1>1, <1>2 DEF OnAuthResult

LEMMA DeviceSelectedCalm ==
    ASSUME ClientsInv, CreateIsOpened, AskedOnce, AnswersKept,
           NEW id \in Ids, NEW device \in BOOLEAN, NEW relay \in BOOLEAN,
           OnDeviceSelected(id, device, relay)
    PROVE  Calm /\ AskedOnce'
<1>. DEFINE s     == id.slot
            given == [client[s] EXCEPT !.device = IF device THEN id ELSE NoId]
            c     == [given EXCEPT !.relay = relay]
<1>. s \in Slots /\ ClientsSound /\ client \in [Slots -> Clients]
  BY IdFacts DEF ClientsInv, ClientsSound
<1>1. CASE UNCHANGED <<client, linkVars>>
  BY <1>1, StillNotReady, QuietCalm
<1>2. CASE Killed(s) /\ UNCHANGED linkVars
  BY <1>2, StillNotReady, QuietCalm DEF Killed
<1>3. ASSUME Found(id), client[s].phase = "WaitForDeviceSelection"
      PROVE  /\ InUse(s) /\ IdOf(s) = id
             /\ c \in Clients /\ c.phase = client[s].phase /\ (c.relay => c.device = IdOf(s))
  <2>1. client[s] \in Clients /\ InUse(s) /\ IdOf(s) = id
    BY <1>3, IdFacts, InUseIsNamed
  <2>2. given \in Clients
    BY <2>1, FieldWrites
  <2>3. given.phase = client[s].phase /\ given.device = (IF device THEN id ELSE NoId)
    BY <2>1, <2>2 DEF Clients
  <2>. HIDE DEF given
  <2>4. c \in Clients
    BY <2>2, FieldWrites
  <2>5. /\ c.phase = client[s].phase /\ c.relay = relay
        /\ c.device = (IF device THEN id ELSE NoId)
    BY <2>2, <2>3, <2>4 DEF Clients
  <2>6. relay => device
    BY DEF OnDeviceSelected
  <2>. QED  BY <2>1, <2>4, <2>5, <2>6
<1>4. CASE /\ Found(id) /\ client[s].phase = "WaitForDeviceSelection"
           /\ client' = [client EXCEPT ![s] = [c EXCEPT !.phase = "WaitForConnectionRequest"]]
           /\ UNCHANGED linkVars
  <2>. DEFINE asked == [c EXCEPT !.phase = "WaitForConnectionRequest"]
  <2>1. asked.phase = "WaitForConnectionRequest"
    BY <1>3, <1>4 DEF Clients
  <2>. HIDE DEF asked, c
  <2>2. NoNewReady
    BY <1>4, <2>1, OneNotReady DEF asked
  <2>. QED  BY <1>4, <2>2, QuietCalm
<1>5. CASE Found(id) /\ client[s].phase = "WaitForDeviceSelection" /\ Open(s, c)
  <2>1. /\ InUse(s) /\ c \in Clients /\ c.phase = client[s].phase
        /\ (c.relay => c.device = IdOf(s))
    BY <1>3, <1>5
  <2>. HIDE DEF c
  <2>. QED  BY <1>5, <2>1, OpenCalm
<1>6. c = [client[s] EXCEPT !.device = IF device THEN id ELSE NoId, !.relay = relay]
  OBVIOUS
<1>. HIDE DEF c, given
<1>. QED  BY <1>1, <1>2, <1>4, <1>5, <1>6 DEF OnDeviceSelected

LEMMA TickCalm ==
    ASSUME ClientsInv, AskedOnce, AnswersKept, OnTick
    PROVE  Calm /\ AskedOnce'
<1>1. PICK C \in SUBSET Slots : Cleanup(C)
  BY DEF OnTick, TickWith
<1>2. \A s \in Slots : Empty(client[s].gen).phase = "Free"
  BY DEF Empty, New
<1>3. NoNewReady
  BY <1>1, <1>2 DEF Cleanup, NoNewReady
<1>. QED  BY <1>3, QuietCalm DEF OnTick, TickWith

-----------------------------------------------------------------------------
(* What the relay tells server_proxy_access *)

LEMMA DestroyCalm ==
    ASSUME ClientsInv, AskedOnce, AnswersKept, NEW id \in Ids, OnDestroyConnection(id)
    PROVE  Calm /\ AskedOnce'
<1>. id.slot \in Slots /\ ClientsSound /\ client \in [Slots -> Clients]
  BY IdFacts DEF ClientsInv, ClientsSound
<1>1. NoNewReady
  BY DEF OnDestroyConnection, Killed, NoNewReady, Clients
<1>. QED  BY <1>1, QuietCalm DEF OnDestroyConnection

LEMMA PushDataCalm ==
    ASSUME ClientsInv, AskedOnce, AnswersKept, NEW id \in Ids, OnRelaySidePushData(id)
    PROVE  Calm /\ AskedOnce'
<1>. DEFINE s == id.slot
            n == Message("NotifyState", s, client[s].relaySide)
<1>. s \in Slots /\ ClientsSound
  BY IdFacts DEF ClientsInv
<1>1. NoNewReady
  BY StillNotReady DEF OnRelaySidePushData
<1>2. CASE UNCHANGED linkVars
  BY <1>1, <1>2, QuietCalm
<1>3. CASE Found(id) /\ Post(<<n>>)
  <2>1. InUse(s) /\ client[s] \in Clients
    BY <1>3, IdFacts, InUseIsNamed
  <2>2. n \in RelayMessages /\ DataOf(n, IdOf(s), None)
    BY <2>1, OtherMessages DEF Clients, Message, DataOf
  <2>3. toRelay \in Seq(RelayMessages)
    BY DEF ClientsInv, ClientsTypeOK
  <2>. HIDE DEF n
  <2>4. <<n>> \in Seq(RelayMessages) /\ \A i \in 1..Len(<<n>>) : DataOf(<<n>>[i], IdOf(s), None)
    BY <2>2
  <2>5. /\ \A i \in Ids : HasCreate(i)' => HasCreate(i)
        /\ \A i \in Ids, r \in RelayIds :
              HasData(i, r)' => HasData(i, r) \/ (i = IdOf(s) /\ r = None)
        /\ AskedOnce'
    BY <1>3, <2>3, <2>4, DataPosted
  <2>6. \A i \in Ids, r \in RelayIds : IsReady(i, r)' => IsReady(i, r)
    BY <1>1, ReadyKept
  <2>. QED  BY <2>5, <2>6, NoneAssumption DEF Calm, Use, AnswersKept
<1>. QED  BY <1>2, <1>3 DEF OnRelaySidePushData

LEMMA StateChangeCalm ==
    ASSUME ClientsInv, AskedOnce, AnswersKept, NEW id \in Ids, NEW r, NEW state,
           state = "ESTABLISHED" => r \in RelayIds /\ Use(id, r),
           OnRelaySideConnectionStateChange(id, state, r)
    PROVE  Calm /\ AskedOnce'
<1>. id.slot \in Slots /\ ClientsSound /\ client \in [Slots -> Clients]
  BY IdFacts DEF ClientsInv, ClientsSound
<1>1. CASE StateAborts(id, state) \/ StateIgnored(id, state)
  BY <1>1, StillNotReady, QuietCalm DEF StateAborts, StateIgnored
<1>2. CASE StateClosed(id)
  <2>1. NoNewReady
    BY <1>2 DEF StateClosed, NoNewReady, Clients
  <2>. QED  BY <1>2, <2>1, QuietCalm DEF StateClosed
<1>3. CASE state = "ESTABLISHED" /\ StateEstablished(id, r)
  <2>1. PICK q \in RelayIds : q = r /\ Use(id, q)
    BY <1>3
  <2>2. Found(id) /\ IdOf(id.slot) = id /\ InUse(id.slot)
    BY <1>3, IdFacts DEF StateEstablished
  <2>3. ASSUME NEW i \in Ids, NEW p \in RelayIds, IsReady(i, p)'
        PROVE  IsReady(i, p) \/ (i = id /\ p = q)
    <3>0. i.slot \in Slots
      BY IdFacts
    <3>1. CASE i.slot = id.slot
      <4>1. client'[id.slot].gen = client[id.slot].gen /\ client'[id.slot].relaySide = q
        BY <1>3, <2>1 DEF StateEstablished, Clients
      <4>2. i.gen = id.gen /\ p = q
        BY <2>2, <2>3, <3>1, <4>1 DEF IsReady, Found
      <4>3. i = id
        BY <3>1, <4>2 DEF Ids
      <4>. QED  BY <4>2, <4>3
    <3>2. CASE i.slot # id.slot
      <4>1. client'[i.slot] = client[i.slot]
        BY <1>3, <3>0, <3>2 DEF StateEstablished
      <4>. QED  BY <2>3, <4>1 DEF IsReady, Found, InUse
    <3>. QED  BY <3>1, <3>2
  <2>4. CASE UNCHANGED linkVars
    <3>1. toRelay \in Seq(RelayMessages) /\ UNCHANGED toRelay
      BY <2>4 DEF ClientsInv, ClientsTypeOK, linkVars
    <3>2. /\ \A i \in Ids : HasCreate(i)' => HasCreate(i)
          /\ \A i \in Ids, p \in RelayIds : HasData(i, p)' => HasData(i, p)
          /\ AskedOnce'
      BY <3>1, RequestsShrink
    <3>. QED  BY <2>1, <2>3, <3>2 DEF Calm, Use, AnswersKept
  <2>5. CASE Upload(id.slot, q)
    BY <2>1, <2>2, <2>3, <2>5, UploadCalm
  <2>. QED  BY <1>3, <2>1, <2>4, <2>5 DEF StateEstablished
<1>. QED  BY <1>1, <1>2, <1>3 DEF OnRelaySideConnectionStateChange

\* The first message of the relay is taken.
LEMMA ServerPacketCalm ==
    ASSUME IInv, RelayTypeOK, AskedOnce, OnServerPacket
    PROVE  Calm /\ AskedOnce'
<1>1. /\ toProxy \in Seq(ProxyMessages) /\ toProxy # <<>> /\ toProxy' = Tail(toProxy)
  BY DEF OnServerPacket, RelayTypeOK
<1>2. PICK l \in Nat \ {0} : l = Len(toProxy)
  BY <1>1, LenProperties, EmptySeq
<1>3. PICK m \in ProxyMessages : m = Head(toProxy) /\ m = toProxy[1]
  BY <1>1, HeadTailProperties
<1>4. PICK own \in Ids : own = m.proxySide
  BY DEF ProxyMessages
<1>5. AnswersKept
  <2>1. Len(toProxy') = l - 1 /\ \A i \in 1..(l - 1) : toProxy'[i] = toProxy[i + 1]
    BY <1>1, <1>2, HeadTailProperties
  <2>2. \A i \in 1..(l - 1) : i + 1 \in 1..l
    OBVIOUS
  <2>. QED  BY <1>2, <2>1, <2>2 DEF AnswersKept, HasAnswer
<1>. ClientsInv
  BY DEF IInv
<1>6. CASE /\ m.cmd \in {"ESTABLISHED", "UPDATE_TRANSFER", "CLOSED"}
           /\ OnRelaySideConnectionStateChange(own, m.cmd, m.relaySide)
  <2>1. m.cmd = "ESTABLISHED" => m.relaySide \in RelayIds
    BY DEF ProxyMessages
  <2>2. 1 \in 1..Len(toProxy)
    BY <1>2
  <2>3. m.cmd = "ESTABLISHED" => HasAnswer(own, m.relaySide)
    BY <1>3, <1>4, <2>2 DEF HasAnswer
  <2>. QED  BY <1>5, <1>6, <2>1, <2>3, StateChangeCalm DEF Use
<1>7. CASE OnDestroyConnection(own)
  BY <1>5, <1>7, DestroyCalm
<1>8. CASE OnRelaySidePushData(own)
  BY <1>5, <1>8, PushDataCalm
<1>. QED  BY <1>3, <1>4, <1>6, <1>7, <1>8 DEF OnServerPacket

-----------------------------------------------------------------------------
(* The steps of the relay and of the connection.  These change no client. *)

\* Nothing is told but what says nothing of a connection that is established.
LEMMA RelayCalm ==
    ASSUME ClientsInv, RelayTypeOK, AskedOnce, UNCHANGED client, AnswersKept,
           \/ UNCHANGED toRelay
           \/ toRelay' = <<>>
           \/ toRelay # <<>> /\ toRelay' = Tail(toRelay)
    PROVE  Calm /\ AskedOnce'
<1>1. toRelay \in Seq(RelayMessages) /\ ClientsSound
  BY DEF ClientsInv, ClientsTypeOK
<1>2. /\ \A id \in Ids : HasCreate(id)' => HasCreate(id)
      /\ \A id \in Ids, r \in RelayIds : HasData(id, r)' => HasData(id, r)
      /\ AskedOnce'
  BY <1>1, RequestsShrink
<1>3. \A id \in Ids, r \in RelayIds : IsReady(id, r)' => IsReady(id, r)
  BY DEF IsReady, Found, InUse
<1>. QED  BY <1>2, <1>3 DEF Calm, Use, AnswersKept

\* A message to server_proxy_access, which is an answer for own on q or none.
LEMMA AnswerTold ==
    ASSUME RelayTypeOK, NEW m, m \in ProxyMessages, toProxy' = Append(toProxy, m)
    PROVE  \A id \in Ids, r \in RelayIds :
              HasAnswer(id, r)' =>
                  HasAnswer(id, r) \/ (m.cmd = "ESTABLISHED" /\ m.proxySide = id /\ m.relaySide = r)
<1>1. PICK l \in Nat : l = Len(toProxy)
  BY LenProperties DEF RelayTypeOK
<1>2. /\ Len(toProxy') = l + 1
      /\ \A j \in 1..l : toProxy'[j] = toProxy[j]
      /\ toProxy'[l + 1] = m
  BY <1>1, AppendProperties DEF RelayTypeOK
<1>3. \A i \in 1..(l + 1) : i \in 1..l \/ i = l + 1
  OBVIOUS
<1>. QED  BY <1>1, <1>2, <1>3 DEF HasAnswer

LEMMA RelayRefusesUploads ==
    ASSUME IInv, IInv', Advance, RelayTypeOK, RelayTrail, UploadTrailInv,
           toRelay # <<>>, NEW m \in RelayMessages, m = Head(toRelay), RelayRefuses(m)
    PROVE  UploadTrailInv'
<1>. /\ ClientsInv /\ ClientsSound /\ ClientsSound'
     /\ UNCHANGED client /\ UNCHANGED context /\ authorised' = authorised
     /\ toRelay' = Tail(toRelay)
  BY DEF IInv, ClientsInv, RelayRefuses, Takes, Took, backVars
<1>1. PICK own \in Ids : own = m.proxySide
  BY DEF RelayMessages
<1>2. AnswersKept
  <2>1. ASSUME NEW n, n \in ProxyMessages, n.cmd # "ESTABLISHED", toProxy' = Append(toProxy, n)
        PROVE  AnswersKept
    BY <2>1, AnswerTold DEF AnswersKept
  <2>. DEFINE gone   == [cmd |-> "DestroyConnection", proxySide |-> own]
              closed == [cmd |-> "CLOSED", proxySide |-> own, relaySide |-> None]
  <2>2. gone \in ProxyMessages /\ gone.cmd # "ESTABLISHED"
    BY DEF ProxyMessages
  <2>3. closed \in ProxyMessages /\ closed.cmd # "ESTABLISHED"
    BY DEF ProxyMessages
  <2>4. toProxy' = Append(toProxy, gone) \/ toProxy' = Append(toProxy, closed)
    BY <1>1 DEF RelayRefuses, Tell
  <2>. HIDE DEF gone, closed
  <2>. QED  BY <2>1, <2>2, <2>3, <2>4
<1>3. Calm /\ AskedOnce'
  BY <1>2, RelayCalm DEF UploadTrailInv
<1>. QED  BY <1>3, CalmKeeps DEF UploadTrailInv, RelayTrail

\* Messages are taken from the queue, or lost, and nothing else happens.
LEMMA UnseenUploads ==
    ASSUME IInv, IInv', Advance, RelayTypeOK, RelayTrail, UploadTrailInv,
           UNCHANGED <<client, context, authorised>>,
           UNCHANGED toProxy \/ toProxy' = <<>>,
           \/ UNCHANGED toRelay
           \/ toRelay' = <<>>
           \/ toRelay # <<>> /\ toRelay' = Tail(toRelay)
    PROVE  UploadTrailInv'
<1>. ClientsInv /\ ClientsSound /\ ClientsSound'
  BY DEF IInv, ClientsInv
<1>1. AnswersKept
  BY EmptySeq DEF AnswersKept, HasAnswer
<1>2. Calm /\ AskedOnce'
  BY <1>1, RelayCalm DEF UploadTrailInv
<1>. QED  BY <1>2, CalmKeeps DEF UploadTrailInv, RelayTrail

\* The context of a connection of which there is no trace but the request.
LEMMA RelayCreatesUploads ==
    ASSUME IInv, IInv', Advance, RelayTypeOK, RelayTrail, UploadTrailInv, toRelay # <<>>,
           NEW m \in RelayMessages, m = Head(toRelay), NEW r \in RelayIds, RelayCreates(m, r)
    PROVE  UploadTrailInv'
<1>. /\ ClientsInv /\ ClientsSound /\ ClientsSound' /\ toRelay \in Seq(RelayMessages)
     /\ UNCHANGED client /\ authorised' = authorised
     /\ toRelay' = <<>> \/ toRelay' = Tail(toRelay)
     /\ toProxy' = <<>> \/ UNCHANGED toProxy
     /\ UseIsPast /\ AskedIsNew /\ AskedOnce /\ ContextIsOwn
  BY DEF IInv, ClientsInv, ClientsTypeOK, RelayCreates, Takes, Took, Break, backVars,
         UploadTrailInv
<1>1. PICK own \in Ids : own = m.proxySide
  BY DEF RelayMessages
<1>2. PICK l \in Nat \ {0} : l = Len(toRelay)
  BY LenProperties, EmptySeq
<1>3. toRelay[1] = m /\ 1 \in 1..l /\ m.cmd = "Create"
  BY <1>2, HeadTailProperties DEF RelayCreates
<1>4. HasCreate(own)
  BY <1>1, <1>2, <1>3 DEF HasCreate
<1>5. ~HasCreate(own)'
  <2>1. CASE toRelay' = <<>>
    BY <2>1, EmptySeq DEF HasCreate
  <2>2. CASE toRelay' = Tail(toRelay)
    <3>1. Len(toRelay') = l - 1 /\ \A i \in 1..(l - 1) : toRelay'[i] = toRelay[i + 1]
      BY <1>2, <2>2, HeadTailProperties
    <3>2. \A i \in 1..(l - 1) : i + 1 \in 1..l /\ i + 1 # 1
      OBVIOUS
    <3>. QED  BY <1>1, <1>2, <1>3, <3>1, <3>2 DEF HasCreate, AskedOnce
  <2>. QED  BY <2>1, <2>2
<1>6. AnswersKept
  BY EmptySeq DEF AnswersKept, HasAnswer
<1>7. Calm /\ AskedOnce'
  BY <1>6, RelayCalm
<1>8. \A id \in Ids : HasCreate(id)' => HasCreate(id)
  BY RequestsShrink
<1>9. /\ context'[r].proxySide = own /\ context'[r].device = m.device
      /\ \A q \in RelayIds \ {r} : context'[q] = context[q]
  BY <1>1 DEF RelayCreates, RelayTypeOK
<1>10. UseIsPast'
  <2>1. ASSUME NEW id \in Ids, NEW q \in RelayIds, Use(id, q)'
        PROVE  Past(id, q)' /\ Opened(id)'
    <3>1. Use(id, q) /\ Past(id, q) /\ Opened(id)
      BY <1>7, <2>1 DEF Calm, UseIsPast
    <3>2. id # own
      BY <1>4, <3>1 DEF AskedIsNew
    <3>3. Past(id, q)'
      BY <1>9, <3>1, <3>2 DEF Past, HasContext
    <3>. QED  BY <3>1, <3>3, TrailKept
  <2>. QED  BY <2>1 DEF UseIsPast
<1>11. AskedIsNew'
  <2>1. ASSUME NEW id \in Ids, NEW q \in RelayIds, HasCreate(id)'
        PROVE  ~Use(id, q)' /\ ~HasContext(id, q)'
    <3>1. id # own /\ HasCreate(id)
      BY <1>5, <1>8, <2>1
    <3>2. ~Use(id, q) /\ ~HasContext(id, q)
      BY <3>1 DEF AskedIsNew
    <3>3. ~HasContext(id, q)'
      BY <1>9, <3>1, <3>2 DEF HasContext
    <3>. QED  BY <1>7, <3>2, <3>3 DEF Calm
  <2>. QED  BY <2>1 DEF AskedIsNew
<1>12. ContextIsOwn'
  <2>1. own \in authorised /\ m.device = own
    BY <1>1, <1>2, <1>3 DEF ClientsInv, OpenedAsAuthorised
  <2>. QED  BY <1>9, <2>1 DEF ContextIsOwn
<1>. QED  BY <1>7, <1>10, <1>11, <1>12 DEF UploadTrailInv

\* What a device reports: an answer is told when the context is established.
LEMMA DeviceReportsUploads ==
    ASSUME IInv, IInv', Advance, RelayTypeOK, RelayTrail, UploadTrailInv,
           NEW r \in RelayIds, DeviceReports(r)
    PROVE  UploadTrailInv'
<1>. /\ ClientsInv /\ ClientsSound /\ ClientsSound' /\ toRelay \in Seq(RelayMessages)
     /\ UNCHANGED client /\ UNCHANGED toRelay /\ authorised' = authorised
     /\ UseIsPast /\ AskedIsNew /\ AskedOnce /\ ContextIsOwn
  BY DEF IInv, ClientsInv, ClientsTypeOK, DeviceReports, RelayReports, backVars, linkVars,
         UploadTrailInv
<1>1. context[r] \in Contexts /\ context[r] # Nothing
  BY DEF DeviceReports, RelayTypeOK, Nothing, Contexts, States
<1>2. PICK own \in Ids : own = context[r].proxySide
  BY <1>1 DEF Contexts
<1>3. PICK cmd \in {"ESTABLISHED", "CLOSED", "UPDATE_TRANSFER", "PostData"} :
        /\ RelayReports(r, cmd)
        /\ \/ UNCHANGED context
           \/ \E st \in States : context' = [context EXCEPT ![r].state = st]
        /\ cmd = "ESTABLISHED" => context'[r].state = "Established"
        /\ context[r].state \in {"Established", "Closed"} =>
               context'[r].state \in {"Established", "Closed"}
  BY <1>1 DEF DeviceReports, RelayTypeOK, Contexts, States
<1>4. /\ context'[r].proxySide = own /\ context'[r].device = context[r].device
      /\ \A q \in RelayIds \ {r} : context'[q] = context[q]
  BY <1>1, <1>2, <1>3 DEF RelayTypeOK, Contexts
<1>5. HasContext(own, r) /\ Opened(own)
  BY <1>1, <1>2 DEF HasContext, RelayTrail, ContextIsOpened
<1>6. ~HasCreate(own)
  BY <1>5 DEF AskedIsNew
<1>7. \A id \in Ids, q \in RelayIds :
         HasAnswer(id, q)' => HasAnswer(id, q) \/ (cmd = "ESTABLISHED" /\ id = own /\ q = r)
  <2>. DEFINE m == [cmd |-> cmd, proxySide |-> context[r].proxySide, relaySide |-> r]
  <2>1. CASE UNCHANGED toProxy
    BY <2>1 DEF HasAnswer
  <2>2. CASE toProxy' = Append(toProxy, m)
    <3>1. m \in ProxyMessages /\ m.cmd = cmd /\ m.proxySide = own /\ m.relaySide = r
      BY <1>2 DEF ProxyMessages
    <3>. HIDE DEF m
    <3>. QED  BY <2>2, <3>1, AnswerTold
  <2>. QED  BY <1>3, <2>1, <2>2 DEF RelayReports, Tell
<1>8. /\ \A id \in Ids : HasCreate(id)' <=> HasCreate(id)
      /\ \A id \in Ids, q \in RelayIds : HasData(id, q)' <=> HasData(id, q)
      /\ \A id \in Ids, q \in RelayIds : IsReady(id, q)' <=> IsReady(id, q)
      /\ AskedOnce'
  BY DEF HasCreate, HasData, IsReady, AskedOnce, Found, InUse
<1>9. \A id \in Ids, q \in RelayIds :
         Use(id, q)' => Use(id, q) \/ (cmd = "ESTABLISHED" /\ id = own /\ q = r)
  BY <1>7, <1>8 DEF Use
<1>10. \A id \in Ids, q \in RelayIds : HasContext(id, q)' => HasContext(id, q)
  BY <1>1, <1>2, <1>4 DEF HasContext
<1>11. UseIsPast'
  <2>1. ASSUME NEW id \in Ids, NEW q \in RelayIds, Use(id, q)'
        PROVE  Past(id, q)' /\ Opened(id)'
    <3>1. CASE Use(id, q)
      <4>1. Past(id, q) /\ Opened(id)
        BY <3>1 DEF UseIsPast
      <4>2. Past(id, q)'
        BY <1>3, <1>4, <1>10, <4>1 DEF Past
      <4>. QED  BY <4>1, <4>2, TrailKept
    <3>2. CASE cmd = "ESTABLISHED" /\ id = own /\ q = r
      BY <1>3, <1>5, <3>2, TrailKept DEF Past
    <3>. QED  BY <1>9, <2>1, <3>1, <3>2
  <2>. QED  BY <2>1 DEF UseIsPast
<1>12. AskedIsNew'
  BY <1>6, <1>8, <1>9, <1>10 DEF AskedIsNew
<1>13. ContextIsOwn'
  BY <1>1, <1>2, <1>4 DEF ContextIsOwn
<1>. QED  BY <1>8, <1>11, <1>12, <1>13 DEF UploadTrailInv

LEMMA RestartUploads ==
    ASSUME IInv, IInv', Advance, UploadTrailInv, RelayRestarts
    PROVE  UploadTrailInv'
<1>. /\ ClientsInv /\ ClientsSound /\ ClientsSound' /\ UNCHANGED client
     /\ toRelay' = <<>> /\ toProxy' = <<>> /\ \A r \in RelayIds : context'[r] = Nothing
  BY DEF IInv, ClientsInv, RelayRestarts, Break
<1>1. /\ \A id \in Ids : ~HasCreate(id)'
      /\ \A id \in Ids, r \in RelayIds : ~HasData(id, r)' /\ ~HasAnswer(id, r)'
      /\ \A id \in Ids, r \in RelayIds : ~HasContext(id, r)'
      /\ AskedOnce' /\ ContextIsOwn'
  BY EmptySeq DEF HasCreate, HasData, HasAnswer, HasContext, AskedOnce, ContextIsOwn
<1>2. \A id \in Ids, r \in RelayIds : Use(id, r)' => Use(id, r)
  BY <1>1 DEF Use, IsReady, Found, InUse
<1>3. UseIsPast'
  BY <1>1, <1>2, TrailKept DEF UploadTrailInv, UseIsPast, Past
<1>4. AskedIsNew'
  BY <1>1 DEF AskedIsNew
<1>. QED  BY <1>1, <1>3, <1>4 DEF UploadTrailInv

-----------------------------------------------------------------------------
LEMMA ProxyStepUploads ==
    ASSUME IInv, IInv', RelayTypeOK, CreateIsOpened, RelayTrail, UploadTrailInv, ProxyStep
    PROVE  UploadTrailInv'
<1>. ClientsInv /\ ClientsSound /\ ClientsSound' /\ AskedOnce /\ UNCHANGED context
  BY DEF IInv, ClientsInv, UploadTrailInv, ProxyStep, relayVars
<1>1. AnswersKept
  BY DEF ProxyStep, relayVars, AnswersKept, HasAnswer
<1>2. Advance /\ Calm /\ AskedOnce' /\ authorised \subseteq authorised'
  <2>1. ASSUME NEW s \in Slots, ClientStep(s)
        PROVE  Advance /\ Calm /\ AskedOnce' /\ authorised \subseteq authorised'
    <3>1. authorised' = authorised
      BY <2>1 DEF ClientStep, OnNewConnection, OnChallenge, OnCredentials, OnBadHttpChallenge,
         OnS5ConnectionRequest, OnBadS5ConnectionRequest, OnUploadData, OnUnexpectedData,
         OnPeerClose, backVars
    <3>. QED  BY <1>1, <2>1, <3>1, ClientStepTrail, ClientStepCalm
  <2>2. ASSUME NEW id \in Ids, BackStep(id)
        PROVE  Advance /\ Calm /\ AskedOnce' /\ authorised \subseteq authorised'
    <3>1. CASE \E ok \in BOOLEAN : OnAuthResult(id, ok)
      BY <1>1, <3>1, AuthResultTrail, AuthResultCalm DEF OnAuthResult
    <3>2. CASE \E device, relay \in BOOLEAN : OnDeviceSelected(id, device, relay)
      BY <1>1, <3>2, DeviceSelectedTrail, DeviceSelectedCalm DEF OnDeviceSelected
    <3>. QED  BY <2>2, <3>1, <3>2 DEF BackStep
  <2>3. ASSUME OnTick
        PROVE  Advance /\ Calm /\ AskedOnce' /\ authorised \subseteq authorised'
    <3>1. authorised' = authorised
      BY <2>3 DEF OnTick, TickWith, backVars
    <3>. QED  BY <1>1, <2>3, <3>1, TickTrail, TickCalm
  <2>. QED  BY <2>1, <2>2, <2>3 DEF ProxyStep
<1>. QED  BY <1>2, CalmKeeps DEF UploadTrailInv, RelayTrail

LEMMA ServerPacketUploads ==
    ASSUME IInv, IInv', RelayTypeOK, CreateIsOpened, UploadTrailInv, RelayTrail, OnServerPacket
    PROVE  UploadTrailInv'
<1>. ClientsInv /\ ClientsSound /\ ClientsSound' /\ UNCHANGED context /\ AskedOnce
  BY DEF IInv, ClientsInv, OnServerPacket, UploadTrailInv
<1>1. Calm /\ AskedOnce'
  BY ServerPacketCalm
<1>2. PICK m \in ProxyMessages : m = Head(toProxy)
  BY HeadTailProperties DEF OnServerPacket, RelayTypeOK
<1>3. PICK own \in Ids : own = m.proxySide
  BY DEF ProxyMessages
<1>4. CASE OnRelaySideConnectionStateChange(own, m.cmd, m.relaySide)
  <2>1. Advance
    BY <1>4, StateChangeAdvances
  <2>2. authorised' = authorised
    BY <1>4 DEF OnRelaySideConnectionStateChange, StateAborts, StateEstablished, StateClosed,
       StateIgnored, backVars
  <2>. QED  BY <1>1, <2>1, <2>2, CalmKeeps DEF UploadTrailInv, RelayTrail
<1>5. CASE OnDestroyConnection(own)
  <2>1. Advance
    BY <1>5, DestroyTrail
  <2>2. authorised' = authorised
    BY <1>5 DEF OnDestroyConnection, backVars
  <2>. QED  BY <1>1, <2>1, <2>2, CalmKeeps DEF UploadTrailInv, RelayTrail
<1>6. CASE OnRelaySidePushData(own)
  <2>1. Advance
    BY <1>6, PushDataTrail
  <2>2. authorised' = authorised
    BY <1>6 DEF OnRelaySidePushData, backVars
  <2>. QED  BY <1>1, <2>1, <2>2, CalmKeeps DEF UploadTrailInv, RelayTrail
<1>. QED  BY <1>2, <1>3, <1>4, <1>5, <1>6 DEF OnServerPacket

\* OnProxyPushData: the data that is taken was under way, so that the context
\* it names is not its client's or was established.
LEMMA ForwardedIsOnEstablished ==
    ASSUME IInv, RelayTypeOK, UploadTrailInv, toRelay # <<>>,
           NEW m \in RelayMessages, m = Head(toRelay), RelayForwards(m)
    PROVE  UploadIsOnEstablished'
<1>1. CASE forwarded' = {}
  BY <1>1 DEF UploadIsOnEstablished
<1>2. CASE m.cmd = "PostData" /\ Forward(m) /\ forwarded' # {}
  <2>1. PICK own \in Ids, r \in RelayIds : own = m.proxySide /\ r = m.relaySide
    BY <1>2 DEF RelayMessages
  <2>2. /\ context[r] # Nothing /\ context[r].proxySide = own
        /\ forwarded' = {[sender |-> own, context |-> context[r]]}
    BY <1>2, <2>1 DEF Forward
  <2>3. HasData(own, r)
    <3>1. toRelay \in Seq(RelayMessages)
      BY DEF IInv, ClientsInv, ClientsTypeOK
    <3>2. 1 \in 1..Len(toRelay) /\ toRelay[1] = m
      BY <3>1, HeadTailProperties, LenProperties, EmptySeq
    <3>. QED  BY <1>2, <2>1, <3>2 DEF HasData
  <2>4. context[r].state \in {"Established", "Closed"}
    BY <2>2, <2>3 DEF UploadTrailInv, UseIsPast, Use, Past, HasContext
  <2>5. own \in authorised' /\ context[r].device = own
    BY <2>2 DEF UploadTrailInv, ContextIsOwn, RelayForwards, Takes, backVars
  <2>. QED  BY <2>2, <2>4, <2>5 DEF UploadIsOnEstablished
<1>. QED  BY <1>1, <1>2 DEF RelayForwards

LEMMA NextUploads ==
    ASSUME IInv, IInv', RelayTypeOK, CreateIsOpened, RelayTrail, UploadTrailInv, Next
    PROVE  UploadInv'
<1>1. forwarded' = {} => UploadIsOnEstablished'
  BY DEF UploadIsOnEstablished
<1>2. UNCHANGED client => Advance
  BY StillAdvances DEF IInv, ClientsInv
<1>3. CASE ProxyStep
  BY <1>1, <1>3, ProxyStepUploads DEF ProxyStep, UploadInv
<1>4. CASE OnServerPacket
  BY <1>1, <1>4, ServerPacketUploads DEF OnServerPacket, UploadInv
<1>5. CASE RelayStep
  <2>1. CASE toRelay # <<>> /\ RelayRefuses(Head(toRelay))
    <3>1. UNCHANGED client /\ forwarded' = {}
      BY <2>1 DEF RelayRefuses, Takes
    <3>. QED  BY <1>1, <1>2, <2>1, <3>1, HeadOfRelay, RelayRefusesUploads DEF UploadInv, IInv
  <2>2. CASE toRelay # <<>> /\ RelayForwards(Head(toRelay))
    <3>1. /\ UNCHANGED <<client, context, authorised, toProxy>>
          /\ toRelay' = Tail(toRelay)
      BY <2>2 DEF RelayForwards, Takes, Took, backVars
    <3>2. UploadTrailInv'
      BY <1>2, <2>2, <3>1, UnseenUploads
    <3>. QED  BY <2>2, <3>2, HeadOfRelay, ForwardedIsOnEstablished DEF UploadInv, IInv
  <2>3. ASSUME toRelay # <<>>, NEW r \in RelayIds, RelayCreates(Head(toRelay), r)
        PROVE  UploadInv'
    <3>1. UNCHANGED client /\ forwarded' = {}
      BY <2>3 DEF RelayCreates, Takes
    <3>. QED  BY <1>1, <1>2, <2>3, <3>1, HeadOfRelay, RelayCreatesUploads DEF UploadInv, IInv
  <2>4. ASSUME NEW r \in RelayIds, DeviceReports(r) PROVE UploadInv'
    <3>1. UNCHANGED client /\ forwarded' = {}
      BY <2>4 DEF DeviceReports, RelayReports
    <3>. QED  BY <1>1, <1>2, <2>4, <3>1, DeviceReportsUploads DEF UploadInv
  <2>. QED  BY <1>5, <2>1, <2>2, <2>3, <2>4 DEF RelayStep
<1>6. CASE LinkBreaks
  <2>1. /\ UNCHANGED <<client, context, authorised>> /\ forwarded' = {}
        /\ toProxy' = <<>> /\ toRelay' = <<>>
    BY <1>6 DEF LinkBreaks, Break, backVars
  <2>. QED  BY <1>1, <1>2, <2>1, UnseenUploads DEF UploadInv
<1>7. CASE RelayRestarts
  <2>1. UNCHANGED client /\ forwarded' = {}
    BY <1>7 DEF RelayRestarts
  <2>. QED  BY <1>1, <1>2, <1>7, <2>1, RestartUploads DEF UploadInv
<1>8. CASE LinkUp
  <2>1. UNCHANGED <<client, context, authorised, toProxy, toRelay>> /\ forwarded' = {}
    BY <1>8 DEF LinkUp, backVars
  <2>. QED  BY <1>1, <1>2, <2>1, UnseenUploads DEF UploadInv
<1>. QED  BY <1>3, <1>4, <1>5, <1>6, <1>7, <1>8 DEF Next

\* OnProxyPushData sends upload data only for authenticated clients, to the
\* device selected for them, on a connection that this device established: the
\* relay's id that a client has from before a restart never leads to a context
\* whose device-side id is still the target's port.
THEOREM UploadsAreOnEstablished == Spec => []UploadIsOnEstablished
<1>1. Init => UploadInv
  <2> SUFFICES ASSUME Init PROVE UploadInv
    OBVIOUS
  <2>1. /\ Len(toRelay) = 0 /\ Len(toProxy) = 0
        /\ \A s \in Slots : client[s].phase = "Free"
        /\ \A r \in RelayIds : context[r] = Nothing
    BY DEF Init, ClientsInit, Empty, New
  <2>2. \A id \in Ids, r \in RelayIds : ~Use(id, r) /\ ~HasCreate(id)
    BY <2>1, IdFacts DEF Use, HasData, HasAnswer, HasCreate, IsReady, Found, InUse
  <2>3. UseIsPast /\ AskedIsNew /\ AskedOnce /\ ContextIsOwn
    BY <2>1, <2>2 DEF UseIsPast, AskedIsNew, AskedOnce, ContextIsOwn
  <2>. QED  BY <2>3 DEF UploadInv, UploadTrailInv, UploadIsOnEstablished, Init
<1>2. TrailInv /\ TrailInv' /\ UploadInv /\ [Next]_vars => UploadInv'
  <2>1. IInv => RelayTypeOK
    BY DEF IInv, TypeOK, RelayTypeOK
  <2>2. CASE Next
    BY <2>1, <2>2, NextUploads DEF TrailInv, Trail, RelayTrail, UploadInv
  <2>3. CASE UNCHANGED vars
    BY <2>3
    DEF vars, clientVars, backVars, linkVars, relayVars, UploadInv, UploadTrailInv, UseIsPast,
        AskedIsNew, AskedOnce, ContextIsOwn, UploadIsOnEstablished, Use, Past, HasData,
        HasAnswer, HasCreate, HasContext, IsReady, Opened, Found, InUse
  <2>. QED  BY <2>2, <2>3
<1>3. UploadInv => UploadIsOnEstablished
  BY DEF UploadInv
<1>. QED  BY <1>1, <1>2, <1>3, TrailInvariance, PTL DEF Spec

=============================================================================
