# MiniPP_R in TLA+

MiniPP_R is a proxy system of cooperating C++ servers: clients speak SOCKS5 or
HTTP to *proxy access* servers, which authenticate them, select a device for
them, and have the device's *relay* open the remote connection. This directory
holds specifications of its core, the TLC configurations that model-check them
and TLAPS proofs of the properties that matter most. Paths below are relative to
`src/cpp/src_app/` unless they begin with `src/`.

## The system

All servers are single-threaded: `loop { LoopOnce(); Tick of each manager in a
fixed order }`. They talk over TCP connections of the xel library (`xService`,
`xClient`, `xTcpConnection`), which is not in the repository; so are its
containers `xIndexedStorage` (slots under ids that carry a generation),
`xObjectIdManager` (small integers) and `xList` (intrusive lists). Concurrency is
therefore between servers, and between a request and the events that overtake
its answer; a handler is one atomic step.

| part | state | operations | talks to |
|---|---|---|---|
| server id center (`server_server_id_center`, `lib_server_util/server_id_manager`) | index allocator, `RandomPool`, an id per connection | acquire, regain, release, close, restart | id clients of every server |
| id client (`lib_server_util/server_id_client`, `server_auth_cache/register_server_client`) | `LocalServerId`, id file | connect, answer, dump, die, restart | server id center |
| server list (`server_server_list`) | lists of registered servers, published version, timers | register, close, publish, download | register and download clients |
| relay (`server_relay_device`) | device connections on three lists, devices, proxy connections, relayed connections | accept, init control/data stream, keepalive, close, Tick, create/destroy/push/notify | devices, proxy access, device state relay |
| device state relay (`server_device_state_relay`) | producers and observers | forward | relay, device selector |
| device selector (`server_device_selector`) | devices by id, by country, state, city | update, remove, select, 180 s limit | device state relay, proxy access |
| proxy access: client connections (`server_proxy_access/client_connection_manager`) | a connection object per client with its phase; four lists | accept, data by phase, auth result, device, relay messages, Tick | auth cache, selector, relay |
| proxy access: auth cache (`server_proxy_access/client_auth_cache_manager`) | cache nodes on two lists, waiting requests, dispatch list | request, answer, Tick | auth server, client connections |
| proxy access: relay connections | `test_relay_connection_manager` (used), `relay_connection_manager` (groups, built but unused) | connect, dispatch | relay |
| backend connections (`lib_backend_connection`) | state and four times of a connection; contexts by index in the pool | open, challenge, answer, keep-alive, close, Tick, Clean | backend servers |
| service client pool (`lib_server_util/service_client_hash_pool`) | contexts on three vectors and a list, sorted table | new server list, Tick, close, post by hash | servers of a downloaded list |
| config center (`server_config_center`) | relay servers with keys and ids, rotating list | add, remove, challenge | devices (UDP) |
| device observer (`observer_device_info`) | device map, timeout list | update, report | device state relay, Kafka |
| auth cache server, audit servers | unfinished, or counters | see *Not modelled* | |

What is hard here, and what makes each part correct:

* **Ids that outlive their object.** Every asynchronous answer (auth result,
  device, relay message, server id) comes under an id whose object may be gone
  and whose slot may be taken. Correct: it reaches the one it was meant for, or
  nobody (`AnswerIsOwn`, `OpenedAsAuthorised`, `DataIsOwnAndBehindAnswer`,
  `RepliesRight`, `BackendIsIdentified`).
* **Two ends that disagree.** A TCP connection closes at its ends at different
  times, and a client reconnects before its old connection is seen to close.
  Correct: server ids stay exclusive and none leaks (`IdsConsistent`
  with its parts `LeaseExclusive` and `NoIdLeak`; `ClientAgrees`).
* **Pointers between objects with different lifetimes.** A device points to its
  control and data connection. Correct: the binding is mutual, what is asserted
  is set, and the ways to lose the connection are exactly those named
  (`DevicesConsistent` with `CtrlBinding` and `AnnouncedIsBound`, `CtrlLostOnlyByTimeout`).
* **Lists that own the time limits.** An object dropped by one list while another
  still needs it. Correct: no waiting request is lost or answered twice, no
  connection escapes every limit, and none is given up that answers (`CacheConsistent`,
  `EveryRequestAnswered`, `DroppedInTheEnd`, `ChallengedOrDropped`, `GivenUpIsDestroyed`,
  `GroupsConsistent`, `GivenUpOnlyIfSilent`, `LostIsRetried`, `ReadyIsKept`, `ChallengeEnds`).
* **Reports that overtake each other.** A device moves between relays, and a
  report or a restart is lost between. Correct: what is over is not given out
  again, and what nobody confirms is forgotten (`ForgottenInTime`, `GoneIsForgotten`).
* **Versioned copies.** A list is published under a number that starts over.
  Correct: a client with the present version has what is published
  (`HasPublished`, `PublishedIsNamed`, `ListedIsPublished`, `ClientCatchesUp`); a table that is
  changed by differences is the last list (`PoolConsistent`, `ServerIsKept`).
* **Rotations.** Lists from whose front the next is taken while entries come and
  go. Correct: everyone gets a turn (`SelectionRotates`, `RelaysTakeTurns`).
* **Data in pieces.** A header arrives cut anywhere. Correct: the cuts do not
  matter (`PiecesDoNotMatter`, which names the ones that do).
* **Assertions** that end a server with all its clients (`IdsConsistent` with
  `CenterNeverAborts`, `CacheConsistent` with `NoWaiterDropped`, `FirstStateIsEstablished`;
  and `OutOfIdsOnlyWhenAllHeld`, which is proved).
* **Limits**: pools that are exhausted, and slots or contexts that are never
  given back.

`PROJECT.json` lists the hazards at their lines, with the properties that cover
them.

## Modules

| module | models | composed of |
|---|---|---|
| `IdLease` | what the id center promises (abstract) | |
| `ServerIdCenter` | center, id clients, their connections, crashes | implements `IdLease` |
| `ServerIdCenterProofs` | its theorems | `ServerIdCenter` |
| `DevicePresence` | what the relay reports about a device (abstract) | |
| `RelayDevices` | control and data connections, devices | implements `DevicePresence` |
| `RelayProxies` | the relay's proxy connections | |
| `RelayService` | relayed connections, every packet handler | `RelayDevices`, `RelayProxies` |
| `RelayServiceProofs` | the theorems of the relay's modules | `RelayService` |
| `AuthCache` | the auth cache of proxy access, with its clock | |
| `AuthCacheProofs` | its theorems | `AuthCache` |
| `ProxyClients` | the client connections of proxy access | |
| `ProxyRelay` | proxy access and one relay over a link that breaks | `ProxyClients` |
| `ProxyRelayProofs` | its theorems | `ProxyRelay` |
| `DeviceSelector` | device selector and device state relay, with the relays as reporters | |
| `DeviceSelectorProofs` | its theorems | `DeviceSelector`, `ListLemmas` |
| `ServerList` | server list, register clients, download clients | ids as `IdLease` gives them |
| `ServerListProofs` | its theorems | `ServerList`, `ListLemmas` |
| `ServiceClientPool` | `xServiceClientHashPool` | |
| `BackendPool` | `xBackendConnectionPool`: keys and challenges under reused indices | |
| `BackendConnection` | `xBackendConnection`: one connection and its time limits | |
| `RelayGroups` | `xPA_RelayConnectionManager`: relay connections by group | |
| `HttpHeader` | the HTTP challenges of proxy access, the header in any pieces | refines the parsing that `ProxyClients` abstracts |
| `DeviceObserver` | the device observer and its reports | |
| `ConfigCenter` | config center: relay servers in turn | |
| `PartsProofs` | theorems of `BackendPool`, `BackendConnection`, `RelayGroups`, `HttpHeader`, `ConfigCenter`, `DeviceObserver` and `ServiceClientPool` | these, `ListLemmas` |
| `Lists`, `ListLemmas` | what leaves a list; what the operators on lists return and keep | |
| `MC*` | the instances for TLC; `MCParts` puts the last seven side by side | |

How state and actions correspond to the code:

**ServerIdCenter.** `idInUse` and `RandomPool` are `xServerIdManager`'s members,
`userId[k]` the `U64` user context of connection `k` at the center. A connection
has a server end and a client end that close separately (`CenterCloses`,
`ClientCloses`), one request in flight (`up`) and one answer (`down`). `Regainable`
is the sequence of tests of `RegainServerId`; a refused regain acquires a new id.
A client keeps its id over restarts in a file; `DiesInDump` is a crash while the
file is written. `failedAsserts` collects the assertions reached while false
(`X_RUNTIME_ASSERT` in manager and center, `assert(ServerId)` in the register
client). The checksum is reduced to one number that does not fit (`BadId`).

**RelayDevices.** `list[c]` is the list of `xRD_DeviceConnectionManager` that the
connection is on (`Challenge`/`Idle`/`Kill` or destroyed), `marked` its
`FLAG_MARK_DELETE`. `OnTerminalInitDataStream` is split by outcome: refused, no slot,
bad key (which keeps the slot), bound. A Tick destroys any set of connections
whose limit may have passed: time is abstracted, so every order of limits is
allowed. `reported[v]` is what `DeviceReporter` was last given of `v`. A handler that
returns false makes the library close the connection: that is `CloseConnection`,
part of the same step.

**RelayProxies / RelayService.** Ids are slot and generation. `context[r].shared`
is the union of `TargetPort` and `DeviceSideConnectionId`. `PostToDevice` posts through
the pointers `CtrlConnection` and `DataConnection`, which may dangle: the message is then lost or
goes to the object that took the place. The device's program is not in the
repository; it reports only on connections it was told to create.

**AuthCache.** `updating` is `AuthCacheUpdateList`; every node is on the LRU list.
Timestamps are kept as ages, and a Tick adds any amount, because the loop can
stall. `queries` are those the auth server may still answer, each under its node
id; an answer may come late or never. `resultAge` and `resultOf` are history
variables. `OnTick` is one step: expired queries, unused nodes, dispatch.

**ProxyClients / ProxyRelay.** `client[s]` is the `xPA_ClientConnection` of slot `s`:
`protocol` with `phase` is the code's `Phase`, `account` membership of
`AccountTimeoutList`, `list` which of the linger and kill lists holds the shared
node. Parsing is reduced to its outcomes. `authRequests` and `deviceRequests` are the
answers that may still come; `toRelay` and `toProxy` are the FIFO directions of the
link, emptied when it breaks. The relay is reduced to what proxy access can see
of `RelayService`: refusal, context, reports in order; it may restart, after which its
ids start over. A failed `RuntimeAssert` (`aborted`) ends proxy access.

**DeviceSelector.** A session is a relay's device id; a device (`DeviceUuid`) may have
several, at several relays. `toStateRelay` and `toSelector` are the two connections that a report
takes; it may be lost on each. `DeviceList[a]` stands for the maps of country, state and
city lists. `info` is `InfoBase`, and `home` the place whose lists the object was linked to:
they differ once another session replaced the information, because nothing moves the
object. A Tick adds any amount of time; the timeout list is sorted by age, so that it is a
set of ages here.

**ServerList.** The code has three copies of everything, for three kinds of servers: here
`Kinds`. `context[c]` is the user context of a registration connection, a pointer to
an element of `list[k]`, kept as a position (elements shift under it), or
`Dangling` after the vector grew. Reading through a pointer that does not refer to an element is undefined
in the code; here any registered id may be read, or none. `capacity` doubles as in libstdc++.
`registered`, `disturbed` and `heard` are history. The client's vector is a bag: each new list is
added to it.

**ServiceClientPool.** `info[c]` is the `xServerContext` object `c`; the three vectors are sequences
of contexts, `Compared` is one pass of the loop that compares the two sorted lists and `Diff` all of them,
`PoolTick` the four parts of the Tick. `std::sort` may leave equal ids in any order (`Sorts`), which matters because lists
name servers twice. A connection whose `Init` fails is nobody's concern
afterwards; that is kept.

**BackendPool, BackendConnection.** `ContextList` is looked up by the index alone, as in the
code, so that removing a server twice resets its successor. The history variables say what really
happened on the present connection (`answered`, `introduced`), to compare it with what the
code believes. `OnTick` follows the code's order: keep-alive limits of a Ready
connection, the connection limit of one that is not, then `CheckAndReconnect` in the same
step. A Tick finds any time later than the one before (`Passes`), because the loop can stall. `unanswered` is
history: since when a keep-alive request has had no answer, from the last Tick that found none.

**RelayGroups.** The Tick is one step: the kill list is cleaned and its connections go back to the
idle list, replaced groups are freed, then the connections at the front that are due are opened or asked for a
keep-alive. A pass takes any of `PassTimes`. Ids that are acquired for a connection that cannot be opened
are lost (`lostIds` is history).

**HttpHeader.** A line is two units of text and its end; `Pass` is one pass of the loop of both challenges,
`Read` the loop. They differ in what they keep between calls: nothing (CONNECT), or the begun line and the
credentials. `cuts` records where the data of a call ended. The number of bytes decoded as credentials is
that of the last piece of the line (client_connection_manager.cpp:584); when it is not the line's own,
one that wraps around included, the credentials are "other", and the property names that cut.

**DeviceObserver, ConfigCenter.** The observer's clock is read twice in a pass, as
ticker and as present time, and differences are taken modulo the width. In config center a key is the time and
the index; ids come from the smallest; `served` counts answers between two turns. The repository calls
`AddServerInfo` at the start only and `RemoveServerInfoByKey` never; both are modelled as callable any
time, a removal with a key that an addition may have returned. A key of 0 would match a free slot and
release its id (relay_server_manager.cpp:60-73); it is not among these keys.

Assumptions about xel, from the way it is used: `Acquire` constructs a new
object in the slot under an id never used before, and `Release` destroys it, which takes it
off its lists; `OnPeerClose` is called once, also when `OnData` refuses data
(`InvalidDataSize`) or a packet handler returns false; messages posted while a client
is not connected are lost.

## Runs

| run | instance | shows |
|---|---|---|
| `server_id_center` | 2 clients, 3 connections, 2 indices, 2 random halves | `IdsConsistent` (types, exclusivity, no leak, assertions), `ClientAgrees`, `LeaseSpec`: `IdLease` is implemented |
| `relay_devices` | 2 control, 2 data connections, 2 device slots | `DevicesConsistent` (types, bindings, asserted pointers), `CtrlLostOnlyByTimeout`, `PresenceSpec`: `DevicePresence` is implemented; given-up connections are destroyed |
| `relay_service` | 1 device, 1 proxy slot with 2 generations, 2 contexts | `RepliesRight` (replies go home, traffic behind ESTABLISHED), `ServiceConsistent` (types, names and ports not mixed up); unchallenged proxy connections go, whatever they send |
| `auth_cache` | 2 users, 1 node with 3 generations, 3 requests, limits 2 < 3 < 4 | no request lost or answered twice, answers own and recent, assertions; every request is answered |
| `proxy_relay` | 1 slot with 2 generations, 2 contexts, 2 links | authorisation and data under late answers; unauthenticated and closed clients are dropped |
| `proxy_relay_two` | 2 slots, 1 context, 2 links | uploads, also those under way while the relay restarts and gives ids out again, go on connections of the client's own device that it established |
| `device_selector` | 2 devices, one with sessions at two relays; limit 2 | lists agree with the map, each is served in turn |
| `device_selector_order` | 1 device, 3 sessions, 2 reports under way from each relay; limit 2 | sessions that are over stay so; information is recent; gone devices are forgotten |
| `server_list` | 2 processes, 3 connections, 3 ids, limit 2, versions modulo 3 | sorted, bounded lists; no version 0; how entries are lost |
| `server_list_download` | 1 process: 3 connections, 2 ids, 1 client, limit 1; or without the client 2 connections, on which it registers without end | the client has what is published; registered servers are published once registrations cease; the client gets to the present version |
| `parts` | 2 listed of 3 servers at 2 addresses; 2 backend indices with 2 generations; limits 2 < 3 < 6 < 9, passes of 1 to 9; 2 relay servers in groups of 1, 2 ids, limits 3 < 4, passes of 1, 2 and 4; headers of 2 lines; 2 devices, 4 units of time; 3 relay slots | the seven smaller components, each on its own: see their modules |
| `first_state` | 2 slots, 1 context | **violated**: see Findings |

Why the bounds are enough. Slots and generations: a stale id needs one object
that went and one that took its slot, so two generations show what any number
does; a third adds only repetition. Server ids: a third
connection lets an old connection stay open at the center while its client holds
a new one and another client contends; two indices are the smallest pool with a
choice, and two random halves tell a regained id from a new one. Device slots:
two, so that one can be taken by a bad key while the other is bound; the safety
properties of `RelayDevices` are proved for any number. The auth cache has fewer slots than
users, so that its pool is exhausted; nodes share nothing but the dispatch list and
the map, which the requests of the other user also use. Queues of
two messages hold a message and its successor, which is all that FIFO order can
mix up. The time limits are the smallest numbers in the same order; `AgeLimit` and
`StaleLimit` are where growing ages change no comparison any more. The bound in
`ResultIsRecent` is sharp: TLC refutes it for one less; so is that of `InfoIsRecent`. A third
session is one that neither holds the information nor is the next to replace it. Three
registration connections let two entries move under a third one's pointer; three publications
are what it takes to restart below a client's version. `VersionModulus` is 3 where versions shall
start over, and larger than the number of publications where a client's version
is compared (2^32 publications, one a minute, are not reached).

`ListedIsPublished` has a condition: that no server of the kind registers any more. Every registration sets
the time anew from which `OnTick` waits (server_list_manager.cpp:58, 9), so that without it TLC finds a
server that is never published because another comes and goes at less than the limit. `server_list_download`
has a process that registers without end (`Recycle`: a connection that has ended at both ends is used again), and an `UpgradeLimit` that a registration can put off.

For the parts: a list of two has every case of the comparison (kept, gone, new, moved,
named twice), and two lists in a row meet an open, a lost and a new connection each. The backend's limits (3, 5, 60 and 65 s in the code) are small numbers in the same order,
and a pass takes any time up to the longest. That of the relay connections is 60 and 80 s; a pass may be as short as their
difference, longer, and longer than both. Two groups show one that is replaced and one that stays, and a pool of two
ids is exhausted by one that is lost. `CheckLimit` (200 in the code) must be no less than the number of
connections that are due in one Tick: with 1 and two connections TLC finds a connection that answers
and is given up unasked, so that `GivenUpOnlyIfSilent` is a statement about fewer than 200 connections due at
once. Two header lines put the credentials first, last, and next to each kind of
line; every cut of the whole is tried.

Deadlock is not checked where the system of the instance may stop: every
connection or generation is used up (relay and proxy modules), or proxy access aborted. It is checked for
`ServerIdCenter`, `AuthCache`, `DeviceSelector`, `ServerList` and the parts (a header that
was read to its end stutters).

Symmetry is used for `server_id_center` only, which has no liveness property.

## Fairness

* `RelayDevices`, `RelayProxies` (in `RelayService`): weak fairness of the Tick that empties the kill
  list; and of the Tick at which an unchallenged proxy connection reaches
  its limit. The main loop never blocks (`LoopOnce` returns), and nothing renews the time of a
  connection on the challenge list.
* `AuthCache`: weak fairness of `Tick`, which adds at least one unit of time. Nothing is
  assumed of the auth server.
* `BackendConnection`, `RelayGroups`: weak fairness of Tick, which every program calls in each pass
  of its loop. Connections may fail to open every time, and nothing is assumed of the peers.
* `DeviceSelector`: weak fairness of Tick. Nothing is assumed of relays and reports.
* `ServerList`: weak fairness of the server's and the client's Tick, and of the delivery
  of a request or response on a connection that stays open. Nothing is assumed of the servers that
  register; they may break their connections at any time.
* `ProxyRelay`: weak fairness of the Tick that cleans the kill list, and of the Tick
  at which a connection on the `AccountTimeoutList`, or a closed one that lingers, reaches
  its limit. A connection that is open and lingers is not assumed to reach its
  limit: its client can have its time renewed (`OnBadS5ConnectionRequest`). Nothing is assumed of
  clients, selector or relay.

## Proofs

TLAPS checks, for every value of the constants that the named assumptions admit. Each theorem of a
module rests on an inductive invariant that holds initially and is kept by every action, one lemma per
action; the invariants were checked with TLC before they were proved.

* `ServerIdCenterProofs`: `TypeCorrect`, `IdsAreExclusive`, `NoIdLeaks`, `CenterSurvives`,
  `CenterIsConsistent` (the run's `IdsConsistent`), `ZeroOnlyWhenAllHeld`, `CenterImplementsLease`, and
  `ClientsAgree`. `IInv` ties together the three places that know of an id.
  `PoolAgrees`: a random slot is 0 exactly when its index is free; `RegainServerId`
  tests the random half alone, so without this it could grant an index that is in use.
  `LeaseHeld`: an id belongs to an open connection and is the one its slot holds; without it
  `OnClientClose` could give back the id of another connection. With the exclusiveness
  itself and `NoIdLeak` these are inductive, and the center's assertions follow. The refinement
  uses `IInv` to show that a granted index is free. `ClientsAgree` needs to know what is under way
  (`Agreement`): a client has one connection, the answer on its way is what the center keeps, and nobody
  asks while an answer of 0 is on its way.
* `RelayServiceProofs`: of `RelayDevices`, `TypeCorrect`, `BindingsAreMutual`, `AssertedConnectionsAreSet`,
  `DevicesAreConsistent` (the run's `DevicesConsistent`), `CtrlIsLostOnlyByTimeout`, `ReportsImplementPresence`.
  The invariant has three parts besides
  the types. `Binding`: devices and control connections point at each other. `Reports`: a
  device was reported exactly when it was bound, and is offline exactly when it was
  given up. `GivenUp`: what is on the kill list was marked, and a control connection that
  was given up while open has no device and will get none.
  Of `RelayService`, `ServiceIsConsistent` and `RepliesAreRight`. A message is right because of what was told before:
  `ContextsAgree` says what the shared field of a context means at each time, `DeviceWasTold` and
  `ProxyWasTold` who knows of which context. `ProxiesMoveOn` carries them over the end of a connection: an
  id that was given out is not found again once it is gone.
* `AuthCacheProofs`: `CacheIsConsistent`, `AnswersAreOwn`, `ResultsAreRecent`. `SlotsAgree`, `MapAgrees` and
  `ListsDisjoint` say how nodes, map and lists fit; `Watched` that requests wait only where a query is
  watched, so that none is lost with its node; `IdsAreOwn` that what a query names is its user's node or
  gone, so that a late answer is nobody else's. `ResultsFresh` bounds the age of a result by the three
  limits, through being unused, reconfirmed and waiting for the answer.
* `ProxyRelayProofs`: `TypeCorrect` and `OnlyAuthorisedIsOpened`, that every connection a relay
  is asked to open is for a client that was authenticated and through the device selected
  for it. The invariant follows the authorisation through the answers: devices are asked
  for authorised connections only; a SOCKS5 client that may name its target
  holds the device of its own request (`Chosen`); a connection in use has an id of the pool
  (`Named`), so that an answer that is found is the answer to its own request. The types need
  `ReadyIsNamed`: a connected client knows the relay's id.
  `DataIsOwn` and `UploadsAreOnEstablished` are about what the relay knows of a client that may be gone. `Trail` says of each
  message under way and each context how far their client must have got; `Advance`, that a
  connection goes on or has a successor with another id, carries it through every step of proxy access;
  `EstablishedIsTold` through the relay's: data follows its answer in the same queue. The second holds although
  the relay's ids are given out again after a restart: a client that is ready, or data or an answer under way, names either another's
  context or one that was established (`UseIsPast`); and as long as the one request of a client for a connection is under way
  there is no other trace of it (`AskedOnce`, `AskedIsNew`), so that no context in the state before is its own.
* `DeviceSelectorProofs`: `MapAndListsAgree`, `OldIsForgotten`, `DevicesTakeTurns`. `MapInv`: who was selected
  since a device was stands behind it (`OvertakersAreBehind`), on each list, which is what rotating and
  unlinking keep; the information is not older than the last report and a time limit (`AgeOfInfo`). `QueueInv`: a report
  that a session is over is the last of that session, in each queue and in what follows it
  (`RelayReportsEnd`, `SelectorReportsEnd`), so that nothing brings it back.
* `ServerListProofs`: `ListsStaySorted`, `PublishedListsAreNamed`, `UnlistedByClose`, `ClientsHavePublished`.
  `PointsAtOwn` is the heart: the context of a connection whose element was not moved is the position of
  the id that it registered; inserting at the lower bound and erasing keep what is smaller where it was, and
  `disturbed` is all the rest. For what clients hold, versions are counted: each
  publication takes a registration (`VersionCount`), so nobody was told the version that
  is published next (`HeardNotAhead`, `ResponseNotAhead`).
* `PartsProofs`: `BackendsAreIdentified`, `BackendStateIsTrue`, `ReadyConnectionIsKept`, `RelayGroupsAreConsistent`,
  `AnsweringIsKept`, `FewConnectionsAreKept`, `RelaysRotate`, `PostedIsTrue`, `HttpPiecesDoNotMatter`, `PoolIsConsistent`,
  `ServerOfListIsKept`. A context is ready only while its connection is up, so that one added after
  a removal is not (`ReadyIsUp`); the socket's state is known from `State`, and the last keep-alive is older
  than the last Tick without an unanswered request by less than the interval between requests (`SocketFits`,
  `RequestFollowsKeepAlive`). This holds for passes of any length, so that the theorem says how long a loop must stall to
  give up a peer which it has never asked: for longer than the limits differ by, 5 s in the code. `GroupsInv` adds to `GroupsConsistent` that what the map names is allocated and no two
  servers' (`MapIsOwn`), so that a group that is replaced is on no list yet and its object is reused only when
  its connections are off both. That a connection which answers is not given up (`GivenUpOnlyIfSilent`) rests on the order of the
  IdleList: one that has answered everything was asked before it answered, and so was all that is in front of it
  (`AnsweredIsBehindDue`). So when a Tick does not reach it, either something in front of it was asked lately, and it was
  heard of later than that, or the Tick stopped because it had looked at `CheckLimit` connections. `AnsweringIsKept`
  therefore has the hypothesis `[]DueFits`, no more due at once than a Tick looks at, and
  `FewConnectionsAreKept` says where it always holds: with no more connections than that, as in the run. Passes
  may have any length; one that is longer than the two limits differ by (20 s) may find a connection due to be asked and too
  old at once, and then it is given up although it answered everything, which is the only other way. Servers given since one was are behind it in the list, once each
  (`ServedAreBehind`); a posted time is measured from the start of the present presence, or
  wrapped (`PostedIsMeasured`). `TableStandsForList`: at each time the contexts in use and the new ones correspond, one
  to one, to the entries of the last list. For it `DiffProperties` proves what the comparison finds
  for any two lists: after each pass the entries that stayed and those that came match, one to one, the part of the new list that was
  compared (`Stage`); if both lists name each server once, what was compared is smaller than what was not, so what leaves
  is not in the new list (`Apart`). Two sorted lists with the same entries name the same server in each
  place (`AlikeInPlaces`), hence by each hash. For `HttpPiecesDoNotMatter`, `BeforeLine` says what the loop has after
  any number of passes over a piece, in terms of the whole header: the line and the place in it at which it stands,
  and with it what it has rebuilt and found of the credentials. The invariant of an ordinary request (`NormalInv`) is
  that the connection keeps what the loop needs to be there again; that of a CONNECT (`RawInv`), that whole lines
  were consumed, and that a call which consumed the credentials ended in a cut that is seen.
  A call reads up to the end of what has come (`ReadIs`), by counting passes. Behind a cut that
  is seen nothing is known of the places any more, only that no credentials are taken from lines without them (`ReadKeeps`).
* `ListLemmas`: `Unlinked`, `RemoveFirst`, appending and rotating keep a list without duplicates and in its order;
  a set of numbers has a smallest; what is before what in a list that is joined, thinned or split (`Before`); a list without duplicates has as many elements as its set;
  pieces of a list that are next to each other join, and a piece of a piece is a piece.

The assumptions are those named in the modules, which every run evaluates. They say that null values are
none of the values they stand beside (`NothingAssumption`, `NothingIsNoContext`, `NoneIsNoResponse`, ...),
that limits are in the order of the code's (`TimeoutsAssumption`, `BackendTimeouts`), and that
the observer's clock runs for less than half of its width
(`ObserverAssumption`: 2^64 ms). `ClientsHavePublished` has a hypothesis of its own,
`MaxConnections < VersionModulus - 1`: versions do not come round while the same connections last. With 2^32
versions, at most one in each `UPGRADE_VERSION_TIMEOUT_MS`, they do not; without it, it is false of
a client that missed 2^32 - 1 publications. `AnsweringIsKept` assumes `[]DueFits`: a Tick looks at the first `CheckLimit` of
the connections, 200 in the code, which are 66 groups of three; when more than that are always due, it is
false of one that answered and is asked too late (see the bounds of the parts).

What was changed in the models so that they can be reasoned about: what leaves a list is
the recursive function `Unlinked` or the library's `RemoveFirst`, because the provers know nothing of
`SelectSeq`; the comparison of `ServiceClientPool` and the loop of `HttpHeader` are written pass by pass, as the code's loops are, so that an invariant of the
loop can be stated; the bytes of `HttpHeader` are given by their place instead of joined from the lines. Induction over the length of a list is done once, in `ListLemmas`, by the
smallest number that is a counterexample.

What is only model-checked: liveness and the parts of properties that rest on it (`GivenUpIsDestroyed`,
`ChallengedOrDropped`, `EveryRequestAnswered`, `DroppedInTheEnd`, `GoneIsForgotten`, `ListedIsPublished`, `ClientCatchesUp`,
`ChallengeEnds`, `LostIsRetried`), which is out of the prover's reach. Every safety property that a run checks is proved.

## Findings

`first_state`: `client_connection_manager.cpp:806` (and 842, 851) asserts with `RuntimeAssert`
that the first state a waiting client is notified of is `STATE_ESTABLISHED`. The relay
answers `STATE_CLOSED` when its context pool is exhausted
(`server_relay_device/relay_service._proxy.cpp:68-74`), and contexts are never given back. The
counterexample needs two clients and a pool of one; its devices never report
CLOSED early (`EarlyClose = FALSE`), so it rests on code of this repository only.

Other behaviour worth knowing, which no text of the repository contradicts, is
listed under `hazards`: HTTP clients whose remote side closes or whose relay is not
found are not told; contexts and device slots are not reclaimed; `Kill` and `LingerKill`
share a node; a device that changed its place stays on the lists of the old one; a list of
`MAX_AUTH_CACHE_SERVER_COUNT` servers is published and then refused by every client; a close may leave
its own entry on the server list and remove another's; a backend's keys are lost when its
connection closes; the id of a relay connection that cannot be opened is lost; credentials of a CONNECT that come in a
piece before the last are forgotten, and those of another request that are cut are decoded wrongly;
the first online time that is reported of a device may be a wrapped negative number; registrations put off the publication
of a list; a pass of the main loop that takes longer than the limits differ by makes backend and relay connections be
given up that were not asked for a keep-alive.

## Not modelled, and the plan

Not modelled, and why:

* **Auth cache server.** `auth_service.cpp` is unfinished (its handlers are TODO) and is the only
  user of the request contexts of `service_common`; its cache reads through the end iterator for
  every new user; `cache_manager` is an abstract class that nothing derives from. The request id pool and
  `LocalAuthCache` are used by no program.
* **Stubs and tables.** The UDP socket manager, the relay server list of proxy access (it ignores the
  answers), the other managers of config center, and the backend servers of the server list (lines of a file; its main
  does not use them).
* **I/O, logging, data.** The database and Kafka wrappers, audit counters, start-up, formatting. The
  messages of the protocol are field lists for xel's serialiser; the checks in them that matter are part of the
  handlers (such as the limit of a downloaded list).
* **Third-party code.** `nlohmann_json.hpp`, `rapidcsv.hpp` and IP2Location are some 28,000 of the 40,800 lines
  of C and C++ in the repository. Of the 12,700 others the definitions here stand for some 3,900; most of
  the rest are field lists, headers, start-up and the parts above.
* The server id's checksum and bit fields, abstracted to whether an id fits.

What is left to do is a proof: that `ServerList` needs no more of its ids than `IdLease` promises.
