------------------------------ MODULE ServerList ------------------------------
(***************************************************************************)
(* server_server_list: servers register under the id that the id center    *)
(* gave them (IdLease); the lists of the three kinds of servers are        *)
(* published under a version once no server was added for a while;         *)
(* download clients ask for the list that is newer than theirs.            *)
(*                                                                         *)
(* A registration connection has two ends that close separately.  At the   *)
(* server its user context is a pointer into the vector of its kind.  It   *)
(* is kept here as a position, because another element moves there when    *)
(* elements are inserted or erased before it, and as Dangling when the     *)
(* vector grew; a pointer behind the last element reads a destroyed one.   *)
(* What is read through those two is undefined: any id that is registered, *)
(* or one that is not.                                                     *)
(*                                                                         *)
(* A client's list of servers is a bag: the vector is sorted after the     *)
(* elements of each response were added to it.                             *)
(*                                                                         *)
(* Bounds: MaxConnections registration connections, MaxPosted messages     *)
(* under way on each, one request and one response on a download           *)
(* connection.                                                             *)
(***************************************************************************)
EXTENDS Naturals, SequencesExt

CONSTANTS Kinds, Processes, Clients,
          KindOf,         \* the kind of a process and of a client
          ServerIds,      \* positive numbers
          NoContext, Dangling, None,
          MaxServers,     \* MAX_AUTH_CACHE_SERVER_COUNT
          UpgradeLimit,   \* UPGRADE_VERSION_TIMEOUT_MS
          VersionModulus, \* 2^32
          MaxConnections, MaxPosted  \* bounds of the model

ASSUME ListAssumption ==
    /\ KindOf \in [Processes \cup Clients -> Kinds]
    /\ ServerIds \subseteq Nat \ {0}
    /\ MaxServers \in Nat \ {0} /\ UpgradeLimit \in Nat
    /\ VersionModulus \in Nat /\ VersionModulus > 2
    /\ MaxConnections \in Nat /\ MaxPosted \in Nat
    /\ {NoContext, Dangling} \cap (1..MaxServers) = {} /\ NoContext # Dangling
    /\ None \notin ServerIds \cup Kinds \cup Nat

Connections == 1..MaxConnections  \* in the order in which they are opened

VARIABLES
    serverId,    \* ServerId of a process's register client
    link,        \* the connection that the process believes open
    conn,        \* conn[c]: "unused", "open", "closed", at the server
    kind,        \* kind[c]: of the process at the other end
    posted,      \* posted[c]: registrations under way
    context,     \* context[c]: the user context
    list,        \* list[k]: AuthCacheServerInfoList etc.
    capacity,    \* of the vector
    published,   \* VersionedAuthCacheServerInfoList
    version,     \* AuthCacheServerInfoListVersion
    dirty,       \* AuthCacheServerInfoListDirty
    age,         \* time since AuthCacheServerInfoListVersionTimestampMS
    connected,   \* download clients
    request, response,
    ServerListVersion, SortedServerInfoList,
    registered,  \* history: the id that was registered on c
    disturbed,   \* history: the element of c was moved or erased
    heard        \* history: the client's version is of this run of the server

processVars == <<serverId, link>>
connVars    == <<conn, kind, posted, context, registered, disturbed>>
listVars    == <<list, capacity>>
versionVars == <<published, version, dirty, age>>
clientVars  == <<connected, request, response, ServerListVersion, SortedServerInfoList, heard>>
vars == <<processVars, connVars, listVars, versionVars, clientVars>>

MaxAge    == UpgradeLimit + 1  \* no comparison tells greater ages apart
Versions  == 0..VersionModulus - 1
Responses == [version : Versions, servers : Seq(ServerIds)]

ASSUME NoneIsNoResponse == None \notin Responses

TypeOK ==
    /\ serverId \in [Processes -> ServerIds \cup {None}]
    /\ link \in [Processes -> Connections \cup {None}]
    /\ conn \in [Connections -> {"unused", "open", "closed"}]
    /\ kind \in [Connections -> Kinds \cup {None}]
    /\ posted \in [Connections -> Seq(ServerIds)]
    /\ context \in [Connections -> 1..MaxServers \cup {NoContext, Dangling}]
    /\ list \in [Kinds -> Seq(ServerIds)] /\ published \in [Kinds -> Seq(ServerIds)]
    /\ \A k \in Kinds : Len(list[k]) <= capacity[k] /\ Len(list[k]) <= MaxServers
    /\ version \in [Kinds -> Versions]
    /\ dirty \in [Kinds -> BOOLEAN] /\ age \in [Kinds -> 0..MaxAge]
    /\ connected \in [Clients -> BOOLEAN] /\ heard \in [Clients -> BOOLEAN]
    /\ request \in [Clients -> Versions \cup {None}]
    /\ response \in [Clients -> Responses \cup {None}]
    /\ ServerListVersion \in [Clients -> Versions]
    /\ \A x \in Clients : BagToSet(SortedServerInfoList[x]) \subseteq ServerIds
    /\ registered \in [Connections -> ServerIds \cup {None}]
    /\ disturbed \in [Connections -> BOOLEAN]

Init ==
    /\ serverId = [g \in Processes |-> None]
    /\ link = [g \in Processes |-> None]
    /\ conn = [c \in Connections |-> "unused"]
    /\ kind = [c \in Connections |-> None]
    /\ posted = [c \in Connections |-> <<>>]
    /\ context = [c \in Connections |-> NoContext]
    /\ list = [k \in Kinds |-> <<>>] /\ capacity = [k \in Kinds |-> 0]
    /\ published = [k \in Kinds |-> <<>>] /\ version = [k \in Kinds |-> 0]
    /\ dirty = [k \in Kinds |-> FALSE] /\ age = [k \in Kinds |-> MaxAge]
    /\ connected = [x \in Clients |-> FALSE]
    /\ request = [x \in Clients |-> None] /\ response = [x \in Clients |-> None]
    /\ ServerListVersion = [x \in Clients |-> 0]
    /\ SortedServerInfoList = [x \in Clients |-> EmptyBag]
    /\ registered = [c \in Connections |-> None]
    /\ disturbed = [c \in Connections |-> FALSE]
    /\ heard = [x \in Clients |-> FALSE]

-----------------------------------------------------------------------------
(* The register client of a process *)

OnServerConnected(g, c) ==
    /\ link[g] = None
    /\ conn[c] = "unused" /\ \A d \in 1..c - 1 : conn[d] # "unused"
    /\ link' = [link EXCEPT ![g] = c]
    /\ conn' = [conn EXCEPT ![c] = "open"]
    /\ kind' = [kind EXCEPT ![c] = KindOf[g]]
    /\ posted' = [posted EXCEPT ![c] = IF serverId[g] = None THEN <<>> ELSE <<serverId[g]>>]
    /\ UNCHANGED <<serverId, context, registered, disturbed, listVars, versionVars, clientVars>>

\* The center's answer; another process does not have the same id (IdLease).
UpdateServerId(g, s) ==
    /\ \A h \in Processes : serverId[h] # s
    /\ serverId' = [serverId EXCEPT ![g] = s]
    /\ \/ /\ link[g] # None /\ Len(posted[link[g]]) < MaxPosted
          /\ posted' = IF conn[link[g]] = "open"
                       THEN [posted EXCEPT ![link[g]] = Append(@, s)] ELSE posted
       \/ link[g] = None /\ UNCHANGED posted
    /\ UNCHANGED <<link, conn, kind, context, registered, disturbed, listVars, versionVars,
                   clientVars>>

ProcessCloses(g) ==
    /\ link[g] # None
    /\ link' = [link EXCEPT ![g] = None]
    /\ UNCHANGED <<serverId, connVars, listVars, versionVars, clientVars>>

-----------------------------------------------------------------------------
(* Registration *)

\* The vectors of libstdc++ double.
Grown(k) == IF Len(list[k]) < capacity[k] THEN capacity[k] ELSE Max({1, 2 * capacity[k]})

\* lower_bound: of the first element that is not less, or of the end.
Position(k, s) ==
    Min({i \in 1..Len(list[k]) + 1 : i <= Len(list[k]) => s <= list[k][i]})

\* Faulty variant: a registered id is added again.
AddableTwice(k, s) == Len(list[k]) < MaxServers

Addable(k, s) == Len(list[k]) < MaxServers /\ ~Contains(list[k], s)

Insert(c, k, s) ==
    /\ list' = [list EXCEPT ![k] = InsertAt(@, Position(k, s), s)]
    /\ capacity' = [capacity EXCEPT ![k] = Grown(k)]
    /\ context' = [[d \in Connections |->
                       IF kind[d] = k /\ context[d] # NoContext /\ Grown(k) # capacity[k]
                       THEN Dangling ELSE context[d]] EXCEPT ![c] = Position(k, s)]

\* Faulty variant: only the first server makes the list dirty.
AddSilently(c, k, s) ==
    /\ Insert(c, k, s)
    /\ dirty' = [dirty EXCEPT ![k] = @ \/ list[k] = <<>>]
    /\ age' = [age EXCEPT ![k] = 0]

AddServerInfo(c, k, s) ==
    /\ Insert(c, k, s)
    /\ dirty' = [dirty EXCEPT ![k] = TRUE]
    /\ age' = [age EXCEPT ![k] = 0]

\* Faulty variant: the element behind the lower bound is erased.
RemoveNext(k, s) ==
    list' = [list EXCEPT ![k] = IF Contains(@, s) /\ Position(k, s) < Len(@)
                                THEN RemoveAt(@, Position(k, s) + 1) ELSE @]

\* The list does not become dirty.
RemoveServerInfo(k, s) == list' = [list EXCEPT ![k] = RemoveFirst(@, s)]

\* The elements of the other connections move when one is inserted or erased
\* before them, or when the vector grows.
Disturb(k, s, grows) ==
    disturbed' = [d \in Connections |->
        /\ registered[d] # None /\ registered'[d] # None
        /\ disturbed[d] \/ (kind[d] = k /\ (grows \/ s <= registered[d]))]

Listed == {e \in Kinds \X ServerIds : Contains(list[e[1]], e[2])}

\* OnClientClose: what the context points at is removed.
Unregister(c) ==
    LET k == kind[c]
        i == context[c]
        removes(q, s) == RemoveServerInfo(q, s) /\ Disturb(q, s, FALSE)
        removesNone == UNCHANGED list /\ disturbed' = [disturbed EXCEPT ![c] = FALSE]
    IN CASE i = NoContext -> removesNone
         [] i \in 1..Len(list[k]) -> removes(k, list[k][i])
         [] OTHER -> removesNone \/ \E e \in Listed : removes(e[1], e[2])

OnClientClose(c) ==
    /\ conn[c] = "open"
    /\ registered' = [registered EXCEPT ![c] = None]
    /\ Unregister(c)
    /\ conn' = [conn EXCEPT ![c] = "closed"]
    /\ posted' = [posted EXCEPT ![c] = <<>>]
    /\ context' = [context EXCEPT ![c] = NoContext]
    /\ kind' = [kind EXCEPT ![c] = None]
    /\ UNCHANGED <<capacity, processVars, versionVars, clientVars>>

Refused(c, s) == context[c] # NoContext \/ ~Addable(kind[c], s)

\* OnRegisterAuthCacheServer etc.
OnRegisterServer(c) ==
    /\ conn[c] = "open" /\ posted[c] # <<>>
    /\ LET s == Head(posted[c]) IN
       /\ ~Refused(c, s)
       /\ AddServerInfo(c, kind[c], s)
       /\ registered' = [registered EXCEPT ![c] = s]
       /\ Disturb(kind[c], s, Grown(kind[c]) # capacity[kind[c]])
    /\ posted' = [posted EXCEPT ![c] = Tail(@)]
    /\ UNCHANGED <<conn, kind, published, version, processVars, clientVars>>

\* The handler returns false, and the connection closes.
OnRegisterServerRefused(c) ==
    /\ posted[c] # <<>> /\ Refused(c, Head(posted[c]))
    /\ OnClientClose(c)

-----------------------------------------------------------------------------
(* Publication *)

\* Faulty variant: 0 is a version like any other.
NextVersionPlain(v) == (v + 1) % VersionModulus

NextVersion(v) == IF v = VersionModulus - 1 THEN 1 ELSE v + 1

OnTick(time) ==
    LET now(k) == Min({MaxAge, age[k] + time})
        due(k) == dirty[k] /\ now(k) > UpgradeLimit
    IN /\ version' = [k \in Kinds |-> IF due(k) THEN NextVersion(version[k]) ELSE version[k]]
       /\ published' = [k \in Kinds |-> IF due(k) THEN list[k] ELSE published[k]]
       /\ age' = [k \in Kinds |-> IF due(k) THEN 0 ELSE now(k)]
       /\ dirty' = [k \in Kinds |-> dirty[k] /\ ~due(k)]
       /\ UNCHANGED <<processVars, connVars, listVars, clientVars>>

-----------------------------------------------------------------------------
(* Download *)

\* OnServerConnected of the download client: the first request is posted.
Connect(x) ==
    /\ ~connected[x]
    /\ connected' = [connected EXCEPT ![x] = TRUE]
    /\ request' = [request EXCEPT ![x] = ServerListVersion[x]]
    /\ UNCHANGED <<response, ServerListVersion, SortedServerInfoList, heard, processVars,
                   connVars, listVars, versionVars>>

\* OnTick of the download client, at most every MIN_UPDATE_INTERVAL_MS
PostDownloadRequest(x) ==
    /\ connected[x] /\ request[x] = None /\ response[x] = None
    /\ request' = [request EXCEPT ![x] = ServerListVersion[x]]
    /\ UNCHANGED <<connected, response, ServerListVersion, SortedServerInfoList, heard,
                   processVars, connVars, listVars, versionVars>>

Breaks(x) ==
    /\ connected' = [connected EXCEPT ![x] = FALSE]
    /\ request' = [request EXCEPT ![x] = None]
    /\ response' = [response EXCEPT ![x] = None]

Disconnect(x) ==
    /\ connected[x] /\ Breaks(x)
    /\ UNCHANGED <<ServerListVersion, SortedServerInfoList, heard, processVars, connVars,
                   listVars, versionVars>>

\* Faulty variant: the list that is not published yet is sent.
AnswerUnpublished(k, v) ==
    CASE v = version[k] -> [version |-> v, servers |-> <<>>]
      [] v # version[k] /\ version[k] = 0 -> None
      [] OTHER -> [version |-> version[k], servers |-> list[k]]

\* Nothing is posted as long as no list was published: the response that is
\* kept is empty.  Otherwise it is written anew, as the version of the one
\* that is kept is never set.
Answer(k, v) ==
    CASE v = version[k] -> [version |-> v, servers |-> <<>>]
      [] v # version[k] /\ version[k] = 0 -> None
      [] OTHER -> [version |-> version[k], servers |-> published[k]]

OnDownloadServerList(x) ==
    /\ request[x] # None /\ response[x] = None
    /\ response' = [response EXCEPT ![x] = Answer(KindOf[x], request[x])]
    /\ request' = [request EXCEPT ![x] = None]
    /\ UNCHANGED <<connected, ServerListVersion, SortedServerInfoList, heard, processVars,
                   connVars, listVars, versionVars>>

\* DeserializeMembers refuses a response of the greatest length: the
\* connection closes.
OnServerPacketInvalid(x) ==
    /\ response[x] # None /\ Len(response[x].servers) >= MaxServers
    /\ Breaks(x)
    /\ UNCHANGED <<ServerListVersion, SortedServerInfoList, heard, processVars, connVars,
                   listVars, versionVars>>

\* Faulty variant: only a greater version is taken.
OnServerPacketNewer(x) ==
    LET r == response[x] IN
    /\ r # None /\ Len(r.servers) < MaxServers
    /\ response' = [response EXCEPT ![x] = None]
    /\ IF r.version <= ServerListVersion[x]
       THEN UNCHANGED <<ServerListVersion, SortedServerInfoList, heard>>
       ELSE /\ SortedServerInfoList' = [SortedServerInfoList EXCEPT
                 ![x] = @ (+) SetToBag(ToSet(r.servers))]
            /\ ServerListVersion' = [ServerListVersion EXCEPT ![x] = r.version]
            /\ heard' = [heard EXCEPT ![x] = TRUE]
    /\ UNCHANGED <<connected, request, processVars, connVars, listVars, versionVars>>

OnServerPacket(x) ==
    LET r == response[x] IN
    /\ r # None /\ Len(r.servers) < MaxServers
    /\ response' = [response EXCEPT ![x] = None]
    /\ IF r.version = ServerListVersion[x]
       THEN UNCHANGED <<ServerListVersion, SortedServerInfoList, heard>>
       ELSE /\ SortedServerInfoList' = [SortedServerInfoList EXCEPT
                 ![x] = @ (+) SetToBag(ToSet(r.servers))]
            /\ ServerListVersion' = [ServerListVersion EXCEPT ![x] = r.version]
            /\ heard' = [heard EXCEPT ![x] = TRUE]
    /\ UNCHANGED <<connected, request, processVars, connVars, listVars, versionVars>>

-----------------------------------------------------------------------------
\* The server list dies and starts again: everything starts over, the
\* versions as well.
Restart ==
    /\ conn' = [c \in Connections |-> IF conn[c] = "open" THEN "closed" ELSE conn[c]]
    /\ posted' = [c \in Connections |-> <<>>]
    /\ context' = [c \in Connections |-> NoContext]
    /\ list' = [k \in Kinds |-> <<>>] /\ capacity' = [k \in Kinds |-> 0]
    /\ published' = [k \in Kinds |-> <<>>] /\ version' = [k \in Kinds |-> 0]
    /\ dirty' = [k \in Kinds |-> FALSE] /\ age' = [k \in Kinds |-> MaxAge]
    /\ connected' = [x \in Clients |-> FALSE]
    /\ request' = [x \in Clients |-> None] /\ response' = [x \in Clients |-> None]
    /\ heard' = [x \in Clients |-> FALSE]
    /\ registered' = [c \in Connections |-> None]
    /\ disturbed' = [c \in Connections |-> FALSE]
    /\ kind' = [c \in Connections |-> None]
    /\ UNCHANGED <<processVars, ServerListVersion, SortedServerInfoList>>

SomeTick == \E time \in 1..MaxAge : OnTick(time)

Next ==
    \/ \E g \in Processes :
          \/ \E c \in Connections : OnServerConnected(g, c)
          \/ \E s \in ServerIds : UpdateServerId(g, s)
          \/ ProcessCloses(g)
    \/ \E c \in Connections :
          OnRegisterServer(c) \/ OnRegisterServerRefused(c) \/ OnClientClose(c)
    \/ SomeTick \/ Restart
    \/ \E x \in Clients :
          \/ Connect(x) \/ Disconnect(x) \/ PostDownloadRequest(x)
          \/ OnDownloadServerList(x) \/ OnServerPacket(x) \/ OnServerPacketInvalid(x)

Spec == Init /\ [][Next]_vars

\* Server and clients keep ticking, and what is under way on a connection
\* that stays open arrives.
Fairness ==
    /\ WF_vars(SomeTick)
    /\ \A x \in Clients : WF_vars(PostDownloadRequest(x)) /\ WF_vars(OnDownloadServerList(x))
    /\ \A x \in Clients : WF_vars(OnServerPacket(x) \/ OnServerPacketInvalid(x))

FairSpec == Spec /\ Fairness

-----------------------------------------------------------------------------
(* Properties *)

\* The lists are sorted without duplicates, on which their binary searches rely,
\* although ids come back on new connections before the old ones close.
ListsSorted ==
    \A k \in Kinds : \A i, j \in 1..Len(list[k]) : i < j => list[k][i] < list[k][j]

\* The types, with the limits of the lists, and their order.
ListsConsistent == TypeOK /\ ListsSorted

\* A server leaves the list only when its own connection closes, or one whose
\* element was moved or erased since it registered, so that its pointer may
\* be to another's.
UnlistedByOwnCloseOrMoved ==
    [][\A e \in Listed \ Listed' :
          \/ capacity'[e[1]] = 0  \* Restart
          \/ \E c \in Connections :
                /\ conn[c] = "open" /\ conn'[c] = "closed"
                /\ disturbed[c] \/ (kind[c] = e[1] /\ registered[c] = e[2])]_vars

\* A client that was told the present version by this run of the server has
\* every server that is published.
HasPublished ==
    \A x \in Clients :
        heard[x] /\ ServerListVersion[x] = version[KindOf[x]] =>
            ToSet(published[KindOf[x]]) \subseteq BagToSet(SortedServerInfoList[x])

\* A client without a list, whose version is 0, is not told that its list
\* is the present one once there are servers, also when versions start over.
PublishedIsNamed == \A k \in Kinds : published[k] # <<>> => version[k] # 0

\* A server that registered is published unless it leaves before, provided that
\* registrations of its kind cease: each one sets the time of the last change
\* anew, with which OnTick compares, so that a server that registers again at
\* less than the limit, or several in turn, put off the publication for ever.
Ceases(k) ==
    <>[][\A c \in Connections : kind[c] = k => ~OnRegisterServer(c)]_vars

ListedIsPublished ==
    \A k \in Kinds : \A s \in ServerIds :
        Ceases(k) => (Contains(list[k], s) ~> Contains(published[k], s) \/ ~Contains(list[k], s))

\* A client whose connection stays open gets to the present version, also
\* after a restart, by which versions become smaller.  This does not hold of a
\* list of the greatest length.
Behind(x) ==
    LET k == KindOf[x] IN
    connected[x] /\ version[k] \notin {0, ServerListVersion[x]} /\ Len(published[k]) < MaxServers

ClientCatchesUp == \A x \in Clients : Behind(x) ~> ~Behind(x)
=============================================================================
