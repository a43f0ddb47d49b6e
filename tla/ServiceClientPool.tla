------------------------- MODULE ServiceClientPool -------------------------
(***************************************************************************)
(* xServiceClientHashPool (lib_server_util/service_client_hash_pool.cpp):  *)
(* one connection to each server of a list that is replaced from time to   *)
(* time; a message goes to the server that its hash names in the sorted    *)
(* list.  UpdateServerList compares the new list with the one in use, and  *)
(* the next Tick does what it found: connects the new servers and deletes  *)
(* the ones that left.  A connection that its peer closed is opened again  *)
(* by the Tick.                                                            *)
(*                                                                         *)
(* A list may name a server twice (ServerList: download clients add each   *)
(* list to the one before); std::sort leaves such entries in any order.    *)
(* ReconnectServerList is empty between Ticks and not kept here.           *)
(*                                                                         *)
(* Bounds: MaxListed entries in a list.                                    *)
(***************************************************************************)
EXTENDS Naturals, FiniteSets, SequencesExt, Lists

CONSTANTS PoolServerIds,    \* numbers
          PoolAddresses,
          NoInfo,
          MaxListed         \* bound of the model

Infos == [id : PoolServerIds, address : PoolAddresses]

ASSUME PoolAssumption ==
    PoolServerIds \subseteq Nat /\ NoInfo \notin Infos /\ MaxListed \in Nat

ServerContexts == 1..2 * MaxListed  \* xServerContext objects: in use, and new

VARIABLES
    info,         \* info[c]: the server of context c, NoInfo when c is not allocated
    connection,   \* connection[c]: its Connection; "lost" when the peer closed it
    ActiveServerList, UninitializedServerList, DeleteServerList, ClosingServerList,
    wanted        \* history: the last list given

poolLists == <<ActiveServerList, UninitializedServerList, DeleteServerList, ClosingServerList>>
poolVars  == <<info, connection, poolLists, wanted>>

SortedById(s) == \A i, j \in 1..Len(s) : i < j => s[i].id <= s[j].id

\* A list as UpdateServerList has sorted it.
SortedLists == {s \in UNION {[1..n -> Infos] : n \in 0..MaxListed} : SortedById(s)}

InfosOf(contexts) == [i \in 1..Len(contexts) |-> info[contexts[i]]]

PoolInit ==
    /\ info = [c \in ServerContexts |-> NoInfo]
    /\ connection = [c \in ServerContexts |-> "none"]
    /\ ActiveServerList = <<>> /\ UninitializedServerList = <<>>
    /\ DeleteServerList = <<>> /\ ClosingServerList = <<>>
    /\ wanted = <<>>

-----------------------------------------------------------------------------
(* UpdateServerList *)

\* Faulty variant: every server that is named again is taken for moved.
DiffReplacesAll(old, new) ==
    [drop |-> [i \in 1..Len(old) |-> i], add |-> new]

\* One pass of the loop that compares two sorted lists, behind OldIndex and
\* NewIndex entries: the next entry of the old one leaves, the next of the new
\* one comes, or they are the same.
Compared(old, new, at) ==
    LET i == at.OldIndex + 1
        j == at.NewIndex + 1
        same   == i <= Len(old) /\ j <= Len(new) /\ old[i] = new[j]
        leaves == i <= Len(old) /\ (j <= Len(new) => old[i].id <= new[j].id /\ ~same)
        comes  == j <= Len(new) /\ (i <= Len(old) => new[j].id <= old[i].id /\ ~same)
    IN [OldIndex |-> IF same \/ leaves THEN i ELSE i - 1,
        NewIndex |-> IF same \/ comes THEN j ELSE j - 1,
        drop |-> IF leaves THEN Append(at.drop, i) ELSE at.drop,
        add  |-> IF comes THEN Append(at.add, new[j]) ELSE at.add]

\* What the comparison finds: the positions of the entries of the old list that
\* leave, and the new entries.
Diff(old, new) ==
    LET passes[n \in 0..Len(old) + Len(new)] ==
          IF n = 0 THEN [OldIndex |-> 0, NewIndex |-> 0, drop |-> <<>>, add |-> <<>>]
          ELSE Compared(old, new, passes[n - 1])
    IN passes[Len(old) + Len(new)]

\* Objects to allocate.
Fresh == Unlinked([c \in ServerContexts |-> c], {c \in ServerContexts : info[c] # NoInfo})

\* Not called twice between two Ticks (asserted).
UpdateServerList(list) ==
    /\ UninitializedServerList = <<>> /\ DeleteServerList = <<>>
    /\ LET d == Diff(InfosOf(ActiveServerList), list)
           added == SubSeq(Fresh, 1, Len(d.add))
           dropped == [k \in 1..Len(d.drop) |-> ActiveServerList[d.drop[k]]]
       IN /\ info' = [c \in ServerContexts |->
                        IF Contains(added, c) THEN d.add[CHOOSE k \in 1..Len(added) : added[k] = c]
                                              ELSE info[c]]
          /\ UninitializedServerList' = added
          /\ DeleteServerList' = dropped
          /\ ActiveServerList' = Unlinked(ActiveServerList, ToSet(dropped))
    /\ wanted' = list
    /\ UNCHANGED <<connection, ClosingServerList>>

-----------------------------------------------------------------------------
\* std::sort by server id: any order of equal ones.
Sorts(contexts) ==
    {s \in SetToSeqs(ToSet(contexts)) : SortedById(InfosOf(s))}

\* Faulty variant: the new servers stay behind the ones that were there.
TickUnsorted(F) ==
    LET deleted == ToSet(DeleteServerList)
        opened  == ToSet(UninitializedServerList) \cup (ToSet(ClosingServerList) \ deleted)
    IN /\ ActiveServerList' = ActiveServerList \o UninitializedServerList
       /\ info' = [c \in ServerContexts |-> IF c \in deleted THEN NoInfo ELSE info[c]]
       /\ connection' = [c \in ServerContexts |->
                           CASE c \in deleted -> "none"
                             [] c \in opened -> IF c \in F THEN "closed" ELSE "connecting"
                             [] OTHER -> connection[c]]
       /\ UninitializedServerList' = <<>> /\ DeleteServerList' = <<>> /\ ClosingServerList' = <<>>
       /\ UNCHANGED wanted

\* The connections of F fail to open (Init), which nobody looks at.  A deleted
\* context leaves the ClosingServerList with its list node.
PoolTick(F) ==
    LET deleted == ToSet(DeleteServerList)
        opened  == ToSet(UninitializedServerList) \cup (ToSet(ClosingServerList) \ deleted)
    IN /\ IF UninitializedServerList = <<>> THEN UNCHANGED ActiveServerList
          ELSE ActiveServerList' \in Sorts(ActiveServerList \o UninitializedServerList)
       /\ info' = [c \in ServerContexts |-> IF c \in deleted THEN NoInfo ELSE info[c]]
       /\ connection' = [c \in ServerContexts |->
                           CASE c \in deleted -> "none"
                             [] c \in opened -> IF c \in F THEN "closed" ELSE "connecting"
                             [] OTHER -> connection[c]]
       /\ UninitializedServerList' = <<>> /\ DeleteServerList' = <<>> /\ ClosingServerList' = <<>>
       /\ UNCHANGED wanted

PoolConnected(c) ==
    /\ connection[c] = "connecting"
    /\ connection' = [connection EXCEPT ![c] = "connected"]
    /\ UNCHANGED <<info, poolLists, wanted>>

\* Also for a context that is to be deleted.
PoolPeerClose(c) ==
    /\ connection[c] \in {"connecting", "connected"}
    /\ connection' = [connection EXCEPT ![c] = "lost"]
    /\ ClosingServerList' = Append(ClosingServerList, c)
    /\ UNCHANGED <<info, ActiveServerList, UninitializedServerList, DeleteServerList, wanted>>

\* PostMessage: where a message with this hash goes.
Target(hash) == ActiveServerList[(hash % Len(ActiveServerList)) + 1]

PoolNext ==
    \/ \E list \in SortedLists : UpdateServerList(list)
    \/ \E F \in SUBSET (ToSet(UninitializedServerList) \cup ToSet(ClosingServerList)) : PoolTick(F)
    \/ \E c \in ServerContexts : PoolConnected(c) \/ PoolPeerClose(c)

-----------------------------------------------------------------------------
(* Properties *)

\* Every context is on one of the three vectors, no other is allocated; the
\* table is sorted; exactly the new ones have no Connection (asserted by
\* PostMessage and Tick), and exactly those that the peer closed wait, once,
\* to be opened again (asserted by OnPeerClose).
ContextsConsistent ==
    LET all == ActiveServerList \o UninitializedServerList \o DeleteServerList IN
    /\ info \in [ServerContexts -> Infos \cup {NoInfo}]
    /\ IsInjective(all) /\ ToSet(all) = {c \in ServerContexts : info[c] # NoInfo}
    /\ SortedById(InfosOf(ActiveServerList))
    /\ \A c \in ToSet(all) : connection[c] = "none" <=> Contains(UninitializedServerList, c)
    /\ IsInjective(ClosingServerList)
    /\ ToSet(ClosingServerList) = {c \in ServerContexts : connection[c] = "lost"}

Count(s, x) == Cardinality({i \in 1..Len(s) : s[i] = x})

\* Once a Tick has done what an update found, the table holds the entries of
\* the last list and no other, and a hash names the server it names in that
\* list: processes with the same list agree on it.
TableIsWanted ==
    UninitializedServerList = <<>> /\ DeleteServerList = <<>> =>
        /\ \A x \in Infos : Count(InfosOf(ActiveServerList), x) = Count(wanted, x)
        /\ \A h \in 0..Len(wanted) - 1 : info[Target(h)].id = wanted[h + 1].id

\* The lists of contexts and connections agree, and the table is the last
\* list given.
PoolConsistent == ContextsConsistent /\ TableIsWanted

NamedOnce(s) == \A i, j \in 1..Len(s) : s[i].id = s[j].id => i = j

\* A connection is closed only by its peer or because its server left: one
\* that two lists in a row name once, at the same address, keeps it.
ServerIsKept ==
    [][\A c \in ServerContexts :
          connection[c] \in {"connecting", "connected"} =>
              /\ \/ connection'[c] \in {"connecting", "connected", "lost"}
                 \/ Contains(DeleteServerList, c)
              /\ Contains(DeleteServerList', c) /\ ~Contains(DeleteServerList, c)
                   /\ NamedOnce(wanted) /\ NamedOnce(wanted')
                     => ~Contains(wanted', info[c])]_poolVars
=============================================================================
