----------------------------- MODULE ServiceInfo -----------------------------
(***************************************************************************)
(* The service map shared by every handler (src/services/service_info.rs,  *)
(* clients.rs, edge.rs): which services are configured, on which replicas  *)
(* they run, and which clients are connected to each replica.  The map is  *)
(* one Arc<RwLock<HashMap>>, so this module has operators on it and no     *)
(* step of its own; Changes and Controller are its readers and writers.    *)
(*                                                                         *)
(* The Rust map of maps is flattened.  A replica is identified by          *)
(* <<ip, docker>>; a service is Registered when it has a replica; a client *)
(* entry is keyed by <<service, replica, client>>.  An entry keeps the     *)
(* network identifier, which determines the overlay addresses (Net::setup), *)
(* and the number of active chains.  Ports, set-up times and the time of   *)
(* last use are left out.                                                  *)
(***************************************************************************)
EXTENDS Naturals, Sequences, SequencesExt, FiniteSetsExt, Functions, FiniteSets

CONSTANTS
    Names,   \* every service name a configuration or a host may mention
    None     \* Option::None

VARIABLES
    config,    \* configured name -> [proxy_deps, triggers, timeout, max_networks]
    replicas,  \* name -> sequence of replicas, in registration order
    clients    \* <<name, replica, client>> -> [net_id, active_chains]

serviceVars == <<config, replicas, clients>>

(* Client::new with a proxy, and Client::new_service. *)
ProxyClient(user, proxy) == [name |-> user, proxy |-> proxy, replica |-> None]
ServiceClient(name, rid) == [name |-> name, proxy |-> None, replica |-> rid]
IsProxy(c) == c.proxy # None

(* The host at the client end of an edge. *)
ClientHost(c) == IF IsProxy(c) THEN c.proxy ELSE c.replica[1]

(* ClientInfo::placeholder: no network yet, all addresses UNSPECIFIED. *)
Placeholder == [net_id |-> 0, active_chains |-> 0]
Established(key) == clients[key].net_id # 0

IsRegistered(name) == name \in DOMAIN config /\ replicas[name] # <<>>
ReplicaSet(name) == ToSet(replicas[name])
ProxyDeps(name) ==
    IF name \in DOMAIN config THEN config[name].proxy_deps ELSE <<>>
Triggers(name) ==
    IF name \in DOMAIN config THEN config[name].triggers ELSE <<>>

(* True iff other is in one of the service's dependency lists. *)
DepsContain(name, other) ==
    \/ other \in ToSet(ProxyDeps(name))
    \/ \E chain \in Range(Triggers(name)) : other \in ToSet(chain)

(* The elements of the sequence that are in the set, in their order. *)
Among(seq, set) ==
    LET kept[i \in 0 .. Len(seq)] ==
            IF i = 0 THEN <<>>
            ELSE IF seq[i] \in set THEN Append(kept[i - 1], seq[i])
                                   ELSE kept[i - 1]
    IN  kept[Len(seq)]
------------------------------------------------------------------------------
(* Entries. These operators take the entries as a parameter because a      *)
(* handler applies several of them in one critical section.                *)

KeysOf(name, cl) == {k \in DOMAIN cl : k[1] = name}

(* The entry the first replica holding the client has for it: add_chain,   *)
(* decrement_chain, remove_client, client_replica and is_client_setup all  *)
(* search the replicas in order and stop there.                            *)
Holders(name, c, cl) ==
    {i \in DOMAIN replicas[name] : <<name, replicas[name][i], c>> \in DOMAIN cl}
Holds(name, c, cl) == Holders(name, c, cl) # {}
ClientReplica(name, c, cl) ==
    IF Holds(name, c, cl) THEN replicas[name][Min(Holders(name, c, cl))] ELSE None
EntryKey(name, c, cl) == <<name, ClientReplica(name, c, cl), c>>

(* A slip: the client is looked up without the proxy it came through. *)
IsSetupAnyProxy(name, c) == Holds(name, [c EXCEPT !.proxy = None], clients)

(* A placeholder counts: the client is set up or about to be. *)
IsClientSetup(name, c) == Holds(name, c, clients)

(* The given keys of one service in the order all_clients_owned yields     *)
(* them: replica by replica, and in some order on one replica.             *)
InReplicaOrder(name, keys) ==
    FlattenSeq([i \in DOMAIN replicas[name] |->
        SetToSeq({k \in keys : k[2] = replicas[name][i]})])

Without(cl, keys) == Restrict(cl, DOMAIN cl \ keys)

AddChain(name, c, cl) ==
    IF Holds(name, c, cl)
        THEN [cl EXCEPT ![EntryKey(name, c, cl)].active_chains = @ + 1]
        ELSE cl

(* One more chain on each of the edges whose dependency is registered. *)
AddChains(edges, cl) ==
    LET after[i \in 0 .. Len(edges)] ==
            IF i = 0 THEN cl
            ELSE IF IsRegistered(edges[i][2])
                THEN AddChain(edges[i][2], edges[i][1], after[i - 1])
                ELSE after[i - 1]
    IN  after[Len(edges)]

RemoveClient(name, c, cl) ==
    IF Holds(name, c, cl) THEN Without(cl, {EntryKey(name, c, cl)}) ELSE cl

(* A slip: nobody looks whether the replica is still there. *)
AddClientAnyway(name, rid, c, info, cl) ==
    [k \in DOMAIN cl \cup {<<name, rid, c>>} |->
        IF k = <<name, rid, c>> THEN info ELSE cl[k]]

(* Nothing is added when the replica is gone. *)
AddClientToReplica(name, rid, c, info, cl) ==
    IF rid \in ReplicaSet(name)
        THEN [k \in DOMAIN cl \cup {<<name, rid, c>>} |->
                 IF k = <<name, rid, c>> THEN info ELSE cl[k]]
        ELSE cl
------------------------------------------------------------------------------
(* Choosing replicas and networks for a new chain. *)

(* The first of the replicas with the fewest entries. *)
PickReplicaLeastClients(name) ==
    LET Load(i) == Cardinality({k \in DOMAIN clients :
                                   k[1] = name /\ k[2] = replicas[name][i]})
        least == {i \in DOMAIN replicas[name] :
                     \A j \in DOMAIN replicas[name] : Load(i) <= Load(j)}
    IN  replicas[name][Min(least)]

ProxyClientsCount(name) ==
    Cardinality({k \in KeysOf(name, clients) : IsProxy(k[3])})

(* find_reusable_network_on_proxy: the established entries of the proxy    *)
(* with the fewest chains; which of them min_by_key returns depends on the *)
(* iteration order of the map.                                             *)
ReusableOnProxy(name, proxy) ==
    LET own == {k \in KeysOf(name, clients) :
                   k[3].proxy = proxy /\ Established(k)}
    IN  {k \in own : \A j \in own :
            clients[k].active_chains <= clients[j].active_chains}

(* build_linear_chain: the edges start -> deps[1] -> ... -> deps[n], each  *)
(* dependency on its least loaded replica, or None when one of them is not *)
(* registered (Edge::into_registered).                                     *)
BuildLinearChain(deps, name, rid) ==
    LET From(i) == IF i = 1 THEN name ELSE deps[i - 1]
        At(i) == IF i = 0 THEN rid ELSE PickReplicaLeastClients(deps[i])
    IN  IF \A i \in DOMAIN deps : IsRegistered(deps[i])
            THEN [i \in DOMAIN deps |->
                     [client |-> ServiceClient(From(i), At(i - 1)),
                      server |-> deps[i], rid |-> At(i)]]
            ELSE None
------------------------------------------------------------------------------
(* Walking the chains that are up, as teardown and reuse do. An edge is a  *)
(* pair <<client, dependency>>; a position is <<service, replica>>.        *)

Hop(pos, dep) ==
    IF IsRegistered(dep)
        THEN ClientReplica(dep, ServiceClient(pos[1], pos[2]), clients)
        ELSE None

EdgesFrom(pos, deps) ==
    [i \in DOMAIN deps |-> <<ServiceClient(pos[1], pos[2]), deps[i]>>]

(* collect_dep_chain_edges emits an edge to EVERY dependency of the        *)
(* current service and moves to the last one that has an entry for it.     *)
NextPosition(pos) ==
    LET deps == ProxyDeps(pos[1])
        up == {i \in DOMAIN deps : Hop(pos, deps[i]) # None}
    IN  IF up = {} THEN None ELSE <<deps[Max(up)], Hop(pos, deps[Max(up)])>>

Positions == UNION {{n} \X ReplicaSet(n) : n \in Names}

(* The code loops until there is no next position. A walk longer than the  *)
(* number of replicas has been in the same place twice and never ends.     *)
MaxWalk == Cardinality(Positions) + 1

DepChainPositions(name, rid) ==
    LET next == [p \in Positions \cup {<<name, rid>>} |-> NextPosition(p)]
        pos[i \in 0 .. MaxWalk] ==
            IF i = 0 THEN <<name, rid>>
            ELSE IF pos[i - 1] \in DOMAIN next THEN next[pos[i - 1]] ELSE None
    IN  pos

DepChainEnds(name, rid) == DepChainPositions(name, rid)[MaxWalk] = None

CollectDepChainEdges(name, rid) ==
    LET pos == DepChainPositions(name, rid)
    IN  FlattenSeq([i \in 1 .. MaxWalk |->
            IF pos[i - 1] = None THEN <<>>
            ELSE EdgesFrom(pos[i - 1], ProxyDeps(pos[i - 1][1]))])

(* One trigger chain, followed hop by hop until an edge has no entry. *)
LinearWalk(chain, name, rid) ==
    LET pos[i \in 0 .. Len(chain)] ==
            IF i = 0 THEN <<name, rid>>
            ELSE IF pos[i - 1] = None \/ Hop(pos[i - 1], chain[i]) = None
                THEN None
                ELSE <<chain[i], Hop(pos[i - 1], chain[i])>>
        reached == {i \in DOMAIN chain : pos[i - 1] # None}
    IN  [i \in reached |-> <<ServiceClient(pos[i - 1][1], pos[i - 1][2]), chain[i]>>]

(* A slip: only the head of a chain is compared with the dependency. *)
BackendChainEdgesByHead(name, rid, only_through) ==
    LET ports == {p \in DOMAIN Triggers(name) :
                     only_through = None \/ only_through = Head(Triggers(name)[p])}
        chains == SetToSeq(ports)
    IN  FlattenSeq([i \in DOMAIN chains |->
            LinearWalk(Triggers(name)[chains[i]], name, rid)])

(* collect_backend_chain_edges: all trigger chains of the initiator, or    *)
(* only those through one dependency. The order in which the map yields    *)
(* the ports does not matter, since decrements commute.                    *)
CollectBackendChainEdges(name, rid, only_through) ==
    LET ports == {p \in DOMAIN Triggers(name) :
                     \/ only_through = None
                     \/ only_through \in ToSet(Triggers(name)[p])}
        chains == SetToSeq(ports)
    IN  FlattenSeq([i \in DOMAIN chains |->
            LinearWalk(Triggers(name)[chains[i]], name, rid)])
==============================================================================
