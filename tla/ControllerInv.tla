---------------------------- MODULE ControllerInv ----------------------------
(***************************************************************************)
(* The inductive invariants of Controller: CtlInv for the types and for    *)
(* where entries and replicas may be, LeaseInv for network identifiers,    *)
(* ProxyInv for the clients of the proxies while none of them makes two    *)
(* requests at once, OnDependencies for where a dependency edge may lead,  *)
(* LimitInv for the networks of a service through a proxy, and SerialInv   *)
(* and OwnNetworks for a controller that does one thing at a time.         *)
(***************************************************************************)
EXTENDS ControllerLeases

(* The files set no max_networks, so no network is ever shared. *)
Unlimited(cfg) == \A n \in DOMAIN cfg : cfg[n].max_networks = None
NoLimits == \A cfg \in Configs \cup {BootConfig} : Unlimited(cfg)
------------------------------------------------------------------------------
(* The map and the pool. *)

AllKeys == Names \X AllReplicas \X AllClients
Entries == [net_id : NetIds \cup {0}, active_chains : Nat]

Listed ==
    /\ DOMAIN replicas = Names
    /\ \A n \in Names :
          /\ replicas[n] \in Seq(AllReplicas) /\ IsInjective(replicas[n])
          /\ n \notin DOMAIN config => replicas[n] = <<>>

Placed ==
    /\ IsFiniteSet(DOMAIN clients)
    /\ DOMAIN clients \subseteq AllKeys
    /\ clients \in [DOMAIN clients -> Entries]
    /\ \A k \in DOMAIN clients : k[2] \in ReplicaSet(k[1])
------------------------------------------------------------------------------
(* The calls. *)

Active == {"reserve", "allocate", "sending", "unsent", "commit", "abort", "drop"}
EdgeTasks ==
    [client : AllClients, server : Names, rid : AllReplicas,
     pc : Active \cup Ended, net : NetIds \cup {0}]

Pcs == {"idle", "lookup", "sticky", "reuse", "stuck", "pick", "build", "trigger",
        "build_backend", "join", "gone", "done"}
Responses == {<<>>, <<"err">>, <<"gone">>} \cup {<<"ok", net>> : net \in NetIds \cup {0}}

Requests ==
    [pc : Pcs, rid : AllReplicas \cup {None}, net : NetIds \cup {0},
     edges : Seq(EdgeTasks), resp : Responses]

InOrder(r, q) ==
    /\ q.pc \in {"build", "build_backend", "reuse"} => q.rid \in AllReplicas
    /\ q.pc \in {"lookup", "sticky", "reuse", "pick", "build"} => CallOf[r][1] = "proxy"
    /\ q.pc \in {"trigger", "build_backend"} => CallOf[r][1] # "proxy"
    /\ q.pc \notin {"join", "gone"} => AllEnded(q.edges)
    /\ q.pc \notin {"join", "gone", "done"} => q.edges = <<>>
    /\ q.pc = "join" => q.edges # <<>>

Called ==
    /\ req \in [Reqs -> Requests]
    /\ \A r \in Reqs : InOrder(r, req[r])
------------------------------------------------------------------------------
(* The stack of calls. *)

(* What the body of a loop may call, and with what. *)
InLoop(call) ==
    /\ call[1] \in {"teardown_chain", "teardown_backend_chain", "teardown_all_backend_chains_for",
                    "teardown_invalidated_service", "remove_service", "replicas_removed"}
    /\ call[1] \in {"teardown_chain", "replicas_removed"} => call[2] \in Names

Removal(call, name) ==
    \/ call[1] = "unregister" /\ call[2] = name
    \/ call[1] = "teardown_invalidated_service" /\ call[2] = name /\ call[3] = TRUE

(* A service is removed after its replicas. *)
InvalidatedFirst(calls) ==
    \A q \in DOMAIN calls : calls[q][1] = "remove_service" =>
        \E p \in DOMAIN calls : p < q /\ Removal(calls[p], calls[q][2])

Body(calls) ==
    /\ IsSequence(calls)
    /\ \A i \in DOMAIN calls : InLoop(calls[i])
    /\ InvalidatedFirst(calls)

WellCalled(call) ==
    /\ call[1] = "for" => \A x \in DOMAIN call[2] : Body(call[2][x])
    /\ call[1] \in {"teardown_chain", "replicas_removed", "remove_replicas",
                    "teardown_partial_replicas"} => call[2] \in Names
    /\ call[1] = "update_from_file" => call[2] \in Configs
    /\ call[1] = "add_replica" => call[3] \in AllReplicas

(* What runs between the choice of the clients to take down and the end of *)
(* their networks.                                                         *)
Inner(call) ==
    \/ call[1] \in {"teardown_dep_chain", "remove_client"}
    \/ call[1] = "decrement_chain" /\ ~IsProxy(call[3])

Ordered(calls) ==
    \A p, q \in DOMAIN calls : p < q =>
        /\ calls[q][1] = "teardown_networks" => Inner(calls[p])
        /\ calls[p][1] = "add_replica" => calls[q][1] = "add_replica"

Stacked ==
    /\ IsSequence(work)
    /\ \A i \in DOMAIN work : WellCalled(work[i])
    /\ Ordered(work)
    /\ \A q \in DOMAIN work : work[q][1] = "remove_service" =>
          \/ work[q][2] \in Names => replicas[work[q][2]] = <<>>
          \/ \E p \in DOMAIN work : p < q /\ Removal(work[p], work[q][2])

(* In every state: no replica is listed twice, an entry is under a replica *)
(* that is still there (removing a replica removes its entries, and a task *)
(* that comes back from a set-up looks first), the tasks of a request are  *)
(* as it spawned them, and the calls apply_changes has still to make have  *)
(* the arguments they need and are in the order the code puts them.        *)
CtlInv ==
    /\ IsConfig(config)
    /\ Listed
    /\ Placed
    /\ pool \in Pools
    /\ Called
    /\ Stacked
------------------------------------------------------------------------------
(* Network identifiers. *)

(* Two clients of one proxy, on one replica. *)
OneWire(j, k) ==
    /\ IsProxy(j[3]) /\ IsProxy(k[3]) /\ Endpoint(j[3]) = Endpoint(k[3])
    /\ j[1] = k[1] /\ j[2] = k[2]

(* Every network that an entry refers to is out of the pool, and only      *)
(* clients of one proxy share one.                                         *)
Owned ==
    /\ WellFormed(pool)
    /\ \A k \in DOMAIN clients : Established(k) => clients[k].net_id \in InUse(pool)
    /\ \A j, k \in DOMAIN clients :
          Established(k) /\ clients[j].net_id = clients[k].net_id => j = k \/ OneWire(j, k)

(* The identifier that an edge task has taken and not settled, 0 if none. *)
Flight(t) == IF Installing(t) THEN req[t[1]].edges[t[2]].net ELSE 0

Lent ==
    /\ \A t \in Task : Installing(t) => Flight(t) \in InUse(pool)
    /\ \A s, t \in Task : Flight(s) # 0 /\ Flight(s) = Flight(t) => s = t
    /\ \A t \in Task, k \in DOMAIN clients : Flight(t) # 0 => Flight(t) # clients[k].net_id

(* The networks that a teardown has still to look at: nobody else uses     *)
(* them, and no dependency edge does.                                      *)
Doomed ==
    \A q \in DOMAIN work : work[q][1] = "teardown_networks" =>
        \A id \in work[q][3] \ {0} :
            /\ id \in InUse(pool)
            /\ \A t \in Task : Flight(t) # id
            /\ \A k \in DOMAIN clients :
                  clients[k].net_id = id => k[1] = work[q][2] /\ IsProxy(k[3])

(* No network that an entry or an edge task refers to is in the pool, none *)
(* is referred to from two wires, and those that teardown_chain has        *)
(* collected are used by nobody else until teardown_networks frees them.   *)
LeaseInv == Owned /\ Lent /\ Doomed

(* An entry with a network of its own. *)
Unshared(k) ==
    Established(k) => \A j \in DOMAIN clients : clients[j].net_id = clients[k].net_id => j = k

(* While no file has a limit, no client joins another's network. *)
NothingShared ==
    /\ Unlimited(config)
    /\ \A r \in Reqs : req[r].pc # "reuse"
    /\ \A k \in DOMAIN clients : Unshared(k)

(* The chain of a proxy client that a failed request gives up. *)
Undoes(call) == call[1] = "decrement_chain" /\ IsProxy(call[3])

(* decrement_chain does not look for others before it frees a network. It  *)
(* is called for a proxy client only by the request that has set the       *)
(* client's network up, before another can join it.                        *)
Undone ==
    \A q \in DOMAIN work : Undoes(work[q]) =>
        \A k \in DOMAIN clients : k[1] = work[q][2] /\ k[3] = work[q][3] => Unshared(k)
------------------------------------------------------------------------------
(* Placeholders. *)

(* A task that installs a network has one, and so has a request that is    *)
(* about to join one.                                                      *)
Granted ==
    /\ \A t \in Task : Installing(t) => req[t[1]].edges[t[2]].net # 0
    /\ \A r \in Reqs : req[r].pc = "reuse" => req[r].net # 0

(* Only a caller that may give up leaves aborted tasks behind.             *)
AbortedWhenGone ==
    \A r \in Reqs :
        /\ req[r].pc = "gone" => r \in Impatient
        /\ \A j \in DOMAIN req[r].edges : req[r].edges[j].pc = "aborted"
              => r \in Impatient /\ req[r].pc \in {"gone", "done"}
------------------------------------------------------------------------------
(* Proxy clients. *)

ProxyReqs == {r \in Reqs : CallOf[r][1] = "proxy"}

(* No client has two requests for one service in progress at once. *)
SoleCaller ==
    \A r, s \in ProxyReqs :
        /\ ~Finished(r) /\ ~Finished(s)
        /\ ServiceOf(r) = ServiceOf(s) /\ ClientOf(r) = ClientOf(s)
        => r = s

(* The services that some file makes a dependency. *)
Dependencies ==
    {d \in Names : \E cfg \in Configs \cup {BootConfig} : \E n \in DOMAIN cfg :
        \/ d \in ToSet(cfg[n].proxy_deps)
        \/ \E port \in DOMAIN cfg[n].triggers : d \in ToSet(cfg[n].triggers[port])}

(* Every dependency runs on one replica at most. *)
SingleHome == \A n \in Dependencies : Len(replicas[n]) <= 1

(* A proxy client is on one replica of a service at most. *)
ProxyOnce == \A j, k \in ProxyKeys : j[1] = k[1] /\ j[3] = k[3] => j = k

(* The entries of the client that a request is for. *)
Mine(r) == {k \in DOMAIN clients : k[1] = ServiceOf(r) /\ k[3] = ClientOf(r)}

(* Of the edges of a request one at most is the proxy's, its own.          *)
OneProxyEdge(r) ==
    \A i \in DOMAIN req[r].edges : IsProxy(req[r].edges[i].client) =>
        /\ CallOf[r][1] = "proxy"
        /\ req[r].edges[i].server = ServiceOf(r) /\ req[r].edges[i].client = ClientOf(r)
        /\ \A j \in DOMAIN req[r].edges : IsProxy(req[r].edges[j].client) => j = i

(* What handle_proxy_request read before it gave up the lock still holds:  *)
(* the client has no entry, but for the placeholder of its own task.       *)
Fresh(r) ==
    /\ req[r].pc \in {"reuse", "pick", "build"} => Mine(r) = {}
    /\ req[r].pc = "join" => OneProxyEdge(r) /\
          \A i \in DOMAIN req[r].edges : IsProxy(req[r].edges[i].client) =>
              LET e == req[r].edges[i]
              IN  /\ e.pc = "reserve" => Mine(r) = {}
                  /\ e.pc \in {"allocate", "sending", "unsent", "commit"} =>
                        \A k \in Mine(r) : k[2] = e.rid /\ ~Established(k)

ProxyInv == ProxyOnce /\ \A r \in Reqs : Fresh(r)
------------------------------------------------------------------------------
(* Dependency edges. *)

ByDeps(cfg) ==
    \A n \in DOMAIN cfg :
        /\ ToSet(cfg[n].proxy_deps) \subseteq Dependencies
        /\ \A port \in DOMAIN cfg[n].triggers : ToSet(cfg[n].triggers[port]) \subseteq Dependencies

(* A dependency edge leads to a service that some file makes a dependency. *)
OnDependencies ==
    /\ ByDeps(config)
    /\ \A k \in EdgeKeys : k[1] \in Dependencies
    /\ \A r \in Reqs : \A j \in DOMAIN req[r].edges :
          IsProxy(req[r].edges[j].client) \/ req[r].edges[j].server \in Dependencies
------------------------------------------------------------------------------
(* The limit on networks. *)

(* The requests for a service through a proxy that are in progress, and    *)
(* that at most so many of them ever are at once.                          *)
Callers(n, proxy) ==
    {r \in ProxyReqs : ServiceOf(r) = n /\ HostOf(r) = proxy /\ ~Finished(r)}
AtOnce(n, proxy, most) ==
    IsFiniteSet(Callers(n, proxy)) /\ Cardinality(Callers(n, proxy)) <= most

(* A file that has the service allows it max networks at most. *)
LimitedTo(cfg, n, max) ==
    n \in DOMAIN cfg => cfg[n].max_networks # None /\ cfg[n].max_networks \in 0 .. max

(* The requests that may still add a network: they have found room for one *)
(* and it is not in their client's entry yet.                              *)
Building(n, proxy) ==
    {r \in Callers(n, proxy) :
        \/ req[r].pc \in {"pick", "build"}
        \/ req[r].pc = "join" /\ \E j \in DOMAIN req[r].edges :
              IsProxy(req[r].edges[j].client) /\ req[r].edges[j].pc # "ok"}

(* The networks of the service through the proxy, with those that requests *)
(* are about to join, which need not be up any more.                       *)
Joining(n, proxy) == {r \in Callers(n, proxy) : req[r].pc = "reuse"}
Claimed(n, proxy) == Networks(n, proxy, clients) \cup {req[r].net : r \in Joining(n, proxy)}

(* Every request that finds room does so beside those that are under way.  *)
LimitInv(n, proxy, bound) ==
    /\ IsFiniteSet(Claimed(n, proxy)) /\ IsFiniteSet(Building(n, proxy))
    /\ Cardinality(Claimed(n, proxy)) + Cardinality(Building(n, proxy)) <= bound
    /\ \A r \in Reqs : req[r].pc = "join" => OneProxyEdge(r)
------------------------------------------------------------------------------
(* One thing at a time. *)

(* A request that walks in a circle, with the lock.                        *)
Stuck(r) == req[r].pc = "stuck" /\ work = <<<<"endless_walk">>>>

(* While a request is in progress no other is, and nothing is torn down.   *)
Serial ==
    \A r \in Reqs : ~Finished(r) =>
        /\ closing = {}
        /\ \A s \in Reqs : ~Finished(s) => r = s
        /\ LockFree \/ Stuck(r)

(* The network that a request is about to join is still one that is up.    *)
Found(r) ==
    req[r].pc = "reuse" => \E k \in DOMAIN clients :
        /\ k[1] = ServiceOf(r) /\ k[2] = req[r].rid /\ k[3].proxy = HostOf(r)
        /\ Established(k) /\ clients[k].net_id = req[r].net

SerialInv == Serial /\ \A r \in Reqs : Found(r)

(* What a request has set up for its client is the client's alone until    *)
(* the request has ended.                                                  *)
SetUp(r) ==
    req[r].pc = "join" => \A i \in DOMAIN req[r].edges :
        IsProxy(req[r].edges[i].client) /\ req[r].edges[i].pc = "ok"
            => \A k \in Mine(r) : Unshared(k)

OwnNetworks == Undone /\ \A r \in Reqs : SetUp(r)
==============================================================================
