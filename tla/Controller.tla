------------------------------ MODULE Controller ------------------------------
(***************************************************************************)
(* The gRPC controller (src/nullnet_grpc_impl.rs, with the node life cycle *)
(* of src/orchestrator.rs, the watcher of src/services/input.rs and the    *)
(* expiry of src/timeout.rs): requests that bring chains up, concurrent    *)
(* edge tasks, and the events that tear chains down.                       *)
(*                                                                         *)
(* A step is what one task does between two points where another can run:  *)
(* an acquisition of the service map's lock, the pool's mutex, or the      *)
(* answer of the hosts.  A step that reads or writes the map needs the     *)
(* lock, which a teardown keeps for as long as work is not empty.          *)
(***************************************************************************)
EXTENDS Changes

CONSTANTS
    CallOf,      \* the gRPC calls that may be made, each one
                 \*   <<"proxy", service, proxy host, user>> or
                 \*   <<"trigger", service, sender host, port>>
    BootConfig,      \* the configuration, the replicas and the open control
    BootReplicas,    \* channels once the hosts have announced what they run
    BootConnected,
    Lists,       \* <<host, list>>: service lists that hosts may send later
    Configs,     \* configurations the file may be changed to
    Flapping,    \* hosts whose control channel may close and open again
    Impatient,   \* calls whose caller may give up before the answer
    Overlap,     \* FALSE: nothing starts until everything else is finished
    Repeat       \* TRUE: a call may be made again once it was answered

Reqs == DOMAIN CallOf

VARIABLES
    connected,  \* Orchestrator.clients: hosts with an outbound channel
    closing,    \* hosts whose closed channel waits to clean the map up
    req         \* req[r]: the state of the call and of its edge tasks

vars == <<config, replicas, clients, pool, work, connected, closing, req>>

IsSequence(s) == s \in Seq(ToSet(s))

(* What ServicesToml makes of a file. *)
IsConfig(cfg) ==
    /\ DOMAIN cfg \subseteq Names
    /\ \A n \in DOMAIN cfg :
          /\ cfg[n].proxy_deps \in Seq(Names)
          /\ IsFiniteSet(DOMAIN cfg[n].triggers)
          /\ \A port \in DOMAIN cfg[n].triggers : cfg[n].triggers[port] \in Seq(Names)
          /\ cfg[n].max_networks \in Nat \cup {None}

ASSUME ControllerConstants ==
    /\ Overlap \in BOOLEAN /\ Repeat \in BOOLEAN
    /\ IsFiniteSet(Names)
    /\ \A cfg \in Configs \cup {BootConfig} : IsConfig(cfg)
    /\ DOMAIN BootReplicas = Names
    /\ \A n \in Names :
          /\ IsSequence(BootReplicas[n]) /\ IsInjective(BootReplicas[n])
          /\ n \notin DOMAIN BootConfig => BootReplicas[n] = <<>>
    /\ \A l \in Lists : IsSequence(l[2])
    /\ \A r \in Reqs : \/ CallOf[r][1] = "proxy" /\ CallOf[r][3] # None
                      \/ CallOf[r][1] = "trigger"
    /\ Impatient \subseteq Reqs

MaxEdges == Max({0} \cup
    (UNION {{Len(cfg[n].proxy_deps) : n \in DOMAIN cfg} : cfg \in Configs \cup {BootConfig}}) \cup
    (UNION {UNION {{Len(chain) : chain \in Range(cfg[n].triggers)} : n \in DOMAIN cfg} :
               cfg \in Configs \cup {BootConfig}})) + 1

(* Not called yet; resp is <<"ok", upstream>> or <<"err">> once answered    *)
(* and <<"gone">> if nobody waits for it; an upstream is given by the      *)
(* network it is on, 0 for UNSPECIFIED.                                    *)
Idle == [pc |-> "idle", rid |-> None, net |-> 0, edges |-> <<>>, resp |-> <<>>]

Finished(r) == req[r].pc \in {"idle", "done"}
Quiet == LockFree /\ closing = {} /\ \A r \in Reqs : Finished(r)
MayStart == Overlap \/ Quiet

Init ==
    /\ config = BootConfig
    /\ replicas = BootReplicas
    /\ clients = <<>>
    /\ pool = NewPool
    /\ work = <<>>
    /\ connected = BootConnected
    /\ closing = {}
    /\ req = [r \in Reqs |-> Idle]

Answer(r, resp) == req' = [req EXCEPT ![r] = [Idle EXCEPT !.pc = "done", !.resp = resp]]
Goto(r, pc) == req' = [req EXCEPT ![r].pc = pc]

ServiceOf(r) == CallOf[r][2]
HostOf(r) == CallOf[r][3]
ClientOf(r) == ProxyClient(CallOf[r][4], CallOf[r][3])

Spawn(r, chain) ==
    req' = [req EXCEPT ![r].pc = "join",
                       ![r].edges = [i \in DOMAIN chain |->
                           [client |-> chain[i].client, server |-> chain[i].server,
                            rid |-> chain[i].rid, pc |-> "reserve", net |-> 0]]]

Start(r) ==
    /\ req[r].pc = "idle" \/ (Repeat /\ req[r].pc = "done")
    /\ MayStart
    /\ req' = [req EXCEPT ![r] = [Idle EXCEPT
                   !.pc = IF CallOf[r][1] = "proxy" THEN "lookup" ELSE "trigger"]]
    /\ UNCHANGED <<changeVars, connected, closing>>
------------------------------------------------------------------------------
(* A proxy request.                                                        *)

(* A slip: the limit applies one network too late. *)
PastLimit(name) ==
    LET max == config[name].max_networks
    IN  max # None /\ ProxyClientsCount(name) > max

AtLimit(name) ==
    LET max == config[name].max_networks
    IN  max # None /\ ProxyClientsCount(name) >= max

(* handle_proxy_request works on a copy of the service's entry: what it    *)
(* decides here may be out of date when it takes the write lock.           *)
ProxyLookup(r) ==
    /\ req[r].pc = "lookup" /\ LockFree
    /\ LET name == ServiceOf(r)
           c == ClientOf(r)
           found == ReusableOnProxy(name, HostOf(r))
       IN  IF ~IsRegistered(name) \/ config[name].timeout = None
               THEN Answer(r, <<"err">>)
           ELSE IF IsClientSetup(name, c)
               THEN req' = [req EXCEPT ![r].pc = "sticky",
                        ![r].net = clients[EntryKey(name, c, clients)].net_id]
           ELSE IF AtLimit(name) /\ found # {}
               THEN \E k \in found :
                       req' = [req EXCEPT ![r].pc = "reuse", ![r].rid = k[2],
                                          ![r].net = clients[k].net_id]
               ELSE Goto(r, "pick")
    /\ UNCHANGED <<changeVars, connected, closing>>

(* Sticky session: the time of last use is refreshed, the upstream is the  *)
(* one that was read.                                                      *)
ProxySticky(r) ==
    /\ req[r].pc = "sticky" /\ LockFree
    /\ Answer(r, <<"ok", req[r].net>>)
    /\ UNCHANGED <<changeVars, connected, closing>>

(* A slip: the dependency edges behind a shared network are not counted. *)
ReuseUncounted(r) ==
    /\ req[r].pc = "reuse" /\ LockFree
    /\ LET name == ServiceOf(r)
           info == [net_id |-> req[r].net, active_chains |-> 1]
       IN  clients' = AddClientToReplica(name, req[r].rid, ClientOf(r), info, clients)
    /\ Answer(r, <<"ok", req[r].net>>)
    /\ UNCHANGED <<config, replicas, pool, work, connected, closing>>

(* Past max_networks: join the network found, and count one more chain on  *)
(* every dependency edge behind it. If the entries lead round in a circle  *)
(* the handler has joined, and then keeps the lock for good.               *)
ProxyReuse(r) ==
    /\ req[r].pc = "reuse" /\ LockFree
    /\ LET name == ServiceOf(r)
           info == [net_id |-> req[r].net, active_chains |-> 0]
           joined == IF IsRegistered(name)
                         THEN AddChain(name, ClientOf(r),
                                AddClientToReplica(name, req[r].rid, ClientOf(r), info, clients))
                         ELSE clients
           ends == DepChainEnds(name, req[r].rid)
           edges == IF ends THEN CollectDepChainEdges(name, req[r].rid) ELSE <<>>
       IN  /\ clients' = AddChains(edges, joined)
           /\ \/ ends /\ Answer(r, <<"ok", req[r].net>>) /\ UNCHANGED work
              \/ ~ends /\ Goto(r, "stuck") /\ work' = <<<<"endless_walk">>>>
    /\ UNCHANGED <<config, replicas, pool, connected, closing>>

(* new_proxy_chain: the replica that will serve the client. *)
NewProxyChain(r) ==
    /\ req[r].pc = "pick" /\ LockFree
    /\ IF IsRegistered(ServiceOf(r))
           THEN req' = [req EXCEPT ![r].pc = "build",
                            ![r].rid = PickReplicaLeastClients(ServiceOf(r))]
           ELSE Answer(r, <<"err">>)
    /\ UNCHANGED <<changeVars, connected, closing>>

(* setup_proxy_chain: the dependency edges and, last, the proxy's own. *)
SetupProxyChain(r) ==
    /\ req[r].pc = "build" /\ LockFree
    /\ LET name == ServiceOf(r)
           chain == BuildLinearChain(ProxyDeps(name), name, req[r].rid)
           entry == [client |-> ClientOf(r), server |-> name, rid |-> req[r].rid]
       IN  IF IsRegistered(name) /\ chain # None
               THEN Spawn(r, Append(chain, entry))
               ELSE Answer(r, <<"err">>)
    /\ UNCHANGED <<changeVars, connected, closing>>
------------------------------------------------------------------------------
(* A backend trigger.                                                      *)

(* handle_backend_trigger: the initiator is the sender's first replica;    *)
(* the chain is taken to be up when its first edge is.                     *)
BackendTrigger(r) ==
    /\ req[r].pc = "trigger" /\ LockFree
    /\ LET name == ServiceOf(r)
           port == CallOf[r][4]
           i == SelectInSeq(replicas[name], LAMBDA rid : rid[1] = HostOf(r))
           rid == replicas[name][i]
           chain == IF port \in DOMAIN Triggers(name) THEN Triggers(name)[port] ELSE <<>>
           up == chain = <<>> \/ (/\ IsRegistered(chain[1])
                                  /\ IsClientSetup(chain[1], ServiceClient(name, rid)))
       IN  IF ~IsRegistered(name) \/ config[name].timeout = None \/ i = 0
               THEN Answer(r, <<"err">>)
           ELSE IF up
               THEN Answer(r, <<"ok", 0>>)
               ELSE req' = [req EXCEPT ![r].pc = "build_backend", ![r].rid = rid]
    /\ UNCHANGED <<changeVars, connected, closing>>

(* setup_backend_chain: with an unregistered dependency, or a trigger gone  *)
(* from the configuration, there is nothing to do.                         *)
SetupBackendChain(r) ==
    /\ req[r].pc = "build_backend" /\ LockFree
    /\ LET name == ServiceOf(r)
           port == CallOf[r][4]
           known == port \in DOMAIN Triggers(name)
           chain == BuildLinearChain(Triggers(name)[port], name, req[r].rid)
       IN  IF ~IsRegistered(name)
               THEN Answer(r, <<"err">>)
           ELSE IF known /\ chain # None /\ chain # <<>>
               THEN Spawn(r, chain)
               ELSE Answer(r, <<"ok", 0>>)
    /\ UNCHANGED <<changeVars, connected, closing>>
------------------------------------------------------------------------------
(* net_chain_setup: one task per edge.                                     *)

EdgeAt(r, i, pc) ==
    /\ req[r].pc = "join"
    /\ i \in DOMAIN req[r].edges
    /\ req[r].edges[i].pc = pc

EdgeGoto(r, i, pc) == req' = [req EXCEPT ![r].edges[i].pc = pc]

(* An edge that is up, or about to be, only counts one more chain. Another  *)
(* one reserves its slot with a placeholder.                               *)
EdgeReserve(r, i) ==
    /\ EdgeAt(r, i, "reserve") /\ LockFree
    /\ LET e == req[r].edges[i]
           already_setup == IF IsProxy(e.client)
                                THEN IsClientSetup(e.server, e.client)
                                ELSE <<e.server, e.rid, e.client>> \in DOMAIN clients
       IN  IF ~IsRegistered(e.server)
               THEN EdgeGoto(r, i, "failed") /\ UNCHANGED clients
           ELSE IF already_setup
               THEN /\ clients' = AddChain(e.server, e.client, clients)
                    /\ EdgeGoto(r, i, "ok")
               ELSE /\ clients' = AddClientToReplica(e.server, e.rid, e.client,
                                                     Placeholder, clients)
                    /\ EdgeGoto(r, i, "allocate")
    /\ UNCHANGED <<config, replicas, pool, work, connected, closing>>

(* An identifier is taken, and each host that has a channel is sent the    *)
(* set-up; with a host missing the task can only roll back.                *)
EdgeAllocate(r, i) ==
    /\ EdgeAt(r, i, "allocate")
    /\ \/ /\ Exhausted(pool)
          /\ EdgeGoto(r, i, "drop")
          /\ UNCHANGED pool
       \/ \E id \in NetIds :
             /\ IsNextId(pool, id)
             /\ pool' = Allocate(pool, id)
             /\ LET hosts == {ClientHost(req[r].edges[i].client), req[r].edges[i].rid[1]}
                IN  req' = [req EXCEPT ![r].edges[i].net = id, ![r].edges[i].pc =
                                IF hosts \subseteq connected THEN "sending" ELSE "unsent"]
    /\ UNCHANGED <<serviceVars, work, connected, closing>>

(* Both hosts acknowledge the set-up, which may be known only after one of *)
(* them has closed its channel.                                            *)
EdgeAcked(r, i) ==
    /\ EdgeAt(r, i, "sending")
    /\ EdgeGoto(r, i, "commit")
    /\ UNCHANGED <<changeVars, connected, closing>>

(* A slip: after the rollback the task goes on as if both had answered. *)
RollbackAndGoOn(r, i) ==
    /\ EdgeAt(r, i, "sending") \/ EdgeAt(r, i, "unsent")
    /\ pool' = FreeAll(pool, {req[r].edges[i].net})
    /\ EdgeGoto(r, i, "commit")
    /\ UNCHANGED <<serviceVars, work, connected, closing>>

(* A host is gone or does not answer within 30 s: the network is torn down *)
(* on both and its identifier given back.                                  *)
EdgeRollback(r, i) ==
    /\ EdgeAt(r, i, "sending") \/ EdgeAt(r, i, "unsent")
    /\ pool' = FreeAll(pool, {req[r].edges[i].net})
    /\ req' = [req EXCEPT ![r].edges[i].pc = "drop", ![r].edges[i].net = 0]
    /\ UNCHANGED <<serviceVars, work, connected, closing>>

(* A slip: the placeholder of a failed edge is left behind. *)
DropNothing(r, i) ==
    /\ EdgeAt(r, i, "drop") /\ LockFree
    /\ EdgeGoto(r, i, "failed")
    /\ UNCHANGED <<changeVars, connected, closing>>

(* The placeholder of a failed edge is removed. *)
EdgeDrop(r, i) ==
    /\ EdgeAt(r, i, "drop") /\ LockFree
    /\ LET e == req[r].edges[i]
       IN  clients' = IF IsRegistered(e.server)
                          THEN RemoveClient(e.server, e.client, clients) ELSE clients
    /\ EdgeGoto(r, i, "failed")
    /\ UNCHANGED <<config, replicas, pool, work, connected, closing>>

(* The placeholder becomes the entry, with its first chain; or the service *)
(* was unregistered during the setup.                                      *)
EdgeCommit(r, i) ==
    /\ EdgeAt(r, i, "commit") /\ LockFree
    /\ LET e == req[r].edges[i]
           info == [net_id |-> e.net, active_chains |-> 0]
       IN  IF IsRegistered(e.server)
               THEN /\ clients' = AddChain(e.server, e.client,
                         AddClientToReplica(e.server, e.rid, e.client, info, clients))
                    /\ req' = [req EXCEPT ![r].edges[i].pc = "ok",
                                   ![r].edges[i].net = IF IsProxy(e.client) THEN @ ELSE 0]
               ELSE EdgeGoto(r, i, "abort") /\ UNCHANGED clients
    /\ UNCHANGED <<config, replicas, pool, work, connected, closing>>

(* ... and then the network is torn down, after the lock is released. *)
EdgeAbort(r, i) ==
    /\ EdgeAt(r, i, "abort")
    /\ pool' = FreeAll(pool, {req[r].edges[i].net})
    /\ req' = [req EXCEPT ![r].edges[i].pc = "failed", ![r].edges[i].net = 0]
    /\ UNCHANGED <<serviceVars, work, connected, closing>>

(* A slip: the request waits for every edge to be up, also for failed ones. *)
JoinAllUp(r) ==
    /\ req[r].pc = "join"
    /\ \A i \in DOMAIN req[r].edges : req[r].edges[i].pc = "ok"
    /\ Answer(r, <<"ok", req[r].edges[Len(req[r].edges)].net>>)
    /\ UNCHANGED <<changeVars, connected, closing>>

(* A slip: a failed edge is not reported. *)
JoinAnyUp(r) ==
    /\ req[r].pc = "join"
    /\ \A i \in DOMAIN req[r].edges : req[r].edges[i].pc \in {"ok", "failed"}
    /\ Answer(r, <<"ok", req[r].edges[Len(req[r].edges)].net>>)
    /\ UNCHANGED <<changeVars, connected, closing>>

(* All tasks are done. If one failed, the chains the others counted are    *)
(* given up; a proxy request needs the upstream of an edge it set up.      *)
Join(r) ==
    /\ req[r].pc = "join"
    /\ \A i \in DOMAIN req[r].edges : req[r].edges[i].pc \in {"ok", "failed"}
    /\ LET edges == req[r].edges
           won == Among(edges, {e \in Range(edges) : e.pc = "ok"})
           upstream == edges[Len(edges)].net
       IN  IF Len(won) < Len(edges)
               THEN /\ LockFree
                    /\ work' = Decrements([i \in DOMAIN won |->
                                              <<won[i].client, won[i].server>>])
                    /\ Answer(r, <<"err">>)
               ELSE /\ Answer(r, IF CallOf[r][1] = "trigger" THEN <<"ok", 0>>
                                 ELSE IF upstream = 0 THEN <<"err">>
                                 ELSE <<"ok", upstream>>)
                    /\ UNCHANGED work
    /\ UNCHANGED <<serviceVars, pool, connected, closing>>

(* The caller gives up: the handler is dropped where it waits, and with it *)
(* the JoinSet, which aborts the tasks that have not finished. A walk that *)
(* never ends waits nowhere.                                               *)
Ended == {"ok", "failed", "aborted"}
AllEnded(edges) == \A i \in DOMAIN edges : edges[i].pc \in Ended

CallerGone(r) ==
    /\ r \in Impatient /\ ~Finished(r) /\ req[r].pc \notin {"gone", "stuck"}
    /\ req' = [req EXCEPT ![r].resp = <<"gone">>,
                          ![r].pc = IF AllEnded(req[r].edges) THEN "done" ELSE "gone"]
    /\ UNCHANGED <<changeVars, connected, closing>>

(* An aborted task undoes nothing: its placeholder and its identifier stay. *)
EdgeAborted(r, i) ==
    /\ req[r].pc = "gone"
    /\ i \in DOMAIN req[r].edges /\ req[r].edges[i].pc \notin Ended
    /\ LET edges == [req[r].edges EXCEPT ![i].pc = "aborted", ![i].net = 0]
       IN  req' = [req EXCEPT ![r].edges = edges,
                              ![r].pc = IF AllEnded(edges) THEN "done" ELSE "gone"]
    /\ UNCHANGED <<changeVars, connected, closing>>

EdgeStep(r, i) ==
    \/ EdgeReserve(r, i) \/ EdgeAllocate(r, i) \/ EdgeAcked(r, i) \/ EdgeRollback(r, i)
    \/ EdgeDrop(r, i) \/ EdgeCommit(r, i) \/ EdgeAbort(r, i) \/ EdgeAborted(r, i)

RequestStep(r) ==
    \/ ProxyLookup(r) \/ ProxySticky(r) \/ ProxyReuse(r) \/ NewProxyChain(r)
    \/ SetupProxyChain(r) \/ BackendTrigger(r) \/ SetupBackendChain(r) \/ Join(r)
------------------------------------------------------------------------------
(* Events. Each takes the write lock, detects the changes and hands them   *)
(* to apply_changes.                                                       *)

Sweep(calls) ==
    /\ LockFree
    /\ work' = calls
    /\ UNCHANGED <<serviceVars, pool, req>>

(* apply_services_list: a host announces what it runs now. *)
ServicesList(host, list) ==
    /\ MayStart
    /\ Sweep(ServicesListChanges(host, list))
    /\ UNCHANGED <<connected, closing>>

(* apply_config_update: the watcher loaded a changed file. *)
ConfigUpdate(loaded) ==
    /\ MayStart
    /\ loaded # config
    /\ \E expired \in SUBSET {k \in DOMAIN clients : IsProxy(k[3])} :
          Sweep(ConfigChanges(loaded, expired))
    /\ UNCHANGED <<connected, closing>>

(* apply_timeouts: some proxy clients have not been used for long enough. *)
TimeoutSweep ==
    /\ MayStart
    /\ \E expired \in (SUBSET MayExpire) \ {{}} : Sweep(TimeoutChanges(expired))
    /\ UNCHANGED <<connected, closing>>

(* handle_node_disconnect: the channel goes at once, the replicas and the  *)
(* proxied clients when the write lock is taken.                           *)
ChannelClosed(host) ==
    /\ MayStart
    /\ host \in connected \ closing
    /\ connected' = connected \ {host}
    /\ closing' = closing \cup {host}
    /\ UNCHANGED <<changeVars, req>>

NodeDisconnect(host) ==
    /\ host \in closing
    /\ Sweep(NodeDisconnectChanges(host))
    /\ closing' = closing \ {host}
    /\ UNCHANGED connected

(* add_client: a host opens its control channel (again). *)
ChannelOpen(host) ==
    /\ MayStart
    /\ host \notin connected
    /\ connected' = connected \cup {host}
    /\ UNCHANGED <<changeVars, closing, req>>

LockHolderStep == ChangesNext /\ UNCHANGED <<connected, closing, req>>

Event ==
    \/ \E l \in Lists : ServicesList(l[1], l[2])
    \/ \E cfg \in Configs : ConfigUpdate(cfg)
    \/ TimeoutSweep
    \/ \E host \in Flapping : ChannelClosed(host) \/ ChannelOpen(host)

Next ==
    \/ \E r \in Reqs : Start(r) \/ RequestStep(r) \/ CallerGone(r)
    \/ \E r \in Reqs, i \in 1 .. MaxEdges : EdgeStep(r, i)
    \/ \E host \in Flapping : NodeDisconnect(host)
    \/ LockHolderStep
    \/ Event

Spec == Init /\ [][Next]_vars

(* The lock is fair and every task that can run is scheduled: a request    *)
(* whose tasks can run again and again eventually takes a step.            *)
RequestProgress(r) == RequestStep(r) \/ \E i \in 1 .. MaxEdges : EdgeStep(r, i)

Fairness ==
    /\ \A r \in Reqs : SF_vars(RequestProgress(r))
    /\ \A host \in Flapping : SF_vars(NodeDisconnect(host))
    /\ WF_vars(LockHolderStep)

FairSpec == Spec /\ Fairness
------------------------------------------------------------------------------
(* Types, and that entries and replicas only exist where they belong: an   *)
(* entry on a replica that is there, a replica of a configured service.    *)
TypeOK ==
    /\ DOMAIN config \subseteq Names
    /\ DOMAIN replicas = Names
    /\ \A n \in Names : IsInjective(replicas[n])
    /\ \A n \in Names \ DOMAIN config : replicas[n] = <<>>
    /\ \A k \in DOMAIN clients : k[2] \in ReplicaSet(k[1])
    /\ \A k \in DOMAIN clients :
          clients[k] \in [net_id : NetIds \cup {0}, active_chains : Nat]
    /\ pool \in Pools
    /\ \A r \in Reqs : req[r].net \in NetIds \cup {0}

Task == Reqs \X (1 .. MaxEdges)

(* The edge tasks that hold an identifier that is not in the map yet. *)
Installing(t) ==
    /\ t[2] \in DOMAIN req[t[1]].edges
    /\ req[t[1]].edges[t[2]].pc \in {"sending", "unsent", "commit", "abort"}

(* The edge task whose placeholder the entry is. *)
Owns(t, k) ==
    /\ t[2] \in DOMAIN req[t[1]].edges
    /\ LET e == req[t[1]].edges[t[2]]
       IN  /\ e.pc \in {"allocate", "sending", "unsent", "commit", "drop", "aborted"}
           /\ k = <<e.server, e.rid, e.client>>

(* A placeholder belongs to a task that is still going to replace or       *)
(* remove it: a set-up that failed, timed out or was overtaken by a        *)
(* teardown never leaves an entry without a network behind. Only a task    *)
(* that was aborted does.                                                  *)
PlaceholderOwned ==
    \A k \in DOMAIN clients : ~Established(k) => \E t \in Task : Owns(t, k)

ProxyKeys == {k \in DOMAIN clients : IsProxy(k[3])}
EdgeKeys == {k \in DOMAIN clients : ~IsProxy(k[3])}

(* Once everything has settled, every identifier that is out of the pool   *)
(* is the network of an entry, so it can still be torn down: the rollback  *)
(* and join of net_chain_setup and the teardowns of changes.rs free the    *)
(* network of every entry they drop.                                       *)
LeakFree == Quiet => InUse(pool) = {clients[k].net_id : k \in DOMAIN clients}

(* ... each proxy client has its whole dependency chain, as configured:    *)
(* apply_changes takes a client down with any edge of its chain ...        *)
ChainComplete ==
    Quiet => \A k \in ProxyKeys :
        LET deps == ProxyDeps(k[1])
            walk == LinearWalk(deps, k[1], k[2])
        IN  /\ Len(walk) = Len(deps)
            /\ \A i \in DOMAIN walk : Holds(walk[i][2], walk[i][1], clients)

ProxyChains(edge) ==
    {k \in ProxyKeys : edge \in ToSet(LinearWalk(ProxyDeps(k[1]), k[1], k[2]))}

TriggersOf(n) == {n} \X ReplicaSet(n) \X DOMAIN Triggers(n)

BackendChains(edge) ==
    {t \in UNION {TriggersOf(n) : n \in DOMAIN config} :
        edge \in ToSet(LinearWalk(Triggers(t[1])[t[3]], t[1], t[2]))}

(* ... and each dependency edge counts exactly the chains through it, so   *)
(* decrement_chain removes it with the last of them.                       *)
ChainsCounted ==
    Quiet => \A k \in EdgeKeys :
        clients[k].active_chains =
            Cardinality(ProxyChains(<<k[3], k[1]>>))
                + Cardinality(BackendChains(<<k[3], k[1]>>))

(* A client is on at most one replica of a service, as the functions that  *)
(* search the replicas for it assume.                                      *)
OneReplica ==
    \A j, k \in DOMAIN clients : j[1] = k[1] /\ j[3] = k[3] => j = k

(* handle_proxy_request never answers with the UNSPECIFIED address of a     *)
(* placeholder.                                                            *)
UpstreamReady ==
    \A r \in Reqs :
        CallOf[r][1] = "proxy" /\ req[r].pc = "done" /\ req[r].resp[1] = "ok"
            => req[r].resp[2] # 0

Networks(n, proxy, cl) ==
    {cl[k].net_id : k \in
        {j \in KeysOf(n, cl) : j[3].proxy = proxy /\ cl[j].net_id # 0}}

(* Through one proxy, no network is added to a service that has as many as *)
(* max_networks allows, and at least one; a file may lower the limit below *)
(* what is up.                                                             *)
MaxNetworksKept ==
    [][\A n \in DOMAIN config, proxy \in {k[3].proxy : k \in ProxyKeys'} :
          /\ config[n].max_networks # None
          /\ ~(Networks(n, proxy, clients') \subseteq Networks(n, proxy, clients))
          => Cardinality(Networks(n, proxy, clients')) <= Max({1, config[n].max_networks})]_vars

(* Sticky sessions: a proxy client that has a network keeps its replica    *)
(* and its network until the entry is removed.                             *)
Sticky ==
    [][\A j \in ProxyKeys, k \in ProxyKeys' :
          Established(j) /\ j[1] = k[1] /\ j[3] = k[3]
              => j = k /\ clients'[k].net_id = clients[j].net_id]_vars

(* The chain of a trigger is up on the sender's first replica, or it cannot *)
(* be: the port is not configured, or a dependency has no replica.         *)
Served(r) ==
    LET name == ServiceOf(r)
        port == CallOf[r][4]
        rid == SelectSeq(replicas[name], LAMBDA k : k[1] = HostOf(r))[1]
        chain == Triggers(name)[port]
        walk == LinearWalk(chain, name, rid)
    IN  port \in DOMAIN Triggers(name) =>
            \/ \E d \in ToSet(chain) : ~IsRegistered(d)
            \/ /\ Len(walk) = Len(chain)
               /\ \A i \in DOMAIN walk : Holds(walk[i][2], walk[i][1], clients)

(* A backend trigger that is answered with success has its whole chain,    *)
(* although handle_backend_trigger looks at the first edge only and        *)
(* net_chain_setup reports no more than that no task failed.               *)
TriggerServed ==
    [][\A r \in Reqs :
          /\ CallOf[r][1] = "trigger"
          /\ req[r].pc # "done" /\ req'[r].pc = "done" /\ req'[r].resp[1] = "ok"
          => Served(r)']_vars

(* Every proxy request and backend trigger is answered, whatever set-ups   *)
(* fail and whatever is torn down meanwhile.                               *)
Answered == \A r \in Reqs : (~Finished(r)) ~> (req[r].pc = "done")

(* apply_changes, and the clean-up of a failed net_chain_setup, always end *)
(* and release the write lock.                                             *)
LockReleased == (~LockFree) ~> LockFree
==============================================================================
