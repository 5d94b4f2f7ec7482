------------------------------- MODULE Changes -------------------------------
(***************************************************************************)
(* Reacting to change (src/services/changes.rs): which chains a change of  *)
(* the configuration, of the hosts or of the proxy clients invalidates,    *)
(* and how they are torn down.                                             *)
(*                                                                         *)
(* apply_changes and the functions it calls run under the write lock of    *)
(* the service map and await the orchestrator while they hold it, so       *)
(* tasks that only need the pool run in between.  The call tree is modelled *)
(* by the stack of calls that are still to be made: work = <<>> iff nobody *)
(* holds the write lock across steps, the first element is the next call,  *)
(* and a call replaces itself by the calls in its body.  What a call looks *)
(* up (which clients match, which edges are up) it looks up when it is     *)
(* made, as in the code.                                                   *)
(***************************************************************************)
EXTENDS ServiceInfo, NetIdPool

VARIABLES
    pool,   \* Orchestrator.net_id_pool, behind a mutex of its own
    work    \* the calls the holder of the write lock has still to make

changeVars == <<config, replicas, clients, pool, work>>

LockFree == work = <<>>
Due(op) == work # <<>> /\ work[1][1] = op
Rest == Tail(work)

(* A loop over a Rust map: the bodies, a function from whatever the loop   *)
(* ranges over to a sequence of calls, run in some order.                  *)
ForEach(bodies) == <<<<"for", bodies>>>>

For ==
    /\ Due("for")
    /\ LET bodies == work[1][2]
       IN  IF DOMAIN bodies = {}
               THEN work' = Rest
               ELSE \E x \in DOMAIN bodies :
                       work' = bodies[x] \o <<<<"for", Without(bodies, {x})>>>> \o Rest
    /\ UNCHANGED <<serviceVars, pool>>
------------------------------------------------------------------------------
(* ProxyFilter::matches for the entry with the given key. *)
Matches(filter, key) ==
    /\ IsProxy(key[3])
    /\ CASE filter[1] = "All" -> TRUE
         [] filter[1] = "ByIp" -> key[3].proxy = filter[2]
         [] filter[1] = "ByClient" -> key[3] = filter[2]
         [] filter[1] = "OnReplica" -> key[2] = filter[2]
         [] filter[1] = "OnIp" -> key[2][1] = filter[2]

(* The replicas of the service that an OnIp or OnReplica filter is about. *)
OnFilter(filter, rid) ==
    IF filter[1] = "OnIp" THEN rid[1] = filter[2] ELSE rid = filter[2]

Decrements(edges) ==
    [i \in DOMAIN edges |-> <<"decrement_chain", edges[i][2], edges[i][1]>>]

(* A slip: the entry goes and its network is not torn down. *)
DecrementKeepingNet ==
    /\ Due("decrement_chain")
    /\ LET name == work[1][2]
           c == work[1][3]
           key == EntryKey(name, c, clients)
       IN  clients' = IF ~IsRegistered(name) \/ ~Holds(name, c, clients)
                          THEN clients
                      ELSE IF clients[key].active_chains > 1
                          THEN [clients EXCEPT ![key].active_chains = @ - 1]
                          ELSE Without(clients, {key})
    /\ work' = Rest
    /\ UNCHANGED <<config, replicas, pool>>

(* A slip: the network is torn down and its entry stays. *)
DecrementKeepingEntry ==
    /\ Due("decrement_chain")
    /\ LET name == work[1][2]
           c == work[1][3]
           key == EntryKey(name, c, clients)
           last == clients[key].active_chains <= 1
       IN  IF ~IsRegistered(name) \/ ~Holds(name, c, clients)
               THEN UNCHANGED <<clients, pool>>
               ELSE /\ clients' = IF last THEN clients
                                  ELSE [clients EXCEPT ![key].active_chains = @ - 1]
                    /\ pool' = IF last THEN FreeAll(pool, {clients[key].net_id}) ELSE pool
    /\ work' = Rest
    /\ UNCHANGED <<config, replicas>>

(* decrement_chain: the entry goes, and its network with it, when its last *)
(* chain does.                                                             *)
DecrementChain ==
    /\ Due("decrement_chain")
    /\ LET name == work[1][2]
           c == work[1][3]
           key == EntryKey(name, c, clients)
       IN  IF ~IsRegistered(name) \/ ~Holds(name, c, clients)
               THEN UNCHANGED <<clients, pool>>
               ELSE IF clients[key].active_chains > 1
                   THEN /\ clients' = [clients EXCEPT ![key].active_chains = @ - 1]
                        /\ UNCHANGED pool
                   ELSE /\ clients' = Without(clients, {key})
                        /\ pool' = FreeAll(pool, {clients[key].net_id})
    /\ work' = Rest
    /\ UNCHANGED <<config, replicas>>

(* When the entries lead round in a circle the walk never ends, and the    *)
(* lock is never released: the step changes nothing.                       *)
TeardownDepChain ==
    /\ Due("teardown_dep_chain")
    /\ work' = IF DepChainEnds(work[1][2], work[1][3])
                   THEN Decrements(CollectDepChainEdges(work[1][2], work[1][3])) \o Rest
                   ELSE work
    /\ UNCHANGED <<serviceVars, pool>>

TeardownBackendChain ==
    /\ Due("teardown_backend_chain")
    /\ work' = Decrements(CollectBackendChainEdges(work[1][2], work[1][3], work[1][4]))
                 \o Rest
    /\ UNCHANGED <<serviceVars, pool>>

TeardownAllBackendChainsFor ==
    /\ Due("teardown_all_backend_chains_for")
    /\ LET name == work[1][2]
           rids == IF IsRegistered(name) THEN replicas[name] ELSE <<>>
       IN  work' = [i \in DOMAIN rids |->
                       <<"teardown_backend_chain", name, rids[i], work[1][3]>>] \o Rest
    /\ UNCHANGED <<serviceVars, pool>>

(* A slip: the proxy edges go and the dependency edges behind them stay    *)
(* counted.                                                                *)
TeardownProxyEdgesOnly ==
    /\ Due("teardown_chain")
    /\ LET name == work[1][2]
           gone == InReplicaOrder(name, {k \in KeysOf(name, clients) : Matches(work[1][3], k)})
           ids == {clients[gone[i]].net_id : i \in DOMAIN gone}
       IN  work' = IF gone = <<>> THEN Rest
                   ELSE [i \in DOMAIN gone |-> <<"remove_client", name, gone[i][3]>>]
                          \o <<<<"teardown_networks", name, ids>>>>
                          \o Rest
    /\ UNCHANGED <<serviceVars, pool>>

(* teardown_chain, first part: the matching proxy clients and the walk of  *)
(* each one's dependency chain, from the replica it is on.                 *)
TeardownChain ==
    /\ Due("teardown_chain")
    /\ LET name == work[1][2]
           gone == InReplicaOrder(name, {k \in KeysOf(name, clients) : Matches(work[1][3], k)})
           ids == {clients[gone[i]].net_id : i \in DOMAIN gone}
       IN  work' = IF gone = <<>> THEN Rest
                   ELSE [i \in DOMAIN gone |-> <<"teardown_dep_chain", name, gone[i][2]>>]
                          \o [i \in DOMAIN gone |-> <<"remove_client", name, gone[i][3]>>]
                          \o <<<<"teardown_networks", name, ids>>>>
                          \o Rest
    /\ UNCHANGED <<serviceVars, pool>>

(* ... then the entries themselves ... *)
RemoveClientEntry ==
    /\ Due("remove_client")
    /\ clients' = IF IsRegistered(work[1][2])
                      THEN RemoveClient(work[1][2], work[1][3], clients) ELSE clients
    /\ work' = Rest
    /\ UNCHANGED <<config, replicas, pool>>

(* Slips: the networks go whoever shares them; the loop handles the first  *)
(* network again and again.                                                *)
TeardownSharedNetworks ==
    /\ Due("teardown_networks")
    /\ pool' = FreeAll(pool, work[1][3])
    /\ work' = Rest
    /\ UNCHANGED serviceVars
TeardownNetworksForever ==
    /\ Due("teardown_networks")
    /\ pool' = FreeAll(pool, work[1][3])
    /\ UNCHANGED <<serviceVars, work>>

(* ... and last each of their networks that no remaining client shares. *)
TeardownNetworks ==
    /\ Due("teardown_networks")
    /\ LET name == work[1][2]
           ids == work[1][3]
           Shared(id) == \E k \in KeysOf(name, clients) : clients[k].net_id = id
       IN  \E id \in ids :
              /\ pool' = IF Shared(id) THEN pool ELSE FreeAll(pool, {id})
              /\ work' = IF ids = {id} THEN Rest
                         ELSE <<<<"teardown_networks", name, ids \ {id}>>>> \o Rest
    /\ UNCHANGED serviceVars
------------------------------------------------------------------------------
(* A slip: the chains that only pass through the service are forgotten. *)
TeardownOwnChainsOnly ==
    /\ Due("teardown_invalidated_service")
    /\ LET name == work[1][2]
       IN  work' = << <<"teardown_chain", name, <<"All">>>>,
                      <<"teardown_all_backend_chains_for", name, None>> >>
                   \o (IF work[1][3] THEN <<<<"unregister", name>>>> ELSE <<>>)
                   \o Rest
    /\ UNCHANGED <<serviceVars, pool>>

(* The service is gone or its chains are stale: everything that passes     *)
(* through it comes down and, if it is gone, it is unregistered.           *)
TeardownInvalidatedService ==
    /\ Due("teardown_invalidated_service")
    /\ LET name == work[1][2]
           dependents == {n \in DOMAIN config :
                             n = name \/ (IsRegistered(n) /\ DepsContain(n, name))}
           Through(n) == IF n = name THEN None ELSE name
       IN  work' = ForEach([n \in dependents |->
                       << <<"teardown_chain", n, <<"All">>>>,
                          <<"teardown_all_backend_chains_for", n, Through(n)>> >>])
                   \o (IF work[1][3] THEN <<<<"unregister", name>>>> ELSE <<>>)
                   \o Rest
    /\ UNCHANGED <<serviceVars, pool>>

(* The map entry is replaced by an Unregistered one: replicas and clients  *)
(* that are still there are dropped with it.                               *)
Unregister ==
    /\ Due("unregister")
    /\ replicas' = [replicas EXCEPT ![work[1][2]] = <<>>]
    /\ clients' = Without(clients, KeysOf(work[1][2], clients))
    /\ work' = Rest
    /\ UNCHANGED <<config, pool>>

RemoveService ==
    /\ Due("remove_service")
    /\ config' = Without(config, {work[1][2]})
    /\ work' = Rest
    /\ UNCHANGED <<replicas, clients, pool>>

(* ReplicasRemoved (a host went away) and ReplicaRemoved (a host no longer *)
(* lists a container) differ in when they take the replica for the last.   *)
ReplicasRemoved ==
    /\ Due("replicas_removed")
    /\ LET name == work[1][2]
           filter == work[1][3]
           is_last == /\ IsRegistered(name)
                      /\ IF filter[1] = "OnIp"
                             THEN \A rid \in ReplicaSet(name) : OnFilter(filter, rid)
                             ELSE Len(replicas[name]) = 1
           leaving == IF filter[1] = "OnReplica" THEN <<filter[2]>>
                      ELSE Among(replicas[name], {rid \in ReplicaSet(name) : OnFilter(filter, rid)})
       IN  work' = IF is_last
                       THEN <<<<"teardown_invalidated_service", name, TRUE>>>> \o Rest
                       ELSE [i \in DOMAIN leaving |->
                                <<"teardown_backend_chain", name, leaving[i], None>>]
                            \o << <<"teardown_partial_replicas", name, filter>>,
                                  <<"remove_replicas", name, filter>> >>
                            \o Rest
    /\ UNCHANGED <<serviceVars, pool>>

(* The chains of the service clients on the leaving replicas come down     *)
(* from their source replica, then those of the proxy clients.             *)
TeardownPartialReplicas ==
    /\ Due("teardown_partial_replicas")
    /\ LET name == work[1][2]
           filter == work[1][3]
           affected == {k \in KeysOf(name, clients) :
                           ~IsProxy(k[3]) /\ OnFilter(filter, k[2])}
       IN  work' = IF ~IsRegistered(name) THEN Rest
                   ELSE ForEach([k \in affected |->
                            << <<"teardown_chain", k[3].name, <<"OnReplica", k[3].replica>>>>,
                               <<"teardown_backend_chain", k[3].name, k[3].replica, name>> >>])
                        \o <<<<"teardown_chain", name, filter>>>>
                        \o Rest
    /\ UNCHANGED <<serviceVars, pool>>

(* remove_replicas_on_ip and remove_replica: the entries of a removed      *)
(* replica go with it.                                                     *)
RemoveReplicas ==
    /\ Due("remove_replicas")
    /\ LET name == work[1][2]
           leaving == {rid \in ReplicaSet(name) : OnFilter(work[1][3], rid)}
       IN  /\ replicas' = [replicas EXCEPT ![name] = Among(@, ReplicaSet(name) \ leaving)]
           /\ clients' = Without(clients, {k \in KeysOf(name, clients) : k[2] \in leaving})
    /\ work' = Rest
    /\ UNCHANGED <<config, pool>>

ProxyDisconnected ==
    /\ Due("proxy_disconnected")
    /\ LET ip == work[1][2]
           named == {k[1] : k \in {j \in DOMAIN clients : j[3].proxy = ip}}
       IN  work' = ForEach([n \in named |-> <<<<"teardown_chain", n, <<"ByIp", ip>>>>>>])
                   \o Rest
    /\ UNCHANGED <<serviceVars, pool>>

(* The end of apply_changes for a new configuration: known services are    *)
(* updated in place, new ones start Unregistered.                          *)
UpdateFromFile ==
    /\ Due("update_from_file")
    /\ config' = [n \in DOMAIN work[1][2] \cup DOMAIN config |->
                     IF n \in DOMAIN work[1][2] THEN work[1][2][n] ELSE config[n]]
    /\ work' = Rest
    /\ UNCHANGED <<replicas, clients, pool>>

(* A slip: a host that sends its list again gets a second replica. *)
AddReplicaAgain ==
    /\ Due("add_replica")
    /\ LET name == work[1][2]
       IN  replicas' = IF name \in DOMAIN config
                           THEN [replicas EXCEPT ![name] = Append(@, work[1][3])]
                           ELSE replicas
    /\ work' = Rest
    /\ UNCHANGED <<config, clients, pool>>

(* The end of apply_services_list, for one listed service: a replica of a  *)
(* configured name is added unless it is there already.                    *)
AddReplica ==
    /\ Due("add_replica")
    /\ LET name == work[1][2]
           rid == work[1][3]
       IN  replicas' = IF name \in DOMAIN config /\ rid \notin ReplicaSet(name)
                           THEN [replicas EXCEPT ![name] = Append(@, rid)]
                           ELSE replicas
    /\ work' = Rest
    /\ UNCHANGED <<config, clients, pool>>
------------------------------------------------------------------------------
(* Detecting changes, in the step that takes the write lock, and the calls *)
(* apply_changes makes for each of them.                                   *)

(* timeout tightened or introduced. *)
Tightened(old, new) ==
    /\ old # None /\ new # None
    /\ new # old /\ new > 0
    /\ old = 0 \/ new < old

TimedOut(name, expired) ==
    LET due == InReplicaOrder(name, {k \in expired : k[1] = name})
    IN  [i \in DOMAIN due |-> <<"teardown_chain", name, <<"ByClient", due[i][3]>>>>]

(* A slip: a changed list of dependencies invalidates nothing. *)
IgnoreChangedDeps(loaded, expired) ==
    ForEach([n \in DOMAIN config \ DOMAIN loaded |->
                << <<"teardown_invalidated_service", n, TRUE>>, <<"remove_service", n>> >>])
        \o <<<<"update_from_file", loaded>>>>

(* Removed services first, then the changes of each remaining one; expired *)
(* is the set of proxy entries past the timeout the new file gives them.   *)
ConfigChanges(loaded, expired) ==
    LET both == DOMAIN config \cap DOMAIN loaded
        Old(n) == config[n]
        New(n) == loaded[n]
        Backend(n) == <<<<"teardown_all_backend_chains_for", n, None>>>>
        ProxyDepsChanged(n) ==
            IF New(n).proxy_deps = Old(n).proxy_deps THEN <<>>
            ELSE <<<<"teardown_invalidated_service", n, FALSE>>>>
        TriggersChanged(n) ==
            IF New(n).triggers = Old(n).triggers THEN <<>> ELSE Backend(n)
        TimeoutChanged(n) ==
            IF (New(n).timeout = None) # (Old(n).timeout = None)
                THEN <<<<"teardown_chain", n, <<"All">>>>>> \o Backend(n)
            ELSE IF Tightened(Old(n).timeout, New(n).timeout)
                THEN TimedOut(n, expired)
                ELSE <<>>
    IN  ForEach([n \in DOMAIN config \ DOMAIN loaded |->
                    << <<"teardown_invalidated_service", n, TRUE>>,
                       <<"remove_service", n>> >>])
        \o ForEach([n \in both |->
                    ProxyDepsChanged(n) \o TriggersChanged(n) \o TimeoutChanged(n)])
        \o <<<<"update_from_file", loaded>>>>

(* Replicas of the sender that it no longer lists go, then the listed ones *)
(* are added.                                                              *)
ServicesListChanges(ip, list) ==
    LET Unlisted(n) == Among(replicas[n], {rid \in ReplicaSet(n) :
                           rid[1] = ip /\ <<n, rid[2]>> \notin ToSet(list)})
        Removals(n) == [i \in DOMAIN Unlisted(n) |->
                           <<"replicas_removed", n, <<"OnReplica", Unlisted(n)[i]>>>>]
    IN  ForEach([n \in {m \in DOMAIN config : Unlisted(m) # <<>>} |-> Removals(n)])
        \o [i \in DOMAIN list |-> <<"add_replica", list[i][1], <<ip, list[i][2]>>>>]

(* The host's replicas go, then the chains of the clients it proxied. *)
NodeDisconnectChanges(ip) ==
    LET hosting == {n \in DOMAIN config : \E rid \in ReplicaSet(n) : rid[1] = ip}
    IN  ForEach([n \in hosting |-> <<<<"replicas_removed", n, <<"OnIp", ip>>>>>>])
        \o (IF \E k \in DOMAIN clients : k[3].proxy = ip
                THEN <<<<"proxy_disconnected", ip>>>> ELSE <<>>)

(* collect_timed_out_clients: expired proxy entries of the services that   *)
(* have a timeout.                                                         *)
MayExpire ==
    {k \in DOMAIN clients : IsProxy(k[3]) /\ config[k[1]].timeout \notin {None, 0}}

TimeoutChanges(expired) ==
    ForEach([n \in {k[1] : k \in expired} |-> TimedOut(n, expired)])

ChangesNext ==
    \/ For
    \/ DecrementChain
    \/ TeardownDepChain
    \/ TeardownBackendChain
    \/ TeardownAllBackendChainsFor
    \/ TeardownChain
    \/ RemoveClientEntry
    \/ TeardownNetworks
    \/ TeardownInvalidatedService
    \/ Unregister
    \/ RemoveService
    \/ ReplicasRemoved
    \/ TeardownPartialReplicas
    \/ RemoveReplicas
    \/ ProxyDisconnected
    \/ UpdateFromFile
    \/ AddReplica
==============================================================================
