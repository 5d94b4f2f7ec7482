-------------------------- MODULE ControllerClients --------------------------
(***************************************************************************)
(* The client entries of the service map: whose a placeholder is, on how   *)
(* many replicas a client is, and which network it has.                    *)
(***************************************************************************)
EXTENDS ControllerTypes

(* What a step does to the entries: some are dropped, the others keep the  *)
(* networks they have ...                                                  *)
Keeps(cl, new) ==
    /\ DOMAIN new \subseteq DOMAIN cl
    /\ \A k \in DOMAIN new : new[k].net_id = cl[k].net_id

(* ... or one is written, if its replica is there.                         *)
Enters(cl, new, key, net) ==
    /\ DOMAIN new \subseteq DOMAIN cl \cup {key}
    /\ \A k \in DOMAIN new : new[k].net_id = IF k = key THEN net ELSE cl[k].net_id

(* Nothing is dropped when the entries stay as they are.                   *)
LEMMA KeepsSame ==
    ASSUME UNCHANGED clients
    PROVE  Keeps(clients, clients')
  BY DEF Keeps

(* Entries are dropped (remove_service, remove_replicas).                  *)
LEMMA WithoutKeeps ==
    ASSUME NEW cl, NEW keys
    PROVE  /\ Keeps(cl, Without(cl, keys))
           /\ DOMAIN Without(cl, keys) = DOMAIN cl \ keys
  BY DEF Keeps, Without, Restrict

(* A client's first entry is removed, or it has none.                      *)
LEMMA RemovedKeeps ==
    ASSUME NEW n, NEW c, NEW cl
    PROVE  Keeps(cl, RemoveClient(n, c, cl))
<1>1. CASE Holds(n, c, cl)
  BY <1>1, WithoutKeeps DEF RemoveClient
<1>2. CASE ~Holds(n, c, cl)
  BY <1>2 DEF RemoveClient, Keeps
<1> QED
  BY <1>1, <1>2

(* One more chain is counted on an entry.                                  *)
LEMMA CountKeeps ==
    ASSUME CtlInv, NEW n, IsRegistered(n), NEW c, NEW D, NEW cl \in [D -> Entries]
    PROVE  Keeps(cl, AddChain(n, c, cl))
<1>1. PICK m \in Nat : DOMAIN replicas[n] = 1 .. m
  BY RegisteredHasReplicas DEF CtlInv
<1>2. PICK new : new = AddChain(n, c, cl)
  OBVIOUS
<1>3. new \in [D -> Entries] /\ \A k \in D : new[k].net_id = cl[k].net_id
  BY <1>1, <1>2, AddChainKeeps
<1> QED
  BY <1>2, <1>3 DEF Keeps

(* What the holder of the lock does to the entries.                        *)
LEMMA CallsKeep ==
    ASSUME CtlInv, ChangesNext
    PROVE  Keeps(clients, clients')
<1>1. clients \in [DOMAIN clients -> Entries]
  BY DEF CtlInv, Placed
<1>2. CASE UNCHANGED clients
  BY <1>2, KeepsSame
<1>3. CASE \E keys : clients' = Without(clients, keys)
  <2>1. PICK keys : clients' = Without(clients, keys)
    BY <1>3
  <2> QED
    BY <2>1, WithoutKeeps
<1>4. CASE DecrementChain
  <2>1. CASE \E key : clients' = [clients EXCEPT ![key].active_chains = @ - 1]
    <3>1. PICK key : clients' = [clients EXCEPT ![key].active_chains = @ - 1]
      BY <2>1
    <3>2. DOMAIN clients' = DOMAIN clients
      BY <3>1
    <3>3. ASSUME NEW k \in DOMAIN clients PROVE clients'[k].net_id = clients[k].net_id
      BY <1>1, <3>1 DEF Entries
    <3> QED
      BY <3>2, <3>3 DEF Keeps
  <2> QED
    BY <1>2, <1>3, <1>4, <2>1 DEF DecrementChain
<1>5. CASE RemoveClientEntry
  BY <1>2, <1>5, RemovedKeeps DEF RemoveClientEntry
<1>6. CASE Unregister \/ RemoveReplicas
  BY <1>3, <1>6 DEF Unregister, RemoveReplicas
<1>7. CASE \/ For \/ TeardownDepChain \/ TeardownBackendChain \/ TeardownAllBackendChainsFor
           \/ TeardownChain \/ TeardownNetworks \/ TeardownInvalidatedService
           \/ ReplicasRemoved \/ TeardownPartialReplicas \/ ProxyDisconnected
           \/ RemoveService \/ UpdateFromFile \/ AddReplica
  BY <1>2, <1>7 DEF For, TeardownDepChain, TeardownBackendChain, TeardownAllBackendChainsFor,
     TeardownChain, TeardownNetworks, TeardownInvalidatedService, ReplicasRemoved,
     TeardownPartialReplicas, ProxyDisconnected, RemoveService, UpdateFromFile, AddReplica,
     serviceVars
<1> QED
  BY <1>4, <1>5, <1>6, <1>7 DEF ChangesNext
------------------------------------------------------------------------------
(* What a step does to the requests. *)

(* One request, which has no edge tasks, moves.                            *)
Leads(r, pc) ==
    /\ \A s \in Reqs : s # r => req'[s] = req[s]
    /\ req'[r].pc = pc /\ req'[r].edges = <<>>

(* A request starts, or is answered.                                       *)
LEMMA Renewed ==
    ASSUME Called, NEW r \in Reqs, NEW pc, NEW resp,
           req' = [req EXCEPT ![r] = [Idle EXCEPT !.pc = pc, !.resp = resp]]
    PROVE  Leads(r, pc) /\ req'[r].resp = resp
<1>1. PICK q : q = [Idle EXCEPT !.pc = pc, !.resp = resp]
  OBVIOUS
<1>2. q.pc = pc /\ q.edges = <<>> /\ q.resp = resp
  BY <1>1 DEF Idle
<1>3. req'[r] = q /\ \A s \in Reqs : s # r => req'[s] = req[s]
  BY <1>1 DEF Called
<1> QED
  BY <1>2, <1>3 DEF Leads

(* An answer ends the call.                                                *)
LEMMA AnswerLeads ==
    ASSUME Called, NEW r \in Reqs, NEW resp, Answer(r, resp)
    PROVE  Leads(r, "done") /\ req'[r].resp = resp
<1>1. PICK pc : pc = "done"
  OBVIOUS
<1>2. req' = [req EXCEPT ![r] = [Idle EXCEPT !.pc = pc, !.resp = resp]]
  BY <1>1 DEF Answer
<1>3. Leads(r, pc) /\ req'[r].resp = resp
  BY <1>2, Renewed
<1> QED
  BY <1>1, <1>3

(* A call begins as the request it is.                                     *)
LEMMA StartLeads ==
    ASSUME Called, NEW r \in Reqs, Start(r)
    PROVE  \/ Leads(r, "lookup")
           \/ Leads(r, "trigger") /\ CallOf[r][1] # "proxy"
<1>1. PICK pc, resp : pc = (IF CallOf[r][1] = "proxy" THEN "lookup" ELSE "trigger") /\ resp = <<>>
  OBVIOUS
<1>2. [Idle EXCEPT !.pc = pc, !.resp = resp] = [Idle EXCEPT !.pc = pc]
  <2>1. PICK q : q = [pc |-> pc, rid |-> None, net |-> 0, edges |-> <<>>, resp |-> <<>>]
    OBVIOUS
  <2>2. [Idle EXCEPT !.pc = pc] = q
    BY <2>1 DEF Idle
  <2>3. PICK p : p = [Idle EXCEPT !.pc = pc, !.resp = resp]
    OBVIOUS
  <2>4. p = [pc |-> pc, rid |-> None, net |-> 0, edges |-> <<>>, resp |-> resp]
    BY <2>3 DEF Idle
  <2> QED
    BY <1>1, <2>1, <2>2, <2>3, <2>4
<1>3. req' = [req EXCEPT ![r] = [Idle EXCEPT !.pc = pc, !.resp = resp]]
  BY <1>1, <1>2 DEF Start
<1>4. Leads(r, pc)
  BY <1>3, Renewed
<1> QED
  BY <1>1, <1>4

(* A request goes on to its next acquisition of the lock.                  *)
GoesTo(r, pc, rid, net) ==
    req' = [req EXCEPT ![r].pc = pc, ![r].rid = rid, ![r].net = net]

(* A request that goes on to its next critical section, with the replica   *)
(* and the network it has read.                                            *)
LEMMA GoneTo ==
    ASSUME Called, NEW r \in Reqs, req[r].pc \notin {"join", "gone", "done"},
           NEW pc, NEW rid, NEW net, GoesTo(r, pc, rid, net)
    PROVE  Leads(r, pc) /\ req'[r].rid = rid /\ req'[r].net = net
<1>1. req[r] \in Requests /\ req[r].edges = <<>>
  BY DEF Called, InOrder
<1>2. PICK q : q = [req[r] EXCEPT !.pc = pc, !.rid = rid, !.net = net]
  OBVIOUS
<1>3. q.pc = pc /\ q.edges = <<>> /\ q.rid = rid /\ q.net = net
  BY <1>1, <1>2 DEF Requests
<1>4. req' = [req EXCEPT ![r] = q]
  BY <1>1, <1>2 DEF Called, Requests, GoesTo
<1>5. req'[r] = q /\ \A s \in Reqs : s # r => req'[s] = req[s]
  BY <1>4 DEF Called
<1> QED
  BY <1>3, <1>5 DEF Leads

(* What proxy finds when it looks the client up.                           *)
LookupLeads(r) ==
    LET n == ServiceOf(r)
        c == ClientOf(r)
    IN  \/ Leads(r, "done") /\ req'[r].resp = <<"err">>
        \/ /\ Leads(r, "sticky") /\ IsRegistered(n) /\ Holds(n, c, clients)
           /\ req'[r].net = clients[EntryKey(n, c, clients)].net_id
        \/ /\ Leads(r, "reuse") /\ IsRegistered(n) /\ ~Holds(n, c, clients)
           /\ \E k \in ReusableOnProxy(n, HostOf(r)) :
                 req'[r].rid = k[2] /\ req'[r].net = clients[k].net_id
        \/ /\ Leads(r, "pick") /\ IsRegistered(n) /\ ~Holds(n, c, clients)
           /\ ~AtLimit(n) \/ ReusableOnProxy(n, HostOf(r)) = {}

(* handle_proxy_request returns early, finds the client, a network to join *)
(* or neither.                                                             *)
LEMMA ProxyLookupLeads ==
    ASSUME Called, NEW r \in Reqs, ProxyLookup(r)
    PROVE  LookupLeads(r)
<1>1. PICK n, c : n = ServiceOf(r) /\ c = ClientOf(r)
  OBVIOUS
<1>2. req[r] \in Requests /\ req[r].pc \notin {"join", "gone", "done"}
  BY DEF Called, ProxyLookup
<1>3. CASE Answer(r, <<"err">>)
  <2>1. PICK resp : resp = <<"err">> /\ Answer(r, resp)
    BY <1>3
  <2> QED
    BY <2>1, AnswerLeads DEF LookupLeads
<1>4. CASE /\ IsRegistered(n) /\ Holds(n, c, clients)
           /\ req' = [req EXCEPT ![r].pc = "sticky",
                                 ![r].net = clients[EntryKey(n, c, clients)].net_id]
  <2>1. PICK pc, rid, net : /\ pc = "sticky" /\ rid = req[r].rid
                            /\ net = clients[EntryKey(n, c, clients)].net_id
    OBVIOUS
  <2>2. GoesTo(r, pc, rid, net)
    BY <1>2, <1>4, <2>1 DEF Requests, GoesTo
  <2>3. Leads(r, pc) /\ req'[r].net = net
    BY <1>2, <2>2, GoneTo
  <2> QED
    BY <1>1, <1>4, <2>1, <2>3 DEF LookupLeads
<1>5. CASE /\ IsRegistered(n) /\ ~Holds(n, c, clients)
           /\ \E k \in ReusableOnProxy(n, HostOf(r)) :
                 req' = [req EXCEPT ![r].pc = "reuse", ![r].rid = k[2], ![r].net = clients[k].net_id]
  <2>1. PICK k \in ReusableOnProxy(n, HostOf(r)) :
                 req' = [req EXCEPT ![r].pc = "reuse", ![r].rid = k[2], ![r].net = clients[k].net_id]
    BY <1>5
  <2>2. PICK pc, rid, net : pc = "reuse" /\ rid = k[2] /\ net = clients[k].net_id
    OBVIOUS
  <2>3. GoesTo(r, pc, rid, net)
    BY <2>1, <2>2 DEF GoesTo
  <2>4. Leads(r, pc) /\ req'[r].rid = rid /\ req'[r].net = net
    BY <1>2, <2>3, GoneTo
  <2> QED
    BY <1>1, <1>5, <2>2, <2>4 DEF LookupLeads
<1>6. CASE /\ IsRegistered(n) /\ ~Holds(n, c, clients)
           /\ ~AtLimit(n) \/ ReusableOnProxy(n, HostOf(r)) = {}
           /\ Goto(r, "pick")
  <2>1. PICK pc, rid, net : pc = "pick" /\ rid = req[r].rid /\ net = req[r].net
    OBVIOUS
  <2>2. GoesTo(r, pc, rid, net)
    BY <1>2, <1>6, <2>1 DEF Requests, Goto, GoesTo
  <2>3. Leads(r, pc)
    BY <1>2, <2>2, GoneTo
  <2> QED
    BY <1>1, <1>6, <2>1, <2>3 DEF LookupLeads
<1> QED
  BY <1>1, <1>3, <1>4, <1>5, <1>6 DEF ProxyLookup, IsClientSetup

(* The counting of chains after a write does not change what was written.  *)
LEMMA EntersKeeps ==
    ASSUME NEW cl, NEW new, NEW last, NEW key, NEW net, Enters(cl, new, key, net), Keeps(new, last)
    PROVE  Enters(cl, last, key, net)
  BY DEF Enters, Keeps

(* An entry is written, and one more chain counted on it.                  *)
LEMMA EntryEnters ==
    ASSUME CtlInv, NEW n, IsRegistered(n), NEW rid, NEW c, NEW info \in Entries, NEW new,
           new = AddClientToReplica(n, rid, c, info, clients)
    PROVE  /\ Enters(clients, new, <<n, rid, c>>, info.net_id)
           /\ Enters(clients, AddChain(n, c, new), <<n, rid, c>>, info.net_id)
           /\ DOMAIN clients \subseteq DOMAIN new
           /\ AddChain(n, c, new) \in [DOMAIN new -> Entries]
<1>1. clients \in [DOMAIN clients -> Entries]
  BY DEF CtlInv, Placed
<1>2. PICK D : D = DOMAIN clients
  OBVIOUS
<1>3. /\ new \in [DOMAIN new -> Entries]
      /\ DOMAIN new = D \cup (IF rid \in ReplicaSet(n) THEN {<<n, rid, c>>} ELSE {})
      /\ \A k \in DOMAIN new :
            new[k] = IF rid \in ReplicaSet(n) /\ k = <<n, rid, c>> THEN info ELSE clients[k]
  BY <1>1, <1>2 DEF AddClientToReplica
<1>4. Enters(clients, new, <<n, rid, c>>, info.net_id)
  <2>1. CASE rid \in ReplicaSet(n)
    BY <1>2, <1>3, <2>1 DEF Enters
  <2>2. CASE rid \notin ReplicaSet(n)
    <3>1. <<n, rid, c>> \notin DOMAIN clients
      <4>1. \A k \in DOMAIN clients : k[2] \in ReplicaSet(k[1])
        BY DEF CtlInv, Placed
      <4>2. PICK k : k = <<n, rid, c>>
        OBVIOUS
      <4> QED
        BY <2>2, <4>1, <4>2
    <3> QED
      BY <1>2, <1>3, <2>2, <3>1 DEF Enters
  <2> QED
    BY <2>1, <2>2
<1>5. PICK E : E = DOMAIN new
  OBVIOUS
<1>6. Keeps(new, AddChain(n, c, new))
  BY <1>3, <1>5, CountKeeps
<1>7. AddChain(n, c, new) \in [E -> Entries]
  <2>1. PICK m \in Nat : DOMAIN replicas[n] = 1 .. m
    BY RegisteredHasReplicas DEF CtlInv
  <2> QED
    BY <1>3, <1>5, <2>1, AddChainKeeps
<1> QED
  BY <1>2, <1>3, <1>4, <1>5, <1>6, <1>7, EntersKeeps

(* A network is joined; then the request is answered, or walks for ever.   *)
ReuseLeads(r) ==
    /\ \/ Leads(r, "done") /\ req'[r].resp = <<"ok", req[r].net>> /\ UNCHANGED work
       \/ Leads(r, "stuck") /\ work' = <<<<"endless_walk">>>>
    /\ DOMAIN clients \subseteq DOMAIN clients'
    /\ \/ Keeps(clients, clients')
       \/ Enters(clients, clients', <<ServiceOf(r), req[r].rid, ClientOf(r)>>, req[r].net)

(* The request writes the network it has found under its client, and is    *)
(* answered with it if the walk behind it ends.                            *)
LEMMA ProxyReuseLeads ==
    ASSUME CtlInv, NEW r \in Reqs, ProxyReuse(r)
    PROVE  ReuseLeads(r)
<1>1. Called /\ Listed /\ IsConfig(config) /\ clients \in [DOMAIN clients -> Entries]
  BY DEF CtlInv, Placed
<1>2. PICK n, rid, c, net : n = ServiceOf(r) /\ rid = req[r].rid /\ c = ClientOf(r) /\ net = req[r].net
  OBVIOUS
<1>3. PICK info : info = [net_id |-> net, active_chains |-> 0]
  OBVIOUS
<1>4. net \in NetIds \cup {0}
  BY <1>1, <1>2 DEF Called, Requests
<1>5. info \in Entries /\ info.net_id = net
  BY <1>3, <1>4 DEF Entries
<1>6. PICK new : new = AddClientToReplica(n, rid, c, info, clients)
  OBVIOUS
<1>7. PICK joined : joined = IF IsRegistered(n) THEN AddChain(n, c, new) ELSE clients
  OBVIOUS
<1>8. PICK edges : edges = IF DepChainEnds(n, rid) THEN CollectDepChainEdges(n, rid) ELSE <<>>
  OBVIOUS
<1>9. IsSequence(edges)
  BY <1>1, <1>8, EndedWalk
<1>10. clients' = AddChains(edges, joined)
  BY <1>2, <1>3, <1>6, <1>7, <1>8 DEF ProxyReuse
<1>11. /\ \E D : joined \in [D -> Entries] /\ DOMAIN clients \subseteq D
       /\ Keeps(clients, joined) \/ Enters(clients, joined, <<n, rid, c>>, net)
  <2>1. CASE IsRegistered(n)
    <3>1. Enters(clients, AddChain(n, c, new), <<n, rid, c>>, net)
          /\ DOMAIN clients \subseteq DOMAIN new
          /\ AddChain(n, c, new) \in [DOMAIN new -> Entries]
      BY <1>1, <1>5, <1>6, <2>1, EntryEnters
    <3> QED
      BY <1>7, <2>1, <3>1
  <2>2. CASE ~IsRegistered(n)
    BY <1>1, <1>7, <2>2 DEF Keeps
  <2> QED
    BY <2>1, <2>2
<1>12. PICK D : joined \in [D -> Entries] /\ DOMAIN clients \subseteq D
  BY <1>11
<1>13. Keeps(joined, clients') /\ DOMAIN clients \subseteq DOMAIN clients'
  <2>1. /\ AddChains(edges, joined) \in [D -> Entries]
        /\ \A k \in D : AddChains(edges, joined)[k].net_id = joined[k].net_id
    BY <1>1, <1>9, <1>12, AddChainsKeeps
  <2> QED
    BY <1>10, <1>12, <2>1 DEF Keeps
<1>14. Keeps(clients, clients') \/ Enters(clients, clients', <<n, rid, c>>, net)
  <2>1. CASE Keeps(clients, joined)
    BY <1>13, <2>1 DEF Keeps
  <2>2. CASE Enters(clients, joined, <<n, rid, c>>, net)
    BY <1>13, <2>2, EntersKeeps
  <2> QED
    BY <1>11, <2>1, <2>2
<1>15. CASE Answer(r, <<"ok", req[r].net>>) /\ UNCHANGED work
  <2>1. PICK resp : resp = <<"ok", net>> /\ Answer(r, resp)
    BY <1>2, <1>15
  <2>2. Leads(r, "done") /\ req'[r].resp = resp
    BY <1>1, <2>1, AnswerLeads
  <2> QED
    BY <1>2, <1>13, <1>14, <1>15, <2>1, <2>2 DEF ReuseLeads
<1>16. CASE Goto(r, "stuck") /\ work' = <<<<"endless_walk">>>>
  <2>1. PICK pc : pc = "stuck"
    OBVIOUS
  <2>2. req[r].pc = "reuse" /\ req[r].edges = <<>>
    BY <1>1 DEF ProxyReuse, Called, InOrder
  <2>3. req' = [req EXCEPT ![r].pc = pc]
    BY <1>16, <2>1 DEF Goto
  <2>4. Leads(r, pc)
    BY <1>1, <2>2, <2>3 DEF Leads, Called, Requests
  <2> QED
    BY <1>2, <1>13, <1>14, <1>16, <2>1, <2>4 DEF ReuseLeads
<1> QED
  BY <1>15, <1>16 DEF ProxyReuse
------------------------------------------------------------------------------
(* The tasks of a request. *)

(* One that it has just spawned: for a dependency, or the proxy's own.     *)
NewTask(r, e) ==
    LET n == ServiceOf(r)
    IN  /\ e.pc = "reserve" /\ e.net = 0
        /\ \/ /\ ~IsProxy(e.client)
              /\ \/ e.server \in ToSet(ProxyDeps(n))
                 \/ \E port \in DOMAIN Triggers(n) : e.server \in ToSet(Triggers(n)[port])
           \/ /\ CallOf[r][1] = "proxy"
              /\ e.client = ClientOf(r) /\ e.server = n /\ e.rid = req[r].rid

Spawns(r) ==
    /\ \A s \in Reqs : s # r => req'[s] = req[s]
    /\ req'[r].pc = "join"
    /\ \A i \in DOMAIN req'[r].edges : NewTask(r, req'[r].edges[i])
    /\ \A i, j \in DOMAIN req'[r].edges :
          IsProxy(req'[r].edges[i].client) /\ IsProxy(req'[r].edges[j].client) => i = j

(* Spawn makes one task for each edge of the chain.                        *)
LEMMA SpawnsTasks ==
    ASSUME Called, NEW r \in Reqs, NEW chain, Spawn(r, chain),
           \A i \in DOMAIN chain :
              LET e == chain[i]
                  n == ServiceOf(r)
              IN  \/ /\ ~IsProxy(e.client)
                     /\ \/ e.server \in ToSet(ProxyDeps(n))
                        \/ \E port \in DOMAIN Triggers(n) : e.server \in ToSet(Triggers(n)[port])
                  \/ /\ CallOf[r][1] = "proxy"
                     /\ e.client = ClientOf(r) /\ e.server = n /\ e.rid = req[r].rid,
           \A i, j \in DOMAIN chain : IsProxy(chain[i].client) /\ IsProxy(chain[j].client) => i = j
    PROVE  Spawns(r)
<1>1. PICK tasks : tasks = [i \in DOMAIN chain |->
                               [client |-> chain[i].client, server |-> chain[i].server,
                                rid |-> chain[i].rid, pc |-> "reserve", net |-> 0]]
  OBVIOUS
<1>2. req' = [req EXCEPT ![r].pc = "join", ![r].edges = tasks]
  BY <1>1 DEF Spawn
<1>3. req[r] \in Requests
  BY DEF Called
<1>4. PICK q : q = [req[r] EXCEPT !.pc = "join", !.edges = tasks]
  OBVIOUS
<1>5. q.pc = "join" /\ q.edges = tasks
  BY <1>3, <1>4 DEF Requests
<1>6. req' = [req EXCEPT ![r] = q]
  BY <1>2, <1>3, <1>4 DEF Called, Requests
<1>7. req'[r].pc = "join" /\ req'[r].edges = tasks /\ \A s \in Reqs : s # r => req'[s] = req[s]
  BY <1>5, <1>6 DEF Called
<1>8. DOMAIN tasks = DOMAIN chain
  BY <1>1
<1>9. ASSUME NEW i \in DOMAIN chain
      PROVE  /\ tasks[i].client = chain[i].client /\ tasks[i].server = chain[i].server
             /\ tasks[i].rid = chain[i].rid /\ tasks[i].pc = "reserve" /\ tasks[i].net = 0
  BY <1>1
<1>10. ASSUME NEW i \in DOMAIN tasks PROVE NewTask(r, tasks[i])
  BY <1>8, <1>9 DEF NewTask
<1>11. ASSUME NEW i \in DOMAIN tasks, NEW j \in DOMAIN tasks,
              IsProxy(tasks[i].client) /\ IsProxy(tasks[j].client)
       PROVE  i = j
  BY <1>8, <1>9, <1>11
<1> QED
  BY <1>7, <1>10, <1>11 DEF Spawns

(* The edges build_linear_chain makes are between services.                *)
LEMMA ChainOfServices ==
    ASSUME NEW deps, NEW name, NEW rid, NEW chain, chain = BuildLinearChain(deps, name, rid),
           chain # None
    PROVE  /\ DOMAIN chain = DOMAIN deps
           /\ \A i \in DOMAIN chain : ~IsProxy(chain[i].client) /\ chain[i].server = deps[i]
  BY ServiceClientIsNoProxy DEF BuildLinearChain

(* setup_proxy_chain spawns a task for each dependency and, last, one for  *)
(* the proxy's own edge.                                                   *)
LEMMA SetupProxyChainSpawns ==
    ASSUME CtlInv, NEW r \in Reqs, SetupProxyChain(r)
    PROVE  Spawns(r) \/ (Leads(r, "done") /\ req'[r].resp = <<"err">>)
<1>1. Called /\ Listed /\ IsConfig(config) /\ IsFiniteSet(DOMAIN clients)
  BY DEF CtlInv, Placed
<1>2. PICK name, rid, chain, entry :
         /\ name = ServiceOf(r) /\ rid = req[r].rid
         /\ chain = BuildLinearChain(ProxyDeps(name), name, rid)
         /\ entry = [client |-> ClientOf(r), server |-> name, rid |-> rid]
  OBVIOUS
<1>3. rid \in AllReplicas /\ CallOf[r][1] = "proxy"
  BY <1>1, <1>2 DEF Called, InOrder, SetupProxyChain
<1>4. CASE IsRegistered(name) /\ chain # None
  <2>1. name \in Names /\ name \in DOMAIN config
    BY <1>1, <1>4, RegisteredHasReplicas DEF IsRegistered
  <2>2. ProxyDeps(name) \in Seq(Names)
    BY <1>1, <2>1 DEF IsConfig, ProxyDeps
  <2>3. IsSequence(chain)
    BY <1>1, <1>2, <1>3, <1>4, <2>1, <2>2, ChainTyped
  <2>4. /\ DOMAIN chain = DOMAIN ProxyDeps(name)
        /\ \A i \in DOMAIN chain : ~IsProxy(chain[i].client) /\ chain[i].server = ProxyDeps(name)[i]
    BY <1>2, <1>4, ChainOfServices
  <2>5. PICK all : all = Append(chain, entry)
    OBVIOUS
  <2>6. /\ Len(chain) \in Nat /\ DOMAIN chain = 1 .. Len(chain)
        /\ DOMAIN all = 1 .. Len(chain) + 1
        /\ all[Len(chain) + 1] = entry
        /\ \A i \in DOMAIN chain : all[i] = chain[i]
    BY <2>3, <2>5, SequenceIsFunction DEF IsSequence
  <2>7. \A i \in DOMAIN all : i \in DOMAIN chain \/ i = Len(chain) + 1
    BY <2>6
  <2>8. ASSUME NEW i \in DOMAIN all
        PROVE  \/ /\ ~IsProxy(all[i].client)
                  /\ \/ all[i].server \in ToSet(ProxyDeps(name))
                     \/ \E port \in DOMAIN Triggers(name) : all[i].server \in ToSet(Triggers(name)[port])
               \/ /\ CallOf[r][1] = "proxy" /\ all[i].client = ClientOf(r)
                  /\ all[i].server = name /\ all[i].rid = req[r].rid
    <3>1. CASE i \in DOMAIN chain
      BY <2>4, <2>6, <3>1 DEF ToSet
    <3>2. CASE i = Len(chain) + 1
      BY <1>2, <1>3, <2>6, <3>2
    <3> QED
      BY <2>7, <3>1, <3>2
  <2>9. ASSUME NEW i \in DOMAIN all, NEW j \in DOMAIN all,
               IsProxy(all[i].client) /\ IsProxy(all[j].client)
        PROVE  i = j
    BY <2>4, <2>6, <2>7, <2>9
  <2>10. Spawn(r, all)
    BY <1>2, <1>4, <2>5 DEF SetupProxyChain
  <2> QED
    BY <1>1, <1>2, <2>8, <2>9, <2>10, SpawnsTasks
<1>5. CASE ~(IsRegistered(name) /\ chain # None)
  <2>1. PICK resp : resp = <<"err">> /\ Answer(r, resp)
    BY <1>2, <1>5 DEF SetupProxyChain
  <2> QED
    BY <1>1, <2>1, AnswerLeads
<1> QED
  BY <1>4, <1>5

(* The replica that is picked is one of the service.                       *)
LEMMA NewProxyChainLeads ==
    ASSUME CtlInv, NEW r \in Reqs, NewProxyChain(r)
    PROVE  \/ Leads(r, "build")
           \/ Leads(r, "done") /\ req'[r].resp = <<"err">>
<1>1. Called /\ req[r] \in Requests /\ req[r].pc \notin {"join", "gone", "done"}
  BY DEF CtlInv, Called, NewProxyChain
<1>2. CASE IsRegistered(ServiceOf(r))
  <2>1. PICK pc, rid, net : /\ pc = "build" /\ rid = PickReplicaLeastClients(ServiceOf(r))
                            /\ net = req[r].net
    OBVIOUS
  <2>2. GoesTo(r, pc, rid, net)
    BY <1>1, <1>2, <2>1 DEF NewProxyChain, Called, Requests, GoesTo
  <2>3. Leads(r, pc)
    BY <1>1, <2>2, GoneTo
  <2> QED
    BY <2>1, <2>3
<1>3. CASE ~IsRegistered(ServiceOf(r))
  <2>1. PICK resp : resp = <<"err">> /\ Answer(r, resp)
    BY <1>3 DEF NewProxyChain
  <2> QED
    BY <1>1, <2>1, AnswerLeads
<1> QED
  BY <1>2, <1>3

(* handle_backend_trigger answers, or has a chain to build.                *)
LEMMA BackendTriggerLeads ==
    ASSUME Called, NEW r \in Reqs, BackendTrigger(r)
    PROVE  CallOf[r][1] # "proxy" /\ (Leads(r, "done") \/ Leads(r, "build_backend"))
<1>1. CallOf[r][1] # "proxy" /\ req[r] \in Requests /\ req[r].pc \notin {"join", "gone", "done"}
  BY DEF Called, InOrder, BackendTrigger
<1>2. CASE \E resp : Answer(r, resp)
  BY <1>1, <1>2, AnswerLeads
<1>3. CASE \E rid : req' = [req EXCEPT ![r].pc = "build_backend", ![r].rid = rid]
  <2>1. PICK rid : req' = [req EXCEPT ![r].pc = "build_backend", ![r].rid = rid]
    BY <1>3
  <2>2. PICK pc, net : pc = "build_backend" /\ net = req[r].net
    OBVIOUS
  <2>3. GoesTo(r, pc, rid, net)
    BY <1>1, <2>1, <2>2 DEF Called, Requests, GoesTo
  <2>4. Leads(r, pc)
    BY <1>1, <2>3, GoneTo
  <2> QED
    BY <1>1, <2>2, <2>4
<1> QED
  BY <1>2, <1>3 DEF BackendTrigger

(* setup_backend_chain spawns a task for each edge of the trigger's chain. *)
LEMMA SetupBackendChainSpawns ==
    ASSUME Called, NEW r \in Reqs, SetupBackendChain(r)
    PROVE  CallOf[r][1] # "proxy" /\ (Leads(r, "done") \/ Spawns(r))
<1>1. CallOf[r][1] # "proxy"
  BY DEF Called, InOrder, SetupBackendChain
<1>2. CASE \E resp : Answer(r, resp)
  BY <1>1, <1>2, AnswerLeads
<1>3. PICK name, port, chain :
         /\ name = ServiceOf(r) /\ port = CallOf[r][4]
         /\ chain = BuildLinearChain(Triggers(name)[port], name, req[r].rid)
  OBVIOUS
<1>4. CASE port \in DOMAIN Triggers(name) /\ chain # None /\ Spawn(r, chain)
  <2>1. /\ DOMAIN chain = DOMAIN Triggers(name)[port]
        /\ \A i \in DOMAIN chain :
              ~IsProxy(chain[i].client) /\ chain[i].server = Triggers(name)[port][i]
    BY <1>3, <1>4, ChainOfServices
  <2>2. \A i \in DOMAIN chain : ~IsProxy(chain[i].client) /\ chain[i].server \in ToSet(Triggers(name)[port])
    BY <2>1 DEF ToSet
  <2> QED
    BY <1>1, <1>3, <1>4, <2>2, SpawnsTasks
<1> QED
  BY <1>2, <1>3, <1>4 DEF SetupBackendChain

(* All tasks have ended, and the caller is answered.                       *)
LEMMA JoinLeads ==
    ASSUME Called, NEW r \in Reqs, Join(r)
    PROVE  /\ Leads(r, "done")
           /\ \A j \in DOMAIN req[r].edges : req[r].edges[j].pc \in {"ok", "failed"}
           /\ CallOf[r][1] # "trigger" /\ req'[r].resp # <<"err">> =>
                 \E up : up # 0 /\ req'[r].resp = <<"ok", up>>
<1>1. \E resp : Answer(r, resp) /\ (CallOf[r][1] # "trigger" /\ resp # <<"err">> =>
                                       \E up : up # 0 /\ resp = <<"ok", up>>)
  <2>1. PICK up : up = req[r].edges[Len(req[r].edges)].net
    OBVIOUS
  <2>2. CASE CallOf[r][1] = "trigger" \/ Answer(r, <<"err">>)
    BY <2>2 DEF Join
  <2>3. CASE CallOf[r][1] # "trigger" /\ ~Answer(r, <<"err">>)
    BY <2>1, <2>3 DEF Join
  <2> QED
    BY <2>2, <2>3
<1> QED
  BY <1>1, AnswerLeads DEF Join

(* The caller gives up: the tasks are as they were.                        *)
LEMMA CallerGoneLeads ==
    ASSUME Called, NEW r \in Reqs, CallerGone(r)
    PROVE  /\ r \in Impatient
           /\ \A s \in Reqs : s # r => req'[s] = req[s]
           /\ req'[r].pc \in {"done", "gone"} /\ req'[r].edges = req[r].edges
           /\ req'[r].resp = <<"gone">>
<1>1. req[r] \in Requests
  BY DEF Called
<1>2. PICK pc : pc = IF AllEnded(req[r].edges) THEN "done" ELSE "gone"
  OBVIOUS
<1>3. PICK q : q = [req[r] EXCEPT !.resp = <<"gone">>, !.pc = pc]
  OBVIOUS
<1>4. q.pc = pc /\ q.edges = req[r].edges /\ q.resp = <<"gone">>
  BY <1>1, <1>3 DEF Requests
<1>5. req' = [req EXCEPT ![r] = q]
  BY <1>1, <1>2, <1>3 DEF Called, Requests, CallerGone
<1>6. req'[r] = q /\ \A s \in Reqs : s # r => req'[s] = req[s]
  BY <1>5 DEF Called
<1> QED
  BY <1>2, <1>4, <1>6 DEF CallerGone
------------------------------------------------------------------------------
(* What a step does to the edge tasks. *)

(* One task moves.                                                         *)
TaskMoves(r, i, pc, net) ==
    /\ \A s \in Reqs : s # r => req'[s] = req[s]
    /\ req'[r].rid = req[r].rid /\ req'[r].net = req[r].net /\ req'[r].resp = req[r].resp
    /\ DOMAIN req'[r].edges = DOMAIN req[r].edges
    /\ \A j \in DOMAIN req[r].edges :
          LET e == req[r].edges[j]
              f == req'[r].edges[j]
          IN  /\ f.client = e.client /\ f.server = e.server /\ f.rid = e.rid
              /\ j # i => f = e
    /\ req'[r].edges[i].pc = pc /\ req'[r].edges[i].net = net

(* ... while its request waits for it ...                                  *)
TaskBecomes(r, i, pc, net) == TaskMoves(r, i, pc, net) /\ req'[r].pc = "join"

(* ... or after the caller has gone.                                       *)
Aborts(r, i) ==
    /\ req[r].pc = "gone" /\ req'[r].pc \in {"gone", "done"}
    /\ TaskMoves(r, i, "aborted", 0)

TaskSetTo(r, i, rpc, pc, net) ==
    LET e == [req[r].edges[i] EXCEPT !.pc = pc, !.net = net]
        tasks == [req[r].edges EXCEPT ![i] = e]
    IN  req' = [req EXCEPT ![r] = [req[r] EXCEPT !.pc = rpc, !.edges = tasks]]

(* An assignment to a task's state is such a move.                         *)
LEMMA TaskAssigned ==
    ASSUME Called, NEW r \in Reqs, NEW i \in DOMAIN req[r].edges, NEW rpc, NEW pc, NEW net,
           TaskSetTo(r, i, rpc, pc, net)
    PROVE  TaskMoves(r, i, pc, net) /\ req'[r].pc = rpc
<1>0. PICK e, tasks : /\ e = [req[r].edges[i] EXCEPT !.pc = pc, !.net = net]
                      /\ tasks = [req[r].edges EXCEPT ![i] = e]
  OBVIOUS
<1>1. req[r] \in Requests /\ req[r].edges[i] \in EdgeTasks
  BY EdgeAtTyped DEF Called
<1>2. PICK q : q = [req[r] EXCEPT !.pc = rpc, !.edges = tasks]
  OBVIOUS
<1>3. q.pc = rpc /\ q.edges = tasks /\ q.rid = req[r].rid /\ q.net = req[r].net /\ q.resp = req[r].resp
  BY <1>1, <1>2 DEF Requests
<1>4. req'[r] = q /\ \A s \in Reqs : s # r => req'[s] = req[s]
  BY <1>0, <1>2 DEF Called, TaskSetTo
<1>5. /\ e.client = req[r].edges[i].client /\ e.server = req[r].edges[i].server
      /\ e.rid = req[r].edges[i].rid /\ e.pc = pc /\ e.net = net
  BY <1>0, <1>1 DEF EdgeTasks
<1>6. DOMAIN tasks = DOMAIN req[r].edges /\ tasks[i] = e
      /\ \A j \in DOMAIN req[r].edges : j # i => tasks[j] = req[r].edges[j]
  BY <1>0
<1>7. ASSUME NEW j \in DOMAIN req[r].edges
      PROVE  /\ tasks[j].client = req[r].edges[j].client /\ tasks[j].server = req[r].edges[j].server
             /\ tasks[j].rid = req[r].edges[j].rid
             /\ j # i => tasks[j] = req[r].edges[j]
  BY <1>5, <1>6
<1>8. /\ req'[r].pc = rpc /\ req'[r].edges = tasks
      /\ req'[r].rid = req[r].rid /\ req'[r].net = req[r].net /\ req'[r].resp = req[r].resp
  BY <1>3, <1>4
<1> QED
  BY <1>4, <1>5, <1>6, <1>7, <1>8 DEF TaskMoves

(* A task that takes or gives up an identifier.                            *)
LEMMA TaskSet ==
    ASSUME Called, NEW r \in Reqs, req[r].pc = "join", NEW i \in DOMAIN req[r].edges,
           NEW pc, NEW net,
           req' = [req EXCEPT ![r].edges[i].pc = pc, ![r].edges[i].net = net]
    PROVE  TaskBecomes(r, i, pc, net)
<1>1. req[r] \in Requests /\ req[r].edges[i] \in EdgeTasks
  BY EdgeAtTyped DEF Called
<1>2. PICK e, tasks, rpc : /\ e = [req[r].edges[i] EXCEPT !.pc = pc, !.net = net]
                           /\ tasks = [req[r].edges EXCEPT ![i] = e] /\ rpc = "join"
  OBVIOUS
<1>3. [req[r] EXCEPT !.edges[i].pc = pc, !.edges[i].net = net] = [req[r] EXCEPT !.edges = tasks]
  BY <1>1, <1>2 DEF Requests
<1>4. [req[r] EXCEPT !.edges = tasks] = [req[r] EXCEPT !.pc = rpc, !.edges = tasks]
  BY <1>1, <1>2 DEF Requests
<1>5. req' = [req EXCEPT ![r] = [req[r] EXCEPT !.edges[i].pc = pc, !.edges[i].net = net]]
  BY DEF Called
<1>6. TaskSetTo(r, i, rpc, pc, net)
  BY <1>2, <1>3, <1>4, <1>5 DEF TaskSetTo
<1> QED
  BY <1>2, <1>6, TaskAssigned DEF TaskBecomes

(* A task that only goes on.                                               *)
LEMMA TaskGoesTo ==
    ASSUME Called, NEW r \in Reqs, req[r].pc = "join", NEW i \in DOMAIN req[r].edges,
           NEW pc, EdgeGoto(r, i, pc)
    PROVE  TaskBecomes(r, i, pc, req[r].edges[i].net)
<1>1. req[r] \in Requests /\ req[r].edges[i] \in EdgeTasks
  BY EdgeAtTyped DEF Called
<1>2. PICK net : net = req[r].edges[i].net
  OBVIOUS
<1>3. req' = [req EXCEPT ![r].edges[i].pc = pc, ![r].edges[i].net = net]
  BY <1>1, <1>2 DEF Called, Requests, EdgeTasks, EdgeGoto
<1> QED
  BY <1>2, <1>3, TaskSet

(* A task takes an identifier, or finds the pool exhausted.                *)
LEMMA AllocateBecomes ==
    ASSUME Called, NEW r \in Reqs, NEW i, EdgeAllocate(r, i)
    PROVE  /\ i \in DOMAIN req[r].edges /\ req[r].pc = "join" /\ req[r].edges[i].pc = "allocate"
           /\ \/ TaskBecomes(r, i, "drop", req[r].edges[i].net)
              \/ \E id \in NetIds, pc \in {"sending", "unsent"} : TaskBecomes(r, i, pc, id)
<1>1. i \in DOMAIN req[r].edges /\ req[r].pc = "join" /\ req[r].edges[i].pc = "allocate"
  BY DEF EdgeAllocate, EdgeAt
<1>2. CASE EdgeGoto(r, i, "drop")
  <2>1. PICK pc : pc = "drop" /\ EdgeGoto(r, i, pc)
    BY <1>2
  <2> QED
    BY <1>1, <2>1, TaskGoesTo
<1>3. CASE \E id \in NetIds : \E pc \in {"sending", "unsent"} :
              req' = [req EXCEPT ![r].edges[i].net = id, ![r].edges[i].pc = pc]
  <2>1. PICK id \in NetIds, pc \in {"sending", "unsent"} :
              req' = [req EXCEPT ![r].edges[i].net = id, ![r].edges[i].pc = pc]
    BY <1>3
  <2>2. req' = [req EXCEPT ![r].edges[i].pc = pc, ![r].edges[i].net = id]
    <3>1. req[r] \in Requests /\ req[r].edges[i] \in EdgeTasks
      BY <1>1, EdgeAtTyped DEF Called
    <3> QED
      BY <1>1, <2>1, <3>1 DEF Called, Requests, EdgeTasks
  <2> QED
    BY <1>1, <2>1, <2>2, TaskSet
<1> QED
  BY <1>1, <1>2, <1>3 DEF EdgeAllocate

(* Both hosts have acknowledged.                                           *)
LEMMA AckedBecomes ==
    ASSUME Called, NEW r \in Reqs, NEW i, EdgeAcked(r, i)
    PROVE  /\ i \in DOMAIN req[r].edges /\ req[r].edges[i].pc = "sending"
           /\ TaskBecomes(r, i, "commit", req[r].edges[i].net)
<1>1. PICK pc : pc = "commit"
  OBVIOUS
<1> QED
  BY <1>1, TaskGoesTo DEF EdgeAcked, EdgeAt

(* A task gives its identifier back.                                       *)
LEMMA RollbackBecomes ==
    ASSUME Called, NEW r \in Reqs, NEW i, EdgeRollback(r, i)
    PROVE  /\ i \in DOMAIN req[r].edges /\ req[r].edges[i].pc \in {"sending", "unsent"}
           /\ TaskBecomes(r, i, "drop", 0)
<1>1. PICK pc : pc = "drop"
  OBVIOUS
<1> QED
  BY <1>1, TaskSet DEF EdgeRollback, EdgeAt

(* A task whose service is gone gives its identifier back.                 *)
LEMMA AbortBecomes ==
    ASSUME Called, NEW r \in Reqs, NEW i, EdgeAbort(r, i)
    PROVE  /\ i \in DOMAIN req[r].edges /\ req[r].edges[i].pc = "abort"
           /\ TaskBecomes(r, i, "failed", 0)
<1>1. PICK pc : pc = "failed"
  OBVIOUS
<1> QED
  BY <1>1, TaskSet DEF EdgeAbort, EdgeAt

(* A task that is dropped with its caller.                                 *)
LEMMA TaskAborted ==
    ASSUME Called, NEW r \in Reqs, NEW i, EdgeAborted(r, i)
    PROVE  i \in DOMAIN req[r].edges /\ req[r].edges[i].pc \notin Ended /\ Aborts(r, i)
<1>1. req[r] \in Requests /\ i \in DOMAIN req[r].edges /\ req[r].edges[i] \in EdgeTasks
  BY EdgeAtTyped DEF Called, EdgeAborted
<1>2. PICK pc, net, e, tasks :
         /\ pc = "aborted" /\ net = 0
         /\ e = [req[r].edges[i] EXCEPT !.pc = pc, !.net = net]
         /\ tasks = [req[r].edges EXCEPT ![i] = e]
  OBVIOUS
<1>3. [req[r].edges EXCEPT ![i].pc = "aborted", ![i].net = 0] = tasks
  BY <1>1, <1>2 DEF Requests, EdgeTasks
<1>4. PICK rpc : rpc = IF AllEnded(tasks) THEN "done" ELSE "gone"
  OBVIOUS
<1>5. req' = [req EXCEPT ![r].edges = tasks, ![r].pc = rpc]
  BY <1>3, <1>4 DEF EdgeAborted
<1>6. TaskSetTo(r, i, rpc, pc, net)
  BY <1>1, <1>2, <1>5 DEF Called, Requests, TaskSetTo
<1>7. TaskMoves(r, i, pc, net) /\ req'[r].pc = rpc
  BY <1>1, <1>6, TaskAssigned
<1> QED
  BY <1>1, <1>2, <1>4, <1>7 DEF Aborts, EdgeAborted
------------------------------------------------------------------------------
(* What a task does to the entries. *)

(* The entry that a task reserves, fills in or gives up.                   *)
Slot(r, i) == <<req[r].edges[i].server, req[r].edges[i].rid, req[r].edges[i].client>>

(* The slot of a task is a place for an entry.                             *)
LEMMA SlotIn ==
    ASSUME Called, NEW r \in Reqs, NEW i \in DOMAIN req[r].edges
    PROVE  /\ Slot(r, i) \in AllKeys
           /\ Slot(r, i)[1] = req[r].edges[i].server /\ Slot(r, i)[2] = req[r].edges[i].rid
           /\ Slot(r, i)[3] = req[r].edges[i].client
  BY EdgeAtTyped DEF Slot, EdgeTasks, AllKeys

(* A service without replicas has no entries, and where no replica has an  *)
(* entry of the client there is none.                                      *)
LEMMA NotHeld ==
    ASSUME CtlInv, NEW n, NEW c, ~IsRegistered(n) \/ ~Holds(n, c, clients),
           NEW k \in DOMAIN clients, k[1] = n
    PROVE  k[3] # c
<1>1. k[2] \in ReplicaSet(n) /\ k \in Names \X AllReplicas \X AllClients
  BY DEF CtlInv, Placed, AllKeys
<1>2. n \in Names /\ k = <<n, k[2], k[3]>>
  BY <1>1
<1>3. PICK j \in DOMAIN replicas[n] : replicas[n][j] = k[2]
  BY <1>1 DEF ReplicaSet, ToSet
<1>4. replicas[n] # <<>>
  BY <1>3
<1>5. IsRegistered(n)
  BY <1>2, <1>4 DEF CtlInv, Listed, IsRegistered
<1>6. ~Holds(n, c, clients)
  BY <1>5
<1>7. <<n, replicas[n][j], c>> \notin DOMAIN clients
  BY <1>3, <1>6 DEF Holds, Holders
<1> QED
  BY <1>2, <1>3, <1>7

ReserveLeads(r, i) ==
    LET e == req[r].edges[i]
    IN  \/ /\ Keeps(clients, clients')
           /\ TaskBecomes(r, i, "ok", e.net) \/ TaskBecomes(r, i, "failed", e.net)
        \/ /\ Enters(clients, clients', Slot(r, i), 0) /\ TaskBecomes(r, i, "allocate", e.net)
           /\ Slot(r, i) \notin DOMAIN clients
           /\ IsProxy(e.client) =>
                 \A k \in DOMAIN clients : ~(k[1] = e.server /\ k[3] = e.client)

(* A task counts a chain on an edge that is up, fails, or leaves a         *)
(* placeholder in its slot.                                                *)
LEMMA ReserveEnters ==
    ASSUME CtlInv, NEW r \in Reqs, NEW i, EdgeReserve(r, i)
    PROVE  /\ i \in DOMAIN req[r].edges /\ req[r].edges[i].pc = "reserve"
           /\ ReserveLeads(r, i)
<1>1. /\ Called /\ i \in DOMAIN req[r].edges /\ req[r].pc = "join"
      /\ req[r].edges[i].pc = "reserve" /\ clients \in [DOMAIN clients -> Entries]
  BY DEF CtlInv, Placed, EdgeReserve, EdgeAt
<1>2. PICK n, rid, c : /\ n = req[r].edges[i].server /\ rid = req[r].edges[i].rid
                       /\ c = req[r].edges[i].client
  OBVIOUS
<1>3. CASE EdgeGoto(r, i, "failed") /\ UNCHANGED clients
  <2>1. PICK pc : pc = "failed"
    OBVIOUS
  <2> QED
    BY <1>1, <1>3, <2>1, TaskGoesTo, KeepsSame DEF ReserveLeads
<1>4. CASE /\ IsRegistered(n) /\ clients' = AddChain(n, c, clients) /\ EdgeGoto(r, i, "ok")
  <2>1. PICK pc, D : pc = "ok" /\ D = DOMAIN clients
    OBVIOUS
  <2>2. Keeps(clients, clients')
    BY <1>1, <1>4, <2>1, CountKeeps
  <2> QED
    BY <1>1, <1>4, <2>1, <2>2, TaskGoesTo DEF ReserveLeads
<1>5. CASE /\ IsRegistered(n) /\ ~(IF IsProxy(c) THEN IsClientSetup(n, c)
                                                 ELSE <<n, rid, c>> \in DOMAIN clients)
           /\ clients' = AddClientToReplica(n, rid, c, Placeholder, clients)
           /\ EdgeGoto(r, i, "allocate")
  <2>1. PICK pc, info, new : pc = "allocate" /\ info = Placeholder /\ new = clients'
    OBVIOUS
  <2>2. info \in Entries /\ info.net_id = 0
    BY <2>1 DEF Placeholder, Entries
  <2>3. Enters(clients, new, <<n, rid, c>>, 0)
    BY <1>5, <2>1, <2>2, EntryEnters
  <2>4. TaskBecomes(r, i, pc, req[r].edges[i].net)
    BY <1>1, <1>5, <2>1, TaskGoesTo
  <2>5. IsProxy(c) => \A k \in DOMAIN clients : ~(k[1] = n /\ k[3] = c)
    BY <1>5, NotHeld DEF IsClientSetup
  <2>6. <<n, rid, c>> \notin DOMAIN clients
    <3>1. PICK k : k = <<n, rid, c>>
      OBVIOUS
    <3> QED
      BY <1>5, <2>5, <3>1
  <2> QED
    BY <1>1, <1>2, <2>1, <2>3, <2>4, <2>5, <2>6 DEF ReserveLeads, Slot
<1> QED
  BY <1>1, <1>2, <1>3, <1>4, <1>5 DEF EdgeReserve

CommitLeads(r, i) ==
    LET e == req[r].edges[i]
    IN  \/ /\ UNCHANGED clients /\ TaskBecomes(r, i, "abort", e.net)
           /\ Slot(r, i) \notin DOMAIN clients
        \/ /\ Enters(clients, clients', Slot(r, i), e.net)
           /\ TaskBecomes(r, i, "ok", IF IsProxy(e.client) THEN e.net ELSE 0)

(* A task puts its network into its slot, or finds the service             *)
(* unregistered.                                                           *)
LEMMA CommitEnters ==
    ASSUME CtlInv, NEW r \in Reqs, NEW i, EdgeCommit(r, i)
    PROVE  /\ i \in DOMAIN req[r].edges /\ req[r].edges[i].pc = "commit"
           /\ CommitLeads(r, i)
<1>1. /\ Called /\ i \in DOMAIN req[r].edges /\ req[r].pc = "join"
      /\ req[r].edges[i].pc = "commit" /\ req[r].edges[i] \in EdgeTasks /\ req[r] \in Requests
  BY EdgeAtTyped DEF CtlInv, Called, EdgeCommit, EdgeAt
<1>2. PICK n, rid, c, net : /\ n = req[r].edges[i].server /\ rid = req[r].edges[i].rid
                            /\ c = req[r].edges[i].client /\ net = req[r].edges[i].net
  OBVIOUS
<1>3. CASE EdgeGoto(r, i, "abort") /\ UNCHANGED clients /\ ~IsRegistered(n)
  <2>1. PICK pc, key : pc = "abort" /\ key = Slot(r, i)
    OBVIOUS
  <2>2. key \notin DOMAIN clients
    BY <1>1, <1>2, <1>3, <2>1, SlotIn, NotHeld
  <2> QED
    BY <1>1, <1>3, <2>1, <2>2, TaskGoesTo DEF CommitLeads
<1>4. CASE IsRegistered(n)
  <2>1. PICK info, new, pc, kept :
           /\ info = [net_id |-> net, active_chains |-> 0]
           /\ new = AddClientToReplica(n, rid, c, info, clients)
           /\ pc = "ok" /\ kept = IF IsProxy(c) THEN net ELSE 0
    OBVIOUS
  <2>2. info \in Entries /\ info.net_id = net
    BY <1>1, <1>2, <2>1 DEF Entries, EdgeTasks
  <2>3. Enters(clients, AddChain(n, c, new), <<n, rid, c>>, net)
    BY <1>4, <2>1, <2>2, EntryEnters
  <2>4. clients' = AddChain(n, c, new)
    BY <1>2, <1>4, <2>1 DEF EdgeCommit
  <2>5. req' = [req EXCEPT ![r].edges[i].pc = pc, ![r].edges[i].net = kept]
    BY <1>1, <1>2, <1>4, <2>1 DEF EdgeCommit, Called, Requests, EdgeTasks
  <2>6. TaskBecomes(r, i, pc, kept)
    BY <1>1, <2>5, TaskSet
  <2>7. Enters(clients, clients', Slot(r, i), net)
    BY <1>2, <2>3, <2>4 DEF Slot
  <2>8. TaskBecomes(r, i, "ok", IF IsProxy(req[r].edges[i].client) THEN net ELSE 0)
    BY <1>2, <2>1, <2>6
  <2>9. CommitLeads(r, i)
    BY ONLY <1>2, <2>7, <2>8, Zenon DEF CommitLeads
  <2> QED
    BY <1>1, <2>9
<1> QED
  BY <1>1, <1>2, <1>3, <1>4 DEF EdgeCommit

(* Each client of the set is on one replica of a service at most.          *)
OneIn(P) ==
    \A j, k \in DOMAIN clients : k[3] \in P /\ j[1] = k[1] /\ j[3] = k[3] => j = k

(* Dropping the placeholder of a client that is on one replica removes it. *)
LEMMA DropRemoves ==
    ASSUME CtlInv, NEW r \in Reqs, NEW i, EdgeDrop(r, i)
    PROVE  /\ i \in DOMAIN req[r].edges /\ req[r].edges[i].pc = "drop"
           /\ TaskBecomes(r, i, "failed", req[r].edges[i].net)
           /\ Keeps(clients, clients')
           /\ \A P : OneIn(P) /\ Slot(r, i)[3] \in P => Slot(r, i) \notin DOMAIN clients'
<1>1. /\ Called /\ i \in DOMAIN req[r].edges /\ req[r].pc = "join"
      /\ req[r].edges[i].pc = "drop"
  BY DEF CtlInv, EdgeDrop, EdgeAt
<1>2. TaskBecomes(r, i, "failed", req[r].edges[i].net)
  <2>1. PICK pc : pc = "failed"
    OBVIOUS
  <2> QED
    BY <1>1, <2>1, TaskGoesTo DEF EdgeDrop
<1>3. PICK n, c, key : /\ n = req[r].edges[i].server /\ c = req[r].edges[i].client
                       /\ key = Slot(r, i)
  OBVIOUS
<1>4. key[1] = n /\ key[3] = c
  BY <1>1, <1>3, SlotIn
<1>5. clients' = IF IsRegistered(n) THEN RemoveClient(n, c, clients) ELSE clients
  BY <1>3 DEF EdgeDrop
<1>6. Keeps(clients, clients')
  BY <1>5, RemovedKeeps, KeepsSame
<1>7. ASSUME NEW P, OneIn(P), c \in P PROVE key \notin DOMAIN clients'
  <2>1. CASE ~IsRegistered(n) \/ ~Holds(n, c, clients)
    <3>1. key \notin DOMAIN clients
      BY <1>4, <2>1, NotHeld
    <3> QED
      BY <1>6, <3>1 DEF Keeps
  <2>2. CASE IsRegistered(n) /\ Holds(n, c, clients)
    <3>1. PICK first : first = EntryKey(n, c, clients)
      OBVIOUS
    <3>2. first \in DOMAIN clients /\ first[1] = n /\ first[3] = c
      BY <2>2, <3>1, RegisteredHolder DEF CtlInv
    <3>3. DOMAIN clients' = DOMAIN clients \ {first}
      BY <1>5, <2>2, <3>1, WithoutKeeps DEF RemoveClient
    <3> QED
      BY <1>4, <1>7, <3>2, <3>3 DEF OneIn
  <2> QED
    BY <2>1, <2>2
<1> QED
  BY <1>1, <1>2, <1>3, <1>4, <1>6, <1>7
------------------------------------------------------------------------------
(* Whose a placeholder is. *)

(* A task in one of these owns the placeholder in its slot.                *)
Holding == {"allocate", "sending", "unsent", "commit", "drop", "aborted"}

(* PlaceholderOwned for the clients of a set.                              *)
OwnedIn(P) ==
    \A k \in DOMAIN clients : k[3] \in P /\ ~Established(k) => \E t \in Task : Owns(t, k)

SlotsOf(P) == OwnedIn(P) /\ Granted /\ AbortedWhenGone

(* No caller that may give up calls again: an aborted call is over.        *)
CalledOnce == Repeat => Impatient = {}

(* A task that moves keeps its placeholder as long as it has not ended.    *)
LEMMA OwnersKept ==
    ASSUME NEW r \in Reqs, NEW i \in DOMAIN req[r].edges, NEW pc, NEW net,
           TaskMoves(r, i, pc, net), NEW t \in Task, NEW k, Owns(t, k),
           t # <<r, i>> \/ pc \in Holding
    PROVE  Owns(t, k)'
<1>1. t[1] \in Reqs /\ t = <<t[1], t[2]>>
  BY DEF Task
<1>2. CASE t[1] # r
  BY <1>1, <1>2 DEF TaskMoves, Owns
<1>3. CASE t[1] = r /\ t[2] # i
  BY <1>1, <1>3 DEF TaskMoves, Owns
<1>4. CASE t[1] = r /\ t[2] = i
  BY <1>1, <1>4 DEF TaskMoves, Owns, Holding
<1> QED
  BY <1>2, <1>3, <1>4

(* A task that moves gives its placeholder up, fills it in, or keeps it.   *)
LEMMA TaskOwned ==
    ASSUME Called, NEW P, OwnedIn(P), NEW r \in Reqs, NEW i \in 1 .. MaxEdges,
           i \in DOMAIN req[r].edges, NEW pc, NEW net, TaskMoves(r, i, pc, net),
           NEW key, key = Slot(r, i), NEW x,
           Keeps(clients, clients') \/ Enters(clients, clients', key, x),
           \/ pc \in Holding
           \/ Keeps(clients, clients') /\ req[r].edges[i].pc \notin Holding
           \/ key[3] \in P /\ key \in DOMAIN clients' => clients'[key].net_id # 0
    PROVE  OwnedIn(P)'
<1> SUFFICES ASSUME NEW k \in DOMAIN clients', k[3] \in P, clients'[k].net_id = 0
             PROVE  \E t \in Task : Owns(t, k)'
  BY DEF OwnedIn, Established
<1>1. <<r, i>> \in Task
  BY DEF Task
<1>2. CASE k = key /\ pc \in Holding
  <2>1. PICK t \in Task : t = <<r, i>>
    BY <1>1
  <2>2. Owns(t, k)'
    BY <1>2, <2>1 DEF TaskMoves, Owns, Holding, Slot
  <2> QED
    BY <2>2
<1>3. CASE k = key /\ pc \notin Holding
  <2>1. k \in DOMAIN clients /\ clients[k].net_id = 0 /\ req[r].edges[i].pc \notin Holding
    BY <1>3 DEF Keeps
  <2>2. PICK t \in Task : Owns(t, k)
    BY <2>1 DEF OwnedIn, Established
  <2>3. t # <<r, i>>
    BY <2>1, <2>2 DEF Owns, Holding
  <2> QED
    BY <2>2, <2>3, OwnersKept
<1>4. CASE k # key
  <2>1. k \in DOMAIN clients /\ clients[k].net_id = 0
    BY <1>4 DEF Keeps, Enters
  <2>2. PICK t \in Task : Owns(t, k)
    BY <2>1 DEF OwnedIn, Established
  <2>3. t # <<r, i>>
    BY <1>4, <2>2 DEF Owns, Slot
  <2> QED
    BY <2>2, <2>3, OwnersKept
<1> QED
  BY <1>2, <1>3, <1>4

(* A request without tasks of its own that hold anything moves.            *)
LEMMA RequestOwned ==
    ASSUME NEW P, OwnedIn(P), NEW r \in Reqs, \A s \in Reqs : s # r => req'[s] = req[s],
           \/ \A j \in DOMAIN req[r].edges : req[r].edges[j].pc \notin Holding
           \/ req'[r].edges = req[r].edges,
           \/ Keeps(clients, clients')
           \/ \E key, x : Enters(clients, clients', key, x) /\ x # 0
    PROVE  OwnedIn(P)'
<1> SUFFICES ASSUME NEW k \in DOMAIN clients', k[3] \in P, clients'[k].net_id = 0
             PROVE  \E t \in Task : Owns(t, k)'
  BY DEF OwnedIn, Established
<1>1. k \in DOMAIN clients /\ clients[k].net_id = 0
  BY DEF Keeps, Enters
<1>2. PICK t \in Task : Owns(t, k)
  BY <1>1 DEF OwnedIn, Established
<1>3. t[1] \in Reqs
  BY DEF Task
<1>4. Owns(t, k)'
  <2>1. CASE t[1] # r
    BY <1>2, <1>3, <2>1 DEF Owns
  <2>2. CASE t[1] = r
    BY <1>2, <2>2 DEF Owns, Holding
  <2> QED
    BY <2>1, <2>2
<1> QED
  BY <1>4

Setting == {"sending", "unsent", "commit", "abort"}

(* A task that sets a network up has one.                                  *)
LEMMA TaskGranted ==
    ASSUME Granted, NEW r \in Reqs, NEW i \in DOMAIN req[r].edges, NEW pc, NEW net,
           TaskMoves(r, i, pc, net), req'[r].pc # "reuse", pc \in Setting => net # 0
    PROVE  Granted'
<1>1. ASSUME NEW t \in Task, t[2] \in DOMAIN req'[t[1]].edges,
             req'[t[1]].edges[t[2]].pc \in Setting
      PROVE  req'[t[1]].edges[t[2]].net # 0
  <2>1. t[1] \in Reqs
    BY DEF Task
  <2>2. CASE t[1] # r \/ t[2] # i
    BY <1>1, <2>1, <2>2 DEF TaskMoves, Granted, Installing, Setting
  <2>3. CASE t[1] = r /\ t[2] = i
    BY <1>1, <2>3 DEF TaskMoves
  <2> QED
    BY <2>2, <2>3
<1>2. ASSUME NEW s \in Reqs, req'[s].pc = "reuse" PROVE req'[s].net # 0
  BY <1>2 DEF TaskMoves, Granted
<1> QED
  BY <1>1, <1>2 DEF Granted, Installing, Setting

(* Nobody but a caller that gives up aborts tasks.                         *)
LEMMA TaskAborting ==
    ASSUME AbortedWhenGone, NEW r \in Reqs, NEW i \in DOMAIN req[r].edges, NEW pc, NEW net,
           \/ TaskBecomes(r, i, pc, net) /\ req[r].pc = "join" /\ pc # "aborted"
           \/ Aborts(r, i)
    PROVE  AbortedWhenGone'
<1>1. ASSUME NEW s \in Reqs, s # r PROVE req'[s] = req[s]
  BY <1>1 DEF TaskBecomes, Aborts, TaskMoves
<1>2. CASE TaskBecomes(r, i, pc, net) /\ req[r].pc = "join" /\ pc # "aborted"
  <2>1. \A j \in DOMAIN req'[r].edges : req'[r].edges[j].pc # "aborted"
    BY <1>2 DEF TaskBecomes, TaskMoves, AbortedWhenGone
  <2> QED
    BY <1>1, <1>2, <2>1 DEF TaskBecomes, AbortedWhenGone
<1>3. CASE Aborts(r, i)
  <2>1. r \in Impatient /\ req'[r].pc \in {"gone", "done"}
    BY <1>3 DEF Aborts, AbortedWhenGone
  <2> QED
    BY <1>1, <2>1 DEF AbortedWhenGone
<1> QED
  BY <1>2, <1>3

(* An edge task leaves no placeholder without an owner.                    *)
LEMMA EdgeSlots ==
    ASSUME CtlInv, NEW P, SlotsOf(P), OneIn(P), NEW r \in Reqs, NEW i \in 1 .. MaxEdges,
           EdgeStep(r, i)
    PROVE  SlotsOf(P)'
<1>1. Called /\ OwnedIn(P) /\ Granted /\ AbortedWhenGone
  BY DEF CtlInv, SlotsOf
<1>2. PICK key : key = Slot(r, i)
  OBVIOUS
<1>3. i \in DOMAIN req[r].edges
  BY DEF EdgeStep, EdgeReserve, EdgeAllocate, EdgeAcked, EdgeRollback, EdgeDrop, EdgeCommit,
         EdgeAbort, EdgeAborted, EdgeAt
<1>4. PICK net : net = req[r].edges[i].net
  OBVIOUS
<1>5. req[r].edges[i].pc \in Setting => net # 0
  <2>1. PICK t \in Task : t = <<r, i>>
    BY DEF Task
  <2> QED
    BY <1>1, <1>3, <1>4, <2>1 DEF Granted, Installing, Setting
<1>6. ASSUME NEW pc, NEW x, TaskBecomes(r, i, pc, x), req[r].pc = "join",
             pc # "aborted", pc \in Setting => x # 0
      PROVE  Granted' /\ AbortedWhenGone'
  <2>1. TaskMoves(r, i, pc, x) /\ req'[r].pc # "reuse"
    BY <1>6 DEF TaskBecomes
  <2> QED
    BY <1>1, <1>3, <1>6, <2>1, TaskGranted, TaskAborting
<1>7. ASSUME NEW pc, NEW x, TaskBecomes(r, i, pc, x), Keeps(clients, clients'),
             pc \in Holding \/ req[r].edges[i].pc \notin Holding
      PROVE  OwnedIn(P)'
  BY <1>1, <1>2, <1>3, <1>7, TaskOwned DEF TaskBecomes
<1>8. CASE EdgeReserve(r, i)
  <2>1. req[r].pc = "join" /\ req[r].edges[i].pc = "reserve" /\ ReserveLeads(r, i)
    BY <1>8, ReserveEnters DEF EdgeReserve, EdgeAt
  <2>2. CASE \E pc \in {"ok", "failed"} : Keeps(clients, clients') /\ TaskBecomes(r, i, pc, net)
    BY <1>6, <1>7, <2>1, <2>2 DEF SlotsOf, Holding, Setting
  <2>3. CASE Enters(clients, clients', key, 0) /\ TaskBecomes(r, i, "allocate", net)
    <3>1. PICK pc, x : pc = "allocate" /\ x = 0
      OBVIOUS
    <3>2. OwnedIn(P)'
      BY <1>1, <1>2, <1>3, <2>3, <3>1, TaskOwned DEF TaskBecomes, Holding
    <3> QED
      BY <1>6, <2>1, <2>3, <3>1, <3>2 DEF SlotsOf, Setting
  <2> QED
    BY <1>2, <1>4, <2>1, <2>2, <2>3 DEF ReserveLeads
<1>9. CASE EdgeAllocate(r, i)
  <2>1. PICK pc, x : TaskBecomes(r, i, pc, x) /\ pc \in {"drop", "sending", "unsent"}
                     /\ (pc = "drop" \/ x \in NetIds) /\ req[r].pc = "join"
    BY <1>1, <1>9, AllocateBecomes
  <2>2. Keeps(clients, clients')
    BY <1>9, KeepsSame, RequestsLeaveEntries
  <2>3. pc \in Setting => x # 0
    BY <2>1, PoolBounds DEF Setting, NetIds
  <2> QED
    BY <1>6, <1>7, <2>1, <2>2, <2>3 DEF SlotsOf, Holding
<1>10. CASE EdgeAcked(r, i) \/ EdgeRollback(r, i) \/ EdgeAbort(r, i)
  <2>1. PICK pc, x : /\ TaskBecomes(r, i, pc, x) /\ pc \in {"commit", "drop", "failed"}
                     /\ pc = "commit" => x = net /\ req[r].edges[i].pc \in Setting
                     /\ pc = "failed" => req[r].edges[i].pc = "abort"
    BY <1>1, <1>4, <1>10, AckedBecomes, RollbackBecomes, AbortBecomes DEF Setting
  <2>2. req[r].pc = "join"
    BY <1>10 DEF EdgeAcked, EdgeRollback, EdgeAbort, EdgeAt
  <2>3. Keeps(clients, clients')
    BY <1>10, KeepsSame, RequestsLeaveEntries
  <2> QED
    BY <1>5, <1>6, <1>7, <2>1, <2>2, <2>3 DEF SlotsOf, Holding, Setting
<1>11. CASE EdgeDrop(r, i)
  <2>1. PICK pc : pc = "failed"
    OBVIOUS
  <2>2. /\ TaskBecomes(r, i, pc, net) /\ req[r].pc = "join" /\ Keeps(clients, clients')
        /\ key[3] \in P => key \notin DOMAIN clients'
    BY <1>2, <1>4, <1>11, <2>1, DropRemoves DEF EdgeDrop, EdgeAt
  <2>3. OwnedIn(P)'
    BY <1>1, <1>2, <1>3, <2>2, TaskOwned DEF TaskBecomes
  <2> QED
    BY <1>6, <2>1, <2>2, <2>3 DEF SlotsOf, Setting
<1>12. CASE EdgeCommit(r, i)
  <2>1. req[r].pc = "join" /\ req[r].edges[i].pc = "commit" /\ CommitLeads(r, i)
    BY <1>12, CommitEnters DEF EdgeCommit, EdgeAt
  <2>2. net # 0
    BY <1>5, <2>1 DEF Setting
  <2>3. CASE UNCHANGED clients /\ TaskBecomes(r, i, "abort", net) /\ key \notin DOMAIN clients
    <3>1. PICK pc : pc = "abort"
      OBVIOUS
    <3>2. OwnedIn(P)'
      BY <1>1, <1>2, <1>3, <2>3, <3>1, TaskOwned, KeepsSame DEF TaskBecomes
    <3> QED
      BY <1>6, <2>1, <2>2, <2>3, <3>1, <3>2 DEF SlotsOf
  <2>4. CASE Enters(clients, clients', key, net)
             /\ TaskBecomes(r, i, "ok", IF IsProxy(req[r].edges[i].client) THEN net ELSE 0)
    <3>1. PICK pc, x : pc = "ok" /\ x = IF IsProxy(req[r].edges[i].client) THEN net ELSE 0
      OBVIOUS
    <3>2. TaskBecomes(r, i, pc, x)
      BY <2>4, <3>1
    <3>3. key \in DOMAIN clients' => clients'[key].net_id # 0
      BY <2>2, <2>4 DEF Enters
    <3>4. OwnedIn(P)'
      BY <1>1, <1>2, <1>3, <2>4, <3>2, <3>3, TaskOwned DEF TaskBecomes
    <3> QED
      BY <1>6, <2>1, <3>1, <3>2, <3>4 DEF SlotsOf, Setting
  <2> QED
    BY <1>2, <1>4, <2>1, <2>3, <2>4 DEF CommitLeads
<1>13. CASE EdgeAborted(r, i)
  <2>1. Aborts(r, i)
    BY <1>1, <1>13, TaskAborted
  <2>2. PICK pc, x : pc = "aborted" /\ x = 0
    OBVIOUS
  <2>3. TaskMoves(r, i, pc, x) /\ req'[r].pc # "reuse"
    BY <2>1, <2>2 DEF Aborts
  <2>4. Keeps(clients, clients')
    BY <1>13, KeepsSame, RequestsLeaveEntries
  <2>5. OwnedIn(P)'
    BY <1>1, <1>2, <1>3, <2>2, <2>3, <2>4, TaskOwned DEF Holding
  <2>6. Granted'
    BY <1>1, <1>3, <2>2, <2>3, TaskGranted DEF Setting
  <2>7. AbortedWhenGone'
    BY <1>1, <1>3, <2>1, TaskAborting
  <2> QED
    BY <2>5, <2>6, <2>7 DEF SlotsOf
<1> QED
  BY <1>8, <1>9, <1>10, <1>11, <1>12, <1>13 DEF EdgeStep

(* A request that starts, or goes on, has no task that holds anything.     *)
LEMMA NothingHeld ==
    ASSUME CtlInv, AbortedWhenGone, CalledOnce, NEW r \in Reqs, Start(r) \/ RequestStep(r),
           NEW j \in DOMAIN req[r].edges
    PROVE  req[r].edges[j].pc \notin Holding
<1>1. Called /\ req[r] \in Requests /\ InOrder(r, req[r])
  BY DEF CtlInv, Called
<1>2. CASE req[r].pc \notin {"join", "gone", "done"}
  BY <1>1, <1>2 DEF InOrder
<1>3. CASE req[r].pc = "join"
  <2>1. Join(r)
    BY <1>3 DEF Start, RequestStep, ProxyLookup, ProxySticky, ProxyReuse, NewProxyChain,
                SetupProxyChain, BackendTrigger, SetupBackendChain
  <2> QED
    BY <2>1 DEF Join, Holding
<1>4. CASE req[r].pc = "gone"
  BY <1>4 DEF Start, RequestStep, ProxyLookup, ProxySticky, ProxyReuse, NewProxyChain,
              SetupProxyChain, BackendTrigger, SetupBackendChain, Join
<1>5. CASE req[r].pc = "done"
  <2>1. Start(r)
    BY <1>5 DEF RequestStep, ProxyLookup, ProxySticky, ProxyReuse, NewProxyChain,
                SetupProxyChain, BackendTrigger, SetupBackendChain, Join
  <2>2. Impatient = {}
    BY <1>5, <2>1 DEF Start, CalledOnce
  <2>3. req[r].edges[j].pc \in Ended /\ req[r].edges[j].pc # "aborted"
    BY <1>1, <1>5, <2>2 DEF InOrder, AllEnded, AbortedWhenGone
  <2> QED
    BY <2>3 DEF Ended, Holding
<1> QED
  BY <1>2, <1>3, <1>4, <1>5

(* A request that goes on ...                                              *)
LEMMA LeadGranted ==
    ASSUME Granted, AbortedWhenGone, NEW r \in Reqs, NEW pc, Leads(r, pc), pc # "gone",
           pc = "reuse" => req'[r].net # 0
    PROVE  Granted' /\ AbortedWhenGone'
<1>1. \A s \in Reqs : s # r => req'[s] = req[s]
  BY DEF Leads
<1>2. req'[r].pc = pc /\ DOMAIN req'[r].edges = {}
  BY DEF Leads
<1>3. \A t \in Task : t[1] \in Reqs
  BY DEF Task
<1> QED
  BY <1>1, <1>2, <1>3 DEF Granted, Installing, AbortedWhenGone

(* ... or that spawns its tasks holds no identifier.                       *)
LEMMA SpawnGranted ==
    ASSUME Granted, AbortedWhenGone, NEW r \in Reqs, Spawns(r)
    PROVE  Granted' /\ AbortedWhenGone'
<1>1. \A s \in Reqs : s # r => req'[s] = req[s]
  BY DEF Spawns
<1>2. req'[r].pc = "join" /\ \A j \in DOMAIN req'[r].edges : req'[r].edges[j].pc = "reserve"
  BY DEF Spawns, NewTask
<1>3. \A t \in Task : t[1] \in Reqs
  BY DEF Task
<1> QED
  BY <1>1, <1>2, <1>3 DEF Granted, Installing, AbortedWhenGone

(* What a request does to itself, and to the entries.                      *)
LEMMA RequestLeads ==
    ASSUME CtlInv, NEW r \in Reqs, Start(r) \/ RequestStep(r)
    PROVE  \/ /\ \E pc \in Pcs \ {"gone", "reuse"} : Leads(r, pc)
              /\ UNCHANGED clients
           \/ Spawns(r) /\ UNCHANGED clients
           \/ ProxyLookup(r) /\ LookupLeads(r) /\ UNCHANGED clients
           \/ ProxyReuse(r) /\ ReuseLeads(r)
<1>1. Called
  BY DEF CtlInv
<1>2. ~ProxyReuse(r) => UNCHANGED clients
  BY RequestsLeaveEntries DEF RequestStep
<1>3. CASE Start(r)
  BY <1>1, <1>3, StartLeads, RequestsLeaveEntries DEF Pcs
<1>4. CASE ProxyLookup(r)
  BY <1>1, <1>4, ProxyLookupLeads, RequestsLeaveEntries
<1>5. CASE ProxySticky(r)
  <2>1. PICK resp : Answer(r, resp)
    BY <1>5 DEF ProxySticky
  <2> QED
    BY <1>1, <1>5, <2>1, AnswerLeads, RequestsLeaveEntries DEF Pcs
<1>6. CASE ProxyReuse(r)
  BY <1>6, ProxyReuseLeads
<1>7. CASE NewProxyChain(r)
  BY <1>7, NewProxyChainLeads, RequestsLeaveEntries DEF Pcs
<1>8. CASE SetupProxyChain(r)
  BY <1>8, SetupProxyChainSpawns, RequestsLeaveEntries DEF Pcs
<1>9. CASE BackendTrigger(r)
  BY <1>1, <1>9, BackendTriggerLeads, RequestsLeaveEntries DEF Pcs
<1>10. CASE SetupBackendChain(r)
  BY <1>1, <1>10, SetupBackendChainSpawns, RequestsLeaveEntries DEF Pcs
<1>11. CASE Join(r)
  BY <1>1, <1>11, JoinLeads, RequestsLeaveEntries DEF Pcs
<1> QED
  BY <1>3, <1>4, <1>5, <1>6, <1>7, <1>8, <1>9, <1>10, <1>11 DEF RequestStep

(* What proxy found is the network of an entry that is up.                 *)
LEMMA ReusableUp ==
    ASSUME NEW n, NEW proxy, NEW k \in ReusableOnProxy(n, proxy)
    PROVE  k \in DOMAIN clients /\ k[1] = n /\ k[3].proxy = proxy /\ clients[k].net_id # 0
  BY DEF ReusableOnProxy, KeysOf, Established

(* A request writes entries with networks only, and by then its tasks have *)
(* ended.                                                                  *)
LEMMA RequestSlots ==
    ASSUME CtlInv, CalledOnce, NEW P, SlotsOf(P), NEW r \in Reqs, Start(r) \/ RequestStep(r)
    PROVE  SlotsOf(P)'
<1>1. OwnedIn(P) /\ Granted /\ AbortedWhenGone
  BY DEF SlotsOf
<1>2. \A j \in DOMAIN req[r].edges : req[r].edges[j].pc \notin Holding
  BY <1>1, NothingHeld
<1>3. CASE \E pc : pc # "gone" /\ Leads(r, pc) /\ UNCHANGED clients /\ (pc = "reuse" => req'[r].net # 0)
  <2>1. PICK pc : pc # "gone" /\ Leads(r, pc) /\ UNCHANGED clients
                  /\ (pc = "reuse" => req'[r].net # 0)
    BY <1>3
  <2>2. OwnedIn(P)'
    BY <1>1, <1>2, <2>1, KeepsSame, RequestOwned DEF Leads
  <2> QED
    BY <1>1, <2>1, <2>2, LeadGranted DEF SlotsOf
<1>4. CASE Spawns(r) /\ UNCHANGED clients
  <2>1. OwnedIn(P)'
    BY <1>1, <1>2, <1>4, KeepsSame, RequestOwned DEF Spawns
  <2> QED
    BY <1>1, <1>4, <2>1, SpawnGranted DEF SlotsOf
<1>5. CASE ProxyLookup(r) /\ LookupLeads(r) /\ UNCHANGED clients
  BY <1>3, <1>5, ReusableUp DEF LookupLeads
<1>6. CASE ProxyReuse(r) /\ ReuseLeads(r)
  <2>1. req[r].net # 0
    BY <1>1, <1>6 DEF ProxyReuse, Granted
  <2>2. PICK pc \in {"done", "stuck"} : Leads(r, pc)
    BY <1>6 DEF ReuseLeads
  <2>3. OwnedIn(P)'
    BY <1>1, <1>2, <1>6, <2>1, <2>2, RequestOwned DEF ReuseLeads, Leads
  <2> QED
    BY <1>1, <2>2, <2>3, LeadGranted DEF SlotsOf
<1> QED
  BY <1>3, <1>4, <1>5, <1>6, RequestLeads

(* A caller that gives up leaves the placeholders to the tasks that will   *)
(* be aborted.                                                             *)
LEMMA GoneSlots ==
    ASSUME CtlInv, NEW P, SlotsOf(P), NEW r \in Reqs, CallerGone(r)
    PROVE  SlotsOf(P)'
<1>1. OwnedIn(P) /\ Granted /\ AbortedWhenGone /\ Called
  BY DEF SlotsOf, CtlInv
<1>2. /\ r \in Impatient /\ \A s \in Reqs : s # r => req'[s] = req[s]
      /\ req'[r].pc \in {"done", "gone"} /\ req'[r].edges = req[r].edges
  BY <1>1, CallerGoneLeads
<1>3. Keeps(clients, clients')
  BY KeepsSame, RequestsLeaveEntries
<1>4. OwnedIn(P)'
  BY <1>1, <1>2, <1>3, RequestOwned
<1>5. \A t \in Task : t[1] \in Reqs
  BY DEF Task
<1>6. \A s \in Reqs : req'[s].edges = req[s].edges
  BY <1>2
<1>7. Granted'
  BY <1>1, <1>2, <1>5, <1>6 DEF Granted, Installing
<1>8. AbortedWhenGone'
  BY <1>1, <1>2 DEF AbortedWhenGone
<1> QED
  BY <1>4, <1>7, <1>8 DEF SlotsOf

(* Steps of the holder of the lock, and events, only take entries away.    *)
LEMMA OthersKeep ==
    ASSUME CtlInv, \/ LockHolderStep \/ Event \/ UNCHANGED vars
                   \/ \E host \in Flapping : NodeDisconnect(host)
    PROVE  UNCHANGED req /\ Keeps(clients, clients')
<1>1. CASE LockHolderStep
  BY <1>1, CallsKeep DEF LockHolderStep
<1>2. CASE Event \/ \E host \in Flapping : NodeDisconnect(host)
  BY <1>2, EventsLeave, KeepsSame
<1>3. CASE UNCHANGED vars
  BY <1>3, KeepsSame DEF vars
<1> QED
  BY <1>1, <1>2, <1>3

(* Placeholders have owners after any step.                                *)
LEMMA NextSlots ==
    ASSUME CtlInv, CalledOnce, NEW P, SlotsOf(P), OneIn(P), [Next]_vars
    PROVE  SlotsOf(P)'
<1>1. CASE \E r \in Reqs : Start(r) \/ RequestStep(r)
  BY <1>1, RequestSlots
<1>2. CASE \E r \in Reqs : CallerGone(r)
  BY <1>2, GoneSlots
<1>3. CASE \E r \in Reqs : \E i \in 1 .. MaxEdges : EdgeStep(r, i)
  BY <1>3, EdgeSlots
<1>4. CASE UNCHANGED req /\ Keeps(clients, clients')
  <2>1. OwnedIn(P)'
    BY <1>4 DEF SlotsOf, OwnedIn, Established, Keeps, Owns
  <2> QED
    BY <1>4, <2>1 DEF SlotsOf, Granted, AbortedWhenGone, Installing
<1> QED
  BY <1>1, <1>2, <1>3, <1>4, OthersKeep DEF Next

(* There are none at first.                                                *)
LEMMA InitSlots ==
    ASSUME Init, NEW P
    PROVE  SlotsOf(P)
<1>1. \A r \in Reqs : req[r] = Idle
  BY DEF Init
<1>2. \A r \in Reqs : req[r].pc = "idle" /\ DOMAIN req[r].edges = {}
  BY <1>1 DEF Idle
<1>3. DOMAIN clients = {}
  BY DEF Init
<1>4. \A t \in Task : t[1] \in Reqs
  BY DEF Task
<1> QED
  BY <1>2, <1>3, <1>4 DEF SlotsOf, OwnedIn, Granted, AbortedWhenGone, Installing

(* While every client is on one replica of a service, as the functions     *)
(* that search the replicas assume, and an aborted call is not made again, *)
(* a placeholder is the one of a task that will still replace or remove    *)
(* it, or that was aborted.                                                *)
THEOREM PlaceholdersOwned ==
    CalledOnce /\ Spec /\ []OneReplica => []PlaceholderOwned
<1> DEFINE Inv == CalledOnce /\ CtlInv /\ SlotsOf(AllClients)
<1>1. OneReplica => OneIn(AllClients)
  BY DEF OneReplica, OneIn
<1>2. CtlInv /\ SlotsOf(AllClients) => PlaceholderOwned
  BY DEF CtlInv, Placed, AllKeys, SlotsOf, OwnedIn, PlaceholderOwned
<1>3. CalledOnce /\ Init => Inv
  BY InitCtl, InitSlots
<1>4. Inv /\ OneReplica /\ [Next]_vars => Inv'
  BY <1>1, NextCtl, NextSlots DEF CalledOnce
<1>5. Inv => PlaceholderOwned
  BY <1>2
<1> HIDE DEF Inv
<1>6. Inv /\ []OneReplica /\ [][Next]_vars => []Inv
  BY <1>4, PTL
<1> QED
  BY <1>3, <1>5, <1>6, PTL DEF Spec
------------------------------------------------------------------------------
(* The clients of the proxies. *)

(* What Sticky says of a step.                                             *)
StickyStep ==
    \A j \in ProxyKeys, k \in ProxyKeys' :
        Established(j) /\ j[1] = k[1] /\ j[3] = k[3]
            => j = k /\ clients'[k].net_id = clients[j].net_id

(* The entries of the client a request is for are as before, or fewer.     *)
MyKey(r, k) == k[1] = ServiceOf(r) /\ k[3] = ClientOf(r)
Stays(k) == k \in DOMAIN clients /\ clients'[k].net_id = clients[k].net_id
MineKept(r) == \A k \in DOMAIN clients' : MyKey(r, k) => Stays(k)
ProxiesKept == \A k \in DOMAIN clients' : IsProxy(k[3]) => Stays(k)

(* One of them is written, where there was no other and none established.  *)
EntersMine(r, key, net) ==
    /\ MyKey(r, key) /\ Enters(clients, clients', key, net)
    /\ \A k \in DOMAIN clients : MyKey(r, k) => k = key /\ ~Established(k)

(* A step that drops entries, or writes that of a service, leaves the      *)
(* proxies' clients their networks.                                        *)
LEMMA KeptProxies ==
    ASSUME \/ Keeps(clients, clients')
           \/ \E key, x : Enters(clients, clients', key, x) /\ ~IsProxy(key[3])
    PROVE  ProxiesKept
  BY DEF Keeps, Enters, ProxiesKept, Stays

(* The client of a proxy request is a proxy's.                             *)
LEMMA ClientIsProxy ==
    ASSUME NEW r \in ProxyReqs
    PROVE  IsProxy(ClientOf(r))
  BY ControllerConstants DEF ProxyReqs, ClientOf, ProxyClient, IsProxy

(* Where the proxies' clients keep what they have, none gets a second      *)
(* entry ...                                                               *)
LEMMA KeptOnce ==
    ASSUME ProxyOnce, ProxiesKept
    PROVE  ProxyOnce' /\ StickyStep
<1>1. \A k \in DOMAIN clients' : IsProxy(k[3]) => k \in ProxyKeys /\ clients'[k].net_id = clients[k].net_id
  BY DEF ProxiesKept, Stays, ProxyKeys
<1> QED
  BY <1>1 DEF ProxyOnce, ProxyKeys, StickyStep

(* ... and neither does the client of a request that finds no established  *)
(* entry of it elsewhere.                                                  *)
LEMMA EnteredOnce ==
    ASSUME ProxyOnce, NEW r \in ProxyReqs, NEW key, NEW net, EntersMine(r, key, net)
    PROVE  ProxyOnce' /\ StickyStep
<1>1. IsProxy(key[3])
  BY ClientIsProxy DEF EntersMine, MyKey
<1>2. ASSUME NEW k \in DOMAIN clients', MyKey(r, k) PROVE k = key
  BY <1>2 DEF EntersMine, Enters
<1>3. ASSUME NEW k \in DOMAIN clients', ~MyKey(r, k)
      PROVE  k \in DOMAIN clients /\ clients'[k].net_id = clients[k].net_id
  BY <1>3 DEF EntersMine, Enters
<1>4. ASSUME NEW j \in DOMAIN clients', NEW k \in DOMAIN clients', IsProxy(j[3]), IsProxy(k[3]),
             j[1] = k[1], j[3] = k[3]
      PROVE  j = k
  <2>1. CASE MyKey(r, k)
    BY <1>2, <1>4, <2>1 DEF MyKey
  <2>2. CASE ~MyKey(r, k)
    BY <1>3, <1>4, <2>2 DEF MyKey, ProxyOnce, ProxyKeys
  <2> QED
    BY <2>1, <2>2
<1>5. ASSUME NEW j \in DOMAIN clients, NEW k \in DOMAIN clients', IsProxy(j[3]), IsProxy(k[3]),
             Established(j), j[1] = k[1], j[3] = k[3]
      PROVE  j = k /\ clients'[k].net_id = clients[j].net_id
  <2>1. ~MyKey(r, k)
    BY <1>5 DEF MyKey, EntersMine
  <2> QED
    BY <1>3, <1>5, <2>1 DEF ProxyOnce, ProxyKeys
<1> QED
  BY <1>4, <1>5 DEF ProxyOnce, ProxyKeys, StickyStep

(* Only the request itself writes an entry for its client.                 *)
LEMMA OthersMine ==
    ASSUME SoleCaller, NEW r \in ProxyReqs, ~Finished(r), NEW key, NEW net, EntersMine(r, key, net),
           NEW s \in ProxyReqs, ~Finished(s), s # r
    PROVE  MineKept(s)
<1>1. ~(ServiceOf(s) = ServiceOf(r) /\ ClientOf(s) = ClientOf(r))
  BY DEF SoleCaller
<1>2. ~MyKey(s, key)
  BY <1>1 DEF EntersMine, MyKey
<1> QED
  BY <1>2 DEF EntersMine, Enters, MineKept, Stays

(* What a request has read still holds when its client's entries stay.     *)
LEMMA FreshStays ==
    ASSUME Called, NEW s \in Reqs, Fresh(s), req'[s] = req[s],
           s \in ProxyReqs /\ ~Finished(s) => MineKept(s)
    PROVE  Fresh(s)'
<1>1. CASE req[s].pc \in {"reuse", "pick", "build"}
  <2>1. CallOf[s][1] = "proxy"
    BY <1>1 DEF Called, InOrder
  <2>2. s \in ProxyReqs /\ ~Finished(s)
    BY <1>1, <2>1 DEF ProxyReqs, Finished
  <2>3. \A k \in DOMAIN clients : ~MyKey(s, k)
    BY <1>1 DEF Fresh, Mine, MyKey
  <2>4. \A k \in DOMAIN clients' : ~MyKey(s, k)
    BY <2>2, <2>3 DEF MineKept, Stays
  <2> QED
    BY <1>1, <2>4 DEF Fresh, Mine, MyKey
<1>2. CASE req[s].pc = "join"
  <2>1. OneProxyEdge(s)'
    BY <1>2 DEF Fresh, OneProxyEdge
  <2>2. ASSUME NEW i \in DOMAIN req[s].edges, IsProxy(req[s].edges[i].client)
        PROVE  /\ req[s].edges[i].pc = "reserve" => \A k \in DOMAIN clients' : ~MyKey(s, k)
               /\ req[s].edges[i].pc \in {"allocate", "sending", "unsent", "commit"} =>
                     \A k \in DOMAIN clients' : MyKey(s, k) =>
                         k[2] = req[s].edges[i].rid /\ clients'[k].net_id = 0
    <3>1. s \in ProxyReqs /\ ~Finished(s)
      BY <1>2, <2>2 DEF Fresh, OneProxyEdge, ProxyReqs, Finished
    <3>2. \A k \in DOMAIN clients' : MyKey(s, k) =>
              k \in DOMAIN clients /\ clients'[k].net_id = clients[k].net_id
      BY <3>1 DEF MineKept, Stays
    <3>3. req[s].edges[i].pc = "reserve" => \A k \in DOMAIN clients : ~MyKey(s, k)
      BY <1>2, <2>2 DEF Fresh, Mine, MyKey
    <3>4. req[s].edges[i].pc \in {"allocate", "sending", "unsent", "commit"} =>
              \A k \in DOMAIN clients : MyKey(s, k) =>
                  k[2] = req[s].edges[i].rid /\ clients[k].net_id = 0
      BY <1>2, <2>2 DEF Fresh, Mine, MyKey, Established
    <3> QED
      BY <3>2, <3>3, <3>4
  <2> QED
    BY <1>2, <2>1, <2>2 DEF Fresh, Mine, MyKey, Established
<1>3. CASE req[s].pc \notin {"reuse", "pick", "build", "join"}
  BY <1>3 DEF Fresh
<1> QED
  BY <1>1, <1>2, <1>3

(* A task of a request moves.                                              *)
LEMMA FreshTask ==
    ASSUME Called, NEW r \in Reqs, Fresh(r), req[r].pc = "join",
           NEW i \in DOMAIN req[r].edges, NEW pc, NEW net, TaskBecomes(r, i, pc, net),
           pc # "reserve",
           \/ /\ MineKept(r)
              /\ pc \in {"allocate", "sending", "unsent", "commit"} =>
                     req[r].edges[i].pc \in {"allocate", "sending", "unsent", "commit"}
           \/ ~IsProxy(req[r].edges[i].client) /\ MineKept(r)
           \/ /\ IsProxy(req[r].edges[i].client)
              /\ pc \in {"allocate", "sending", "unsent", "commit"} =>
                    \A k \in DOMAIN clients' : MyKey(r, k) =>
                        k[2] = req[r].edges[i].rid /\ clients'[k].net_id = 0
    PROVE  Fresh(r)'
<1>1. /\ req'[r].pc = "join" /\ DOMAIN req'[r].edges = DOMAIN req[r].edges
      /\ req'[r].edges[i].pc = pc
      /\ \A j \in DOMAIN req[r].edges :
            /\ req'[r].edges[j].client = req[r].edges[j].client
            /\ req'[r].edges[j].server = req[r].edges[j].server
            /\ req'[r].edges[j].rid = req[r].edges[j].rid
            /\ j # i => req'[r].edges[j].pc = req[r].edges[j].pc
  BY DEF TaskBecomes, TaskMoves
<1>2. OneProxyEdge(r) /\ OneProxyEdge(r)'
  BY <1>1 DEF Fresh, OneProxyEdge
<1>3. ASSUME NEW j \in DOMAIN req[r].edges, IsProxy(req[r].edges[j].client)
      PROVE  /\ req'[r].edges[j].pc = "reserve" => \A k \in DOMAIN clients' : ~MyKey(r, k)
             /\ req'[r].edges[j].pc \in {"allocate", "sending", "unsent", "commit"} =>
                   \A k \in DOMAIN clients' : MyKey(r, k) =>
                       k[2] = req[r].edges[j].rid /\ clients'[k].net_id = 0
  <2>1. req[r].edges[j].pc = "reserve" => \A k \in DOMAIN clients : ~MyKey(r, k)
    BY <1>3 DEF Fresh, Mine, MyKey
  <2>2. req[r].edges[j].pc \in {"allocate", "sending", "unsent", "commit"} =>
            \A k \in DOMAIN clients : MyKey(r, k) =>
                k[2] = req[r].edges[j].rid /\ clients[k].net_id = 0
    BY <1>3 DEF Fresh, Mine, MyKey, Established
  <2>3. MineKept(r) => \A k \in DOMAIN clients' : MyKey(r, k) =>
            k \in DOMAIN clients /\ clients'[k].net_id = clients[k].net_id
    BY DEF MineKept, Stays
  <2>4. CASE j # i
    <3>1. ~IsProxy(req[r].edges[i].client)
      BY <1>2, <1>3, <2>4 DEF OneProxyEdge
    <3> QED
      BY <1>1, <2>1, <2>2, <2>3, <2>4, <3>1
  <2>5. CASE j = i
    BY <1>1, <1>3, <2>1, <2>2, <2>3, <2>5
  <2> QED
    BY <2>4, <2>5
<1> QED
  BY <1>1, <1>2, <1>3 DEF Fresh, Mine, MyKey, Established

(* The proxies' clients are those of the requests.                         *)
LEMMA KeptMine ==
    ASSUME ProxiesKept, NEW r \in ProxyReqs
    PROVE  MineKept(r)
  BY ClientIsProxy DEF ProxiesKept, MineKept, MyKey

(* The request r, or one of its tasks, moves.                              *)
LEMMA OneProxies ==
    ASSUME CtlInv, ProxyInv, SoleCaller, NEW r \in Reqs, \A s \in Reqs : s # r => req'[s] = req[s],
           \/ ProxiesKept
           \/ r \in ProxyReqs /\ ~Finished(r) /\ \E key, net : EntersMine(r, key, net),
           Fresh(r)'
    PROVE  ProxyInv' /\ StickyStep
<1>1. Called /\ ProxyOnce
  BY DEF CtlInv, ProxyInv
<1>2. ProxyOnce' /\ StickyStep
  BY <1>1, KeptOnce, EnteredOnce
<1>3. ASSUME NEW s \in Reqs, s # r PROVE Fresh(s)'
  <2>1. s \in ProxyReqs /\ ~Finished(s) => MineKept(s)
    BY <1>3, KeptMine, OthersMine
  <2> QED
    BY <1>1, <1>3, <2>1, FreshStays DEF ProxyInv
<1> QED
  BY <1>2, <1>3 DEF ProxyInv

(* A request goes on to write once its client has no entry ...             *)
LEMMA LeadFresh ==
    ASSUME NEW r \in Reqs, NEW pc, Leads(r, pc), pc # "join",
           pc \in {"reuse", "pick", "build"} => \A k \in DOMAIN clients' : ~MyKey(r, k)
    PROVE  Fresh(r)'
  BY DEF Leads, Fresh, Mine, MyKey

(* Of the tasks it spawns one at most is the proxy's.                      *)
LEMMA SpawnOne ==
    ASSUME NEW r \in Reqs, Spawns(r)
    PROVE  OneProxyEdge(r)'
<1>1. \A i \in DOMAIN req'[r].edges : IsProxy(req'[r].edges[i].client) =>
          /\ CallOf[r][1] = "proxy"
          /\ req'[r].edges[i].client = ClientOf(r) /\ req'[r].edges[i].server = ServiceOf(r)
  BY DEF Spawns, NewTask
<1> QED
  BY <1>1 DEF Spawns, OneProxyEdge

(* They find what their request found.                                     *)
LEMMA SpawnFresh ==
    ASSUME NEW r \in Reqs, Spawns(r),
           CallOf[r][1] = "proxy" => \A k \in DOMAIN clients' : ~MyKey(r, k)
    PROVE  Fresh(r)'
<1>1. req'[r].pc = "join"
  BY DEF Spawns
<1>2. \A i \in DOMAIN req'[r].edges : req'[r].edges[i].pc = "reserve"
  BY DEF Spawns, NewTask
<1>3. OneProxyEdge(r)'
  BY SpawnOne
<1>4. \A i \in DOMAIN req'[r].edges : IsProxy(req'[r].edges[i].client) => CallOf[r][1] = "proxy"
  BY DEF Spawns, NewTask
<1> QED
  BY <1>1, <1>2, <1>3, <1>4 DEF Fresh, Mine, MyKey

(* A request writes its client's only entry.                               *)
LEMMA RequestProxies ==
    ASSUME CtlInv, ProxyInv, SoleCaller, NEW r \in Reqs, Start(r) \/ RequestStep(r)
    PROVE  ProxyInv' /\ StickyStep
<1>1. Called /\ Fresh(r)
  BY DEF CtlInv, ProxyInv
<1>2. UNCHANGED clients => ProxiesKept
  BY KeepsSame, KeptProxies
<1>3. ~ProxyReuse(r) => UNCHANGED clients
  BY RequestsLeaveEntries DEF RequestStep
<1>4. CASE \E pc : /\ Leads(r, pc) /\ UNCHANGED clients /\ pc # "join"
                   /\ pc \in {"reuse", "pick", "build"} => \A k \in DOMAIN clients : ~MyKey(r, k)
  <2>1. Fresh(r)'
    BY <1>4, LeadFresh
  <2> QED
    BY <1>2, <1>4, <2>1, OneProxies DEF Leads
<1>5. CASE /\ Spawns(r) /\ UNCHANGED clients
           /\ CallOf[r][1] = "proxy" => \A k \in DOMAIN clients : ~MyKey(r, k)
  <2>1. Fresh(r)'
    BY <1>5, SpawnFresh
  <2> QED
    BY <1>2, <1>5, <2>1, OneProxies DEF Spawns
<1>6. CASE Start(r)
  <2>1. PICK pc \in {"lookup", "trigger"} : Leads(r, pc)
    BY <1>1, <1>6, StartLeads
  <2>2. UNCHANGED clients
    BY <1>6, RequestsLeaveEntries
  <2> QED
    BY <1>4, <2>1, <2>2
<1>7. CASE ProxyLookup(r)
  <2>1. LookupLeads(r) /\ UNCHANGED clients
    BY <1>1, <1>3, <1>7, ProxyLookupLeads DEF ProxyLookup, ProxyReuse
  <2>2. PICK pc : /\ Leads(r, pc) /\ pc \in {"done", "sticky", "reuse", "pick"}
                  /\ pc \in {"reuse", "pick"} => ~Holds(ServiceOf(r), ClientOf(r), clients)
    BY <2>1 DEF LookupLeads
  <2>3. ASSUME pc \in {"reuse", "pick"}, NEW k \in DOMAIN clients PROVE ~MyKey(r, k)
    <3>1. PICK n, c : n = ServiceOf(r) /\ c = ClientOf(r)
      OBVIOUS
    <3> QED
      BY <2>2, <2>3, <3>1, NotHeld DEF MyKey
  <2> QED
    BY <1>4, <2>1, <2>2, <2>3
<1>8. CASE ProxySticky(r)
  <2>1. PICK resp : Answer(r, resp)
    BY <1>8 DEF ProxySticky
  <2>2. Leads(r, "done") /\ UNCHANGED clients
    BY <1>1, <1>8, <2>1, AnswerLeads, RequestsLeaveEntries
  <2> QED
    BY <1>4, <2>2
<1>9. CASE ProxyReuse(r)
  <2>1. ReuseLeads(r) /\ CallOf[r][1] = "proxy" /\ req[r].pc = "reuse"
    BY <1>1, <1>9, ProxyReuseLeads DEF ProxyReuse, Called, InOrder
  <2>2. r \in ProxyReqs /\ ~Finished(r)
    BY <2>1 DEF ProxyReqs, Finished
  <2>3. \A k \in DOMAIN clients : ~MyKey(r, k)
    BY <1>1, <2>1 DEF Fresh, Mine, MyKey
  <2>4. PICK pc \in {"done", "stuck"} : Leads(r, pc)
    BY <2>1 DEF ReuseLeads
  <2>5. Fresh(r)'
    BY <2>4, LeadFresh
  <2>6. CASE Keeps(clients, clients')
    BY <2>2, <2>4, <2>5, <2>6, KeptProxies, OneProxies DEF Leads
  <2>7. PICK key, net : key = <<ServiceOf(r), req[r].rid, ClientOf(r)>> /\ net = req[r].net
    OBVIOUS
  <2>8. CASE Enters(clients, clients', key, net)
    <3>1. EntersMine(r, key, net)
      BY <2>3, <2>7, <2>8 DEF EntersMine, MyKey
    <3> QED
      BY <2>2, <2>4, <2>5, <3>1, OneProxies DEF Leads
  <2> QED
    BY <2>1, <2>6, <2>7, <2>8 DEF ReuseLeads
<1>10. CASE NewProxyChain(r)
  <2>1. \A k \in DOMAIN clients : ~MyKey(r, k)
    BY <1>1, <1>10 DEF NewProxyChain, Fresh, Mine, MyKey
  <2> QED
    BY <1>3, <1>4, <1>10, <2>1, NewProxyChainLeads DEF NewProxyChain, ProxyReuse
<1>11. CASE SetupProxyChain(r)
  <2>1. \A k \in DOMAIN clients : ~MyKey(r, k)
    BY <1>1, <1>11 DEF SetupProxyChain, Fresh, Mine, MyKey
  <2>2. Spawns(r) \/ Leads(r, "done")
    BY <1>11, SetupProxyChainSpawns
  <2>3. UNCHANGED clients
    BY <1>11, RequestsLeaveEntries
  <2> QED
    BY <1>4, <1>5, <2>1, <2>2, <2>3
<1>12. CASE BackendTrigger(r)
  <2>1. PICK pc \in {"done", "build_backend"} : Leads(r, pc)
    BY <1>1, <1>12, BackendTriggerLeads
  <2>2. UNCHANGED clients
    BY <1>12, RequestsLeaveEntries
  <2> QED
    BY <1>4, <2>1, <2>2
<1>13. CASE SetupBackendChain(r)
  <2>1. CallOf[r][1] # "proxy" /\ (Leads(r, "done") \/ Spawns(r))
    BY <1>1, <1>13, SetupBackendChainSpawns
  <2>2. UNCHANGED clients
    BY <1>13, RequestsLeaveEntries
  <2> QED
    BY <1>4, <1>5, <2>1, <2>2
<1>14. CASE Join(r)
  <2>1. Leads(r, "done") /\ UNCHANGED clients
    BY <1>1, <1>14, JoinLeads, RequestsLeaveEntries
  <2> QED
    BY <1>4, <2>1
<1> QED
  BY <1>6, <1>7, <1>8, <1>9, <1>10, <1>11, <1>12, <1>13, <1>14 DEF RequestStep

(* The proxy's own edge is written on the replica that was picked, where   *)
(* at most its placeholder is.                                             *)
LEMMA EdgeProxies ==
    ASSUME CtlInv, ProxyInv, SoleCaller, NEW r \in Reqs, NEW i \in 1 .. MaxEdges, EdgeStep(r, i)
    PROVE  ProxyInv' /\ StickyStep
<1>1. Called /\ Fresh(r)
  BY DEF CtlInv, ProxyInv
<1>2. i \in DOMAIN req[r].edges
  BY DEF EdgeStep, EdgeReserve, EdgeAllocate, EdgeAcked, EdgeRollback, EdgeDrop, EdgeCommit,
         EdgeAbort, EdgeAborted, EdgeAt
<1>3. PICK e : e = req[r].edges[i]
  OBVIOUS
<1>4. PICK key : key = Slot(r, i)
  OBVIOUS
<1>5. key[1] = e.server /\ key[2] = e.rid /\ key[3] = e.client
  BY <1>1, <1>2, <1>3, <1>4, SlotIn
<1>6. ASSUME req[r].pc = "join", IsProxy(e.client)
      PROVE  r \in ProxyReqs /\ ~Finished(r) /\ MyKey(r, key)
  BY <1>1, <1>2, <1>3, <1>5, <1>6 DEF Fresh, OneProxyEdge, ProxyReqs, Finished, MyKey
<1>7. ASSUME NEW pc, NEW x, TaskBecomes(r, i, pc, x), req[r].pc = "join", pc # "reserve", ProxiesKept,
             pc \in {"allocate", "sending", "unsent", "commit"} =>
                 e.pc \in {"allocate", "sending", "unsent", "commit"}
      PROVE  ProxyInv' /\ StickyStep
  <2>1. Fresh(r)'
    <3>1. CASE r \in ProxyReqs
      BY <1>1, <1>2, <1>3, <1>7, <3>1, KeptMine, FreshTask
    <3>2. CASE r \notin ProxyReqs
      <4>1. \A j \in DOMAIN req[r].edges : ~IsProxy(req[r].edges[j].client)
        BY <1>1, <1>7, <3>2 DEF Fresh, OneProxyEdge, ProxyReqs
      <4> QED
        BY <1>7, <4>1 DEF TaskBecomes, TaskMoves, Fresh, OneProxyEdge
    <3> QED
      BY <3>1, <3>2
  <2> QED
    BY <1>7, <2>1, OneProxies DEF TaskBecomes, TaskMoves
<1>8. ASSUME NEW pc, NEW x, TaskBecomes(r, i, pc, x), req[r].pc = "join", pc # "reserve",
             NEW net, Enters(clients, clients', key, net), IsProxy(e.client),
             \A k \in DOMAIN clients : MyKey(r, k) => k = key /\ ~Established(k),
             pc \in {"allocate", "sending", "unsent", "commit"} => net = 0
      PROVE  ProxyInv' /\ StickyStep
  <2>1. r \in ProxyReqs /\ ~Finished(r) /\ MyKey(r, key)
    BY <1>6, <1>8
  <2>2. EntersMine(r, key, net)
    BY <1>8, <2>1 DEF EntersMine
  <2>3. \A k \in DOMAIN clients' : MyKey(r, k) => k[2] = e.rid /\ clients'[k].net_id = net
    BY <1>5, <2>2 DEF EntersMine, Enters
  <2>4. Fresh(r)'
    BY <1>1, <1>2, <1>3, <1>8, <2>3, FreshTask
  <2> QED
    BY <1>8, <2>1, <2>2, <2>4, OneProxies DEF TaskBecomes, TaskMoves
<1>9. CASE EdgeReserve(r, i)
  <2>1. req[r].pc = "join" /\ e.pc = "reserve" /\ ReserveLeads(r, i)
    BY <1>3, <1>9, ReserveEnters DEF EdgeReserve, EdgeAt
  <2>2. CASE \E pc \in {"ok", "failed"} : Keeps(clients, clients') /\ TaskBecomes(r, i, pc, e.net)
    BY <1>7, <2>1, <2>2, KeptProxies
  <2>3. CASE /\ Enters(clients, clients', key, 0) /\ TaskBecomes(r, i, "allocate", e.net)
             /\ IsProxy(e.client) => \A k \in DOMAIN clients : ~(k[1] = e.server /\ k[3] = e.client)
    <3>1. PICK pc, x, net : pc = "allocate" /\ x = e.net /\ net = 0
      OBVIOUS
    <3>2. CASE IsProxy(e.client)
      <4>1. \A k \in DOMAIN clients : ~MyKey(r, k)
        BY <1>5, <1>6, <2>1, <2>3, <3>2 DEF MyKey
      <4> QED
        BY <1>8, <2>1, <2>3, <3>1, <3>2, <4>1
    <3>3. CASE ~IsProxy(e.client)
      <4>1. ProxiesKept
        BY <1>5, <2>3, <3>3, KeptProxies
      <4>2. Fresh(r)'
        <5>1. CASE r \in ProxyReqs
          BY <1>1, <1>2, <1>3, <2>1, <2>3, <3>1, <3>3, <4>1, <5>1, KeptMine, FreshTask
        <5>2. CASE r \notin ProxyReqs
          <6>1. \A j \in DOMAIN req[r].edges : ~IsProxy(req[r].edges[j].client)
            BY <1>1, <2>1, <5>2 DEF Fresh, OneProxyEdge, ProxyReqs
          <6> QED
            BY <2>3, <6>1 DEF TaskBecomes, TaskMoves, Fresh, OneProxyEdge
        <5> QED
          BY <5>1, <5>2
      <4> QED
        BY <2>3, <4>1, <4>2, OneProxies DEF TaskBecomes, TaskMoves
    <3> QED
      BY <3>2, <3>3
  <2> QED
    BY <1>3, <1>4, <2>1, <2>2, <2>3 DEF ReserveLeads
<1>10. CASE EdgeAllocate(r, i)
  <2>1. PICK pc, x : TaskBecomes(r, i, pc, x) /\ pc \in {"drop", "sending", "unsent"}
    BY <1>1, <1>10, AllocateBecomes
  <2>2. req[r].pc = "join" /\ e.pc = "allocate"
    BY <1>3, <1>10 DEF EdgeAllocate, EdgeAt
  <2>3. ProxiesKept
    BY <1>10, KeepsSame, KeptProxies, RequestsLeaveEntries
  <2> QED
    BY <1>7, <2>1, <2>2, <2>3
<1>11. CASE EdgeAcked(r, i) \/ EdgeRollback(r, i) \/ EdgeAbort(r, i)
  <2>1. PICK pc, x : /\ TaskBecomes(r, i, pc, x) /\ pc \in {"commit", "drop", "failed"}
                     /\ pc = "commit" => e.pc = "sending"
    BY <1>1, <1>3, <1>11, AckedBecomes, RollbackBecomes, AbortBecomes
  <2>2. req[r].pc = "join"
    BY <1>11 DEF EdgeAcked, EdgeRollback, EdgeAbort, EdgeAt
  <2>3. ProxiesKept
    BY <1>11, KeepsSame, KeptProxies, RequestsLeaveEntries
  <2> QED
    BY <1>7, <2>1, <2>2, <2>3
<1>12. CASE EdgeDrop(r, i)
  <2>1. PICK pc, x : pc = "failed" /\ x = e.net
    OBVIOUS
  <2>2. TaskBecomes(r, i, pc, x) /\ req[r].pc = "join" /\ Keeps(clients, clients')
    BY <1>3, <1>12, <2>1, DropRemoves DEF EdgeDrop, EdgeAt
  <2> QED
    BY <1>7, <2>1, <2>2, KeptProxies
<1>13. CASE EdgeCommit(r, i)
  <2>1. req[r].pc = "join" /\ e.pc = "commit" /\ CommitLeads(r, i)
    BY <1>3, <1>13, CommitEnters DEF EdgeCommit, EdgeAt
  <2>2. CASE UNCHANGED clients /\ TaskBecomes(r, i, "abort", e.net)
    <3>1. PICK pc : pc = "abort"
      OBVIOUS
    <3> QED
      BY <1>7, <2>1, <2>2, <3>1, KeepsSame, KeptProxies
  <2>3. CASE \E x : Enters(clients, clients', key, e.net) /\ TaskBecomes(r, i, "ok", x)
    <3>1. PICK pc, x, net : /\ pc = "ok" /\ net = e.net /\ Enters(clients, clients', key, net)
                            /\ TaskBecomes(r, i, pc, x)
      BY <2>3
    <3>2. CASE IsProxy(e.client)
      <4>1. MyKey(r, key)
        BY <1>6, <2>1, <3>2
      <4>2. \A k \in DOMAIN clients : MyKey(r, k) => k[2] = e.rid /\ ~Established(k)
        BY <1>1, <1>2, <1>3, <2>1, <3>2 DEF Fresh, Mine, MyKey
      <4>3. ASSUME NEW k \in DOMAIN clients, MyKey(r, k) PROVE k = key
        <5>1. k \in AllKeys /\ key \in AllKeys
          BY <1>1, <1>2, <1>4, SlotIn DEF CtlInv, Placed
        <5>2. k = <<k[1], k[2], k[3]>> /\ key = <<key[1], key[2], key[3]>>
          BY <5>1 DEF AllKeys
        <5> QED
          BY <1>5, <4>1, <4>2, <4>3, <5>2 DEF MyKey
      <4> QED
        BY <1>8, <2>1, <3>1, <3>2, <4>2, <4>3
    <3>3. CASE ~IsProxy(e.client)
      <4>1. ProxiesKept
        BY <1>5, <3>1, <3>3, KeptProxies
      <4> QED
        BY <1>7, <2>1, <3>1, <4>1
    <3> QED
      BY <3>2, <3>3
  <2> QED
    BY <1>3, <1>4, <2>1, <2>2, <2>3 DEF CommitLeads
<1>14. CASE EdgeAborted(r, i)
  <2>1. Aborts(r, i)
    BY <1>1, <1>14, TaskAborted
  <2>2. Fresh(r)'
    BY <2>1 DEF Aborts, Fresh
  <2>3. ProxiesKept
    BY <1>14, KeepsSame, KeptProxies, RequestsLeaveEntries
  <2> QED
    BY <2>1, <2>2, <2>3, OneProxies DEF Aborts, TaskMoves
<1> QED
  BY <1>9, <1>10, <1>11, <1>12, <1>13, <1>14 DEF EdgeStep

(* No step gives a client a second replica, or a new network.              *)
LEMMA NextProxies ==
    ASSUME CtlInv, ProxyInv, SoleCaller, [Next]_vars
    PROVE  ProxyInv' /\ StickyStep
<1>1. CASE \E r \in Reqs : Start(r) \/ RequestStep(r)
  BY <1>1, RequestProxies
<1>2. CASE \E r \in Reqs : CallerGone(r)
  <2>1. PICK r \in Reqs : CallerGone(r)
    BY <1>2
  <2>2. /\ \A s \in Reqs : s # r => req'[s] = req[s]
        /\ req'[r].pc \in {"done", "gone"}
    BY <2>1, CallerGoneLeads DEF CtlInv
  <2>3. Fresh(r)'
    BY <2>2 DEF Fresh
  <2>4. ProxiesKept
    BY <2>1, KeepsSame, KeptProxies, RequestsLeaveEntries
  <2> QED
    BY <2>2, <2>3, <2>4, OneProxies
<1>3. CASE \E r \in Reqs : \E i \in 1 .. MaxEdges : EdgeStep(r, i)
  BY <1>3, EdgeProxies
<1>4. CASE UNCHANGED req /\ Keeps(clients, clients')
  <2>1. ProxiesKept
    BY <1>4, KeptProxies
  <2>2. ASSUME NEW s \in Reqs PROVE Fresh(s)'
    <3>1. s \in ProxyReqs /\ ~Finished(s) => MineKept(s)
      BY <2>1, KeptMine
    <3> QED
      BY <1>4, <3>1, FreshStays DEF ProxyInv, CtlInv
  <2>3. ProxyOnce' /\ StickyStep
    BY <2>1, KeptOnce DEF ProxyInv
  <2> QED
    BY <2>2, <2>3 DEF ProxyInv
<1> QED
  BY <1>1, <1>2, <1>3, <1>4, OthersKeep DEF Next

(* There are no clients at first.                                          *)
LEMMA InitProxies ==
    ASSUME Init
    PROVE  ProxyInv
<1>1. \A r \in Reqs : req[r].pc = "idle"
  BY DEF Init, Idle
<1>2. DOMAIN clients = {}
  BY DEF Init
<1> QED
  BY <1>1, <1>2 DEF ProxyInv, ProxyOnce, ProxyKeys, Fresh

(* While no client has two requests for one service in progress, whatever  *)
(* is torn down meanwhile, no client of a proxy ever gets two replicas,    *)
(* although handle_proxy_request looks the client up, picks the replica    *)
(* and writes the entry in separate critical sections.                     *)
THEOREM ProxyClientOnce == Spec /\ []SoleCaller => []ProxyOnce
<1> DEFINE Inv == CtlInv /\ ProxyInv
<1>1. Init => Inv
  BY InitCtl, InitProxies
<1>2. Inv /\ SoleCaller /\ [Next]_vars => Inv'
  BY NextCtl, NextProxies
<1>3. Inv => ProxyOnce
  BY DEF ProxyInv
<1> HIDE DEF Inv
<1>4. Inv /\ []SoleCaller /\ [][Next]_vars => []Inv
  BY <1>2, PTL
<1> QED
  BY <1>1, <1>3, <1>4, PTL DEF Spec

(* ... and once it has a network, the client keeps its replica and its     *)
(* network until its entry is removed (Controller!Sticky).                 *)
THEOREM SessionsSticky == Spec /\ []SoleCaller => Sticky
<1> DEFINE Inv == CtlInv /\ ProxyInv
<1>1. Init => Inv
  BY InitCtl, InitProxies
<1>2. Inv /\ SoleCaller /\ [Next]_vars => Inv' /\ StickyStep
  BY NextCtl, NextProxies
<1>3. StickyStep => [StickyStep]_vars
  OBVIOUS
<1>4. Sticky <=> [][StickyStep]_vars
  BY DEF Sticky, StickyStep
<1> HIDE DEF Inv, StickyStep
<1>5. Inv /\ []SoleCaller /\ [][Next]_vars => []Inv /\ [][StickyStep]_vars
  BY <1>2, <1>3, PTL
<1> QED
  BY <1>1, <1>4, <1>5, PTL DEF Spec
------------------------------------------------------------------------------
(* Where a dependency edge may lead. *)

(* A step of an edge task moves that task, and its request only when the   *)
(* caller has gone.                                                        *)
LEMMA EdgeStepMoves ==
    ASSUME CtlInv, NEW r \in Reqs, NEW i \in 1 .. MaxEdges, EdgeStep(r, i)
    PROVE  /\ i \in DOMAIN req[r].edges
           /\ \E pc, net : TaskMoves(r, i, pc, net)
           /\ \/ req[r].pc = "join" /\ req'[r].pc = "join"
              \/ req[r].pc = "gone" /\ req'[r].pc \in {"gone", "done"}
<1>1. Called
  BY DEF CtlInv
<1>2. req[r].pc = "join" \/ EdgeAborted(r, i)
  BY DEF EdgeStep, EdgeReserve, EdgeAllocate, EdgeAcked, EdgeRollback, EdgeDrop, EdgeCommit,
         EdgeAbort, EdgeAt
<1>3. CASE EdgeReserve(r, i)
  BY <1>2, <1>3, ReserveEnters DEF ReserveLeads, TaskBecomes, EdgeReserve, EdgeAt
<1>4. CASE EdgeAllocate(r, i)
  BY <1>1, <1>4, AllocateBecomes DEF TaskBecomes
<1>5. CASE EdgeAcked(r, i) \/ EdgeRollback(r, i) \/ EdgeAbort(r, i)
  <2>1. req[r].pc = "join"
    BY <1>5 DEF EdgeAcked, EdgeRollback, EdgeAbort, EdgeAt
  <2> QED
    BY <1>1, <1>5, <2>1, AckedBecomes, RollbackBecomes, AbortBecomes DEF TaskBecomes
<1>6. CASE EdgeDrop(r, i)
  <2>1. req[r].pc = "join"
    BY <1>6 DEF EdgeDrop, EdgeAt
  <2> QED
    BY <1>6, <2>1, DropRemoves DEF TaskBecomes
<1>7. CASE EdgeCommit(r, i)
  <2>1. req[r].pc = "join"
    BY <1>7 DEF EdgeCommit, EdgeAt
  <2> QED
    BY <1>7, <2>1, CommitEnters DEF CommitLeads, TaskBecomes
<1>8. CASE EdgeAborted(r, i)
  BY <1>1, <1>8, TaskAborted DEF Aborts
<1> QED
  BY <1>3, <1>4, <1>5, <1>6, <1>7, <1>8 DEF EdgeStep

(* A task is one that there was, or one that its request spawns.           *)
LEMMA TasksSpawned ==
    ASSUME CtlInv, [Next]_vars, NEW s \in Reqs, NEW j \in DOMAIN req'[s].edges
    PROVE  \/ /\ j \in DOMAIN req[s].edges
              /\ req'[s].edges[j].client = req[s].edges[j].client
              /\ req'[s].edges[j].server = req[s].edges[j].server
           \/ NewTask(s, req'[s].edges[j])
<1>0. Called
  BY DEF CtlInv
<1>1. CASE \E r \in Reqs : Start(r) \/ RequestStep(r)
  <2>1. PICK r \in Reqs : Start(r) \/ RequestStep(r)
    BY <1>1
  <2>2. \/ \E pc : Leads(r, pc)
        \/ Spawns(r)
        \/ UNCHANGED req
    BY <2>1, RequestLeads DEF LookupLeads, ReuseLeads
  <2> QED
    BY <2>2 DEF Leads, Spawns
<1>2. CASE \E r \in Reqs : CallerGone(r)
  BY <1>0, <1>2, CallerGoneLeads
<1>3. CASE \E r \in Reqs : \E i \in 1 .. MaxEdges : EdgeStep(r, i)
  BY <1>3, EdgeStepMoves DEF TaskMoves
<1>4. CASE UNCHANGED req
  BY <1>4
<1> QED
  BY <1>1, <1>2, <1>3, <1>4, OthersKeep DEF Next

(* An entry is one that there was, a proxy client's, or in a task's slot.  *)
LEMMA EntriesReserved ==
    ASSUME CtlInv, [Next]_vars, NEW k \in DOMAIN clients'
    PROVE  \/ k \in DOMAIN clients
           \/ IsProxy(k[3])
           \/ \E r \in Reqs : \E i \in DOMAIN req[r].edges : k = Slot(r, i)
<1>0. Called
  BY DEF CtlInv
<1>1. CASE \E r \in Reqs : Start(r) \/ RequestStep(r)
  <2>1. PICK r \in Reqs : Start(r) \/ RequestStep(r)
    BY <1>1
  <2>2. UNCHANGED clients \/ (ProxyReuse(r) /\ ReuseLeads(r))
    BY <2>1, RequestLeads
  <2>3. CASE ProxyReuse(r) /\ ReuseLeads(r)
    <3>1. r \in ProxyReqs
      BY <1>0, <2>3 DEF ProxyReuse, Called, InOrder, ProxyReqs
    <3>2. IsProxy(ClientOf(r))
      BY <3>1, ClientIsProxy
    <3> QED
      BY <2>3, <3>2 DEF ReuseLeads, Keeps, Enters
  <2> QED
    BY <2>2, <2>3
<1>2. CASE \E r \in Reqs : CallerGone(r)
  BY <1>2, RequestsLeaveEntries
<1>3. CASE \E r \in Reqs : \E i \in 1 .. MaxEdges : EdgeStep(r, i)
  <2>1. PICK r \in Reqs, i \in 1 .. MaxEdges : EdgeStep(r, i)
    BY <1>3
  <2>2. CASE EdgeReserve(r, i)
    BY <2>2, ReserveEnters DEF ReserveLeads, Keeps, Enters
  <2>3. CASE EdgeCommit(r, i)
    BY <2>3, CommitEnters DEF CommitLeads, Enters
  <2>4. CASE EdgeDrop(r, i)
    BY <2>4, DropRemoves DEF Keeps
  <2>5. CASE \/ EdgeAllocate(r, i) \/ EdgeAcked(r, i) \/ EdgeRollback(r, i)
             \/ EdgeAbort(r, i) \/ EdgeAborted(r, i)
    BY <2>5, RequestsLeaveEntries
  <2> QED
    BY <2>1, <2>2, <2>3, <2>4, <2>5 DEF EdgeStep
<1>4. CASE Keeps(clients, clients')
  BY <1>4 DEF Keeps
<1> QED
  BY <1>1, <1>2, <1>3, <1>4, OthersKeep DEF Next

(* What a file makes a dependency is one.                                  *)
LEMMA FilesByDeps ==
    ASSUME NEW cfg \in Configs \cup {BootConfig}
    PROVE  ByDeps(cfg)
<1>1. IsConfig(cfg)
  BY ControllerConstants
<1>2. ASSUME NEW n \in DOMAIN cfg PROVE ToSet(cfg[n].proxy_deps) \subseteq Dependencies
  <2>1. ToSet(cfg[n].proxy_deps) \subseteq Names
    BY <1>1, TypedIsSequence DEF IsConfig
  <2> QED
    BY <2>1 DEF Dependencies
<1>3. ASSUME NEW n \in DOMAIN cfg, NEW port \in DOMAIN cfg[n].triggers
      PROVE  ToSet(cfg[n].triggers[port]) \subseteq Dependencies
  <2>1. ToSet(cfg[n].triggers[port]) \subseteq Names
    BY <1>1, TypedIsSequence DEF IsConfig
  <2> QED
    BY <2>1 DEF Dependencies
<1> QED
  BY <1>2, <1>3 DEF ByDeps

(* The configuration in force is the one of a file, but for services that  *)
(* were removed.                                                           *)
LEMMA NextByDeps ==
    ASSUME CtlInv, ByDeps(config), [Next]_vars
    PROVE  ByDeps(config)'
<1>1. CASE UpdateFromFile
  <2>1. work[1][2] \in Configs
    BY <1>1, HeadCalled DEF CtlInv, UpdateFromFile, Due, WellCalled
  <2>2. PICK loaded \in Configs : loaded = work[1][2]
    BY <2>1
  <2>3. ByDeps(loaded)
    BY FilesByDeps
  <2>4. \A n \in DOMAIN config' :
           \/ n \in DOMAIN loaded /\ config'[n] = loaded[n]
           \/ n \in DOMAIN config /\ config'[n] = config[n]
    BY <1>1, <2>2 DEF UpdateFromFile
  <2> QED
    BY <2>3, <2>4 DEF ByDeps
<1>2. CASE RemoveService
  <2>1. \A n \in DOMAIN config' : n \in DOMAIN config /\ config'[n] = config[n]
    BY <1>2 DEF RemoveService, Without, Restrict
  <2> QED
    BY <2>1 DEF ByDeps
<1>3. CASE UNCHANGED config
  BY <1>3 DEF ByDeps
<1> QED
  BY <1>1, <1>2, <1>3, LeavesConfig

(* No step writes an edge to a service that is not a dependency.           *)
LEMMA NextOnDependencies ==
    ASSUME CtlInv, OnDependencies, [Next]_vars
    PROVE  OnDependencies'
<1>1. ByDeps(config) /\ ByDeps(config)'
  BY NextByDeps DEF OnDependencies
<1>2. ASSUME NEW s \in Reqs, NEW j \in DOMAIN req'[s].edges, NewTask(s, req'[s].edges[j])
      PROVE  IsProxy(req'[s].edges[j].client) \/ req'[s].edges[j].server \in Dependencies
  <2>1. PICK n, e : n = ServiceOf(s) /\ e = req'[s].edges[j]
    OBVIOUS
  <2>2. CASE n \in DOMAIN config
    BY <1>1, <1>2, <2>1, <2>2, ClientIsProxy DEF NewTask, ByDeps, ProxyDeps, Triggers, ProxyReqs
  <2>3. CASE n \notin DOMAIN config
    <3>1. ToSet(ProxyDeps(n)) = {} /\ DOMAIN Triggers(n) = {}
      BY <2>3 DEF ProxyDeps, Triggers, ToSet
    <3> QED
      BY <1>2, <2>1, <3>1, ClientIsProxy DEF NewTask, ProxyReqs
  <2> QED
    BY <2>2, <2>3
<1>3. ASSUME NEW s \in Reqs, NEW j \in DOMAIN req'[s].edges
      PROVE  IsProxy(req'[s].edges[j].client) \/ req'[s].edges[j].server \in Dependencies
  BY <1>2, TasksSpawned DEF OnDependencies
<1>4. ASSUME NEW k \in DOMAIN clients', ~IsProxy(k[3]) PROVE k[1] \in Dependencies
  <2>1. CASE k \in DOMAIN clients
    BY <1>4, <2>1 DEF OnDependencies, EdgeKeys
  <2>2. CASE \E r \in Reqs : \E i \in DOMAIN req[r].edges : k = Slot(r, i)
    <3>1. PICK r \in Reqs : \E i \in DOMAIN req[r].edges : k = Slot(r, i)
      BY <2>2
    <3>2. PICK i \in DOMAIN req[r].edges : k = Slot(r, i)
      BY <3>1
    <3>3. k[1] = req[r].edges[i].server /\ k[3] = req[r].edges[i].client
      BY <3>2 DEF Slot
    <3> QED
      BY <1>4, <3>3 DEF OnDependencies
  <2> QED
    BY <1>4, <2>1, <2>2, EntriesReserved
<1> QED
  BY <1>1, <1>3, <1>4 DEF OnDependencies, EdgeKeys

(* There are no edges at first.                                            *)
LEMMA InitOnDependencies ==
    ASSUME Init
    PROVE  OnDependencies
<1>1. \A r \in Reqs : DOMAIN req[r].edges = {}
  BY DEF Init, Idle
<1>2. DOMAIN clients = {}
  BY DEF Init
<1>3. ByDeps(config)
  BY FilesByDeps DEF Init
<1> QED
  BY <1>1, <1>2, <1>3 DEF OnDependencies, EdgeKeys

(* A proxy client is on one replica, and a dependency has only one.        *)
LEMMA OnOneReplica ==
    ASSUME CtlInv, ProxyInv, OnDependencies, SingleHome
    PROVE  OneReplica
<1> SUFFICES ASSUME NEW j \in DOMAIN clients, NEW k \in DOMAIN clients, j[1] = k[1], j[3] = k[3]
             PROVE  j = k
  BY DEF OneReplica
<1>1. CASE IsProxy(j[3])
  BY <1>1 DEF ProxyInv, ProxyOnce, ProxyKeys
<1>2. CASE ~IsProxy(j[3])
  <2>1. PICK n : n = j[1]
    OBVIOUS
  <2>2. n \in Dependencies /\ n \in Names /\ Len(replicas[n]) <= 1
    BY <1>2, <2>1 DEF OnDependencies, EdgeKeys, SingleHome, Dependencies
  <2>3. /\ j[2] \in ReplicaSet(n) /\ k[2] \in ReplicaSet(n)
        /\ j = <<n, j[2], j[3]>> /\ k = <<n, k[2], k[3]>>
    BY <2>1 DEF CtlInv, Placed, AllKeys
  <2>4. Len(replicas[n]) \in Nat /\ DOMAIN replicas[n] = 1 .. Len(replicas[n])
    BY <2>2 DEF CtlInv, Listed
  <2>5. \A i \in DOMAIN replicas[n] : i = 1
    BY <2>2, <2>4
  <2>6. j[2] = k[2]
    BY <2>3, <2>5 DEF ReplicaSet, ToSet
  <2> QED
    BY <2>3, <2>6
<1> QED
  BY <1>1, <1>2

(* While no client has two requests for one service in progress and every  *)
(* dependency runs on one replica, each client is on one replica of a      *)
(* service (Controller!OneReplica). With a dependency on two replicas it   *)
(* may be on both: the run spread_dependency shows how.                    *)
THEOREM ClientsOnOneReplica ==
    Spec /\ []SoleCaller /\ []SingleHome => []OneReplica
<1> DEFINE Inv == CtlInv /\ ProxyInv /\ OnDependencies
<1>1. Init => Inv
  BY InitCtl, InitProxies, InitOnDependencies
<1>2. Inv /\ SoleCaller /\ [Next]_vars => Inv'
  BY NextCtl, NextProxies, NextOnDependencies
<1>3. Inv /\ SingleHome => OneReplica
  BY OnOneReplica
<1> HIDE DEF Inv
<1>4. Inv /\ []SoleCaller /\ [][Next]_vars => []Inv
  BY <1>2, PTL
<1> QED
  BY <1>1, <1>3, <1>4, PTL DEF Spec

(* ... and then no placeholder is left behind either.                      *)
COROLLARY PlaceholdersOwnedOnOneReplica ==
    CalledOnce /\ Spec /\ []SoleCaller /\ []SingleHome => []PlaceholderOwned
  BY PlaceholdersOwned, ClientsOnOneReplica, PTL
------------------------------------------------------------------------------
(* One thing at a time. *)

(* A request's own steps.                                                  *)
LEMMA RequestMoves ==
    ASSUME CtlInv, NEW r \in Reqs, RequestStep(r)
    PROVE  /\ ~Finished(r) /\ UNCHANGED closing
           /\ \A s \in Reqs : s # r => req'[s] = req[s]
           /\ \/ UNCHANGED work /\ LockFree
              \/ Stuck(r)'
              \/ req'[r].pc = "done"
<1>1. Called
  BY DEF CtlInv
<1>2. ~Finished(r)
  BY DEF RequestStep, ProxyLookup, ProxySticky, ProxyReuse, NewProxyChain, SetupProxyChain,
         BackendTrigger, SetupBackendChain, Join, Finished
<1>3. UNCHANGED closing
  BY DEF RequestStep, ProxyLookup, ProxySticky, ProxyReuse, NewProxyChain, SetupProxyChain,
         BackendTrigger, SetupBackendChain, Join
<1>4. \A s \in Reqs : s # r => req'[s] = req[s]
  BY RequestLeads DEF Leads, LookupLeads, ReuseLeads, Spawns
<1>5. CASE ProxyReuse(r)
  <2>1. ReuseLeads(r)
    BY <1>5, ProxyReuseLeads
  <2> QED
    BY <1>2, <1>3, <1>4, <2>1 DEF ReuseLeads, Leads, Stuck
<1>6. CASE Join(r)
  BY <1>1, <1>2, <1>3, <1>4, <1>6, JoinLeads DEF Leads
<1>7. CASE ~ProxyReuse(r) /\ ~Join(r)
  <2>1. UNCHANGED work /\ LockFree
    BY <1>7 DEF RequestStep, ProxyLookup, ProxySticky, NewProxyChain, SetupProxyChain,
       BackendTrigger, SetupBackendChain, changeVars
  <2> QED
    BY <1>2, <1>3, <1>4, <2>1
<1> QED
  BY <1>5, <1>6, <1>7

(* A request that walks for ever does not let go of the lock.              *)
LEMMA EndlessWalk ==
    ASSUME NEW r \in Reqs, Stuck(r)
    PROVE  ~LockHolderStep
<1>1. work[1][1] = "endless_walk"
  BY DEF Stuck
<1> QED
  BY <1>1 DEF LockHolderStep, ChangesNext, For, DecrementChain, TeardownDepChain,
     TeardownBackendChain, TeardownAllBackendChainsFor, TeardownChain, RemoveClientEntry,
     TeardownNetworks, TeardownInvalidatedService, Unregister, RemoveService, ReplicasRemoved,
     TeardownPartialReplicas, RemoveReplicas, ProxyDisconnected, UpdateFromFile, AddReplica, Due

(* Nothing starts, and nobody gets the lock, while a request is in         *)
(* progress.                                                               *)
LEMMA NextSerial ==
    ASSUME CtlInv, ~Overlap, Serial, [Next]_vars
    PROVE  Serial'
<1>1. Called
  BY DEF CtlInv
<1>2. CASE \E r \in Reqs : Start(r)
  <2>1. PICK r \in Reqs : Start(r)
    BY <1>2
  <2>2. LockFree /\ closing = {} /\ \A s \in Reqs : Finished(s)
    BY <2>1 DEF Start, MayStart, Quiet
  <2>3. UNCHANGED <<work, closing>>
    BY <2>1 DEF Start, changeVars
  <2>4. \A s \in Reqs : s # r => req'[s] = req[s]
    BY <1>1, <2>1, StartLeads DEF Leads
  <2> QED
    BY <2>2, <2>3, <2>4 DEF Serial, Finished, LockFree
<1>3. CASE \E r \in Reqs : RequestStep(r)
  <2>1. PICK r \in Reqs : RequestStep(r)
    BY <1>3
  <2>2. /\ ~Finished(r) /\ UNCHANGED closing
        /\ \A s \in Reqs : s # r => req'[s] = req[s]
        /\ \/ UNCHANGED work /\ LockFree
           \/ Stuck(r)'
           \/ req'[r].pc = "done"
    BY <2>1, RequestMoves
  <2>3. closing' = {} /\ \A s \in Reqs : s # r => Finished(s)
    BY <2>2 DEF Serial
  <2>4. \A s \in Reqs : s # r => Finished(s)'
    BY <2>2, <2>3 DEF Finished
  <2>5. Finished(r)' \/ LockFree' \/ Stuck(r)'
    BY <2>2 DEF Finished, LockFree
  <2> QED
    BY <2>3, <2>4, <2>5 DEF Serial
<1>4. CASE \E r \in Reqs : \E i \in 1 .. MaxEdges : EdgeStep(r, i)
  <2>1. PICK r \in Reqs, i \in 1 .. MaxEdges : EdgeStep(r, i)
    BY <1>4
  <2>2. /\ \E pc, net : TaskMoves(r, i, pc, net)
        /\ req[r].pc \in {"join", "gone"}
    BY <2>1, EdgeStepMoves
  <2>3. UNCHANGED <<work, closing>>
    BY <2>1 DEF EdgeStep, EdgeReserve, EdgeAllocate, EdgeAcked, EdgeRollback, EdgeDrop, EdgeCommit,
       EdgeAbort, EdgeAborted, changeVars
  <2>4. ~Finished(r) /\ ~Stuck(r)
    BY <2>2 DEF Finished, Stuck
  <2>5. closing = {} /\ LockFree /\ \A s \in Reqs : s # r => Finished(s)
    BY <2>4 DEF Serial
  <2>6. \A s \in Reqs : s # r => Finished(s)'
    BY <2>2, <2>5 DEF TaskMoves, Finished
  <2> QED
    BY <2>3, <2>5, <2>6 DEF Serial, LockFree
<1>5. CASE \E r \in Reqs : CallerGone(r)
  <2>1. PICK r \in Reqs : CallerGone(r)
    BY <1>5
  <2>2. ~Finished(r) /\ UNCHANGED <<work, closing>>
    BY <2>1 DEF CallerGone, changeVars
  <2>3. \A s \in Reqs : s # r => req'[s] = req[s]
    BY <1>1, <2>1, CallerGoneLeads
  <2>4. closing = {} /\ (LockFree \/ Stuck(r)) /\ \A s \in Reqs : s # r => Finished(s)
    BY <2>2 DEF Serial
  <2>5. \A s \in Reqs : s # r => Finished(s)'
    BY <2>3, <2>4 DEF Finished
  <2>6. ~Stuck(r)
    BY <2>1 DEF CallerGone, Stuck
  <2> QED
    BY <2>2, <2>4, <2>5, <2>6 DEF Serial, LockFree
<1>6. CASE Event \/ \E host \in Flapping : NodeDisconnect(host)
  <2>1. UNCHANGED req
    BY <1>6, EventsLeave
  <2>2. \A s \in Reqs : Finished(s)
    <3>1. CASE Event
      BY <3>1 DEF Event, ServicesList, ConfigUpdate, TimeoutSweep, ChannelClosed, ChannelOpen,
                  MayStart, Quiet
    <3>2. CASE \E host \in Flapping : NodeDisconnect(host)
      BY <3>2 DEF NodeDisconnect, Serial
    <3> QED
      BY <1>6, <3>1, <3>2
  <2> QED
    BY <2>1, <2>2 DEF Serial, Finished
<1>7. CASE LockHolderStep
  <2>1. UNCHANGED <<closing, req>> /\ work # <<>>
    BY <1>7 DEF LockHolderStep, ChangesNext, For, DecrementChain, TeardownDepChain,
     TeardownBackendChain, TeardownAllBackendChainsFor, TeardownChain, RemoveClientEntry,
     TeardownNetworks, TeardownInvalidatedService, Unregister, RemoveService, ReplicasRemoved,
     TeardownPartialReplicas, RemoveReplicas, ProxyDisconnected, UpdateFromFile, AddReplica, Due
  <2>2. CASE \A s \in Reqs : Finished(s)
    BY <2>1, <2>2 DEF Serial, Finished
  <2>3. CASE \E s \in Reqs : ~Finished(s)
    <3>1. PICK s \in Reqs : ~Finished(s)
      BY <2>3
    <3>2. Stuck(s) /\ closing = {} /\ \A t \in Reqs : t # s => Finished(t)
      BY <2>1, <3>1 DEF Serial, LockFree
    <3> QED
      BY <1>7, <3>2, EndlessWalk
  <2> QED
    BY <2>2, <2>3
<1>8. CASE UNCHANGED vars
  BY <1>8 DEF Serial, Finished, Stuck, LockFree, vars
<1> QED
  BY <1>2, <1>3, <1>4, <1>5, <1>6, <1>7, <1>8 DEF Next

(* Nothing is in progress at first.                                        *)
LEMMA InitSerial ==
    ASSUME Init
    PROVE  Serial
<1>1. \A r \in Reqs : Finished(r)
  BY DEF Init, Idle, Finished
<1> QED
  BY <1>1 DEF Serial

(* One request at a time is one request of each client.                    *)
LEMMA SerialSole ==
    ASSUME Serial
    PROVE  SoleCaller
  BY DEF Serial, SoleCaller, ProxyReqs

(* A request that goes on to join a network has just found it.             *)
LEMMA RequestFinds ==
    ASSUME CtlInv, NEW r \in Reqs, Start(r) \/ RequestStep(r)
    PROVE  Found(r)'
<1>1. Called
  BY DEF CtlInv
<1>2. CASE req'[r].pc # "reuse"
  BY <1>2 DEF Found
<1>3. CASE ProxyLookup(r) /\ LookupLeads(r) /\ UNCHANGED clients /\ req'[r].pc = "reuse"
  <2>1. PICK k \in ReusableOnProxy(ServiceOf(r), HostOf(r)) :
           req'[r].rid = k[2] /\ req'[r].net = clients[k].net_id
    BY <1>3 DEF LookupLeads, Leads
  <2>2. /\ k \in DOMAIN clients /\ k[1] = ServiceOf(r)
        /\ k[3].proxy = HostOf(r) /\ clients[k].net_id # 0
    BY ReusableUp
  <2>3. k \in DOMAIN clients' /\ clients'[k].net_id = clients[k].net_id
    BY <1>3, <2>2
  <2> QED
    BY <2>1, <2>2, <2>3 DEF Found, ServiceOf, HostOf, Established
<1> QED
  BY <1>2, <1>3, RequestLeads DEF Leads, Spawns, ReuseLeads

(* While a request is in progress nothing else moves the map.              *)
LEMMA NothingElse ==
    ASSUME CtlInv, ~Overlap, Serial, NEW r \in Reqs, ~Finished(r),
           \/ LockHolderStep \/ Event \/ UNCHANGED vars
           \/ \E host \in Flapping : NodeDisconnect(host)
    PROVE  UNCHANGED <<config, replicas, clients, req>>
<1>1. closing = {} /\ (LockFree \/ Stuck(r))
  BY DEF Serial
<1>2. ~Event
  BY DEF Event, ServicesList, ConfigUpdate, TimeoutSweep, ChannelClosed, ChannelOpen, MayStart, Quiet
<1>3. ~\E host \in Flapping : NodeDisconnect(host)
  BY <1>1 DEF NodeDisconnect
<1>4. CASE LockHolderStep
  <2>1. ~LockFree
    BY <1>4 DEF LockHolderStep, ChangesNext, For, DecrementChain, TeardownDepChain,
     TeardownBackendChain, TeardownAllBackendChainsFor, TeardownChain, RemoveClientEntry,
     TeardownNetworks, TeardownInvalidatedService, Unregister, RemoveService, ReplicasRemoved,
     TeardownPartialReplicas, RemoveReplicas, ProxyDisconnected, UpdateFromFile, AddReplica, Due,
     LockFree
  <2> QED
    BY <1>1, <1>4, <2>1, EndlessWalk
<1> QED
  BY <1>2, <1>3, <1>4 DEF vars

(* The request that takes a step is the only one in progress.              *)
LEMMA OthersFinished ==
    ASSUME CtlInv, ~Overlap, Serial, NEW r \in Reqs,
           Start(r) \/ RequestStep(r) \/ CallerGone(r) \/ \E i \in 1 .. MaxEdges : EdgeStep(r, i)
    PROVE  \A s \in Reqs : s # r => Finished(s)'
<1>1. Called
  BY DEF CtlInv
<1>2. \A s \in Reqs : s # r => req'[s] = req[s]
  <2>1. CASE Start(r) \/ RequestStep(r)
    BY <2>1, RequestLeads DEF Leads, LookupLeads, ReuseLeads, Spawns
  <2>2. CASE CallerGone(r)
    BY <1>1, <2>2, CallerGoneLeads
  <2>3. CASE \E i \in 1 .. MaxEdges : EdgeStep(r, i)
    BY <2>3, EdgeStepMoves DEF TaskMoves
  <2> QED
    BY <2>1, <2>2, <2>3
<1>3. \A s \in Reqs : s # r => Finished(s)
  <2>1. CASE Start(r)
    BY <2>1 DEF Start, MayStart, Quiet
  <2>2. CASE ~Finished(r)
    BY <2>2 DEF Serial
  <2>3. RequestStep(r) => ~Finished(r)
    BY RequestMoves
  <2>4. CallerGone(r) => ~Finished(r)
    BY DEF CallerGone
  <2>5. ASSUME NEW i \in 1 .. MaxEdges, EdgeStep(r, i) PROVE ~Finished(r)
    BY <2>5, EdgeStepMoves DEF Finished
  <2> QED
    BY <2>1, <2>2, <2>3, <2>4, <2>5
<1> QED
  BY <1>2, <1>3 DEF Finished

(* No step comes between what a request has found and what it does with    *)
(* it.                                                                     *)
LEMMA NextFound ==
    ASSUME CtlInv, ~Overlap, SerialInv, [Next]_vars
    PROVE  SerialInv'
<1>1. Called /\ Serial /\ \A r \in Reqs : Found(r)
  BY DEF CtlInv, SerialInv
<1>2. Serial'
  BY <1>1, NextSerial
<1>3. SUFFICES \A r \in Reqs : Found(r)'
  BY <1>2 DEF SerialInv
<1>4. \A r \in Reqs : Finished(r)' => Found(r)'
  BY DEF Finished, Found
<1>5. ASSUME NEW r \in Reqs, Start(r) \/ RequestStep(r) \/ CallerGone(r)
                             \/ \E i \in 1 .. MaxEdges : EdgeStep(r, i),
             Found(r)'
      PROVE  \A s \in Reqs : Found(s)'
  <2>1. \A s \in Reqs : s # r => Finished(s)'
    BY <1>1, <1>5, OthersFinished
  <2> QED
    BY <1>4, <1>5, <2>1
<1>6. CASE \E r \in Reqs : Start(r) \/ RequestStep(r)
  BY <1>5, <1>6, RequestFinds
<1>7. CASE \E r \in Reqs : \E i \in 1 .. MaxEdges : EdgeStep(r, i)
  <2>1. PICK r \in Reqs : \E i \in 1 .. MaxEdges : EdgeStep(r, i)
    BY <1>7
  <2>2. Found(r)'
    BY <2>1, EdgeStepMoves DEF Found
  <2> QED
    BY <1>5, <2>1, <2>2
<1>8. CASE \E r \in Reqs : CallerGone(r)
  <2>1. PICK r \in Reqs : CallerGone(r)
    BY <1>8
  <2>2. Found(r)'
    BY <1>1, <2>1, CallerGoneLeads DEF Found
  <2> QED
    BY <1>5, <2>1, <2>2
<1>9. CASE \/ LockHolderStep \/ Event \/ UNCHANGED vars
           \/ \E host \in Flapping : NodeDisconnect(host)
  <2>1. UNCHANGED req
    BY <1>9, OthersKeep
  <2>2. ASSUME NEW r \in Reqs, ~Finished(r) PROVE Found(r)'
    <3>1. UNCHANGED <<config, replicas, clients, req>>
      BY <1>1, <1>9, <2>2, NothingElse
    <3> QED
      BY <1>1, <3>1 DEF Found, Established, ServiceOf, HostOf
  <2> QED
    BY <1>4, <2>1, <2>2 DEF Finished
<1> QED
  BY <1>6, <1>7, <1>8, <1>9 DEF Next

(* No request has found anything at first.                                 *)
LEMMA InitFound ==
    ASSUME Init
    PROVE  SerialInv
<1>1. \A r \in Reqs : req[r].pc = "idle"
  BY DEF Init, Idle
<1> QED
  BY <1>1, InitSerial DEF SerialInv, Found
------------------------------------------------------------------------------
(* The limit on networks. *)

(* Entries that only go, or are written elsewhere, or without a network of *)
(* their own, add no network to a service.                                 *)
LEMMA NetworksKept ==
    ASSUME NEW cl, NEW new, NEW n, NEW proxy,
           \/ Keeps(cl, new)
           \/ \E key, x : /\ Enters(cl, new, key, x)
                          /\ \/ x = 0 \/ x \in Networks(n, proxy, cl)
                             \/ key[1] # n \/ key[3].proxy # proxy
    PROVE  Networks(n, proxy, new) \subseteq Networks(n, proxy, cl)
<1> SUFFICES ASSUME NEW k \in DOMAIN new, k[1] = n, k[3].proxy = proxy, new[k].net_id # 0
             PROVE  new[k].net_id \in Networks(n, proxy, cl)
  BY DEF Networks, KeysOf
<1>1. CASE k \in DOMAIN cl /\ new[k].net_id = cl[k].net_id
  BY <1>1 DEF Networks, KeysOf
<1>2. CASE Keeps(cl, new)
  BY <1>1, <1>2 DEF Keeps
<1>3. ASSUME NEW key, NEW x, Enters(cl, new, key, x),
             x = 0 \/ x \in Networks(n, proxy, cl) \/ key[1] # n \/ key[3].proxy # proxy
      PROVE  new[k].net_id \in Networks(n, proxy, cl)
  <2>1. CASE k = key
    BY <1>3, <2>1 DEF Enters
  <2>2. CASE k # key
    BY <1>1, <1>3, <2>2 DEF Enters
  <2> QED
    BY <2>1, <2>2
<1> QED
  BY <1>2, <1>3

(* The entry that is written adds its network and no other.                *)
LEMMA NetworksAdded ==
    ASSUME NEW cl, NEW new, NEW n, NEW proxy, NEW key, NEW x, Enters(cl, new, key, x)
    PROVE  Networks(n, proxy, new) \subseteq Networks(n, proxy, cl) \cup {x}
<1> SUFFICES ASSUME NEW k \in DOMAIN new, k[1] = n, k[3].proxy = proxy, new[k].net_id # 0,
                    new[k].net_id # x
             PROVE  new[k].net_id \in Networks(n, proxy, cl)
  BY DEF Networks, KeysOf
<1>1. k \in DOMAIN cl /\ new[k].net_id = cl[k].net_id
  BY DEF Enters
<1> QED
  BY <1>1 DEF Networks, KeysOf

(* A service has no more networks through a proxy than entries, and        *)
(* find_reusable_network_on_proxy finds one if there is any.               *)
LEMMA NetworksCounted ==
    ASSUME CtlInv, NEW n, NEW proxy, proxy # None
    PROVE  /\ IsFiniteSet(Networks(n, proxy, clients))
           /\ Cardinality(Networks(n, proxy, clients)) <= ProxyClientsCount(n)
           /\ ProxyClientsCount(n) \in Nat
           /\ ReusableOnProxy(n, proxy) = {} => Networks(n, proxy, clients) = {}
<1>1. IsFiniteSet(DOMAIN clients) /\ clients \in [DOMAIN clients -> Entries]
  BY DEF CtlInv, Placed
<1> DEFINE all == {k \in KeysOf(n, clients) : IsProxy(k[3])}
           own == {k \in KeysOf(n, clients) : k[3].proxy = proxy /\ Established(k)}
<1>2. all \subseteq DOMAIN clients /\ own \subseteq all
  BY DEF KeysOf, IsProxy
<1>3. IsFiniteSet(all) /\ IsFiniteSet(own) /\ Cardinality(own) <= Cardinality(all)
  BY <1>1, <1>2, FS_Subset
<1>4. Networks(n, proxy, clients) = {clients[k].net_id : k \in own}
  BY DEF Networks, Established
<1>5. IsFiniteSet({clients[k].net_id : k \in own})
      /\ Cardinality({clients[k].net_id : k \in own}) <= Cardinality(own)
  <2> HIDE DEF own
  <2> DEFINE f == [k \in own |-> clients[k].net_id]
             img == {clients[k].net_id : k \in own}
  <2>1. f \in Surjection(own, img)
    BY DEF Surjection
  <2> HIDE DEF f, img
  <2>2. IsFiniteSet(img) /\ Cardinality(img) <= Cardinality(own)
    BY <1>3, <2>1, FS_Surjection
  <2> QED
    BY <2>2 DEF img
<1>6. Cardinality(all) \in Nat /\ Cardinality(own) \in Nat
  BY <1>3, FS_CardinalityType
<1>7. Cardinality({clients[k].net_id : k \in own}) \in Nat
  BY <1>5, FS_CardinalityType
<1>8. ASSUME own # {} PROVE ReusableOnProxy(n, proxy) # {}
  <2> DEFINE counts == {clients[k].active_chains : k \in own}
  <2>1. counts \subseteq Nat /\ counts # {}
    BY <1>1, <1>2, <1>8 DEF Entries
  <2>2. PICK m \in counts : \A x \in counts : m <= x
    BY <2>1, Least
  <2>3. PICK k \in own : \A j \in own : clients[k].active_chains <= clients[j].active_chains
    BY <2>2
  <2> QED
    BY <2>3 DEF ReusableOnProxy
<1>9. ProxyClientsCount(n) = Cardinality(all)
  BY DEF ProxyClientsCount
<1>10. own = {} => Networks(n, proxy, clients) = {}
  BY <1>4
<1> HIDE DEF all, own
<1> QED
  BY <1>3, <1>4, <1>5, <1>6, <1>7, <1>8, <1>9, <1>10

(* Through a proxy, only the entries of its own clients add networks.      *)
LEMMA ProxyNamed ==
    ASSUME NEW r \in ProxyReqs
    PROVE  HostOf(r) # None /\ ClientOf(r).proxy = HostOf(r)
  BY ControllerConstants DEF ProxyReqs, HostOf, ClientOf, ProxyClient

(* A step that only drops entries, or writes one without a network or one  *)
(* of a client of no proxy, adds no network.                               *)
LEMMA NothingAdded ==
    ASSUME NEW n, NEW proxy, proxy # None,
           \/ Keeps(clients, clients')
           \/ \E key, x : Enters(clients, clients', key, x) /\ (x = 0 \/ ~IsProxy(key[3]))
    PROVE  Networks(n, proxy, clients') \subseteq Networks(n, proxy, clients)
<1>1. CASE Keeps(clients, clients')
  BY <1>1, NetworksKept
<1>2. ASSUME NEW key, NEW x, Enters(clients, clients', key, x), x = 0 \/ ~IsProxy(key[3])
      PROVE  Networks(n, proxy, clients') \subseteq Networks(n, proxy, clients)
  <2>1. x = 0 \/ key[3].proxy # proxy
    BY <1>2 DEF IsProxy
  <2> QED
    BY <1>2, <2>1, NetworksKept
<1> QED
  BY <1>1, <1>2

(* A finite set that loses elements, or gets one more.                     *)
LEMMA SizeKept ==
    ASSUME NEW S, IsFiniteSet(S), NEW T, T \subseteq S
    PROVE  IsFiniteSet(T) /\ Cardinality(T) \in Nat /\ Cardinality(S) \in Nat
           /\ Cardinality(T) <= Cardinality(S)
  BY FS_Subset, FS_CardinalityType

LEMMA SizeAdded ==
    ASSUME NEW S, IsFiniteSet(S), NEW x, NEW T, T \subseteq S \cup {x}
    PROVE  IsFiniteSet(T) /\ Cardinality(T) \in Nat /\ Cardinality(S) \in Nat
           /\ Cardinality(T) <= Cardinality(S) + 1
<1>1. /\ IsFiniteSet(S \cup {x})
      /\ Cardinality(S \cup {x}) = IF x \in S THEN Cardinality(S) ELSE Cardinality(S) + 1
  BY FS_AddElement, Zenon
<1>2. Cardinality(S) \in Nat
  BY FS_CardinalityType
<1>3. IsFiniteSet(T) /\ Cardinality(T) \in Nat /\ Cardinality(T) <= Cardinality(S \cup {x})
  BY <1>1, SizeKept
<1> QED
  BY <1>1, <1>2, <1>3

(* A request that adds no network, does not find room and joins only what  *)
(* there is leaves the claims as they are.                                 *)
LEMMA ClaimsKept ==
    ASSUME NEW n, NEW proxy, NEW r \in Reqs, \A s \in Reqs : s # r => req'[s] = req[s],
           Networks(n, proxy, clients') \subseteq Claimed(n, proxy),
           r \in Building(n, proxy)' => r \in Building(n, proxy),
           r \in Joining(n, proxy)' => req'[r].net \in Claimed(n, proxy)
    PROVE  /\ Claimed(n, proxy)' \subseteq Claimed(n, proxy)
           /\ Building(n, proxy)' \subseteq Building(n, proxy)
<1>1. ASSUME NEW s \in Reqs, s # r
      PROVE  /\ s \in Building(n, proxy)' => s \in Building(n, proxy)
             /\ s \in Joining(n, proxy)' => req'[s].net \in Claimed(n, proxy)
  BY <1>1 DEF Building, Joining, Claimed, Callers, Finished, ServiceOf, HostOf, ProxyReqs
<1>2. Building(n, proxy)' \subseteq Reqs /\ Joining(n, proxy)' \subseteq Reqs
  BY DEF Building, Joining, Callers, ProxyReqs
<1>3. Claimed(n, proxy)' = Networks(n, proxy, clients') \cup {req'[s].net : s \in Joining(n, proxy)'}
  BY DEF Claimed, Networks, KeysOf
<1> QED
  BY <1>1, <1>2, <1>3

(* Fewer claims are within the bound.                                      *)
LEMMA FewerClaims ==
    ASSUME NEW n, NEW proxy, NEW bound \in Nat, LimitInv(n, proxy, bound),
           Claimed(n, proxy)' \subseteq Claimed(n, proxy),
           Building(n, proxy)' \subseteq Building(n, proxy),
           \A r \in Reqs : req'[r].pc = "join" => OneProxyEdge(r)'
    PROVE  LimitInv(n, proxy, bound)'
<1>1. PICK C, B, D, A : /\ C = Claimed(n, proxy) /\ B = Building(n, proxy)
                        /\ D = Claimed(n, proxy)' /\ A = Building(n, proxy)'
  OBVIOUS
<1>2. /\ IsFiniteSet(C) /\ IsFiniteSet(B) /\ Cardinality(C) + Cardinality(B) <= bound
      /\ D \subseteq C /\ A \subseteq B
  BY <1>1 DEF LimitInv
<1>3. /\ IsFiniteSet(D) /\ Cardinality(D) \in Nat /\ Cardinality(C) \in Nat
      /\ Cardinality(D) <= Cardinality(C)
  BY <1>2, SizeKept
<1>4. /\ IsFiniteSet(A) /\ Cardinality(A) \in Nat /\ Cardinality(B) \in Nat
      /\ Cardinality(A) <= Cardinality(B)
  BY <1>2, SizeKept
<1>5. Cardinality(D) + Cardinality(A) <= bound
  BY <1>2, <1>3, <1>4
<1> QED
  BY <1>1, <1>3, <1>4, <1>5 DEF LimitInv

(* A request that finds room does so beside the others in progress.        *)
LEMMA RoomClaimed ==
    ASSUME CtlInv, NEW n, NEW proxy, proxy # None, NEW max \in Nat \ {0}, NEW most \in Nat \ {0},
           AtOnce(n, proxy, most), LimitedTo(config, n, max), IsRegistered(n),
           ~AtLimit(n) \/ ReusableOnProxy(n, proxy) = {},
           NEW r \in Callers(n, proxy), r \notin Building(n, proxy), r \notin Joining(n, proxy),
           NEW D, D \subseteq Claimed(n, proxy),
           NEW A, A \subseteq Building(n, proxy) \cup {r}
    PROVE  /\ IsFiniteSet(D) /\ IsFiniteSet(A)
           /\ Cardinality(D) + Cardinality(A) <= max + most - 1
<1>1. PICK N, J, B, all : /\ N = Networks(n, proxy, clients) /\ J = Joining(n, proxy)
                          /\ B = Building(n, proxy) /\ all = Callers(n, proxy)
  OBVIOUS
<1>2. /\ IsFiniteSet(N) /\ Cardinality(N) <= ProxyClientsCount(n)
      /\ ProxyClientsCount(n) \in Nat
      /\ ReusableOnProxy(n, proxy) = {} => N = {}
  BY <1>1, NetworksCounted
<1>3. Cardinality(N) \in Nat /\ Cardinality(N) <= max - 1
  <2>1. Cardinality(N) \in Nat
    BY <1>2, FS_CardinalityType
  <2>2. CASE N = {}
    BY <2>1, <2>2, FS_EmptySet
  <2>3. CASE ~AtLimit(n)
    <3>1. config[n].max_networks # None /\ config[n].max_networks \in 0 .. max
      BY DEF LimitedTo, IsRegistered
    <3>2. ~(ProxyClientsCount(n) >= config[n].max_networks)
      BY <2>3, <3>1 DEF AtLimit
    <3> QED
      BY <1>2, <2>1, <3>1, <3>2
  <2> QED
    BY <1>2, <2>2, <2>3
<1>4. IsFiniteSet(all) /\ Cardinality(all) \in Nat /\ Cardinality(all) <= most
  BY <1>1, FS_CardinalityType DEF AtOnce
<1>5. J \subseteq all /\ B \subseteq all /\ J \cap B = {} /\ r \in all /\ r \notin J /\ r \notin B
  BY <1>1 DEF Joining, Building
<1>6. /\ IsFiniteSet(J) /\ Cardinality(J) \in Nat /\ IsFiniteSet(B) /\ Cardinality(B) \in Nat
  BY <1>4, <1>5, SizeKept
<1>7. Cardinality(J) + Cardinality(B) <= most - 1
  <2>1. /\ IsFiniteSet(J \cup B) /\ Cardinality(J \cap B) = 0
        /\ Cardinality(J \cup B) = Cardinality(J) + Cardinality(B) - Cardinality(J \cap B)
    BY <1>5, <1>6, FS_Union, FS_EmptySet
  <2>2. Cardinality(all \ {r}) = Cardinality(all) - 1 /\ IsFiniteSet(all \ {r})
    BY <1>4, <1>5, FS_RemoveElement
  <2>3. Cardinality(J \cup B) <= Cardinality(all \ {r})
    BY <1>5, <2>2, SizeKept
  <2> QED
    BY <1>4, <1>6, <2>1, <2>2, <2>3
<1>8. IsFiniteSet(D) /\ Cardinality(D) \in Nat /\ Cardinality(D) <= Cardinality(N) + Cardinality(J)
  <2>1. PICK nets : nets = {req[s].net : s \in J}
    OBVIOUS
  <2>2. IsFiniteSet(nets) /\ Cardinality(nets) \in Nat /\ Cardinality(nets) <= Cardinality(J)
    <3>1. PICK f : f = [s \in J |-> req[s].net]
      OBVIOUS
    <3>2. f \in Surjection(J, nets)
      BY <2>1, <3>1 DEF Surjection
    <3> QED
      BY <1>6, <3>2, FS_Surjection, FS_CardinalityType
  <2>3. D \subseteq N \cup nets
    BY <1>1, <2>1 DEF Claimed
  <2>4. IsFiniteSet(N \cup nets)
        /\ Cardinality(N \cup nets) = Cardinality(N) + Cardinality(nets) - Cardinality(N \cap nets)
    BY <1>2, <2>2, FS_Union
  <2>5. Cardinality(N \cap nets) \in Nat
    <3>1. N \cap nets \subseteq N
      OBVIOUS
    <3> QED
      BY <1>2, <3>1, SizeKept
  <2>6. IsFiniteSet(D) /\ Cardinality(D) \in Nat /\ Cardinality(D) <= Cardinality(N \cup nets)
    BY <2>3, <2>4, SizeKept
  <2> QED
    BY <1>3, <1>6, <2>2, <2>4, <2>5, <2>6
<1>9. IsFiniteSet(A) /\ Cardinality(A) \in Nat /\ Cardinality(A) <= Cardinality(B) + 1
  BY <1>1, <1>6, SizeAdded
<1> QED
  BY <1>3, <1>6, <1>7, <1>8, <1>9

(* The step of a request keeps the claims within the bound.                *)
LEMMA RequestLimit ==
    ASSUME CtlInv, NEW n, NEW proxy, proxy # None, NEW max \in Nat \ {0}, NEW most \in Nat \ {0},
           AtOnce(n, proxy, most), LimitedTo(config, n, max),
           LimitInv(n, proxy, max + most - 1),
           NEW r \in Reqs, Start(r) \/ RequestStep(r)
    PROVE  LimitInv(n, proxy, max + most - 1)'
<1>1. Called
  BY DEF CtlInv
<1>2. \A s \in Reqs : s # r => req'[s] = req[s]
  BY RequestLeads DEF Leads, LookupLeads, ReuseLeads, Spawns
<1>3. \A s \in Reqs : req'[s].pc = "join" => OneProxyEdge(s)'
  <2>1. ASSUME NEW s \in Reqs, s # r, req'[s].pc = "join" PROVE OneProxyEdge(s)'
    BY <1>2, <2>1 DEF LimitInv, OneProxyEdge, ServiceOf, ClientOf
  <2>2. CASE req'[r].edges = <<>>
    BY <2>1, <2>2 DEF OneProxyEdge
  <2>3. CASE Spawns(r)
    <3>1. OneProxyEdge(r)'
      BY <2>3, SpawnOne
    <3> QED
      BY <2>1, <3>1
  <2> QED
    BY <2>2, <2>3, RequestLeads DEF Leads, LookupLeads, ReuseLeads
<1>4. PICK bound \in Nat : bound = max + most - 1
  OBVIOUS
<1>5. SUFFICES ASSUME \/ ~(Networks(n, proxy, clients') \subseteq Claimed(n, proxy))
                      \/ r \in Building(n, proxy)' /\ r \notin Building(n, proxy)
                      \/ r \in Joining(n, proxy)' /\ req'[r].net \notin Claimed(n, proxy)
               PROVE  LimitInv(n, proxy, bound)'
  <2>1. CASE /\ Networks(n, proxy, clients') \subseteq Claimed(n, proxy)
             /\ r \in Building(n, proxy)' => r \in Building(n, proxy)
             /\ r \in Joining(n, proxy)' => req'[r].net \in Claimed(n, proxy)
    <3>1. /\ Claimed(n, proxy)' \subseteq Claimed(n, proxy)
          /\ Building(n, proxy)' \subseteq Building(n, proxy)
      BY <1>2, <2>1, ClaimsKept
    <3>2. LimitInv(n, proxy, bound)'
      BY <1>3, <1>4, <3>1, FewerClaims
    <3> QED
      BY <1>4, <3>2
  <2> QED
    BY <1>4, <2>1
<1>6. UNCHANGED clients => Networks(n, proxy, clients') \subseteq Claimed(n, proxy)
  BY DEF Claimed, Networks, KeysOf
<1>7. ~ProxyReuse(r) => UNCHANGED clients
  BY RequestsLeaveEntries DEF RequestStep
<1>8. ~\E pc \in {"lookup", "sticky", "trigger", "build_backend", "done"} :
          Leads(r, pc) /\ UNCHANGED clients
  BY <1>5, <1>6 DEF Leads, Building, Joining
<1>9. CASE ProxyLookup(r)
  <2>1. LookupLeads(r) /\ UNCHANGED clients /\ req[r].pc = "lookup"
    BY <1>1, <1>7, <1>9, ProxyLookupLeads DEF ProxyLookup, ProxyReuse
  <2>2. CASE req'[r].pc = "reuse"
    <3>1. r \notin Building(n, proxy)' /\ r \in Joining(n, proxy)'
      BY <1>5, <1>6, <2>1, <2>2 DEF Building
    <3>2. ServiceOf(r) = n /\ HostOf(r) = proxy
      BY <3>1 DEF Joining, Callers, ServiceOf, HostOf
    <3>3. PICK k \in ReusableOnProxy(n, proxy) : req'[r].net = clients[k].net_id
      BY <2>1, <2>2, <3>2 DEF LookupLeads, Leads
    <3>4. k \in DOMAIN clients /\ k[1] = n /\ k[3].proxy = proxy /\ clients[k].net_id # 0
      BY ReusableUp
    <3>5. req'[r].net \in Claimed(n, proxy)
      BY <3>3, <3>4 DEF Claimed, Networks, KeysOf
    <3> QED
      BY <1>5, <1>6, <2>1, <3>1, <3>5
  <2>3. CASE req'[r].pc = "pick"
    <3>1. r \notin Joining(n, proxy)' /\ r \in Building(n, proxy)'
      BY <1>5, <1>6, <2>1, <2>3 DEF Joining
    <3>2. ServiceOf(r) = n /\ HostOf(r) = proxy /\ r \in ProxyReqs
      BY <3>1 DEF Building, Callers, ServiceOf, HostOf, ProxyReqs
    <3>3. r \in Callers(n, proxy) /\ r \notin Building(n, proxy) /\ r \notin Joining(n, proxy)
      BY <2>1, <3>2 DEF Callers, Finished, Building, Joining
    <3>4. IsRegistered(n) /\ (~AtLimit(n) \/ ReusableOnProxy(n, proxy) = {})
      BY <2>1, <2>3, <3>2 DEF LookupLeads, Leads
    <3>5. PICK D, A : D = Claimed(n, proxy)' /\ A = Building(n, proxy)'
      OBVIOUS
    <3>6. D \subseteq Claimed(n, proxy)
      <4>1. Claimed(n, proxy)' = Networks(n, proxy, clients') \cup {req'[s].net : s \in Joining(n, proxy)'}
        BY DEF Claimed, Networks, KeysOf
      <4>2. ASSUME NEW s \in Joining(n, proxy)' PROVE s \in Joining(n, proxy) /\ req'[s].net = req[s].net
        BY <1>2, <3>1, <4>2 DEF Joining, Callers, Finished, ServiceOf, HostOf, ProxyReqs
      <4> QED
        BY <1>6, <2>1, <3>5, <4>1, <4>2 DEF Claimed
    <3>7. A \subseteq Building(n, proxy) \cup {r}
      BY <1>2, <3>5 DEF Building, Callers, Finished, ServiceOf, HostOf, ProxyReqs
    <3>8. /\ IsFiniteSet(D) /\ IsFiniteSet(A)
          /\ Cardinality(D) + Cardinality(A) <= max + most - 1
      BY <3>3, <3>4, <3>6, <3>7, RoomClaimed
    <3> QED
      BY <1>3, <1>4, <3>5, <3>8 DEF LimitInv
  <2> QED
    BY <1>8, <2>1, <2>2, <2>3 DEF LookupLeads, Leads
<1>10. CASE ProxyReuse(r)
  <2>1. ReuseLeads(r) /\ req[r].pc = "reuse" /\ r \in ProxyReqs
    BY <1>1, <1>10, ProxyReuseLeads DEF ProxyReuse, Called, InOrder, ProxyReqs
  <2>2. r \notin Building(n, proxy)' /\ r \notin Joining(n, proxy)'
    BY <2>1 DEF ReuseLeads, Leads, Building, Joining
  <2>3. PICK key, x : key = <<ServiceOf(r), req[r].rid, ClientOf(r)>> /\ x = req[r].net
    OBVIOUS
  <2>4. key[1] = ServiceOf(r) /\ key[3].proxy = HostOf(r)
    BY <2>1, <2>3, ProxyNamed
  <2>5. Networks(n, proxy, clients') \subseteq Claimed(n, proxy)
    <3>1. CASE Keeps(clients, clients')
      BY <3>1, NetworksKept DEF Claimed
    <3>2. CASE Enters(clients, clients', key, x) /\ (key[1] # n \/ key[3].proxy # proxy)
      BY <3>2, NetworksKept DEF Claimed
    <3>3. CASE Enters(clients, clients', key, x) /\ key[1] = n /\ key[3].proxy = proxy
      <4>1. x \in Claimed(n, proxy)
        BY <2>1, <2>3, <2>4, <3>3 DEF Claimed, Joining, Callers, Finished
      <4> QED
        BY <3>3, <4>1, NetworksAdded DEF Claimed
    <3> QED
      BY <2>1, <2>3, <3>1, <3>2, <3>3 DEF ReuseLeads
  <2> QED
    BY <1>5, <2>2, <2>5
<1>11. CASE NewProxyChain(r) \/ SetupProxyChain(r)
  <2>1. UNCHANGED clients /\ req[r].pc \in {"pick", "build"}
    BY <1>11 DEF NewProxyChain, SetupProxyChain, changeVars, serviceVars
  <2>2. Leads(r, "build") \/ Leads(r, "done") \/ Spawns(r)
    BY <1>11, NewProxyChainLeads, SetupProxyChainSpawns
  <2>3. r \in Building(n, proxy)' => r \in Building(n, proxy)
    BY <2>1 DEF Building, Callers, Finished, ServiceOf, HostOf, ProxyReqs
  <2>4. r \notin Joining(n, proxy)'
    BY <2>2 DEF Joining, Leads, Spawns
  <2> QED
    BY <1>5, <1>6, <2>1, <2>3, <2>4
<1>12. CASE SetupBackendChain(r)
  <2>1. Spawns(r) /\ CallOf[r][1] # "proxy" /\ UNCHANGED clients
    BY <1>1, <1>7, <1>8, <1>12, SetupBackendChainSpawns DEF SetupBackendChain, ProxyReuse
  <2> QED
    BY <1>5, <1>6, <2>1 DEF Building, Joining, Callers, ProxyReqs
<1>13. CASE Start(r) \/ ProxySticky(r) \/ BackendTrigger(r) \/ Join(r)
  <2>1. UNCHANGED clients
    BY <1>13 DEF Start, ProxySticky, BackendTrigger, Join, changeVars, serviceVars
  <2>2. \E pc \in {"lookup", "trigger", "build_backend", "done"} : Leads(r, pc)
    <3>1. CASE ProxySticky(r)
      BY <1>1, <3>1, AnswerLeads DEF ProxySticky
    <3> QED
      BY <1>1, <1>13, <3>1, StartLeads, BackendTriggerLeads, JoinLeads
  <2> QED
    BY <1>8, <2>1, <2>2
<1> QED
  BY <1>9, <1>10, <1>11, <1>12, <1>13, <1>4 DEF RequestStep

(* So does that of a task: an edge that is written was counted as a        *)
(* request that builds.                                                    *)
LEMMA EdgeLimit ==
    ASSUME CtlInv, NEW n, NEW proxy, proxy # None, NEW bound \in Nat, LimitInv(n, proxy, bound),
           NEW r \in Reqs, NEW i \in 1 .. MaxEdges, EdgeStep(r, i)
    PROVE  LimitInv(n, proxy, bound)'
<1>1. Called
  BY DEF CtlInv
<1>2. PICK pc, net : TaskMoves(r, i, pc, net)
  BY EdgeStepMoves
<1>3. /\ i \in DOMAIN req[r].edges
      /\ \/ req[r].pc = "join" /\ req'[r].pc = "join"
         \/ req[r].pc = "gone" /\ req'[r].pc \in {"gone", "done"}
  BY EdgeStepMoves
<1>4. \A s \in Reqs : s # r => req'[s] = req[s]
  BY <1>2 DEF TaskMoves
<1>5. \A s \in Reqs : req'[s].pc = "join" => OneProxyEdge(s)'
  <2>1. ASSUME NEW s \in Reqs, s # r, req'[s].pc = "join" PROVE OneProxyEdge(s)'
    BY <1>4, <2>1 DEF LimitInv, OneProxyEdge, ServiceOf, ClientOf
  <2>2. CASE req'[r].pc = "join"
    <3>1. OneProxyEdge(r)
      BY <1>3, <2>2 DEF LimitInv
    <3>2. OneProxyEdge(r)'
      BY <1>2, <1>3, <3>1 DEF TaskMoves, OneProxyEdge, ServiceOf, ClientOf
    <3> QED
      BY <2>1, <3>2
  <2> QED
    BY <2>1, <2>2
<1>6. req[r].edges[i].pc # "ok"
  BY DEF EdgeStep, EdgeReserve, EdgeAllocate, EdgeAcked, EdgeRollback, EdgeDrop, EdgeCommit,
     EdgeAbort, EdgeAborted, EdgeAt, Ended
<1>7. r \in Building(n, proxy)' => r \in Building(n, proxy)
  <2>1. \A j \in DOMAIN req[r].edges : req'[r].edges[j].pc # "ok" => req[r].edges[j].pc # "ok"
    BY <1>2, <1>6 DEF TaskMoves
  <2>2. /\ DOMAIN req'[r].edges = DOMAIN req[r].edges
        /\ \A j \in DOMAIN req[r].edges : req'[r].edges[j].client = req[r].edges[j].client
    BY <1>2 DEF TaskMoves
  <2> QED
    BY <1>3, <2>1, <2>2 DEF Building, Callers, Finished, ServiceOf, HostOf, ProxyReqs
<1>8. r \notin Joining(n, proxy)'
  BY <1>3 DEF Joining
<1>9. CASE Networks(n, proxy, clients') \subseteq Networks(n, proxy, clients)
  <2>1. /\ Claimed(n, proxy)' \subseteq Claimed(n, proxy)
        /\ Building(n, proxy)' \subseteq Building(n, proxy)
    <3>1. Networks(n, proxy, clients') \subseteq Claimed(n, proxy)
      BY <1>9 DEF Claimed
    <3> QED
      BY <1>4, <1>7, <1>8, <3>1, ClaimsKept
  <2> QED
    BY <1>5, <2>1, FewerClaims
<1>10. ~EdgeCommit(r, i) => Networks(n, proxy, clients') \subseteq Networks(n, proxy, clients)
  <2>1. CASE EdgeReserve(r, i)
    BY <2>1, ReserveEnters, NothingAdded DEF ReserveLeads
  <2>2. CASE EdgeDrop(r, i)
    BY <2>2, DropRemoves, NothingAdded
  <2>3. CASE \/ EdgeAllocate(r, i) \/ EdgeAcked(r, i) \/ EdgeRollback(r, i)
             \/ EdgeAbort(r, i) \/ EdgeAborted(r, i)
    BY <2>3, RequestsLeaveEntries, KeepsSame, NothingAdded
  <2> QED
    BY <2>1, <2>2, <2>3 DEF EdgeStep
<1>11. CASE EdgeCommit(r, i)
  <2>1. CommitLeads(r, i) /\ req[r].edges[i].pc = "commit" /\ req[r].pc = "join"
    BY <1>11, CommitEnters DEF EdgeCommit, EdgeAt
  <2>2. PICK key, x : key = Slot(r, i) /\ x = req[r].edges[i].net
    OBVIOUS
  <2>3. key[1] = req[r].edges[i].server /\ key[3] = req[r].edges[i].client
    BY <1>1, <1>3, <2>2, SlotIn
  <2>4. CASE UNCHANGED clients \/ ~IsProxy(req[r].edges[i].client)
    BY <1>9, <2>1, <2>2, <2>3, <2>4, KeepsSame, NothingAdded DEF CommitLeads
  <2>5. CASE Enters(clients, clients', key, x) /\ IsProxy(req[r].edges[i].client)
             /\ TaskBecomes(r, i, "ok", x)
    <3>1. OneProxyEdge(r)
      BY <2>1 DEF LimitInv
    <3>2. r \in ProxyReqs /\ key[1] = ServiceOf(r) /\ key[3] = ClientOf(r)
      BY <1>3, <2>3, <2>5, <3>1 DEF OneProxyEdge, ProxyReqs
    <3>3. key[3].proxy = HostOf(r)
      BY <3>2, ProxyNamed
    <3>4. CASE key[1] # n \/ key[3].proxy # proxy
      BY <1>9, <2>5, <3>4, NetworksKept
    <3>5. CASE key[1] = n /\ key[3].proxy = proxy
      <4>1. r \in Building(n, proxy)
        BY <1>3, <2>1, <2>5, <3>2, <3>3, <3>5 DEF Building, Callers, Finished
      <4>2. r \notin Building(n, proxy)'
        <5>1. \A j \in DOMAIN req'[r].edges : IsProxy(req'[r].edges[j].client) => req'[r].edges[j].pc = "ok"
          BY <1>3, <2>5, <3>1 DEF TaskBecomes, TaskMoves, OneProxyEdge
        <5> QED
          BY <1>3, <2>1, <5>1 DEF Building
      <4>3. PICK C, B, D, A : /\ C = Claimed(n, proxy) /\ B = Building(n, proxy)
                              /\ D = Claimed(n, proxy)' /\ A = Building(n, proxy)'
        OBVIOUS
      <4>4. D \subseteq C \cup {x}
        <5>1. Claimed(n, proxy)' = Networks(n, proxy, clients') \cup {req'[s].net : s \in Joining(n, proxy)'}
          BY DEF Claimed, Networks, KeysOf
        <5>2. ASSUME NEW s \in Joining(n, proxy)'
              PROVE  s \in Joining(n, proxy) /\ req'[s].net = req[s].net
          BY <1>4, <1>8, <5>2 DEF Joining, Callers, Finished, ServiceOf, HostOf, ProxyReqs
        <5>3. Networks(n, proxy, clients') \subseteq Networks(n, proxy, clients) \cup {x}
          BY <2>5, NetworksAdded
        <5> QED
          BY <4>3, <5>1, <5>2, <5>3 DEF Claimed
      <4>5. A \subseteq B \ {r}
        BY <1>4, <4>2, <4>3 DEF Building, Callers, Finished, ServiceOf, HostOf, ProxyReqs
      <4>6. /\ IsFiniteSet(C) /\ IsFiniteSet(B) /\ Cardinality(C) + Cardinality(B) <= bound
            /\ r \in B
        BY <4>1, <4>3 DEF LimitInv
      <4>7. IsFiniteSet(D) /\ Cardinality(D) \in Nat /\ Cardinality(C) \in Nat
            /\ Cardinality(D) <= Cardinality(C) + 1
        BY <4>4, <4>6, SizeAdded
      <4>8. IsFiniteSet(B \ {r}) /\ Cardinality(B \ {r}) = Cardinality(B) - 1
        BY <4>6, FS_RemoveElement
      <4>9. Cardinality(B) \in Nat
        BY <4>6, FS_CardinalityType
      <4>10. IsFiniteSet(A) /\ Cardinality(A) \in Nat /\ Cardinality(A) <= Cardinality(B) - 1
        BY <4>5, <4>8, SizeKept
      <4>11. Cardinality(D) + Cardinality(A) <= bound
        BY <4>6, <4>7, <4>9, <4>10
      <4> QED
        BY <1>5, <4>3, <4>7, <4>10, <4>11 DEF LimitInv
    <3> QED
      BY <3>4, <3>5
  <2> QED
    BY <2>1, <2>2, <2>4, <2>5 DEF CommitLeads
<1> QED
  BY <1>9, <1>10, <1>11

(* No file raises the limit past the greatest.                             *)
LEMMA NextLimited ==
    ASSUME CtlInv, NEW n, NEW max, LimitedTo(config, n, max), [Next]_vars,
           \A cfg \in Configs \cup {BootConfig} : LimitedTo(cfg, n, max)
    PROVE  LimitedTo(config', n, max)
<1>1. CASE UpdateFromFile
  <2>1. work[1][2] \in Configs
    BY <1>1, HeadCalled DEF CtlInv, UpdateFromFile, Due, WellCalled
  <2>2. PICK loaded \in Configs : loaded = work[1][2]
    BY <2>1
  <2>3. n \in DOMAIN config' =>
           \/ n \in DOMAIN loaded /\ config'[n] = loaded[n]
           \/ n \in DOMAIN config /\ config'[n] = config[n]
    BY <1>1, <2>2 DEF UpdateFromFile
  <2> QED
    BY <2>2, <2>3 DEF LimitedTo
<1>2. CASE RemoveService
  BY <1>2 DEF RemoveService, Without, Restrict, LimitedTo
<1>3. CASE UNCHANGED config
  BY <1>3 DEF LimitedTo
<1> QED
  BY <1>1, <1>2, <1>3, LeavesConfig

(* No step takes the claims past the bound.                                *)
LEMMA NextLimit ==
    ASSUME CtlInv, NEW n, NEW proxy, proxy # None, NEW max \in Nat \ {0}, NEW most \in Nat \ {0},
           AtOnce(n, proxy, most), LimitedTo(config, n, max),
           LimitInv(n, proxy, max + most - 1), [Next]_vars
    PROVE  LimitInv(n, proxy, max + most - 1)'
<1>1. PICK bound \in Nat : bound = max + most - 1
  OBVIOUS
<1>2. CASE \E r \in Reqs : Start(r) \/ RequestStep(r)
  BY <1>2, RequestLimit
<1>3. CASE \E r \in Reqs : \E i \in 1 .. MaxEdges : EdgeStep(r, i)
  <2>1. LimitInv(n, proxy, bound)'
    BY <1>1, <1>3, EdgeLimit
  <2> QED
    BY <1>1, <2>1
<1>4. ASSUME NEW r \in Reqs, CallerGone(r) \/ UNCHANGED req,
             Keeps(clients, clients')
      PROVE  LimitInv(n, proxy, bound)'
  <2>1. /\ \A s \in Reqs : s # r => req'[s] = req[s]
        /\ req'[r].pc \in {"done", "gone"} \/ req'[r] = req[r]
    BY <1>4, CallerGoneLeads DEF CtlInv
  <2>2. Networks(n, proxy, clients') \subseteq Claimed(n, proxy)
    BY <1>4, NetworksKept DEF Claimed
  <2>3. /\ r \in Building(n, proxy)' => r \in Building(n, proxy)
        /\ r \in Joining(n, proxy)' => req'[r].net \in Claimed(n, proxy)
    BY <2>1 DEF Building, Joining, Callers, Finished, ServiceOf, HostOf, ProxyReqs, Claimed
  <2>4. /\ Claimed(n, proxy)' \subseteq Claimed(n, proxy)
        /\ Building(n, proxy)' \subseteq Building(n, proxy)
    BY <2>1, <2>2, <2>3, ClaimsKept
  <2>5. \A s \in Reqs : req'[s].pc = "join" => OneProxyEdge(s)'
    BY <2>1 DEF LimitInv, OneProxyEdge, ServiceOf, ClientOf
  <2> QED
    BY <1>1, <2>4, <2>5, FewerClaims
<1>5. CASE \E r \in Reqs : CallerGone(r)
  <2>1. PICK r \in Reqs : CallerGone(r)
    BY <1>5
  <2>2. Keeps(clients, clients')
    BY <2>1, RequestsLeaveEntries, KeepsSame
  <2> QED
    BY <1>1, <1>4, <2>1, <2>2
<1>6. CASE \/ LockHolderStep \/ Event \/ UNCHANGED vars
           \/ \E host \in Flapping : NodeDisconnect(host)
  <2>1. UNCHANGED req /\ Keeps(clients, clients')
    BY <1>6, OthersKeep
  <2>2. CASE Reqs # {}
    <3>1. LimitInv(n, proxy, bound)'
      BY <1>4, <2>1, <2>2
    <3> QED
      BY <1>1, <3>1
  <2>3. CASE Reqs = {}
    <3>1. /\ Joining(n, proxy) = {} /\ Joining(n, proxy)' = {}
          /\ Building(n, proxy) = {} /\ Building(n, proxy)' = {}
      BY <2>3 DEF Joining, Building, Callers, ProxyReqs
    <3>2. Networks(n, proxy, clients') \subseteq Networks(n, proxy, clients)
      BY <2>1, NetworksKept
    <3>3. Claimed(n, proxy)' \subseteq Claimed(n, proxy)
      BY <3>1, <3>2 DEF Claimed, Networks, KeysOf
    <3>4. LimitInv(n, proxy, bound)'
      BY <1>1, <2>3, <3>1, <3>3, FewerClaims
    <3> QED
      BY <1>1, <3>4
  <2> QED
    BY <2>2, <2>3
<1> QED
  BY <1>2, <1>3, <1>5, <1>6 DEF Next

(* No network is claimed at first.                                         *)
LEMMA InitLimit ==
    ASSUME Init, NEW n, NEW proxy, NEW bound \in Nat
    PROVE  LimitInv(n, proxy, bound)
<1>1. \A r \in Reqs : req[r].pc = "idle"
  BY DEF Init, Idle
<1>2. Building(n, proxy) = {} /\ Joining(n, proxy) = {}
  BY <1>1 DEF Building, Joining, Callers, ProxyReqs
<1>3. Networks(n, proxy, clients) = {}
  BY DEF Init, Networks, KeysOf
<1>4. Claimed(n, proxy) = {}
  BY <1>2, <1>3 DEF Claimed
<1> QED
  BY <1>1, <1>2, <1>4, FS_EmptySet DEF LimitInv

(* If no file allows a service more than max networks, and at most most    *)
(* requests for it through one proxy are ever in progress at once, it      *)
(* never has more than max + most - 1 networks through that proxy,         *)
(* whatever else the controller does: handle_proxy_request compares with   *)
(* max_networks before it gives up the lock, so each request that is under *)
(* way can add one network beyond the limit, and no more. One request at a *)
(* time stays within it.                                                   *)
THEOREM LimitKept ==
    ASSUME NEW n, NEW proxy, proxy # None, NEW max \in Nat \ {0}, NEW most \in Nat \ {0},
           \A cfg \in Configs \cup {BootConfig} : LimitedTo(cfg, n, max)
    PROVE  Spec /\ []AtOnce(n, proxy, most)
               => [](Cardinality(Networks(n, proxy, clients)) <= max + most - 1)
<1> DEFINE Inv == /\ CtlInv /\ LimitedTo(config, n, max)
                  /\ LimitInv(n, proxy, max + most - 1)
           Enough == AtOnce(n, proxy, most)
           Within == Cardinality(Networks(n, proxy, clients)) <= max + most - 1
<1>1. Init => Inv
  <2> SUFFICES ASSUME Init PROVE Inv
    OBVIOUS
  <2>1. max + most - 1 \in Nat
    OBVIOUS
  <2>2. LimitedTo(config, n, max)
    BY DEF Init
  <2> QED
    BY <2>1, <2>2, InitCtl, InitLimit
<1>2. Inv /\ Enough /\ [Next]_vars => Inv'
  <2> SUFFICES ASSUME Inv, Enough, [Next]_vars PROVE Inv'
    OBVIOUS
  <2>1. CtlInv'
    BY NextCtl
  <2>2. LimitedTo(config', n, max)
    BY NextLimited
  <2>3. LimitInv(n, proxy, max + most - 1)'
    BY NextLimit
  <2> QED
    BY <2>1, <2>2, <2>3 DEF LimitedTo
<1>3. Inv => Within
  <2> SUFFICES ASSUME Inv PROVE Within
    OBVIOUS
  <2>1. PICK N, C : N = Networks(n, proxy, clients) /\ C = Claimed(n, proxy)
    OBVIOUS
  <2>2. IsFiniteSet(C) /\ N \subseteq C
    BY <2>1 DEF LimitInv, Claimed
  <2>3. Cardinality(N) <= Cardinality(C) /\ Cardinality(N) \in Nat /\ Cardinality(C) \in Nat
    BY <2>2, SizeKept
  <2>4. Cardinality(Building(n, proxy)) \in Nat
    BY FS_CardinalityType DEF LimitInv
  <2> QED
    BY <2>1, <2>3, <2>4 DEF LimitInv
<1> HIDE DEF Inv, Enough, Within
<1>4. Inv /\ []Enough /\ [][Next]_vars => []Inv
  BY <1>2, PTL
<1>5. Spec /\ []Enough => []Within
  BY <1>1, <1>3, <1>4, PTL DEF Spec
<1> QED
  BY <1>5 DEF Enough, Within
------------------------------------------------------------------------------
(* The upstream that a proxy is answered with. *)

ProxyClients == {c \in AllClients : IsProxy(c)}

(* A request that has found its client's network, and one that was         *)
(* answered, has a network and not a placeholder.                          *)
Usable(r) ==
    CallOf[r][1] = "proxy" =>
        /\ req[r].pc = "sticky" => req[r].net # 0
        /\ req[r].pc = "done" /\ req[r].resp[1] = "ok" => req[r].resp[2] # 0

(* The entry that a sole caller finds is established: a placeholder would  *)
(* be that of a task, of a request for the same client.                    *)
LEMMA FoundUp ==
    ASSUME CtlInv, ProxyInv, SoleCaller, Impatient = {}, SlotsOf(ProxyClients),
           NEW r \in ProxyReqs, req[r].pc = "lookup",
           NEW k \in DOMAIN clients, MyKey(r, k)
    PROVE  Established(k)
<1> SUFFICES ASSUME ~Established(k) PROVE FALSE
  OBVIOUS
<1>1. Called /\ Placed
  BY DEF CtlInv
<1>2. k \in AllKeys
  BY <1>1 DEF Placed
<1>3. k[3] \in ProxyClients
  <2>1. k[3] \in AllClients
    BY <1>2 DEF AllKeys
  <2> QED
    BY <2>1, ClientIsProxy DEF MyKey, ProxyClients
<1>4. PICK t \in Task : Owns(t, k)
  BY <1>3 DEF SlotsOf, OwnedIn
<1>5. PICK s \in Reqs, i \in 1 .. MaxEdges : t = <<s, i>>
  BY DEF Task
<1>6. t[1] = s /\ t[2] = i
  BY <1>5
<1>7. PICK e : e = req[s].edges[i]
  OBVIOUS
<1>8. /\ i \in DOMAIN req[s].edges
      /\ e.pc \in {"allocate", "sending", "unsent", "commit", "drop", "aborted"}
      /\ k = <<e.server, e.rid, e.client>>
  BY <1>4, <1>6, <1>7 DEF Owns
<1>9. e.server = ServiceOf(r) /\ e.client = ClientOf(r)
  BY <1>8 DEF MyKey
<1>10. e.pc # "aborted" /\ req[s].pc # "gone"
  BY <1>7, <1>8 DEF SlotsOf, AbortedWhenGone
<1>11. req[s].pc = "join"
  <2>1. ~AllEnded(req[s].edges)
    BY <1>7, <1>8, <1>10 DEF AllEnded, Ended
  <2> QED
    BY <1>1, <1>10, <2>1 DEF Called, InOrder
<1>12. OneProxyEdge(s)
  BY <1>11 DEF ProxyInv, Fresh
<1>13. /\ CallOf[s][1] = "proxy"
       /\ e.server = ServiceOf(s) /\ e.client = ClientOf(s)
  BY <1>7, <1>8, <1>9, <1>12, ClientIsProxy DEF OneProxyEdge
<1>14. s \in ProxyReqs /\ ~Finished(s) /\ ~Finished(r)
  BY <1>11, <1>13 DEF ProxyReqs, Finished
<1>15. s = r
  BY <1>9, <1>13, <1>14 DEF SoleCaller
<1> QED
  BY <1>11, <1>15

(* Every answer is one that was found usable.                              *)
LEMMA RequestUsable ==
    ASSUME CtlInv, ProxyInv, SoleCaller, Impatient = {}, SlotsOf(ProxyClients),
           NEW r \in Reqs, Usable(r), Start(r) \/ RequestStep(r)
    PROVE  Usable(r)'
<1>1. Called /\ Listed /\ IsConfig(config)
  BY DEF CtlInv
<1>2. SUFFICES ASSUME CallOf[r][1] = "proxy" PROVE Usable(r)'
  BY DEF Usable
<1>3. r \in ProxyReqs
  BY <1>2 DEF ProxyReqs
<1>4. ASSUME NEW up, up # 0, req'[r].resp = <<"ok", up>>, req'[r].pc = "done"
      PROVE  Usable(r)'
  BY <1>4 DEF Usable
<1>5. ASSUME req'[r].resp = <<"err">> \/ req'[r].pc \notin {"done", "sticky"}, req'[r].pc # "sticky"
      PROVE  Usable(r)'
  BY <1>5 DEF Usable
<1>6. CASE ProxyLookup(r)
  <2>1. req[r].pc = "lookup" /\ LookupLeads(r)
    BY <1>1, <1>6, ProxyLookupLeads DEF ProxyLookup
  <2>2. CASE req'[r].pc = "sticky"
    <3>1. PICK n, c, k : n = ServiceOf(r) /\ c = ClientOf(r) /\ k = EntryKey(n, c, clients)
      OBVIOUS
    <3>2. /\ IsRegistered(n) /\ Holds(n, c, clients)
          /\ req'[r].net = clients[k].net_id
      BY <2>1, <2>2, <3>1 DEF LookupLeads, Leads
    <3>3. k \in DOMAIN clients /\ k[1] = n /\ k[3] = c
      BY <1>1, <3>1, <3>2, RegisteredHolder
    <3>4. Established(k)
      BY <1>3, <2>1, <3>1, <3>3, FoundUp DEF MyKey
    <3>5. req'[r].net # 0
      BY <3>2, <3>4 DEF Established
    <3> QED
      BY <2>2, <3>5 DEF Usable
  <2>3. CASE req'[r].pc # "sticky"
    BY <1>5, <2>1, <2>3 DEF LookupLeads, Leads
  <2> QED
    BY <2>2, <2>3
<1>7. CASE ProxySticky(r)
  <2>1. req[r].pc = "sticky" /\ Answer(r, <<"ok", req[r].net>>)
    BY <1>7 DEF ProxySticky
  <2>2. req[r].net # 0
    BY <1>2, <2>1 DEF Usable
  <2>3. req'[r].pc = "done" /\ req'[r].resp = <<"ok", req[r].net>>
    BY <1>1, <2>1, AnswerLeads DEF Leads
  <2> QED
    BY <1>4, <2>2, <2>3
<1>8. CASE ProxyReuse(r)
  <2>1. req[r].pc = "reuse" /\ ReuseLeads(r)
    BY <1>8, ProxyReuseLeads DEF ProxyReuse
  <2>2. req[r].net # 0
    BY <2>1 DEF SlotsOf, Granted
  <2>3. CASE Leads(r, "stuck")
    BY <1>5, <2>3 DEF Leads
  <2>4. CASE Leads(r, "done") /\ req'[r].resp = <<"ok", req[r].net>>
    BY <1>4, <2>2, <2>4 DEF Leads
  <2> QED
    BY <2>1, <2>3, <2>4 DEF ReuseLeads
<1>9. CASE Join(r)
  <2>1. req'[r].pc = "done"
    BY <1>1, <1>9, JoinLeads DEF Leads
  <2>2. req'[r].resp # <<"err">> => \E up : up # 0 /\ req'[r].resp = <<"ok", up>>
    BY <1>1, <1>2, <1>9, JoinLeads
  <2> QED
    BY <1>4, <1>5, <2>1, <2>2
<1>10. CASE NewProxyChain(r)
  BY <1>5, <1>10, NewProxyChainLeads DEF Leads
<1>11. CASE SetupProxyChain(r)
  BY <1>5, <1>11, SetupProxyChainSpawns DEF Leads, Spawns
<1>12. CASE Start(r)
  BY <1>1, <1>5, <1>12, StartLeads DEF Leads
<1>13. ~BackendTrigger(r) /\ ~SetupBackendChain(r)
  BY <1>1, <1>2 DEF BackendTrigger, SetupBackendChain, Called, InOrder
<1> QED
  BY <1>6, <1>7, <1>8, <1>9, <1>10, <1>11, <1>12, <1>13 DEF RequestStep

(* No step gives a request a placeholder for a network.                    *)
LEMMA NextUsable ==
    ASSUME CtlInv, ProxyInv, SoleCaller, Impatient = {}, SlotsOf(ProxyClients),
           \A r \in Reqs : Usable(r), [Next]_vars
    PROVE  \A r \in Reqs : Usable(r)'
<1>1. ASSUME NEW s \in Reqs, req'[s] = req[s] PROVE Usable(s)'
  BY <1>1 DEF Usable
<1>2. ASSUME NEW r \in Reqs, \A s \in Reqs : s # r => req'[s] = req[s], Usable(r)'
      PROVE  \A s \in Reqs : Usable(s)'
  BY <1>1, <1>2
<1>3. ASSUME NEW r \in Reqs, Start(r) \/ RequestStep(r)
      PROVE  \A s \in Reqs : s # r => req'[s] = req[s]
  BY <1>3, RequestLeads DEF Leads, LookupLeads, ReuseLeads, Spawns
<1>4. CASE \E r \in Reqs : Start(r) \/ RequestStep(r)
  <2>1. PICK r \in Reqs : Start(r) \/ RequestStep(r)
    BY <1>4
  <2>2. Usable(r)'
    BY <2>1, RequestUsable
  <2> QED
    BY <1>2, <1>3, <2>1, <2>2
<1>5. CASE \E r \in Reqs : \E i \in 1 .. MaxEdges : EdgeStep(r, i)
  <2>1. PICK r \in Reqs, i \in 1 .. MaxEdges : EdgeStep(r, i)
    BY <1>5
  <2>2. /\ \E pc, net : TaskMoves(r, i, pc, net)
        /\ \/ req[r].pc = "join" /\ req'[r].pc = "join"
           \/ req[r].pc = "gone" /\ req'[r].pc \in {"gone", "done"}
    BY <2>1, EdgeStepMoves
  <2>3. req[r].pc # "gone"
    BY DEF SlotsOf, AbortedWhenGone
  <2>4. Usable(r)'
    BY <2>2, <2>3 DEF Usable
  <2> QED
    BY <1>2, <2>2, <2>4 DEF TaskMoves
<1>6. CASE \E r \in Reqs : CallerGone(r)
  BY <1>6 DEF CallerGone
<1>7. CASE UNCHANGED req
  BY <1>1, <1>7
<1> QED
  BY <1>4, <1>5, <1>6, <1>7, OthersKeep DEF Next

(* No request has a network at first.                                      *)
LEMMA InitUsable ==
    ASSUME Init
    PROVE  SlotsOf(ProxyClients) /\ \A r \in Reqs : Usable(r)
<1>1. \A r \in Reqs : req[r].pc = "idle"
  BY DEF Init, Idle
<1> QED
  BY <1>1, InitSlots DEF Usable

(* While no client has two requests for one service in progress and no     *)
(* caller gives up, handle_proxy_request never answers with the            *)
(* UNSPECIFIED address of a placeholder, whatever set-ups fail and         *)
(* whatever is torn down (Controller!UpstreamReady). Without the second    *)
(* condition it does: the run abandoned_call.                              *)
THEOREM UpstreamsReady ==
    Impatient = {} /\ Spec /\ []SoleCaller => []UpstreamReady
<1> DEFINE Inv == /\ Impatient = {} /\ CtlInv /\ ProxyInv /\ SlotsOf(ProxyClients)
                  /\ \A r \in Reqs : Usable(r)
<1>1. Impatient = {} /\ Init => Inv
  BY InitCtl, InitProxies, InitUsable
<1>2. Inv /\ SoleCaller /\ [Next]_vars => Inv'
  <2> SUFFICES ASSUME Inv, SoleCaller, [Next]_vars PROVE Inv'
    OBVIOUS
  <2>1. OneIn(ProxyClients)
    BY DEF OneIn, ProxyClients, ProxyInv, ProxyOnce, ProxyKeys
  <2>2. CalledOnce
    BY DEF CalledOnce
  <2>3. SlotsOf(ProxyClients)'
    BY <2>1, <2>2, NextSlots
  <2>4. CtlInv' /\ ProxyInv'
    BY NextCtl, NextProxies
  <2>5. \A r \in Reqs : Usable(r)'
    BY NextUsable
  <2> QED
    BY <2>3, <2>4, <2>5
<1>3. Inv => UpstreamReady
  BY DEF UpstreamReady, Usable
<1> HIDE DEF Inv
<1>4. Inv /\ []SoleCaller /\ [][Next]_vars => []Inv
  BY <1>2, PTL
<1> QED
  BY <1>1, <1>3, <1>4, PTL DEF Spec
==============================================================================
