# A TLA+ model of the nullnet gRPC controller

nullnet-grpc is the control plane of an overlay network. Hosts announce the
services they run; proxies ask for a service on behalf of external clients; the
controller brings up a chain of overlay networks (VLAN or VXLAN) from the proxy
to a replica of the service and on to each of its dependencies, counts how many
chains use each network, and tears networks down when the configuration, the
hosts or the clients change. Everything hangs on one shared map, updated by many
asynchronous tasks that release its lock while hosts answer.

This directory holds TLA+ modules that model this core, TLC configurations that
check them on small instances, and TLAPS proofs about the service map and its
network identifiers, the exchange of messages with the hosts, addresses and the
expiry of clients.
`PROJECT.json` records which lines of the source each definition stands for, the
runs, the hazards the properties are aimed at, and the findings.

    tlc -workers 2 -config lifecycle.cfg MCController
    tlapm NetLeasesProofs.tla

## 1. The system

| Component | State | Operations | Source |
|---|---|---|---|
| Identifier pool | next fresh identifier, freed set | allocate, free | `net_id_pool.rs` |
| Orchestrator | outbound channel per host, acknowledgements awaited, the pool | open/close a control channel, send a set-up and await the acknowledgement (30 s), send a teardown and free | `orchestrator.rs` |
| Service map | per service: dependency lists, triggers, timeout, limit, replicas; per replica: client entries with network and chain count | add/remove replicas and entries, choose a replica, find a network to share, build and walk chains | `services/service_info.rs`, `clients.rs`, `edge.rs` |
| Changes | none of its own | detect what a new file, service list or disconnect invalidates; tear the chains down | `services/changes.rs` |
| Request handlers | one task per request, one per edge | proxy request, backend trigger, services list, control channel | `nullnet_grpc_impl.rs` |
| Configuration | the file | load, derive the service map, watch for edits | `services/input.rs` |
| Timeouts | time of the next check | expire unused proxy clients | `timeout.rs` |
| Addresses | none | identifier to addresses and messages | `net.rs` |
| Debug graph, start-up, client library | none | | `graphviz.rs`, `main.rs`, `env.rs`, `nullnet-grpc-lib` |

How they interact. The map is one `Arc<RwLock<HashMap>>`. A request reads it,
decides, and spawns one task per edge of its chain. An edge task takes the write
lock to reserve a slot with a *placeholder* (network 0, address 0.0.0.0),
releases it, takes an identifier from the pool (a mutex of its own), asks both
hosts to install the network, takes the write lock again to replace the
placeholder, or, on failure, gives the identifier back and then removes the
placeholder. When all tasks have finished the request either answers or gives up
the chains the successful edges counted. Service lists, disconnects, edits of
the file and expiries take the write lock, detect changes and tear chains down
while holding it, awaiting the orchestrator in between.

What is hard: decisions made under one acquisition of the lock and acted on
under another; two requests on the same edge; a replica, a service or an entry
that disappears between two steps of an edge task; one edge of several failing;
teardown walks that rediscover from the *present* map which edges a chain
consists of; a network shared by several clients; identifiers freed too early or
never; walks with no bound under the lock; acknowledgements that come late or on
a channel that was replaced; sends to a full channel under the lock; callers that
give up in the middle; a loop that sleeps while what it waits for changes. The
list with source lines is under "hazards" in `PROJECT.json`.

What makes each component correct:

* pool and orchestrator: an identifier names one network at a time; a network in
  the map is installed on both hosts, and a host that can be reached keeps none
  that is gone; only a task aborted with its caller leaves an awaited
  acknowledgement behind;
* addresses: nothing wraps, and no two networks share a subnet;
* timeouts and the file: no client outlives the timeout its service has now, and
  the map follows the file;
* service map: a client is on one replica; an edge counts exactly the chains
  through it; a placeholder has an owner;
* changes: what comes down is exactly what was invalidated, nothing leaks, and
  the lock is released;
* requests: a client keeps its replica and network, gets a usable address, the
  limit on networks holds, and every call is answered.

## 2. The modules

EXTENDS goes from left to right; "=>" is a refinement, by INSTANCE.

    NetIdPool -- NetLeases -- MCNetLeases
              |            \- NetLeasesProofs (TLAPS)
              \- NetIdPoolProofs (TLAPS; used by the three proofs about identifiers)
    NetIdPool, ServiceInfo -- Changes -- Controller -- ControllerLeases -- ControllerInv
                                                       (=> NetLeases)
    ControllerInv -- MCController (ServicesToml)
                  \- ControllerTypes -- ControllerClients -- ControllerProofs
                     (all three TLAPS)
    NetIdPool, NetAddr -- Orchestrator -- OrchestratorInv -- MCOrchestrator
                          (=> NetLeases)                  \- OrchestratorSteps
                                                             -- OrchestratorProofs (TLAPS)
    ServicesToml -- TimeoutLoop -- Background -- MCBackground
                                              \- BackgroundProofs (TLAPS)

* **NetIdPool**: the pool as a record and operators on it.
* **NetLeases**: the abstract specification. Tasks take an identifier, settle it
  in the map, give it back or abandon it; entries share a wire; identifiers that
  nothing refers to are freed. It says nothing about services or chains.
* **ServiceInfo**: the map, flattened. `config` is what the file says of each
  service, `replicas` the replicas in registration order, `clients` the entries
  keyed by service, replica and client. Operators stand for the methods of
  `RegisteredServiceInfo` and the two chain walks.
* **Changes**: the call tree of `apply_changes` as a stack `work` of calls that
  are still to be made. `work = <<>>` iff nobody holds the write lock across
  steps. Each function of `changes.rs` is an action that replaces itself by the
  calls in its body, so that tasks that only need the pool can run between any
  two calls, as they can in the code. Loops over Rust maps run in any order.
* **Controller**: requests and edge tasks (`req[r]`, with a program counter per
  request and per edge), hosts' channels (`connected`, and `closing` for the
  disconnects whose clean-up has not got the lock yet), and the events. An
  action is what a task does between two points where another may run. A caller
  in `Impatient` may give up at any of these points (`CallerGone`): the handler
  is dropped, and the JoinSet aborts the edge tasks where they are.
* **ServicesToml**: `services_map`, a pure function. Every configuration of an
  instance is made by it.
* **ControllerLeases**: the refinement mapping to NetLeases. Entries with a
  network are leases; the identifiers edge tasks hold are in flight.
* **ControllerInv**: the inductive invariants of Controller and the conditions
  under which they hold. They are checked by the runs `lifecycle` (CtlInv), `race`
  (LeaseInv, NothingShared), `progress` (ProxyInv) and `reconfigure` (LeaseInv);
  SerialInv, OwnNetworks and LimitInv only serve the proofs. They are proved in
  **ControllerTypes** (what the operators of ServiceInfo return, and CtlInv),
  **ControllerProofs** (LeaseInv and the refinement) and **ControllerClients**
  (whose a placeholder is, where a client is, its network, the limit).
* **NetAddr**: `net.rs`. Addresses as four bytes, with the arithmetic of u32 and
  u8; what each end of a network installs (`Setup`) and what a teardown names
  (`Teardown`: a VLAN by identifier alone, a VXLAN end by identifier and side).
* **Orchestrator**: the exchange that Controller takes for one step, message by
  message. `clients`, `pending` and `pool` are the fields of the struct; a channel
  `<<host, n>>` is the n-th the host opened, with the messages queued in it, the
  acknowledgements on their way back and what the host has installed. A task
  stands for an edge task and, once its network is in the map, for that entry;
  `sweep` are the entries the holder of the write lock is tearing down. The caller
  of a task in `Impatient` may give up, and the task then ends at the await it has
  reached, in the middle of `send_net_setup` or `send_net_teardown` (`Aborted`):
  there is no guard that would take its entries out of `pending`. What the
  host does is external: it reads its newest channel in order, installs,
  removes, and acknowledges set-ups.
* **OrchestratorInv**: the inductive invariant of Orchestrator, in layers. It is
  checked by the run `exchange` and proved in **OrchestratorSteps** (what adding
  or reading a message does to a queue, whoever sends; types, and what each action
  does to a task, a call and a channel) and **OrchestratorProofs** (each layer, the
  arithmetic of NetAddr, and the theorems).
* **TimeoutLoop**: `check_timeouts` with a clock; an entry is the time since its
  last use. A proxy request is let in under the read lock (`AskFor`) and writes
  later: it refreshes its entry, joins a network, or reserves and commits a new
  one. The file may be another by then, so a client can come to stay under a
  service without a timeout; it is not a timed client, and does not expire.
* **Background**: the expiry loop together with the watcher of the file:
  events, debounce window, settling time, unreadable files, the update and its
  `notify_one`.
* **MCController**, **MCNetLeases**, **MCOrchestrator**, **MCBackground**:
  instances.

Operators introduced by a comment "A slip" are wrong versions of the definition
that follows. `PROJECT.json` pairs each with a run and a property: with the slip
in place TLC finds the property violated, so the property does depend on that
piece of code.

### Abstractions

* A network stands for its addresses, which the identifier determines; 0 is
  UNSPECIFIED. Ports, container names inside messages, set-up times and wording
  are left out. A replica still is a pair of host and container.
* In Controller the time of last use is not kept. Any set of proxy clients of
  services with a timeout may expire at any moment, which covers every clock.
  TimeoutLoop keeps the time and abstracts the rest of the map away.
* In Controller a set-up exchange is decided when the identifier is taken: if a
  host has no channel then, it can only be rolled back; otherwise it is later
  acknowledged or rolled back. Teardown messages are not tracked there:
  `send_net_teardown` frees the identifier whatever the hosts do, so only the
  freeing matters. Orchestrator has the messages.
* Orchestrator starts with one open channel per host. When a channel ends,
  nothing more is said about what its host keeps.
* In Background steps take no time: the clock advances when neither task has
  anything to do. Both 100 ms periods are one tick, timeouts a few.
* A caller does not give up while the clean-up of its failed chain holds the
  lock.
* A host has at most one disconnect waiting for its clean-up.
* A failed request is marked answered when it takes the lock for its clean-up;
  the clean-up itself is in `work` and nothing else can use the map meanwhile.
* A dependency walk that returns to a place it has been at never ends in the
  code. The model detects it after as many hops as there are replicas
  (`MaxWalk`); whoever walks then keeps the lock for ever, with what it had
  written before (a request that joins a network has its entry by then).
* `MaxNetworksKept` reads the limit as the code does: a network may be added while
  the service has fewer clients than the limit, or has none to share on the
  client's proxy. So a proxy always gets its first network, and the limit counts
  per proxy, which is weaker than what `input.rs:174` says of the service. The run
  has one proxy.

## 3. The runs

Overlap = FALSE in an instance of Controller means that an operation starts only
when all others are finished, as in the repository's tests; the properties then
speak of long sequences of operations. With Overlap = TRUE everything interleaves.
Repeat = TRUE lets calls be made again and again. There is no bound on the
length of a behaviour; only the numbers of services, hosts, users and
identifiers are bounded.

| Run | Instance | Checks |
|---|---|---|
| `net_leases` | 2 tasks, 2 wires, 2 users, 3 identifiers | TypeOK, Exclusive, Accounted: the invariant of the proofs on an instance where the pool is exhausted |
| `lifecycle` | A on two hosts, proxy chain A-B, trigger chain A-C-B, 2 users, 4 identifiers; lists, disconnects of a host and of the proxy, expiry, failed set-ups; sequential | CtlInv, LeakFree, ChainComplete, ChainsCounted, OneReplica, TriggerServed |
| `reconfigure` | chain A-B-C, five files, one of them with a limit of one network; 2 users and a trigger, 3 identifiers; sequential | LeakFree, ChainComplete, ChainsCounted, LeaseInv, MaxNetworksKept, Sticky, ImplementsLeases |
| `race` | a proxy request and a trigger on the same edge, a host of A that comes and goes, expiry, a trigger whose sender may give up; no limit, 2 identifiers for up to 3 networks; interleaved | TypeOK, PlaceholderOwned, LeaseInv, NothingShared, ImplementsLeases |
| `progress` | one user calling again and again, the host of B comes and goes for ever; interleaved, fair | UpstreamReady, ProxyInv, Answered, LockReleased |
| `exchange` | two hosts, two edges between them, channels of one message, one host whose channel breaks and is opened again, two networks one after the other, the caller of one edge may give up | TypeOK, PendingOwned, UsableWhenUp, NoOrphan, NoClash, ExchangeInv, ImplementsLeases, SweepEnds |
| `background` | A and B, one user, one request on its way, five contents of the file (A with a timeout of 2 or 1, or none and B an entry point instead; A gone and B with TIMEOUT, 3; one that does not parse), up to two queued events | TypeOK, NeverOverdue, Paced, EditLoaded |

Why these bounds. Two users make an edge shared, and meet a limit of one.
Two hosts of A give two sources for the same dependency and make a partial
removal different from a full one. Chains of two edges have a first, an inner
and a last service. The instances `lifecycle`, `reconfigure` and `race` ask for
more networks than there are identifiers, so the pool runs out in the middle of a
chain; `reconfigure` has room for one whole chain A-B-C or for two users of A-B,
one of whom joins the other under the limit. `lifecycle` has one replica of each
dependency, because with two the code leaves its own invariant (first finding
below).

`exchange`: a channel of one message is full as soon as there is one. The second
network takes the identifier the first one freed, while teardowns of the first
are queued, in a channel that may already have been replaced; three messages,
two channels and one reuse are what each of the races needs. The edges use
opposite directions, so a host is client of one and server of the other, and
one has its server in a container. An abandoned task counts as one of the networks
being set up (MaxSetups), so in the instance nothing is set up after an abort;
an abort can hit the second network while the first is torn down, and its messages
then arrive with nobody waiting. The proofs have no such bound. `background`:
TIMEOUT is three periods of the watcher, so an edit can be noticed, settled, read
and applied within one sleep; MaxAge is above every timeout, so ages that matter
are told apart. One request on its way is enough for an edit between its steps;
two events can be queued, so a save can be overtaken by the next.

Fairness. `progress`: tokio's RwLock queues its waiters and the runtime schedules
every task that can run, so a request whose next step is possible again and
again is eventually taken (strong fairness per request, and per disconnect
waiting for the lock). The holder of the lock waits only for channel sends, so it
goes on (weak fairness). Nothing is assumed about the hosts: a set-up may fail
every time, and clients, hosts and edits may come or not. `exchange`: tasks that
can run do run, and a channel with a message in it is read or ends. The latter is
what TCP and HTTP/2 give: a connection whose data is never acknowledged breaks.
A host that is connected, and simply stops reading, is excluded; it would block
a teardown, and with it the write lock, for ever. `background`: both tasks run
when they can, and time passes.

### What the code does against its documentation

Each of these runs ends in a counterexample; "findings" quotes the documentation.

| Run | Shows |
|---|---|
| `spread_dependency` | a service client ends up on two replicas of a dependency, although the search functions assume one |
| `deep_replica` | chain A-B-C: when a host of C leaves, the network B-C is dropped without being freed |
| `abandoned_call` | a caller that gives up leaves a placeholder that nobody removes; its next request is answered with 0.0.0.0 |
| `lost_edit` | a save within the debounce window is dropped and never loaded |
| `busy_loop` | with TIMEOUT=0 the expiry loop does not sleep |

The source announces some of what concurrent requests do:
`nullnet_grpc_impl.rs:83` has a TODO about them. The race run keeps to what the
code does promise under concurrency: identifiers, placeholders, types. `progress`
adds what it promises to a client that waits for its answer before it calls again.

The modules also have these behaviours, which need other instances of MCController
to be seen and have no run of their own:

* a second request of a client, made while the first is being set up, is answered
  with the placeholder's 0.0.0.0;
* a chain counted on a placeholder is lost when the placeholder is replaced, so a
  shared edge comes down with the first of its two chains;
* concurrent requests exceed `max_networks`, by one at most for each further
  request under way (`LimitKept` in section 4; two requests do reach one more), and
  one may join a network that was torn down between its lookup and its write, whose
  identifier then names another;
* with A and B depending on each other the walks along the dependencies never end
  and keep the write lock;
* a caller that gives up leaves its entries in `pending` for the life of the
  process, unless an acknowledgement comes after all;
* a client whose request was let in before an edit took the timeout of its service
  stays in the map until something else takes it down;
* a trigger is answered without its chain when another trigger's chain starts with
  the same edge;
* a network whose replica left during the set-up leaks when the service is still
  registered elsewhere;
* the teardown of a chain that ends in a service with dependencies of its own
  takes a chain off those as well.

Reading `net.rs` for NetAddr also showed that `setup` returns the server's address
for both ends, so `ClientInfo::client_net` holds the server's; only the debug graph
reads it.

## 4. The proofs

### Identifiers

`NetIdPoolProofs` says what the pool does: `AllocateGrants`, that an allocation
moves one identifier that was not in use into use, and `FreeReleases`, that
freeing identifiers that are in use takes exactly those out of use. Every proof
about identifiers rests on these two.

`NetLeasesProofs` proves for every range of identifiers (`PoolBounds`: the range
is not empty and does not contain 0) and all sets of tasks, wires and users:

* `LeasesTyped`: `Spec => []TypeOK`;
* `LeasesSafe`: `Spec => []Exclusive`: an identifier never names two networks;
* `LeasesAccounted`: `Spec => []Accounted`: no identifier that is referred to is
  in the pool.

`Exclusive` alone is not inductive: from a state in which the pool holds an
identifier that is in use, the next allocation breaks it. `Accounted` excludes
this (what is referred to is out of the pool) together with `WellFormed` (only
identifiers below `next_fresh` have been freed; `free` does not check it, so its
callers must keep it). `LeaseInv` is the conjunction with the types.

### The exchange with the hosts

`OrchestratorProofs` proves every safety property of the run `exchange`, and the
refinement, for any sets of hosts and tasks, any capacity of the channels, any
number of channels a host opens and of networks a task sets up one after the
other (`OrchestratorConstants`), and for both network types:

* `ExchangeSafe`: `Spec => []ExchangeInv`, the inductive invariant;
* `ExchangeTyped`, `PendingAccounted`, `UpIsUsable`, `NothingOrphaned`,
  `NetworksApart`: TypeOK, PendingOwned, UsableWhenUp, NoOrphan and NoClash.
  PendingOwned says that `pending` grows only by aborted tasks, and by two entries
  at most for each;
* `RefinesLeases`: `Spec => ImplementsLeases`, so that what `NetLeasesProofs`
  proves holds of the exchange as well.

None of UsableWhenUp, NoOrphan and NoClash is inductive: each is about what hosts
hold *now*, and what they will hold next depends on the messages that are
queued for them. So the invariant speaks of a channel's whole future.
`At(ends, messages, i)` are the ends at a place of a channel: 0 is what the host
has installed, i the i-th message still to be read. An end is `Spared` after a
place if no later message takes it away, and `Keeps` is what is spared: what the
host will hold when it has read everything. `OrchestratorSteps` begins by showing that this is
what the definition should say: reading a message does not change `Keeps`
(`KeepsReadOff`), an empty queue keeps what is installed (`KeepsNothing`), and
sending a message adds a set-up, or removes what a teardown names (`KeepsAdded`).

The layers of `ExchangeInv`, each of which uses the ones before it:

| Layer | Says | Needed because |
|---|---|---|
| TypeOK | types; capacity | |
| Routes | a host's entry in `clients` is its newest channel or none; a channel nobody reads is empty | `remove_client` goes by host, so an entry can be missing while the channel works, but never be an old one |
| Lookups | a call's channel is one of its host's; the teardown of an end goes by no older channel than its set-up | otherwise a set-up could overtake its teardown |
| Lent | identifiers of tasks are in use, and no two are the same | a second network with the same identifier would be torn down with the first |
| PendingOwned | an entry of `pending` is of the current round of a task in its set-up, or of one that was aborted in it | an acknowledgement wakes nobody else |
| Traffic | messages of a task's current round are about its current network, on the channel its call looked up | acknowledgements and set-ups of an earlier round must not be taken for the present one |
| Installed | until the teardown starts, no queued message takes an end of the network away, and its acknowledgement means it is installed | gives UsableWhenUp |
| Kept | a host that can be reached keeps only ends whose teardown has still to be sent | gives NoOrphan |
| Fresh | where a set-up is about to go, its identifier is not kept for another network | lets a set-up with a reused identifier be added |
| Separated | wherever two ends with one identifier are in a channel, a teardown is between them, unless they are of one network | gives NoClash: when the later one is installed the earlier one is gone |

The interplay is the reason the code is safe when it reuses an identifier at once:
the teardown of the old network is *queued* before `free`, the set-up of the new
one is queued after `allocate`, and a host reads a channel in order; if the
channel was replaced in between, what the host kept is lost with it. `Lookups`
and `Fresh` are where a replaced channel could break this argument, since a call
keeps the channel it has looked up.

`OrchestratorSteps` reduces the actions to what the layers depend on: `NextGoes`
(a task keeps its network and round, or starts a new round), `NextStays`,
`NextCalls` (how a call's state and channel change) and `NextChannel` (a
channel stays as it is, is emptied, takes one set-up or one teardown, or its
first message is read). A layer then has a case for each of these
instead of one for each action. For NoClash, `SubnetsDistinct` turns
"one subnet" into "one identifier".

`ImplementsLeases` is proved step by step: allocation is `Take`, a `Commit` is
`Settle`, `Abandon` (the replica is gone and nobody frees the identifier) or a
stutter, `Aborted` is `Abandon`, `RemoveEntry` turns the entry back into an identifier that
is only in use, `TeardownFree` is `GiveBack` or `Retire`; everything else leaves the
pool, `Flight` and `Live` alone.

### The controller

`ControllerTypes` and `ControllerProofs` are about the whole of Controller: all
requests, edge tasks, disconnects, files, lists and expiries, interleaved in any
way, for any set of services and hosts and any files and lists. The assumptions
(`ControllerConstants`) are that there are finitely many services, that the files
are such as `services_map` makes (dependency lists and chains are sequences of names, `IsConfig`), that no
replica is listed twice at boot and a service without configuration has none,
and that an instance's calls are proxy calls or triggers.

* `CtlInvariant`: `Spec => []CtlInv`, and `ControllerTyped`: `Spec => []TypeOK`;
* `LeasesKept`: `(NoLimits \/ ~Overlap) /\ Spec => []LeaseInv`;
* `ControllerLeasing`: `(NoLimits \/ ~Overlap) /\ Spec => ImplementsLeases`;
* `NetworksUnshared`: `NoLimits /\ Spec => []NothingShared`.

`NoLimits` says that no file sets `max_networks`; then everything may interleave.
`~Overlap` says that one operation runs at a time; then there may be any limits.
With a limit and concurrent requests the first two are false: a request may join a
network that was torn down between its lookup and its write (section 3).

TypeOK is not inductive. That an entry is under a listed replica
(`Placed`) and that a service without configuration has no replica (`Listed`)
depend on what the holder of the lock has still to do, so CtlInv has to describe the
stack of calls (`Stacked`): every call has the arguments it needs, also
those inside loops that have not been opened yet (`WellCalled`); `remove_service`
is due only when its service has no replicas or the call that unregisters it is
above it; and the calls that come between the choice of the clients to take down
and the end of their networks, `teardown_networks`, are only ones that remove
these clients and decrement dependency edges (`Ordered`).

LeaseInv has the parts that make identifiers safe:

| Part | Says | Needed because |
|---|---|---|
| Owned | an entry's network is out of the pool, and another entry that has it is under the same replica and of a client of the same proxy | dependency edges never share: the last chain of one frees its network without looking for others (`decrement_chain`) |
| Lent | what an edge task holds is out of the pool, and neither another task nor an entry has it | an edge task keeps it while others change the map and the pool |
| Doomed | a network a teardown has still to look at is out of the pool, no task holds it, and only proxy entries of that service have it | `teardown_networks` runs after the entries are gone; in between tasks take identifiers, and decrements free others |

LeaseInv is not inductive by itself, for two reasons. A request that joins a network
must find it still there, and `decrement_chain` must not free a network that
somebody has joined. It looks for no others, and it is called for a *proxy* client
too: by the request whose chain failed, for its own edge if that was up. There are
two ways to exclude both, and the theorems have a case for each:

* without limits nobody ever joins (`NothingShared`: no request is in `reuse`, and
  every network has one entry);
* one operation at a time, what the lookup found still holds (`Found`, part of
  SerialInv), and `OwnNetworks` holds: what a request has set up for its client
  is that client's alone while the request waits for its other edges (`SetUp`), and
  so is every network that a decrement on the stack may free (`Undone`). A failed
  request passes the one on to the other when it takes the lock (`JoinUndoes`);
  ProxyInv says that the entry its task replaces is its own placeholder.

What a step does to sharing is again one fact: unless it joins a network, it drops
entries or writes one with a network nobody has (`NewAlone`, `EntriesAlone`), so
whoever had a network alone still does (`StaysUnshared`).

`Doomed` is why the order of the stack matters: had a call between the two freed
such a network, it could be handed to an edge task and then be freed under it.
`Ordered` leaves only decrements of dependency edges there, and by
`Doomed` these have other networks.

A step that takes, gives back or settles an identifier is `Take`, `GiveBack` or
`Settle`; one that joins a network is `Share`; `decrement_chain` and `teardown_networks` are `Retire`; a task that is
aborted, or comes back when its replica is gone, is `Abandon`, and so is not
a defect of identifiers but a leak. `FlightMoves` reduces the steps of an
edge task, and `NothingNew` and `NothingUndone` those of the stack, to what LeaseInv
depends on.

Both modules need what recursive definitions of ServiceInfo return: chains,
walks, the replicas that are left. Induction over a predicate is not available
to the prover, but induction over a *set* of numbers is enough:
`Least` (every set of numbers has a least element) gives `Reaches`, and `Recursion`,
that a function defined by recursion exists and has values in a given set. From
these follow `AmongKeeps`, `AddChainsKeeps`, `ChainTyped`, `LinearWalkTyped` and
`DepWalkTyped`, which say of what kind the results are, not which
edges a walk finds.

### The clients

`ControllerClients` proves of the same module, for the same constants, what a
client may count on. Each theorem names the condition under which it holds, and
none of the conditions can be left out:

| Condition | Says | Without it |
|---|---|---|
| `SoleCaller` | no client has two requests for one service in progress | each of the two finds no entry and picks a replica of its own (section 3) |
| `SingleHome` | every service that some file makes a dependency runs on one replica at most | `spread_dependency` |
| `CalledOnce`, `Impatient = {}` | a caller that may give up does not call again; no caller gives up | `abandoned_call` |
| `LimitedTo`, `AtOnce` | no file allows a service more than max networks; at most so many requests for it through one proxy are in progress at once | the limit is a new one, or every one of the requests adds a network |

SoleCaller, SingleHome and AtOnce are conditions on the environment that are stated
of behaviours (`Spec /\ []SoleCaller => ...`): everything else, requests of other
clients, triggers, teardowns, disconnects, edits, may interleave in any way.

* `ProxyClientOnce`: `Spec /\ []SoleCaller => []ProxyOnce`: no client of a proxy is
  on two replicas of a service;
* `SessionsSticky`: `Spec /\ []SoleCaller => Sticky`: with a network it keeps replica
  and network until its entry is removed;
* `ClientsOnOneReplica`: `Spec /\ []SoleCaller /\ []SingleHome => []OneReplica`: the
  same of dependency edges, the invariant the search functions rely on;
* `PlaceholdersOwned`: `CalledOnce /\ Spec /\ []OneReplica => []PlaceholderOwned`,
  and, with the two conditions above in place of OneReplica,
  `PlaceholdersOwnedOnOneReplica`: nothing is left behind by a set-up;
* `UpstreamsReady`: `Impatient = {} /\ Spec /\ []SoleCaller => []UpstreamReady`: a
  proxy request is never answered with a placeholder's address;
* `LimitKept`: with the limit max and `most` requests at once, a service never has
  more than max + most - 1 networks through one proxy. One request at a time keeps
  the limit; each further one may exceed it by one, since it was let in between
  another's lookup and its write, and there is no other way to exceed it.

`handle_proxy_request` looks the client up, picks a replica and writes the
placeholder in separate critical sections, so what it has read must be shown to
hold when it is used. That is what the inductive invariants add:

| Invariant | Says | Needed because |
|---|---|---|
| ProxyInv | ProxyOnce, and `Fresh`: from the lookup until its own edge task reserves, the client of a request has no entry, and until that task has ended only its placeholder | ProxyOnce alone breaks when a request that picked a replica writes its entry. No other task writes this client's entry: teardowns only remove, and a chain has one proxy edge (`OneProxyEdge`) |
| OnDependencies | a dependency edge, in the map or in a task, leads to a service that some file makes a dependency | a trigger that was looked up in an old file still builds its chain under a new one |
| SlotsOf | a placeholder has its task (`OwnedIn`); a task that installs a network holds an identifier, not 0; a task is aborted only if its caller may give up | a rollback removes the *first* entry of its client, so the task must be known to have written that one: this is where OneReplica is used. A `Commit` with network 0 would be a placeholder without a task |
| Usable | what a request found for its client is a network | the answer is read from the entry before and given after |
| LimitInv | the networks through the proxy, with those about to be joined (`Claimed`) and one for each request that has found room and not used it (`Building`), are within the bound | the networks that are up say nothing about what requests under way will add |

A request that finds room (`RoomClaimed`) has counted fewer than max clients on the
service, or nothing to share on the proxy; what else is claimed then belongs to
other requests, of which there are fewer than `most`. A network that is joined is
claimed already, although it may be gone by then, and a network that is written
takes the place of its request (`NetworksAdded`, `NetworksCounted`).

The refinement for operations that come one at a time (above) also needs what is
proved here of `Serial`: while a request is in progress no other is, no disconnect
waits and nobody holds the lock. It has one exception: a request that joins a
network, and whose dependency walk never ends, keeps the lock (`Stuck`,
`EndlessWalk`).

As with identifiers, what a step does to the entries comes down to a few forms:
some are dropped and the others keep their networks (`Keeps`), or one is written,
under a replica that is there (`Enters`). `CallsKeep` shows that everything done
under the lock by apply_changes is of the first form, for any walks; so these
proofs do not depend on which edges a walk finds.

### Addresses

`OrchestratorProofs` begins with `net.rs` and proves for both network types and every identifier up to
`LastNetId` (`NetTypes` is its only assumption):

* `AddressesExact`: the offset of a block fits the three lower bytes, the slot
  never carries out of the last one, and the address is the base plus the offset
  plus the slot, so neither the dropped byte nor the u8 additions lose anything;
* `SubnetsDistinct`: two addresses are in one subnet exactly when they belong to
  the same identifier.

The argument is arithmetic: a width of 4 or 8 divides 256, so a block does not
straddle a byte (`LastByte`), and a number below 2^24 is given by its three lower
bytes (`ThreeBytes`). `NetworksApart` rests on `SubnetsDistinct`: two identifiers,
all that the run `exchange` has, could only illustrate it.

### Expiry

`BackgroundProofs` proves for all files whose timeouts are numbers or missing
(`BackgroundConstants`), all users and all periods of the watcher:

* `BackgroundTyped`: `Spec => []TypeOK`; in it, that every client is of a service in
  the loaded file. This is not the same as the service having a timeout: a request
  looks for that under the read lock and writes later;
* `ExpirySafe`: `Spec => []NeverOverdue`: no client outlives its timeout;
* `NeverSpins`: if `DefaultTimeout # 0` then `Spec => Paced`; the run `busy_loop`
  shows that the condition is needed.

`NeverOverdue` is not inductive: a tick breaks it unless the loop wakes before.
`ExpiryInv` adds `WakesInTime`, that while the loop sleeps and no permit is
stored, what is left of the sleep is within every timeout and, added to a
client's age, within its own; and `Swept`, that the loop left nothing that was
due when it plans the next sleep. The first clause of `WakesInTime` is what the
cap in `nearest_timeout` ("so new clients are caught within one period") is for:
without it a client who comes during the sleep would be overlooked. An update of
the file may break the second, which is why it stores a permit; that a client
which stays is not older than its new timeout follows from `Tightened`. Ages
stop at `MaxAge`, of which the proof assumes nothing but that it is a number.

### Only model-checked

The liveness properties (`Answered`, `LockReleased`, `SweepEnds`, `EditLoaded`):
they depend on fairness, which the prover does not handle.

Of Controller:

* `LeakFree`, `ChainComplete`, `ChainsCounted` and `TriggerServed`. They do not hold
  when requests overlap, and LeakFree and ChainsCounted not for every
  configuration either (section 3). What they say depends on *which* edges a
  walk finds, hop by hop, and on teardowns of whole chains: this is induction over
  data, and the module's recursive functions give it only for sets (`Reaches`).

## 5. Not modelled

The debug graph, start-up, environment, generated protocol code and the client
library keep no state of the controller. Ports, container names and interface
names in messages are data no decision depends on. What a host does after its channel
broke (its own clean-up is in another repository) is left out.

A call that is dropped while it holds the write lock: `apply_changes` is awaited
inside the handler, so a caller that gives up during the clean-up of its failed
chain, or a host that gives up its ServicesList in the middle of a teardown, ends it
between two messages, with changes detected and not applied and networks out of the
map that are not freed. In the model apply_changes runs to its end once it has
begun; the runs and theorems about Controller say nothing of these calls.

`services_map` is used by every instance but not compared with a second
definition: it is short, and a reference would be the same text.

## 6. Plan

1. (done) NetIdPool, NetLeases and its proofs; ServiceInfo, Changes, Controller,
   ServicesToml; the refinement.
2. (done) Orchestrator and its refinement of NetLeases; NetAddr and its proofs;
   TimeoutLoop, Background and their proofs; dropped calls, in Controller and in
   Orchestrator; answered triggers.
3. (done) The inductive invariant of Orchestrator, all its safety properties, and
   its refinement of NetLeases.
4. (done) Proofs about Controller: what the operators of ServiceInfo return, the
   types of the map and of the stack, and the refinement of NetLeases without
   limits.
5. (done) The clients: placeholders, replicas, sessions, the limit, addresses in
   answers.
6. (done) The refinement with limits when operations do not overlap.
7. apply_changes dropped in the middle (section 5), which would split each call on
   the stack at its awaits.
8. Which edges a teardown walk visits on a configuration without repeated
   services; LeakFree and ChainsCounted rest on it.
