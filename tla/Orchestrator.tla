----------------------------- MODULE Orchestrator -----------------------------
(***************************************************************************)
(* Control channels (src/orchestrator.rs), message by message: what        *)
(* Controller takes for one step, the set-up of a network on two hosts,    *)
(* and the teardowns, whose messages Controller leaves out.                *)
(*                                                                         *)
(* A task sets up one edge again and again: it takes an identifier, sends  *)
(* a set-up to both hosts, waits for both acknowledgements, and enters the *)
(* network in the service map, or sends teardowns and frees the identifier. *)
(* When the caller gives up, the task ends where it is: what it has sent,  *)
(* its identifier and its entries of pending stay.                         *)
(* Networks in the map are torn down by whoever holds the write lock.      *)
(*                                                                         *)
(* A host's channel is a bounded queue.  A host that opens a new one has   *)
(* given the old one up, but the controller may learn of that much later:  *)
(* until then the old queue takes messages that nobody reads.              *)
(***************************************************************************)
EXTENDS NetIdPool, NetAddr, Sequences, FiniteSets, FiniteSetsExt

CONSTANTS
    Hosts,
    Tasks,
    EndsOf,      \* EndsOf[t]: the hosts of the task's edge, [client, server]
    DockerOf,    \* DockerOf[t]: the container of its server, or None
    Capacity,    \* of an outbound channel (64)
    Flapping,    \* hosts whose channel may break
    Impatient,   \* tasks whose caller may give up
    MaxOpens,    \* MaxOpens[h]: bound on the channels host h opens
    MaxRounds,   \* bound on the networks set up, one after another
    MaxSetups    \* bound on the networks being set up, or given up, at a time

ASSUME OrchestratorConstants ==
    /\ EndsOf \in [Tasks -> [Sides -> Hosts]]
    /\ DOMAIN DockerOf = Tasks
    /\ Capacity \in Nat \ {0}
    /\ Flapping \subseteq Hosts
    /\ Impatient \subseteq Tasks
    /\ MaxOpens \in [Hosts -> Nat \ {0}]
    /\ MaxRounds \in Nat /\ MaxSetups \in Nat
    /\ MaxNetId <= LastNetId

Channels == UNION {{h} \X (1 .. MaxOpens[h]) : h \in Hosts}

(* clients.get yields no channel, or one. *)
ASSUME NoneIsNoChannel == None \notin Channels

VARIABLES
    pool,       \* Orchestrator.net_id_pool
    clients,    \* Orchestrator.clients: the channel messages to a host go to
    pending,    \* Orchestrator.pending: messages whose sender is waiting
    opened,     \* opened[h]: how many channels host h has opened
    inbound,    \* inbound[ch]: the task reading the acknowledgements of ch
    queue,      \* queue[ch]: messages sent to ch and not read
    acks,       \* acks[ch]: acknowledgements on their way back
    held,       \* held[ch]: the ends the host has installed for ch
    closing,    \* hosts whose closed channel waits to clean the map up
    sweep,      \* networks the holder of the write lock has still to tear down
    task        \* task[t]: [pc, round, net, leg, ch, send]

hostVars == <<opened, inbound, queue, acks, held>>
vars == <<pool, clients, pending, opened, inbound, queue, acks, held, closing, sweep, task>>

NoSend == [pc |-> "none", ch |-> None]

(* leg and ch are where send_net_teardown is: at the client's end, at the  *)
(* server's, or past both; ch is the channel it has looked up.             *)
IdleTask == [pc |-> "idle", round |-> 0, net |-> 0, leg |-> "client", ch |-> None,
             send |-> [side \in Sides |-> NoSend]]

(* Every host has opened its first channel. *)
Init ==
    /\ pool = NewPool
    /\ clients = [h \in Hosts |-> <<h, 1>>]
    /\ pending = {}
    /\ opened = [h \in Hosts |-> 1]
    /\ inbound = [ch \in Channels |-> IF ch[2] = 1 THEN "open" ELSE "unused"]
    /\ queue = [ch \in Channels |-> <<>>]
    /\ acks = [ch \in Channels |-> {}]
    /\ held = [ch \in Channels |-> {}]
    /\ closing = {}
    /\ sweep = {}
    /\ task = [t \in Tasks |-> IdleTask]

Broken(ch) == inbound[ch] \in {"ended", "removed"}
Put(ch, message) == queue' = [queue EXCEPT ![ch] = Append(@, message)]

(* A slip: the channel takes any number of messages. *)
Unbounded(ch) == ~Broken(ch)

Room(ch) == ~Broken(ch) /\ Len(queue[ch]) < Capacity

(* The write lock of the service map is held from the start of a sweep     *)
(* until its last network is down.                                         *)
LockFree == sweep = {}
------------------------------------------------------------------------------
(* send_net_setup, once for each end.                                      *)

(* A slip: the message is identified by what it is about. *)
MsgOfEdge(t, side) == <<t, side>>

(* Uuid::new_v4: no other message ever has it. *)
MsgId(t, side) == <<t, side, task[t].round>>

AtSend(t, side, pc) == task[t].pc = "setup" /\ task[t].send[side].pc = pc
SendGoto(t, side, pc) == task' = [task EXCEPT ![t].send[side].pc = pc]

(* allocate_net_id. *)
AllocateNetId(t) ==
    /\ task[t].pc = "idle" /\ MapThenSumSet(LAMBDA u : task[u].round, Tasks) < MaxRounds
    /\ Cardinality({u \in Tasks : task[u].pc \notin {"idle", "up", "down"}}) < MaxSetups
    /\ \E id \in NetIds :
          /\ IsNextId(pool, id)
          /\ pool' = Allocate(pool, id)
          /\ task' = [task EXCEPT ![t] = [IdleTask EXCEPT
                 !.pc = "setup", !.round = task[t].round + 1, !.net = id,
                 !.send = [side \in Sides |-> [NoSend EXCEPT !.pc = "lookup"]]]]
    /\ UNCHANGED <<clients, pending, hostVars, closing, sweep>>

(* The channel the host has now is kept through the rest of the call. That *)
(* the message cannot be built, which would leave the entry behind, does   *)
(* not happen: the length of the prefix is fixed.                          *)
SetupLookup(t, side) ==
    /\ AtSend(t, side, "lookup")
    /\ LET ch == clients[EndsOf[t][side]]
       IN  IF ch = None
               THEN SendGoto(t, side, "none") /\ UNCHANGED pending
               ELSE /\ task' = [task EXCEPT ![t].send[side] = [pc |-> "send", ch |-> ch]]
                    /\ pending' = pending \cup {MsgId(t, side)}
    /\ UNCHANGED <<pool, clients, hostVars, closing, sweep>>

(* outbound.send waits for room, with no limit on the time. *)
SetupSend(t, side) ==
    /\ AtSend(t, side, "send")
    /\ LET ch == task[t].send[side].ch
       IN  IF Broken(ch)
               THEN /\ SendGoto(t, side, "none")
                    /\ pending' = pending \ {MsgId(t, side)}
                    /\ UNCHANGED queue
               ELSE /\ Room(ch)
                    /\ Put(ch, Setup(MsgId(t, side), side, task[t].net, DockerOf[t]))
                    /\ SendGoto(t, side, "wait")
                    /\ UNCHANGED pending
    /\ UNCHANGED <<pool, clients, opened, inbound, acks, held, closing, sweep>>

(* 30 s without an answer; an acknowledgement may still get in before the  *)
(* entry is removed from pending.                                          *)
SetupTimeout(t, side) ==
    /\ AtSend(t, side, "wait")
    /\ SendGoto(t, side, "expired")
    /\ UNCHANGED <<pool, clients, pending, hostVars, closing, sweep>>

(* A slip: the entry stays. *)
ExpireOnly(t, side) ==
    /\ AtSend(t, side, "expired")
    /\ SendGoto(t, side, "none")
    /\ UNCHANGED <<pool, clients, pending, hostVars, closing, sweep>>

SetupExpired(t, side) ==
    /\ AtSend(t, side, "expired")
    /\ SendGoto(t, side, "none")
    /\ pending' = pending \ {MsgId(t, side)}
    /\ UNCHANGED <<pool, clients, hostVars, closing, sweep>>

(* net_chain_setup goes on when both calls have returned. *)
Returned(t) ==
    /\ task[t].pc = "setup"
    /\ \A side \in Sides : task[t].send[side].pc \in {"acked", "none"}
BothAcked(t) == \A side \in Sides : task[t].send[side].pc = "acked"

(* The network is entered in the map. It is torn down if its service is    *)
(* gone, and forgotten if the service is there but not the replica: no     *)
(* entry is written, and nobody frees the identifier.                      *)
Commit(t) ==
    /\ Returned(t) /\ BothAcked(t) /\ LockFree
    /\ \E pc \in {"up", "rollback", "abandoned"} : task' = [task EXCEPT ![t].pc = pc]
    /\ UNCHANGED <<pool, clients, pending, hostVars, closing, sweep>>

(* A slip: only the server is told, as if the client never had its end. *)
RollbackServer(t) ==
    /\ Returned(t) /\ ~BothAcked(t)
    /\ task' = [task EXCEPT ![t].pc = "rollback", ![t].leg = "server"]
    /\ UNCHANGED <<pool, clients, pending, hostVars, closing, sweep>>

Rollback(t) ==
    /\ Returned(t) /\ ~BothAcked(t)
    /\ task' = [task EXCEPT ![t].pc = "rollback"]
    /\ UNCHANGED <<pool, clients, pending, hostVars, closing, sweep>>

(* The caller gives up, which drops net_chain_setup and with it the JoinSet *)
(* of its tasks: each ends at the await it has reached, in send_net_setup  *)
(* or in send_net_teardown, and nothing is undone.                         *)
Aborted(t) ==
    /\ t \in Impatient /\ task[t].pc \in {"setup", "rollback"}
    /\ task' = [task EXCEPT ![t].pc = "abandoned"]
    /\ UNCHANGED <<pool, clients, pending, hostVars, closing, sweep>>
------------------------------------------------------------------------------
(* send_net_teardown: to the client's host, to the server's, then free.    *)

TearingDown(t) == task[t].pc \in {"rollback", "down"}

Leg(t) == task[t].leg
NextLeg(leg) == IF leg = "client" THEN "server" ELSE "free"
LegDone(t) ==
    task' = [task EXCEPT ![t].leg = NextLeg(@), ![t].ch = None]

(* A host without a channel is left out. *)
TeardownLookup(t) ==
    /\ TearingDown(t) /\ Leg(t) \in Sides /\ task[t].ch = None
    /\ LET ch == clients[EndsOf[t][Leg(t)]]
       IN  IF ch = None THEN LegDone(t) ELSE task' = [task EXCEPT ![t].ch = ch]
    /\ UNCHANGED <<pool, clients, pending, hostVars, closing, sweep>>

(* A slip: the call does not notice that the channel is closed. *)
TeardownWait(t) ==
    /\ TearingDown(t) /\ task[t].ch # None
    /\ Room(task[t].ch)
    /\ Put(task[t].ch, Teardown(Leg(t), task[t].net))
    /\ LegDone(t)
    /\ UNCHANGED <<pool, clients, pending, opened, inbound, acks, held, closing, sweep>>

(* An error of a closed channel is ignored; a full one is waited for. *)
TeardownSend(t) ==
    /\ TearingDown(t) /\ task[t].ch # None
    /\ IF Broken(task[t].ch)
           THEN UNCHANGED queue
           ELSE /\ Room(task[t].ch)
                /\ Put(task[t].ch, Teardown(Leg(t), task[t].net))
    /\ LegDone(t)
    /\ UNCHANGED <<pool, clients, pending, opened, inbound, acks, held, closing, sweep>>

(* Slips: the identifier is free before the hosts know, or once per host. *)
FreeFirst(t) ==
    /\ TearingDown(t) /\ Leg(t) = "server" /\ task[t].ch = None
    /\ pool' = FreeAll(pool, {task[t].net})
    /\ task' = [task EXCEPT ![t] = [IdleTask EXCEPT !.round = task[t].round]]
    /\ sweep' = sweep \ {t}
    /\ UNCHANGED <<clients, pending, hostVars, closing>>
FreeTwice(t) ==
    /\ TearingDown(t) /\ Leg(t) # "client" /\ task[t].ch = None
    /\ pool' = FreeAll(pool, {task[t].net})
    /\ IF Leg(t) = "server"
           THEN LegDone(t) /\ UNCHANGED sweep
           ELSE /\ task' = [task EXCEPT ![t] = [IdleTask EXCEPT !.round = task[t].round]]
                /\ sweep' = sweep \ {t}
    /\ UNCHANGED <<clients, pending, hostVars, closing>>

(* The task is over, or the sweep goes on with the next network. *)
TeardownFree(t) ==
    /\ TearingDown(t) /\ Leg(t) = "free"
    /\ pool' = FreeAll(pool, {task[t].net})
    /\ task' = [task EXCEPT ![t] = [IdleTask EXCEPT !.round = task[t].round]]
    /\ sweep' = sweep \ {t}
    /\ UNCHANGED <<clients, pending, hostVars, closing>>

(* Networks come down one after the other under the write lock, the entry  *)
(* first: after a disconnect those of the host, else any of them.          *)
Up == {t \in Tasks : task[t].pc = "up"}

HandleNodeDisconnect(h) ==
    /\ h \in closing /\ LockFree
    /\ sweep' = {t \in Up : h \in {EndsOf[t][side] : side \in Sides}}
    /\ closing' = closing \ {h}
    /\ UNCHANGED <<pool, clients, pending, hostVars, task>>

ApplyChanges ==
    /\ LockFree
    /\ sweep' \in (SUBSET Up) \ {{}}
    /\ UNCHANGED <<pool, clients, pending, hostVars, closing, task>>

RemoveEntry(t) ==
    /\ t \in sweep /\ task[t].pc = "up"
    /\ \A s \in sweep : task[s].pc = "up"
    /\ task' = [task EXCEPT ![t].pc = "down"]
    /\ UNCHANGED <<pool, clients, pending, hostVars, closing, sweep>>
------------------------------------------------------------------------------
(* Control channels. *)

(* add_client: the new channel replaces the one the host had. *)
AddClient(h) ==
    /\ opened[h] < MaxOpens[h]
    /\ opened' = [opened EXCEPT ![h] = @ + 1]
    /\ LET ch == <<h, opened[h] + 1>>
       IN  /\ clients' = [clients EXCEPT ![h] = ch]
           /\ inbound' = [inbound EXCEPT ![ch] = "open"]
    /\ UNCHANGED <<pool, pending, queue, acks, held, closing, sweep, task>>

(* The inbound task takes the entry out and wakes the sender, if it is     *)
(* still waiting.                                                          *)
AckArrives(ch) ==
    /\ inbound[ch] = "open"
    /\ \E msg \in acks[ch] :
          /\ acks' = [acks EXCEPT ![ch] = @ \ {msg}]
          /\ pending' = pending \ {msg}
          /\ task' = [t \in Tasks |-> [task[t] EXCEPT !.send = [side \in Sides |->
                 IF msg \in pending /\ msg = MsgId(t, side) /\ AtSend(t, side, "wait")
                     THEN [@[side] EXCEPT !.pc = "acked"] ELSE @[side]]]]
    /\ UNCHANGED <<pool, clients, opened, inbound, queue, held, closing, sweep>>

(* The stream breaks, or the controller notices that it had; what the host *)
(* keeps is not followed any further.                                      *)
ChannelEnds(ch) ==
    /\ inbound[ch] = "open" /\ ch[1] \in Flapping
    /\ inbound' = [inbound EXCEPT ![ch] = "ended"]
    /\ queue' = [queue EXCEPT ![ch] = <<>>]
    /\ acks' = [acks EXCEPT ![ch] = {}]
    /\ held' = [held EXCEPT ![ch] = {}]
    /\ UNCHANGED <<pool, clients, pending, opened, closing, sweep, task>>

(* remove_client goes by the host, not by the channel: it also removes one *)
(* the host has opened since.                                              *)
RemoveClient(ch) ==
    /\ inbound[ch] = "ended"
    /\ inbound' = [inbound EXCEPT ![ch] = "removed"]
    /\ clients' = [clients EXCEPT ![ch[1]] = None]
    /\ closing' = closing \cup {ch[1]}
    /\ UNCHANGED <<pool, pending, opened, queue, acks, held, sweep, task>>

(* What a host holds once it has read the message: a set-up adds an end    *)
(* and a teardown removes those it names.                                  *)
Names(message, e) ==
    message.kind = "teardown" /\ e.id = message.id /\ e.side \in message.sides

After(ends, message) ==
    IF message.kind = "setup"
        THEN ends \cup {message}
        ELSE {e \in ends : ~Names(message, e)}

(* The host handles a message of its newest channel and acknowledges a     *)
(* set-up.                                                                 *)
HostReads(h) ==
    /\ opened[h] > 0
    /\ LET ch == <<h, opened[h]>>
           message == Head(queue[ch])
       IN  /\ inbound[ch] = "open" /\ queue[ch] # <<>>
           /\ queue' = [queue EXCEPT ![ch] = Tail(@)]
           /\ held' = [held EXCEPT ![ch] = After(@, message)]
           /\ acks' = [acks EXCEPT ![ch] =
                          IF message.kind = "setup" THEN @ \cup {message.msg} ELSE @]
    /\ UNCHANGED <<pool, clients, pending, opened, inbound, closing, sweep, task>>

SetupStep(t, side) ==
    \/ SetupLookup(t, side) \/ SetupSend(t, side)
    \/ SetupTimeout(t, side) \/ SetupExpired(t, side)

TaskStep(t) ==
    \/ \E side \in Sides : SetupStep(t, side)
    \/ Commit(t) \/ Rollback(t)
    \/ TeardownLookup(t) \/ TeardownSend(t) \/ TeardownFree(t) \/ RemoveEntry(t)

Next ==
    \/ \E t \in Tasks : AllocateNetId(t) \/ TaskStep(t) \/ Aborted(t)
    \/ ApplyChanges
    \/ \E h \in Hosts : AddClient(h) \/ HostReads(h) \/ HandleNodeDisconnect(h)
    \/ \E ch \in Channels : AckArrives(ch) \/ ChannelEnds(ch) \/ RemoveClient(ch)

Spec == Init /\ [][Next]_vars

(* Tasks that can run do run. A channel with a message in it is read, or   *)
(* it ends: a host that is up reads its stream, and the connection to one  *)
(* that is not breaks when what was sent to it is not acknowledged.        *)
Delivery(ch) ==
    /\ queue[ch] # <<>>
    /\ ChannelEnds(ch) \/ (ch[2] = opened[ch[1]] /\ HostReads(ch[1]))

Fairness ==
    /\ \A t \in Tasks : WF_vars(TaskStep(t))
    /\ \A ch \in Channels : WF_vars(Delivery(ch))

FairSpec == Spec /\ Fairness
------------------------------------------------------------------------------
MsgIds == Tasks \X Sides \X Nat
Setups ==
    [kind : {"setup"}, msg : MsgIds, side : Sides, id : NetIds,
     local : SUBSET Addresses, mapping : Addresses \cup {None}]
Teardowns == [kind : {"teardown"}, id : NetIds, sides : SUBSET Sides]

Sends == [pc : {"lookup", "send", "wait", "expired", "acked", "none"},
          ch : Channels \cup {None}]
TaskStates ==
    [pc : {"idle", "setup", "rollback", "abandoned", "up", "down"}, round : Nat,
     net : NetIds \cup {0}, leg : Sides \cup {"free"}, ch : Channels \cup {None},
     send : [Sides -> Sends]]

TypeOK ==
    /\ pool \in Pools
    /\ clients \in [Hosts -> Channels \cup {None}]
    /\ pending \subseteq MsgIds
    /\ opened \in [Hosts -> Nat]
    /\ inbound \in [Channels -> {"unused", "open", "ended", "removed"}]
    /\ queue \in [Channels -> Seq(Setups \cup Teardowns)]
    /\ \A ch \in Channels : Len(queue[ch]) <= Capacity
    /\ acks \in [Channels -> SUBSET MsgIds]
    /\ held \in [Channels -> SUBSET Setups]
    /\ closing \subseteq Hosts
    /\ task \in [Tasks -> TaskStates]
    /\ \A t \in Tasks : task[t].pc # "idle" => task[t].net \in NetIds
    /\ sweep \subseteq {t \in Tasks : task[t].pc \in {"up", "down"}}

(* Whatever the order of a time-out, a late acknowledgement, the end of    *)
(* the channel and the caller giving up, an entry of pending is one that   *)
(* its sender is going to remove, or was about to when it was aborted: so  *)
(* the map grows by no more than two entries for each task aborted.        *)
PendingOwned ==
    \A msg \in pending : \E t \in Tasks, side \in Sides :
        /\ msg = MsgId(t, side)
        /\ task[t].pc = "setup" \/ (task[t].pc = "abandoned" /\ t \in Impatient)
        /\ task[t].send[side].pc \in {"send", "wait", "expired"}

(* The end the current network of a task has on one side, as installed. *)
EndOf(t, side) == Setup(MsgId(t, side), side, task[t].net, DockerOf[t])

(* A network in the map works: both ends are installed on every host whose *)
(* channel has lasted since, so the acknowledgements were for this network *)
(* and no teardown of an earlier one hit it; and the address the client    *)
(* has for the server's name is one of the server's end.                   *)
UsableWhenUp ==
    \A t \in Up \ sweep :
        /\ \A side \in Sides : LET ch == task[t].send[side].ch
                              IN  ~Broken(ch) => EndOf(t, side) \in held[ch]
        /\ EndOf(t, "client").mapping \in EndOf(t, "server").local

(* The ends of a channel by where they are: installed, at 0, or still to be *)
(* read; and whether no message after that place takes the end away again. *)
At(ends, messages, i) ==
    IF i = 0 THEN ends ELSE {m \in {messages[i]} : m.kind = "setup"}
Spared(messages, i, e) == \A k \in i + 1 .. Len(messages) : ~Names(messages[k], e)

(* What the host will hold when it has read all the messages. *)
Keeps(ends, messages) ==
    UNION {{e \in At(ends, messages, i) : Spared(messages, i, e)} : i \in 0 .. Len(messages)}

(* A host that messages can reach does not keep a network whose identifier *)
(* is free: the teardown is on its way before free() is called.            *)
NoOrphan ==
    \A h \in Hosts : clients[h] # None =>
        \A e \in Keeps(held[clients[h]], queue[clients[h]]) : e.id \in InUse(pool)

(* Whatever identifiers are reused and whatever is lost, two networks on a *)
(* host never share a subnet, and the two ends of one never an address.    *)
NoClash ==
    \A ch \in Channels : \A e, f \in held[ch] : e # f =>
        \A a \in e.local, b \in f.local :
            /\ a # b
            /\ Subnet(a) = Subnet(b) => e.id = f.id /\ e.msg[1] = f.msg[1]

(* The write lock comes free again: the one who tears networks down sends  *)
(* to hosts that may be gone, or to channels that were replaced and will   *)
(* never be read, and is not stuck on any of them.                         *)
SweepEnds == (~LockFree) ~> LockFree

(* The networks as leases of their identifiers: being set up until the     *)
(* entry is in the map, live until it is out again.                        *)
Flight == [t \in Tasks |-> IF task[t].pc \in {"setup", "rollback"} THEN task[t].net ELSE 0]
Live == {[wire |-> t, user |-> t, id |-> task[t].net] : t \in Up}

Leases == INSTANCE NetLeases WITH
    Wires <- Tasks, Users <- Tasks, flight <- Flight, live <- Live

(* Message by message, identifiers are handled as NetLeases allows. *)
ImplementsLeases == Leases!Spec
==============================================================================
