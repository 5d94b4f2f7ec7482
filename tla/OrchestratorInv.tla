---------------------------- MODULE OrchestratorInv ----------------------------
(***************************************************************************)
(* Why Orchestrator keeps its invariants: an inductive invariant, in       *)
(* layers, each of which needs the ones before it.                         *)
(***************************************************************************)
EXTENDS Orchestrator

(* A host's entry is its newest channel or none; a channel that nobody     *)
(* reads carries nothing.                                                  *)
Routes ==
    /\ \A h \in Hosts :
          /\ opened[h] \in 1 .. MaxOpens[h]
          /\ clients[h] \in {None, <<h, opened[h]>>}
    /\ \A ch \in Channels :
          /\ inbound[ch] = "unused" <=> ch[2] > opened[ch[1]]
          /\ inbound[ch] # "open" => queue[ch] = <<>> /\ acks[ch] = {} /\ held[ch] = {}

(* What a call has looked up is a channel of the right host, and the       *)
(* teardown of an end never goes by an older channel than its set-up.      *)
LookedUp(t) ==
    /\ task[t].pc \in {"idle", "setup", "up"} => task[t].leg = "client" /\ task[t].ch = None
    /\ task[t].pc = "up" => BothAcked(t)
    /\ task[t].leg = "free" => task[t].ch = None
    /\ \A side \in Sides : LET ch == task[t].send[side].ch
                           IN  /\ task[t].send[side].pc \in {"send", "wait", "expired", "acked"}
                                      => ch # None
                               /\ ch # None => ch[1] = EndsOf[t][side] /\ ch[2] <= opened[ch[1]]
    /\ task[t].ch # None =>
          /\ task[t].ch[1] = EndsOf[t][task[t].leg]
          /\ task[t].ch[2] <= opened[task[t].ch[1]]
          /\ task[t].send[task[t].leg].ch # None =>
                task[t].send[task[t].leg].ch[2] <= task[t].ch[2]

Lookups == \A t \in Tasks : LookedUp(t)

(* The identifiers of the tasks are in use, and no two are the same. *)
Lent ==
    /\ WellFormed(pool)
    /\ \A t \in Tasks : task[t].pc # "idle" =>
          /\ task[t].net \in InUse(pool)
          /\ \A u \in Tasks : task[u].pc # "idle" /\ task[u].net = task[t].net => u = t

(* A message of the current round of a task is about its current network,  *)
(* and on the channel that the call which sent it has looked up.           *)
Current(msg) == msg[3] = task[msg[1]].round /\ task[msg[1]].pc # "idle"

Sent(msg, ch) ==
    /\ msg[3] <= task[msg[1]].round
    /\ Current(msg) => /\ ch = task[msg[1]].send[msg[2]].ch
                       /\ task[msg[1]].send[msg[2]].pc \notin {"lookup", "send"}

Carried(ends, messages) == UNION {At(ends, messages, i) : i \in 0 .. Len(messages)}

Traffic ==
    \A ch \in Channels :
        /\ \A e \in Carried(held[ch], queue[ch]) :
              /\ e = Setup(e.msg, e.msg[2], e.id, DockerOf[e.msg[1]])
              /\ Sent(e.msg, ch)
              /\ Current(e.msg) => e.id = task[e.msg[1]].net
        /\ \A msg \in acks[ch] : Sent(msg, ch)

(* Until its teardown starts, nothing takes an end of the network away     *)
(* again, and an acknowledgement means that the end is installed.          *)
Lasting(ends, messages, e) ==
    \A i \in 0 .. Len(messages) : e \in At(ends, messages, i) => Spared(messages, i, e)

Installed ==
    \A t \in Tasks, side \in Sides : task[t].pc \in {"setup", "up"} =>
        /\ \A ch \in Channels :
              /\ Lasting(held[ch], queue[ch], EndOf(t, side))
              /\ MsgId(t, side) \in acks[ch] => EndOf(t, side) \in held[ch]
        /\ LET ch == task[t].send[side].ch
           IN  task[t].send[side].pc = "acked" /\ ~Broken(ch) => EndOf(t, side) \in held[ch]

(* A host that messages can reach keeps only ends whose teardown has still *)
(* to be sent.                                                             *)
Unswept(msg) ==
    /\ Current(msg)
    /\ task[msg[1]].leg \in {"client", msg[2]}

Kept ==
    \A h \in Hosts : clients[h] # None =>
        \A e \in Keeps(held[clients[h]], queue[clients[h]]) : Unswept(e.msg)

(* Where a set-up is about to go, its identifier is not kept for another   *)
(* network; so an identifier comes a second time only after a teardown.    *)
Fresh ==
    \A t \in Tasks, side \in Sides : AtSend(t, side, "send") =>
        LET ch == task[t].send[side].ch
        IN  \A e \in Keeps(held[ch], queue[ch]) :
                e.id = task[t].net => e.msg[1] = t /\ e.msg[3] = task[t].round

SameNet(e, f) == e.msg[1] = f.msg[1] /\ e.msg[3] = f.msg[3]
Apart(ends, messages) ==
    \A j \in 0 .. Len(messages) : \A i \in 0 .. j :
        \A e \in At(ends, messages, i), f \in At(ends, messages, j) :
            e.id = f.id /\ (\A k \in i + 1 .. j : ~Names(messages[k], e)) => SameNet(e, f)

Separated == \A ch \in Channels : Apart(held[ch], queue[ch])

ExchangeInv ==
    /\ TypeOK /\ Routes /\ Lookups /\ Lent /\ PendingOwned
    /\ Traffic /\ Installed /\ Kept /\ Fresh /\ Separated
================================================================================
