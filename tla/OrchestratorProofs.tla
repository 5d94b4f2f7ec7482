------------------------- MODULE OrchestratorProofs -------------------------
(*****************************************************************************)
(* ExchangeInv is inductive, and what follows from it: the safety of the   *)
(* exchange of messages with the hosts, and that Orchestrator handles      *)
(* identifiers as NetLeases allows.                                        *)
(*****************************************************************************)
EXTENDS OrchestratorSteps
------------------------------------------------------------------------------
(* The blocks of NetAddr, for every identifier the pool can hand out:      *)
(* vlan_setup and vxlan_setup of src/net.rs compute with u32 and u8, and   *)
(* nothing in them wraps; no two identifiers have a common address.        *)

(* An identifier of the type's range, and a slot that an end may take. *)
Ids == {id \in Nat : 0 < id /\ id <= LastNetId}
Slots == 1 .. (Width - 2)

(* Both kinds of network divide the last byte into whole blocks. *)
LEMMA WidthCases ==
    \/ Width = 4 /\ LastNetId = 4094
    \/ Width = 8 /\ LastNetId = 2097151
  BY NetTypes, SMT DEF Width, LastNetId

(* The end of a block is never passed within the last byte, so the slot    *)
(* stays in its block.                                                     *)
LEMMA LastByte ==
    ASSUME NEW id \in Nat, NEW slot \in Slots
    PROVE  /\ Byte(id * Width) + slot \in 1 .. 254
           /\ Byte(Byte(id * Width) + slot) \div Width = Byte(id * Width) \div Width
           /\ Byte(id * Width) = Width * (Byte(id * Width) \div Width)
  <1>1. CASE Width = 4
    <2>1. Byte(id * 4) = 4 * (id % 64)
      BY SMT DEF Byte
    <2>2. id % 64 \in 0 .. 63
      BY SMT
    <2>3. slot \in 1 .. 2
      BY <1>1, SMT DEF Slots
    <2> QED
      BY <1>1, <2>1, <2>2, <2>3, SMT DEF Byte
  <1>2. CASE Width = 8
    <2>1. Byte(id * 8) = 8 * (id % 32)
      BY SMT DEF Byte
    <2>2. id % 32 \in 0 .. 31
      BY SMT
    <2>3. slot \in 1 .. 6
      BY <1>2, SMT DEF Slots
    <2> QED
      BY <1>2, <2>1, <2>2, <2>3, SMT DEF Byte
  <1> QED
    BY <1>1, <1>2, WidthCases, SMT

(* The offset of a block fits the three lower bytes of 10.0.0.0/8: the     *)
(* byte that to_be_bytes yields first, and setup drops, is zero.           *)
LEMMA OffsetFits ==
    ASSUME NEW id \in Ids
    PROVE  id * Width \in Nat /\ id * Width < 16777216
  BY WidthCases, SMT DEF Ids

(* A number below 2^24 is given by its three bytes. *)
LEMMA ThreeBytes ==
    ASSUME NEW o \in Nat, o < 16777216
    PROVE  /\ Byte(o \div 65536) = o \div 65536
           /\ o = (o \div 65536) * 65536 + Byte(o \div 256) * 256 + Byte(o)
           /\ o \div 65536 \in Nat /\ Byte(o \div 256) \in Nat /\ Byte(o) \in Nat
  BY SMT DEF Byte

(* u32 and u8 arithmetic of vlan_setup and vxlan_setup are exact: for every *)
(* identifier of the range and every slot an end is given, the address is  *)
(* 10.0.0.0 plus the offset of the block plus the slot, and no addition to *)
(* the last byte overflows.                                                *)
THEOREM AddressesExact ==
    ASSUME NEW id \in Ids, NEW slot \in Slots
    PROVE  /\ id * Width < 16777216
           /\ Byte(id * Width) + slot < 255
           /\ Addr(id, slot)[2] * 65536 + Addr(id, slot)[3] * 256 + Addr(id, slot)[4]
                 = id * Width + slot
  <1> DEFINE o == id * Width
             a == o \div 65536
             b == Byte(o \div 256)
             c == Byte(o)
  <1>1. o \in Nat /\ o < 16777216
    BY OffsetFits, SMT
  <1>2. c + slot \in 1 .. 254
    BY LastByte, SMT DEF Ids
  <1>3. /\ a \in Nat /\ b \in Nat /\ c \in Nat /\ slot \in Nat
        /\ Byte(a) = a
        /\ o = a * 65536 + b * 256 + c
    <2>1. slot \in Nat
      BY WidthCases, SMT DEF Slots
    <2> HIDE DEF o
    <2>2. a \in Nat /\ b \in Nat /\ c \in Nat
      BY <1>1, SMT DEF Byte
    <2>3. Byte(a) = a
      BY <1>1, SMT DEF Byte
    <2>4. o = a * 65536 + b * 256 + c
      BY <1>1, SMT DEF Byte
    <2> QED
      BY <2>1, <2>2, <2>3, <2>4
  <1>4. Byte(c + slot) = c + slot
    <2> HIDE DEF c
    <2> QED BY <1>2, SMT DEF Byte
  <1>5. Addr(id, slot) = <<10, a, b, c + slot>>
    BY <1>3, <1>4, SMT DEF Addr
  <1>6. a * 65536 + b * 256 + (c + slot) = o + slot
    <2> HIDE DEF a, b, c, o
    <2> QED BY <1>1, <1>3, SMT
  <1> QED
    BY <1>1, <1>2, <1>5, <1>6, SMT

(* Two networks never overlap: addresses of different identifiers are in   *)
(* different subnets, and all addresses of one identifier are in the same. *)
THEOREM SubnetsDistinct ==
    ASSUME NEW i \in Ids, NEW j \in Ids, NEW s \in Slots, NEW t \in Slots
    PROVE  Subnet(Addr(i, s)) = Subnet(Addr(j, t)) <=> i = j
  <1> DEFINE Block(n) == <<10, (n * Width) \div 65536, Byte((n * Width) \div 256),
                           Byte(n * Width) \div Width>>
  <1>1. ASSUME NEW n \in Ids, NEW slot \in Slots
        PROVE  Subnet(Addr(n, slot)) = Block(n)
    <2>1. Byte((n * Width) \div 65536) = (n * Width) \div 65536
      BY OffsetFits, ThreeBytes, SMT
    <2>2. Byte(Byte(n * Width) + slot) \div Width = Byte(n * Width) \div Width
      BY LastByte, SMT DEF Ids
    <2> QED
      BY <2>1, <2>2, SMT DEF Addr, Subnet
  <1>2. ASSUME NEW n \in Ids
        PROVE  n * Width = ((n * Width) \div 65536) * 65536
                    + Byte((n * Width) \div 256) * 256
                    + Width * (Byte(n * Width) \div Width)
    <2>1. Byte(n * Width) = Width * (Byte(n * Width) \div Width)
      BY LastByte, SMT DEF Ids
    <2>2. n * Width = ((n * Width) \div 65536) * 65536
                    + Byte((n * Width) \div 256) * 256 + Byte(n * Width)
      BY OffsetFits, ThreeBytes, SMT
    <2> QED
      BY <2>1, <2>2, SMT
  <1>3. Block(i) = Block(j) => i * Width = j * Width
    BY <1>2, SMT
  <1>4. i * Width = j * Width => i = j
    BY WidthCases, SMT DEF Ids
  <1> QED
    BY <1>1, <1>3, <1>4, SMT
------------------------------------------------------------------------------

(* The layers that speak of tasks and channels hold when there are none    *)
(* busy.                                                                   *)
LEMMA InitLayers == Init => Routes /\ Lookups /\ Lent /\ PendingOwned
<1> SUFFICES ASSUME Init PROVE Routes /\ Lookups /\ Lent /\ PendingOwned
  OBVIOUS
<1>1. Routes
  <2>1. \A ch \in Channels : ch[2] # 1 <=> ch[2] > 1
    BY ChannelParts, OrchestratorConstants
  <2> QED
    BY <2>1, ChannelParts, OrchestratorConstants DEF Init, Routes
<1>2. \A t \in Tasks : /\ task[t].pc = "idle" /\ task[t].leg = "client" /\ task[t].ch = None
                       /\ \A x \in Sides : task[t].send[x].pc = "none" /\ task[t].send[x].ch = None
  BY DEF Init, IdleTask, NoSend
<1>3. Lookups
  BY <1>2 DEF Lookups, LookedUp
<1>4. Lent
  BY <1>2, PoolBounds DEF Lent, Init, NewPool, WellFormed
<1>5. PendingOwned
  BY DEF PendingOwned, Init
<1> QED
  BY <1>1, <1>3, <1>4, <1>5

(* Every step keeps Routes: add_client and remove_client set a host's      *)
(* entry, and only a channel that somebody reads gets messages.            *)
LEMMA NextRoutes == TypeOK /\ Routes /\ Lookups /\ [Next]_vars => Routes'
<1> SUFFICES ASSUME TypeOK, Routes, Lookups, [Next]_vars PROVE Routes'
  OBVIOUS
<1> USE DEF hostVars
<1>0. ASSUME UNCHANGED <<opened, clients, inbound, queue, acks, held>> PROVE Routes'
  BY <1>0 DEF Routes
<1>1. ASSUME NEW t \in Tasks, AllocateNetId(t) \/ Commit(t) \/ Rollback(t) \/ Aborted(t)
                                \/ TeardownLookup(t) \/ TeardownFree(t) \/ RemoveEntry(t)
      PROVE  Routes'
  BY <1>0, <1>1 DEF AllocateNetId, Commit, Rollback, Aborted, TeardownLookup, TeardownFree, RemoveEntry
<1>2. ASSUME NEW t \in Tasks, NEW side \in Sides,
             SetupLookup(t, side) \/ SetupTimeout(t, side) \/ SetupExpired(t, side)
      PROVE  Routes'
  BY <1>0, <1>2 DEF SetupLookup, SetupTimeout, SetupExpired
<1>3. ASSUME NEW t \in Tasks, NEW side \in Sides, SetupSend(t, side) PROVE Routes'
  <2> DEFINE ch == task[t].send[side].ch
  <2>1. /\ \/ UNCHANGED queue
           \/ /\ inbound[ch] = "open"
              /\ queue' = [queue EXCEPT ![ch] = Append(@, EndOf(t, side))]
        /\ UNCHANGED <<clients, opened, inbound, acks, held>>
    BY <1>3, SetupSendStep
  <2> HIDE DEF ch
  <2> QED
    BY <2>1 DEF Routes, TypeOK
<1>4. ASSUME NEW t \in Tasks, TeardownSend(t) PROVE Routes'
  <2> DEFINE ch == task[t].ch
             message == Teardown(task[t].leg, task[t].net)
  <2>1. /\ \/ UNCHANGED queue
           \/ /\ inbound[ch] = "open"
              /\ queue' = [queue EXCEPT ![ch] = Append(@, message)]
        /\ UNCHANGED <<clients, opened, inbound, acks, held>>
    BY <1>4, TeardownSendStep
  <2> HIDE DEF ch, message
  <2> QED
    BY <2>1 DEF Routes, TypeOK
<1>5. ASSUME ApplyChanges \/ \E h \in Hosts : HandleNodeDisconnect(h) PROVE Routes'
  BY <1>0, <1>5 DEF ApplyChanges, HandleNodeDisconnect
<1>6. ASSUME NEW h \in Hosts, AddClient(h) PROVE Routes'
  <2> DEFINE new == <<h, opened[h] + 1>>
  <2>1. opened[h] \in Nat /\ MaxOpens[h] \in Nat /\ opened[h] < MaxOpens[h]
    BY <1>6, OrchestratorConstants DEF AddClient, TypeOK
  <2>2. new \in Channels
    BY <2>1, ChannelParts
  <2>3. /\ clients' = [clients EXCEPT ![h] = new] /\ opened' = [opened EXCEPT ![h] = @ + 1]
        /\ inbound' = [inbound EXCEPT ![new] = "open"]
        /\ UNCHANGED <<queue, acks, held>>
    BY <1>6 DEF AddClient
  <2>4. \A x \in Hosts : /\ opened'[x] \in 1 .. MaxOpens[x]
                         /\ clients'[x] \in {None, <<x, opened'[x]>>}
    BY <2>1, <2>3 DEF Routes, TypeOK
  <2>5. ASSUME NEW ch \in Channels PROVE inbound'[ch] = "unused" <=> ch[2] > opened'[ch[1]]
    <3>1. ch[1] \in Hosts /\ ch[2] \in Nat /\ ch = <<ch[1], ch[2]>> /\ opened[ch[1]] \in Nat
      BY ChannelParts, OrchestratorConstants DEF TypeOK
    <3>2. CASE ch[1] = h /\ ch[2] = opened[h] + 1
      BY <2>1, <2>2, <2>3, <3>1, <3>2 DEF TypeOK
    <3>3. CASE ~(ch[1] = h /\ ch[2] = opened[h] + 1)
      <4>1. inbound'[ch] = inbound[ch]
        BY <2>3, <3>3 DEF TypeOK
      <4>2. opened'[ch[1]] = IF ch[1] = h THEN opened[h] + 1 ELSE opened[ch[1]]
        BY <2>3, <3>1 DEF TypeOK
      <4>3. inbound[ch] = "unused" <=> ch[2] > opened[ch[1]]
        BY DEF Routes
      <4> QED
        BY <2>1, <3>1, <3>3, <4>1, <4>2, <4>3
    <3> QED
      BY <3>2, <3>3
  <2>6. \A ch \in Channels : inbound'[ch] # "open" => inbound[ch] # "open"
    BY <2>3 DEF TypeOK
  <2> QED
    BY <2>3, <2>4, <2>5, <2>6 DEF Routes
<1>7. ASSUME NEW h \in Hosts, HostReads(h) PROVE Routes'
  BY <1>7 DEF Routes, HostReads, TypeOK
<1>8. ASSUME NEW ch \in Channels, AckArrives(ch) PROVE Routes'
  BY <1>8 DEF Routes, AckArrives, TypeOK
<1>9. ASSUME NEW ch \in Channels, ChannelEnds(ch) PROVE Routes'
  BY <1>9 DEF Routes, ChannelEnds, TypeOK
<1>10. ASSUME NEW ch \in Channels, RemoveClient(ch) PROVE Routes'
  BY <1>10, ChannelParts DEF Routes, RemoveClient, TypeOK
<1>11. CASE UNCHANGED vars
  BY <1>0, <1>11 DEF vars
<1> QED
  BY <1>1, <1>2, <1>3, <1>4, <1>5, <1>6, <1>7, <1>8, <1>9, <1>10, <1>11 DEF Next, TaskStep, SetupStep

(* Every step keeps Lookups: a call uses the channel it looked up, and a   *)
(* teardown looks up after the set-up did, when the host's channels can    *)
(* only be newer.                                                          *)
LEMMA NextLookups == TypeOK /\ Routes /\ Lookups /\ [Next]_vars => Lookups'
<1> SUFFICES ASSUME TypeOK, Routes, Lookups, [Next]_vars PROVE Lookups'
  OBVIOUS
<1> USE DEF hostVars
<1>a. ASSUME NEW t \in Tasks, NEW side \in Sides
      PROVE  /\ EndsOf[t][side] \in Hosts
             /\ LET ch == clients[EndsOf[t][side]]
                IN  ch # None => /\ ch \in Channels
                                 /\ ch[1] = EndsOf[t][side] /\ ch[2] = opened[ch[1]]
  BY OrchestratorConstants DEF Routes, TypeOK
<1>b. \A h \in Hosts : opened[h] \in Nat
  BY DEF TypeOK
<1>c. \A t \in Tasks : task[t].leg \in Sides \cup {"free"}
  BY DEF TypeOK, TaskStates
<1>0. ASSUME UNCHANGED opened, NEW u \in Tasks, task'[u] = task[u] PROVE LookedUp(u)'
  <2>1. LookedUp(u)
    BY DEF Lookups
  <2>2. BothAcked(u)' <=> BothAcked(u)
    BY <1>0 DEF BothAcked
  <2> QED
    BY <1>0, <2>1, <2>2 DEF LookedUp
<1>d. ASSUME UNCHANGED opened, \A u \in Tasks : SameControl(u) /\ SameLeg(u),
             \A u \in Tasks, x \in Sides :
                /\ task'[u].send[x].pc \in {"send", "wait", "expired", "acked"} =>
                      task'[u].send[x].ch # None
                /\ task'[u].send[x].ch # None =>
                      /\ task'[u].send[x].ch[1] = EndsOf[u][x]
                      /\ task'[u].send[x].ch[2] <= opened[task'[u].send[x].ch[1]]
                /\ task[u].pc = "up" => task'[u].send[x].pc = task[u].send[x].pc
                /\ task[u].ch # None => task'[u].send[x].ch = task[u].send[x].ch
      PROVE  Lookups'
  <2> SUFFICES ASSUME NEW u \in Tasks PROVE LookedUp(u)'
    BY DEF Lookups
  <2>0. LookedUp(u)
    BY DEF Lookups
  <2>1. task[u].pc = "up" => BothAcked(u)'
    BY <1>d, <2>0 DEF LookedUp, BothAcked
  <2>2. task[u].ch # None => task[u].leg \in Sides
    BY <1>c, <2>0 DEF LookedUp
  <2>3. /\ task'[u].pc = task[u].pc /\ task'[u].leg = task[u].leg /\ task'[u].ch = task[u].ch
        /\ opened' = opened
    BY <1>d DEF SameControl, SameLeg
  <2>4. task'[u].ch # None =>
           /\ task'[u].ch[1] = EndsOf[u][task'[u].leg]
           /\ task'[u].ch[2] <= opened[task'[u].ch[1]]
           /\ task'[u].send[task'[u].leg].ch # None =>
                 task'[u].send[task'[u].leg].ch[2] <= task'[u].ch[2]
    BY <1>d, <2>0, <2>2, <2>3 DEF LookedUp
  <2>5. /\ task'[u].pc \in {"idle", "setup", "up"} => task'[u].leg = "client" /\ task'[u].ch = None
        /\ task'[u].leg = "free" => task'[u].ch = None
    BY <2>0, <2>3 DEF LookedUp
  <2> QED
    BY <1>d, <2>1, <2>3, <2>4, <2>5 DEF LookedUp
<1>1. ASSUME NEW t \in Tasks, AllocateNetId(t) PROVE Lookups'
  <2>1. /\ task'[t].pc = "setup" /\ task'[t].leg = "client" /\ task'[t].ch = None
        /\ \A x \in Sides : task'[t].send[x] = [pc |-> "lookup", ch |-> None]
        /\ \A u \in Tasks \ {t} : task'[u] = task[u]
        /\ UNCHANGED <<clients, opened>>
    BY <1>1, AllocateStep
  <2>2. LookedUp(t)'
    BY <2>1 DEF LookedUp
  <2> QED
    BY <1>0, <2>1, <2>2 DEF Lookups
<1>2. ASSUME NEW t \in Tasks, NEW side \in Sides, SetupLookup(t, side) PROVE Lookups'
  <2>1. PICK s \in Sends :
           /\ AtSend(t, side, "lookup")
           /\ \/ s.pc = "none" /\ s.ch = task[t].send[side].ch
              \/ s.pc = "send" /\ s.ch = clients[EndsOf[t][side]] /\ s.ch # None
           /\ \A u \in Tasks : SameControl(u) /\ SameLeg(u)
           /\ \A u \in Tasks, x \in Sides :
                 task'[u].send[x] = IF u = t /\ x = side THEN s ELSE task[u].send[x]
           /\ UNCHANGED <<clients, opened>>
    BY <1>2, SetupLookupStep
  <2>2. /\ s.pc \in {"send", "wait", "expired", "acked"} => s.ch # None
        /\ s.ch # None => s.ch[1] = EndsOf[t][side] /\ s.ch[2] <= opened[s.ch[1]]
    BY <1>a, <1>b, <2>1 DEF Lookups, LookedUp
  <2>3. task[t].pc = "setup" /\ task[t].ch = None
    BY <2>1 DEF AtSend, Lookups, LookedUp
  <2>4. ASSUME NEW u \in Tasks, NEW x \in Sides
        PROVE  /\ task'[u].send[x].pc \in {"send", "wait", "expired", "acked"} =>
                     task'[u].send[x].ch # None
               /\ task'[u].send[x].ch # None =>
                     /\ task'[u].send[x].ch[1] = EndsOf[u][x]
                     /\ task'[u].send[x].ch[2] <= opened[task'[u].send[x].ch[1]]
               /\ task[u].pc = "up" => task'[u].send[x].pc = task[u].send[x].pc
               /\ task[u].ch # None => task'[u].send[x].ch = task[u].send[x].ch
    <3>1. CASE u = t /\ x = side
      BY <2>1, <2>2, <2>3, <3>1
    <3>2. CASE ~(u = t /\ x = side)
      BY <2>1, <3>2 DEF Lookups, LookedUp
    <3> QED
      BY <3>1, <3>2
  <2> QED
    BY <1>d, <2>1, <2>4
<1>3. ASSUME NEW t \in Tasks, NEW side \in Sides,
             SetupSend(t, side) \/ SetupTimeout(t, side) \/ SetupExpired(t, side)
      PROVE  Lookups'
  <2>1. PICK pc \in {"wait", "expired", "none"} :
           /\ task[t].pc = "setup" /\ task[t].send[side].pc \in {"send", "wait", "expired"}
           /\ \A u \in Tasks : SameControl(u) /\ SameLeg(u)
           /\ \A u \in Tasks, x \in Sides :
                 /\ task'[u].send[x].ch = task[u].send[x].ch
                 /\ task'[u].send[x].pc = IF u = t /\ x = side THEN pc ELSE task[u].send[x].pc
           /\ UNCHANGED <<clients, opened>>
    BY <1>3, SetupSendStep, TimeoutStep DEF AtSend
  <2>2. ASSUME NEW u \in Tasks, NEW x \in Sides
        PROVE  /\ task'[u].pc = "up" => task'[u].send[x].pc = task[u].send[x].pc
               /\ task'[u].send[x].pc \in {"send", "wait", "expired", "acked"} =>
                     task[u].send[x].pc \in {"send", "wait", "expired", "acked"}
    BY <2>1 DEF SameControl
  <2>3. ASSUME NEW u \in Tasks, NEW x \in Sides
        PROVE  /\ task'[u].send[x].pc \in {"send", "wait", "expired", "acked"} =>
                     task'[u].send[x].ch # None
               /\ task'[u].send[x].ch # None =>
                     /\ task'[u].send[x].ch[1] = EndsOf[u][x]
                     /\ task'[u].send[x].ch[2] <= opened[task'[u].send[x].ch[1]]
               /\ task[u].pc = "up" => task'[u].send[x].pc = task[u].send[x].pc
               /\ task[u].ch # None => task'[u].send[x].ch = task[u].send[x].ch
    BY <2>1, <2>2 DEF Lookups, LookedUp, SameControl
  <2> QED
    BY <1>d, <2>1, <2>3
<1>4. ASSUME NEW t \in Tasks, Commit(t) \/ Rollback(t) \/ Aborted(t) PROVE Lookups'
  <2>1. PICK pc \in {"up", "rollback", "abandoned"} :
           /\ pc = "up" => task[t].pc = "setup" /\ BothAcked(t)
           /\ task'[t].pc = pc
           /\ \A u \in Tasks : SameLeg(u) /\ task'[u].send = task[u].send
           /\ \A u \in Tasks \ {t} : task'[u] = task[u]
           /\ UNCHANGED <<clients, opened>>
    BY <1>4, ReturnStep, AbortStep
  <2>2. LookedUp(t)
    BY DEF Lookups
  <2>3. LookedUp(t)'
    BY <2>1, <2>2 DEF LookedUp, BothAcked, SameLeg
  <2> QED
    BY <1>0, <2>1, <2>3 DEF Lookups
<1>5. ASSUME NEW t \in Tasks, TeardownLookup(t) PROVE Lookups'
  <2> DEFINE ch == clients[EndsOf[t][task[t].leg]]
  <2>1. /\ TearingDown(t) /\ task[t].leg \in Sides /\ task[t].ch = None
        /\ \/ task'[t].ch = None
           \/ ch # None /\ task'[t].leg = task[t].leg /\ task'[t].ch = ch
        /\ \A u \in Tasks : SameControl(u) /\ task'[u].send = task[u].send
        /\ \A u \in Tasks \ {t} : task'[u] = task[u]
        /\ UNCHANGED <<clients, opened>>
    BY <1>5, TeardownLookupStep
  <2>2. /\ ch # None => ch[1] = EndsOf[t][task[t].leg] /\ ch[2] = opened[ch[1]]
        /\ ch # None => ch[1] \in Hosts
    BY <1>a, <2>1
  <2>3. task'[t].ch # None =>
           /\ task'[t].leg = task[t].leg /\ task'[t].ch = ch
           /\ ch[1] = EndsOf[t][task[t].leg] /\ ch[2] = opened[ch[1]] /\ ch[2] \in Nat
    BY <1>b, <2>1, <2>2
  <2>4. task[t].send[task[t].leg].ch # None =>
           /\ task[t].send[task[t].leg].ch[1] = EndsOf[t][task[t].leg]
           /\ task[t].send[task[t].leg].ch[2] <= opened[EndsOf[t][task[t].leg]]
    BY <2>1 DEF Lookups, LookedUp
  <2> HIDE DEF ch
  <2>5. task'[t].ch # None =>
           /\ task'[t].ch[1] = EndsOf[t][task'[t].leg]
           /\ task'[t].ch[2] <= opened'[task'[t].ch[1]]
           /\ task'[t].send[task'[t].leg].ch # None =>
                 task'[t].send[task'[t].leg].ch[2] <= task'[t].ch[2]
    BY <2>1, <2>3, <2>4
  <2>6. task'[t].pc \notin {"idle", "setup", "up"}
    BY <2>1 DEF TearingDown, SameControl
  <2>7. task'[t].leg = "free" => task'[t].ch = None
    BY <2>1, <2>3 DEF Sides
  <2>8. LookedUp(t)
    BY DEF Lookups
  <2>9. LookedUp(t)'
    BY <2>1, <2>5, <2>6, <2>7, <2>8 DEF LookedUp
  <2> QED
    BY <1>0, <2>1, <2>9 DEF Lookups
<1>6. ASSUME NEW t \in Tasks, TeardownSend(t) PROVE Lookups'
  <2>1. /\ TearingDown(t) /\ task'[t].ch = None
        /\ \A u \in Tasks : SameControl(u) /\ task'[u].send = task[u].send
        /\ \A u \in Tasks \ {t} : task'[u] = task[u]
        /\ UNCHANGED <<clients, opened>>
    BY <1>6, TeardownSendStep
  <2>2. LookedUp(t)
    BY DEF Lookups
  <2>3. LookedUp(t)'
    BY <2>1, <2>2 DEF LookedUp, SameControl, TearingDown
  <2> QED
    BY <1>0, <2>1, <2>3 DEF Lookups
<1>7. ASSUME NEW t \in Tasks, TeardownFree(t) PROVE Lookups'
  <2>1. /\ task'[t].pc = "idle" /\ task'[t].leg = "client" /\ task'[t].ch = None
        /\ \A x \in Sides : task'[t].send[x] = NoSend
        /\ \A u \in Tasks \ {t} : task'[u] = task[u]
    BY <1>7, FreeStep DEF TeardownFree
  <2>2. UNCHANGED <<clients, opened>>
    BY <1>7 DEF TeardownFree
  <2>3. LookedUp(t)'
    BY <2>1 DEF LookedUp, NoSend
  <2> QED
    BY <1>0, <2>1, <2>2, <2>3 DEF Lookups
<1>8. ASSUME NEW t \in Tasks, RemoveEntry(t) PROVE Lookups'
  <2>1. /\ task[t].pc = "up" /\ task'[t].pc = "down"
        /\ \A u \in Tasks : SameLeg(u) /\ task'[u].send = task[u].send
        /\ \A u \in Tasks \ {t} : task'[u] = task[u]
        /\ UNCHANGED <<clients, opened>>
    BY <1>8, PcStep DEF RemoveEntry
  <2>2. LookedUp(t)
    BY DEF Lookups
  <2>3. LookedUp(t)'
    BY <2>1, <2>2 DEF LookedUp, BothAcked, SameLeg
  <2> QED
    BY <1>0, <2>1, <2>3 DEF Lookups
<1>9. ASSUME NEW ch \in Channels, AckArrives(ch) PROVE Lookups'
  <2>1. PICK msg \in acks[ch] :
           /\ \A u \in Tasks : SameControl(u) /\ SameLeg(u)
           /\ \A u \in Tasks, x \in Sides :
                 /\ task'[u].send[x].ch = task[u].send[x].ch
                 /\ task'[u].send[x].pc =
                       IF msg \in pending /\ msg = MsgId(u, x) /\ AtSend(u, x, "wait")
                           THEN "acked" ELSE task[u].send[x].pc
           /\ UNCHANGED <<clients, opened>>
    BY <1>9, AckStep
  <2>2. ASSUME NEW u \in Tasks, NEW x \in Sides
        PROVE  \/ task'[u].send[x].pc = task[u].send[x].pc
               \/ task[u].send[x].pc = "wait" /\ task'[u].send[x].pc = "acked"
    BY <2>1 DEF AtSend
  <2>3. ASSUME NEW u \in Tasks, NEW x \in Sides
        PROVE  /\ task'[u].send[x].pc \in {"send", "wait", "expired", "acked"} =>
                     task'[u].send[x].ch # None
               /\ task'[u].send[x].ch # None =>
                     /\ task'[u].send[x].ch[1] = EndsOf[u][x]
                     /\ task'[u].send[x].ch[2] <= opened[task'[u].send[x].ch[1]]
               /\ task[u].pc = "up" => task'[u].send[x].pc = task[u].send[x].pc
               /\ task[u].ch # None => task'[u].send[x].ch = task[u].send[x].ch
    BY <2>1, <2>2 DEF Lookups, LookedUp, BothAcked
  <2> QED
    BY <1>d, <2>1, <2>3
<1>10. ASSUME NEW h \in Hosts, AddClient(h) PROVE Lookups'
  <2>1. task' = task /\ \A x \in Hosts : opened'[x] \in Nat /\ opened[x] <= opened'[x]
    BY <1>10 DEF AddClient, TypeOK
  <2>2. ASSUME NEW ch \in Channels, ch[2] <= opened[ch[1]] PROVE ch[2] <= opened'[ch[1]]
    BY <1>b, <2>1, <2>2, ChannelParts
  <2>3. \A t \in Tasks : /\ task[t].ch \in Channels \cup {None}
                         /\ \A x \in Sides : task[t].send[x].ch \in Channels \cup {None}
    BY DEF TypeOK, TaskStates, Sends
  <2>4. ASSUME NEW t \in Tasks PROVE LookedUp(t)'
    <3>1. LookedUp(t)
      BY DEF Lookups
    <3> QED
      BY <2>1, <2>2, <2>3, <3>1 DEF LookedUp, BothAcked
  <2> QED
    BY <2>4 DEF Lookups
<1>11. ASSUME UNCHANGED <<opened, task>> PROVE Lookups'
  BY <1>0, <1>11 DEF Lookups
<1>12. ASSUME \/ ApplyChanges
              \/ \E h \in Hosts : HostReads(h) \/ HandleNodeDisconnect(h)
              \/ \E ch \in Channels : ChannelEnds(ch) \/ RemoveClient(ch)
              \/ UNCHANGED vars
       PROVE Lookups'
  BY <1>11, <1>12 DEF ApplyChanges, HostReads, HandleNodeDisconnect, ChannelEnds, RemoveClient, vars
<1> QED
  BY <1>1, <1>2, <1>3, <1>4, <1>5, <1>6, <1>7, <1>8, <1>9, <1>10, <1>12 DEF Next, TaskStep, SetupStep

------------------------------------------------------------------------------
(* Every step keeps Lent: identifiers come from the pool one at a time,    *)
(* and each is given back by the one task that has it.                     *)
LEMMA NextLent == TypeOK /\ Routes /\ Lookups /\ Lent /\ [Next]_vars => Lent'
<1> SUFFICES ASSUME TypeOK, Routes, Lookups, Lent, [Next]_vars PROVE Lent'
  OBVIOUS
<1> USE DEF hostVars
<1>0. ASSUME UNCHANGED pool, \A u \in Tasks : SameControl(u) PROVE Lent'
  BY <1>0 DEF Lent, SameControl
<1>1. ASSUME NEW t \in Tasks, AllocateNetId(t) PROVE Lent'
  <2>1. PICK id \in NetIds :
           /\ IsNextId(pool, id) /\ pool' = Allocate(pool, id)
           /\ task'[t].net = id
           /\ \A u \in Tasks \ {t} : task'[u] = task[u]
    BY <1>1, AllocateStep
  <2>2. /\ WellFormed(pool')
        /\ id \notin InUse(pool) /\ InUse(pool') = InUse(pool) \cup {id}
    BY <2>1, AllocateGrants DEF Lent, TypeOK
  <2> QED
    BY <2>1, <2>2 DEF Lent
<1>2. ASSUME NEW t \in Tasks, TeardownFree(t) PROVE Lent'
  <2>1. /\ task[t].pc # "idle" /\ task'[t].pc = "idle"
        /\ pool' = FreeAll(pool, {task[t].net})
        /\ \A u \in Tasks \ {t} : task'[u] = task[u]
    BY <1>2, FreeStep DEF TeardownFree, TearingDown
  <2>2. {task[t].net} \subseteq InUse(pool)
    BY <2>1 DEF Lent
  <2>3. WellFormed(pool') /\ InUse(pool') = InUse(pool) \ {task[t].net}
    BY <2>1, <2>2, FreeReleases DEF Lent, TypeOK
  <2> QED
    BY <2>1, <2>3 DEF Lent
<1>3. ASSUME NEW t \in Tasks, Commit(t) \/ Rollback(t) \/ Aborted(t) \/ RemoveEntry(t)
      PROVE  Lent'
  <2>1. PICK pc \in {"up", "rollback", "abandoned", "down"} :
           /\ task[t].pc # "idle" /\ task'[t].pc = pc /\ task'[t].net = task[t].net
           /\ \A u \in Tasks \ {t} : task'[u] = task[u]
           /\ UNCHANGED pool
    BY <1>3, ReturnStep, AbortStep, PcStep DEF RemoveEntry
  <2> QED
    BY <2>1 DEF Lent
<1>4. ASSUME NEW t \in Tasks, NEW side \in Sides, SetupStep(t, side) PROVE Lent'
  BY <1>0, <1>4, SetupLookupStep, SetupSendStep, TimeoutStep DEF SetupStep
<1>5. ASSUME NEW t \in Tasks, TeardownLookup(t) \/ TeardownSend(t) PROVE Lent'
  BY <1>0, <1>5, TeardownLookupStep, TeardownSendStep
<1>6. ASSUME NEW ch \in Channels, AckArrives(ch) PROVE Lent'
  BY <1>0, <1>6, AckStep
<1>7. ASSUME UNCHANGED <<pool, task>> PROVE Lent'
  BY <1>7 DEF Lent
<1>8. ASSUME \/ ApplyChanges
             \/ \E h \in Hosts : AddClient(h) \/ HostReads(h) \/ HandleNodeDisconnect(h)
             \/ \E ch \in Channels : ChannelEnds(ch) \/ RemoveClient(ch)
             \/ UNCHANGED vars
      PROVE Lent'
  BY <1>7, <1>8
     DEF ApplyChanges, AddClient, HostReads, HandleNodeDisconnect, ChannelEnds, RemoveClient, vars
<1> QED
  BY <1>1, <1>2, <1>3, <1>4, <1>5, <1>6, <1>8 DEF Next, TaskStep

(* Whose message an entry of pending is. *)
Waits(t, side) ==
    /\ task[t].pc = "setup" \/ (task[t].pc = "abandoned" /\ t \in Impatient)
    /\ task[t].send[side].pc \in {"send", "wait", "expired"}

(* PendingOwned in terms of Waits.                                         *)
LEMMA PendingIsWaited ==
    PendingOwned <=>
        \A msg \in pending : \E t \in Tasks, side \in Sides : msg = MsgId(t, side) /\ Waits(t, side)
  BY DEF PendingOwned, Waits

(* Every step keeps PendingOwned: a call leaves the states in which it is  *)
(* waiting only with its entry of pending removed, by the call itself or   *)
(* by the acknowledgement; or it is aborted there.                         *)
LEMMA NextPendingOwned ==
    TypeOK /\ Routes /\ Lookups /\ PendingOwned /\ [Next]_vars => PendingOwned'
<1> SUFFICES ASSUME TypeOK, Routes, Lookups, PendingOwned, [Next]_vars,
                    NEW msg \in pending'
             PROVE  \E t \in Tasks, side \in Sides : msg = MsgId(t, side)' /\ Waits(t, side)'
  BY DEF PendingOwned, Waits
<1> USE DEF hostVars
<1>a. msg \in pending =>
        \E t \in Tasks, side \in Sides : msg = MsgId(t, side) /\ Waits(t, side)
  BY PendingIsWaited
<1> DEFINE Goal == \E t \in Tasks, side \in Sides : msg = MsgId(t, side)' /\ Waits(t, side)'
<1>1. ASSUME NEW t \in Tasks, AllocateNetId(t) PROVE Goal
  <2>1. /\ task[t].pc = "idle" /\ pending' = pending
        /\ \A u \in Tasks \ {t} : task'[u] = task[u]
    BY <1>1, AllocateStep
  <2> QED
    BY <1>a, <2>1 DEF MsgId, Waits
<1>2. ASSUME NEW t \in Tasks, NEW side \in Sides, SetupLookup(t, side) PROVE Goal
  <2>1. PICK s \in Sends :
           /\ AtSend(t, side, "lookup")
           /\ \/ pending' = pending
              \/ s.pc = "send" /\ pending' = pending \cup {MsgId(t, side)}
           /\ \A u \in Tasks : SameControl(u) /\ SameLeg(u)
           /\ \A u \in Tasks, x \in Sides :
                 task'[u].send[x] = IF u = t /\ x = side THEN s ELSE task[u].send[x]
    BY <1>2, SetupLookupStep
  <2>2. \A u \in Tasks, x \in Sides : MsgId(u, x)' = MsgId(u, x) /\ (Waits(u, x) => Waits(u, x)')
    BY <2>1 DEF MsgId, Waits, SameControl, AtSend
  <2>3. s.pc = "send" => Waits(t, side)'
    BY <2>1 DEF Waits, SameControl, AtSend
  <2> QED
    BY <1>a, <2>1, <2>2, <2>3
<1>3. ASSUME NEW t \in Tasks, NEW side \in Sides,
             SetupSend(t, side) \/ SetupTimeout(t, side) \/ SetupExpired(t, side)
      PROVE  Goal
  <2>1. PICK pc \in {"wait", "expired", "none"} :
           /\ \/ pc \in {"wait", "expired"} /\ pending' = pending
              \/ pending' = pending \ {MsgId(t, side)}
           /\ \A u \in Tasks : SameControl(u)
           /\ \A u \in Tasks, x \in Sides :
                 task'[u].send[x].pc = IF u = t /\ x = side THEN pc ELSE task[u].send[x].pc
    BY <1>3, SetupSendStep, TimeoutStep
  <2>2. \A u \in Tasks, x \in Sides : MsgId(u, x)' = MsgId(u, x)
    BY <2>1 DEF MsgId, SameControl
  <2>3. PICK u \in Tasks, x \in Sides : msg = MsgId(u, x) /\ Waits(u, x)
    BY <1>a, <2>1
  <2>4. Waits(u, x)'
    BY <2>1, <2>3 DEF Waits, SameControl
  <2> QED
    BY <2>2, <2>3, <2>4
<1>4. ASSUME NEW t \in Tasks, Commit(t) \/ Rollback(t) PROVE Goal
  <2>1. /\ Returned(t) /\ pending' = pending
        /\ \A u \in Tasks \ {t} : task'[u] = task[u]
    BY <1>4, ReturnStep
  <2>2. \A x \in Sides : ~Waits(t, x)
    BY <2>1 DEF Returned, Waits
  <2> QED
    BY <1>a, <2>1, <2>2 DEF MsgId, Waits
<1>5. ASSUME NEW t \in Tasks, TeardownFree(t) \/ RemoveEntry(t) PROVE Goal
  <2>1. /\ task[t].pc \notin {"setup", "abandoned"} /\ pending' = pending
        /\ \A u \in Tasks \ {t} : task'[u] = task[u]
    BY <1>5, FreeStep, PcStep DEF TeardownFree, TearingDown, RemoveEntry
  <2> QED
    BY <1>a, <2>1 DEF MsgId, Waits
<1>6. ASSUME NEW t \in Tasks, TeardownLookup(t) \/ TeardownSend(t) PROVE Goal
  <2>1. /\ pending' = pending
        /\ \A u \in Tasks : SameControl(u) /\ task'[u].send = task[u].send
    BY <1>6, TeardownLookupStep, TeardownSendStep
  <2> QED
    BY <1>a, <2>1 DEF MsgId, Waits, SameControl
<1>7. ASSUME NEW ch \in Channels, AckArrives(ch) PROVE Goal
  <2>1. PICK m \in acks[ch] :
           /\ pending' = pending \ {m}
           /\ \A u \in Tasks : SameControl(u)
           /\ \A u \in Tasks, x \in Sides :
                 task'[u].send[x].pc =
                    IF m \in pending /\ m = MsgId(u, x) /\ AtSend(u, x, "wait")
                        THEN "acked" ELSE task[u].send[x].pc
    BY <1>7, AckStep
  <2>2. PICK u \in Tasks, x \in Sides : msg = MsgId(u, x) /\ Waits(u, x)
    BY <1>a, <2>1
  <2>3. MsgId(u, x)' = MsgId(u, x) /\ Waits(u, x)'
    BY <2>1, <2>2 DEF MsgId, Waits, SameControl
  <2> QED
    BY <2>2, <2>3
<1>10. ASSUME NEW t \in Tasks, Aborted(t) PROVE Goal
  <2>1. /\ t \in Impatient /\ task'[t].pc = "abandoned" /\ task'[t].round = task[t].round
        /\ pending' = pending /\ \A u \in Tasks : task'[u].send = task[u].send
        /\ \A u \in Tasks \ {t} : task'[u] = task[u]
    BY <1>10, AbortStep
  <2>2. \A u \in Tasks, x \in Sides : MsgId(u, x)' = MsgId(u, x) /\ (Waits(u, x) => Waits(u, x)')
    BY <2>1 DEF MsgId, Waits
  <2> QED
    BY <1>a, <2>1, <2>2
<1>8. ASSUME UNCHANGED <<pending, task>> PROVE Goal
  BY <1>a, <1>8 DEF MsgId, Waits
<1>9. ASSUME \/ ApplyChanges
             \/ \E h \in Hosts : AddClient(h) \/ HostReads(h) \/ HandleNodeDisconnect(h)
             \/ \E ch \in Channels : ChannelEnds(ch) \/ RemoveClient(ch)
             \/ UNCHANGED vars
      PROVE Goal
  BY <1>8, <1>9
     DEF ApplyChanges, AddClient, HostReads, HandleNodeDisconnect, ChannelEnds, RemoveClient, vars
<1> QED
  BY <1>1, <1>2, <1>3, <1>4, <1>5, <1>6, <1>7, <1>9, <1>10 DEF Next, TaskStep, SetupStep

------------------------------------------------------------------------------
(* The parts of an end that a task sets up.                                *)
LEMMA EndParts ==
    ASSUME TypeOK, NEW t \in Tasks, NEW side \in Sides
    PROVE  /\ EndOf(t, side) = Setup(MsgId(t, side), side, task[t].net, DockerOf[t])
           /\ MsgId(t, side)[1] = t /\ MsgId(t, side)[2] = side
           /\ MsgId(t, side)[3] = task[t].round /\ task[t].round \in Nat
           /\ EndOf(t, side).msg = MsgId(t, side) /\ EndOf(t, side).id = task[t].net
           /\ EndOf(t, side).side = side /\ EndOf(t, side).kind = "setup"
  BY DEF EndOf, MsgId, Setup, TypeOK, TaskStates

(* The parts of a message's identity: whose it is, for which end, in which *)
(* round.                                                                  *)
LEMMA MsgParts ==
    ASSUME TypeOK, NEW msg \in MsgIds
    PROVE  /\ msg[1] \in Tasks /\ msg[2] \in Sides /\ msg[3] \in Nat
           /\ msg = <<msg[1], msg[2], msg[3]>>
           /\ task[msg[1]].round \in Nat
  BY DEF MsgIds, TypeOK, TaskStates

(* A message stays current at most, and its sender keeps to the channel it *)
(* used.                                                                   *)
LEMMA SentOn ==
    ASSUME TypeOK, NEW ch \in Channels, NEW msg \in MsgIds, Goes(msg[1]), Sent(msg, ch),
           task'[msg[1]].round \in Nat
    PROVE  /\ msg[3] <= task'[msg[1]].round
           /\ Current(msg)' => /\ Current(msg) /\ task'[msg[1]].net = task[msg[1]].net
                               /\ ch = task'[msg[1]].send[msg[2]].ch
                               /\ task'[msg[1]].send[msg[2]].pc \notin {"lookup", "send"}
<1> DEFINE t == msg[1]
           n == msg[3]
<1>1. t \in Tasks /\ n \in Nat /\ task[t].round \in Nat /\ msg[2] \in Sides
  BY MsgParts
<1>2. n <= task[t].round /\ task[t].round <= task'[t].round
  BY DEF Sent, Goes
<1>3. n <= task'[t].round
  BY <1>1, <1>2
<1>4. ASSUME Current(msg)' PROVE Current(msg) /\ task'[t].round = task[t].round /\ task'[t].pc # "idle"
  <2>1. n = task'[t].round /\ task'[t].pc # "idle"
    BY <1>4 DEF Current
  <2>2. task'[t].round = task[t].round
    BY <1>1, <1>2, <2>1
  <2> QED
    BY <2>1, <2>2 DEF Current, Goes
<1> QED
  BY <1>1, <1>3, <1>4 DEF Goes, Sent

(* Nothing has been sent yet.                                              *)
LEMMA InitTraffic == Init => Traffic
  BY CarriedNothing DEF Init, Traffic

(* Every step keeps Traffic: what is added is the message of a call that   *)
(* has looked its channel up, and allocate_net_id makes every earlier      *)
(* message of its task an old one.                                         *)
LEMMA NextTraffic ==
    TypeOK /\ Routes /\ Lookups /\ Lent /\ Traffic /\ [Next]_vars => Traffic'
<1> SUFFICES ASSUME TypeOK, Routes, Lookups, Lent, Traffic, [Next]_vars, NEW ch \in Channels
             PROVE  /\ \A e \in Carried(held'[ch], queue'[ch]) :
                          /\ e = Setup(e.msg, e.msg[2], e.id, DockerOf[e.msg[1]])
                          /\ Sent(e.msg, ch)'
                          /\ Current(e.msg)' => e.id = task'[e.msg[1]].net
                    /\ \A msg \in acks'[ch] : Sent(msg, ch)'
  BY DEF Traffic
<1>1. WellFormed(pool) /\ \A u \in Tasks : Goes(u)
  BY NextGoes DEF Lent
<1>2. \A u \in Tasks : task'[u].round \in Nat
  BY <1>1, NextTypeOK DEF TypeOK, TaskStates
<1>3. ASSUME NEW msg \in MsgIds, Sent(msg, ch)
      PROVE  /\ Sent(msg, ch)'
             /\ Current(msg)' => Current(msg) /\ task'[msg[1]].net = task[msg[1]].net
  <2>1. msg[1] \in Tasks
    BY MsgParts
  <2> QED
    BY <1>1, <1>2, <1>3, <2>1, SentOn DEF Sent
<1> DEFINE Fine(e) == /\ e = Setup(e.msg, e.msg[2], e.id, DockerOf[e.msg[1]])
                      /\ Sent(e.msg, ch)'
                      /\ Current(e.msg)' => e.id = task'[e.msg[1]].net
<1>4. ASSUME NEW e \in Carried(held[ch], queue[ch]) PROVE Fine(e) /\ e.msg \in MsgIds /\ Sent(e.msg, ch)
  <2>1. /\ e = Setup(e.msg, e.msg[2], e.id, DockerOf[e.msg[1]]) /\ Sent(e.msg, ch)
        /\ Current(e.msg) => e.id = task[e.msg[1]].net
    BY <1>4 DEF Traffic
  <2>2. e.msg \in MsgIds
    BY <1>4, ChannelTyped, CarriedTyped DEF Setups
  <2> QED
    BY <1>3, <2>1, <2>2
<1>5. ASSUME NEW msg \in acks[ch] PROVE Sent(msg, ch)'
  <2>1. msg \in MsgIds /\ Sent(msg, ch)
    BY <1>5 DEF Traffic, TypeOK
  <2> QED
    BY <1>3, <2>1
<1> HIDE DEF Fine
<1> SUFFICES /\ \A e \in Carried(held'[ch], queue'[ch]) : Fine(e)
             /\ \A msg \in acks'[ch] : Sent(msg, ch)'
  BY DEF Fine
<1>6. CASE Same(ch)
  BY <1>4, <1>5, <1>6 DEF Same
<1>7. CASE Clears(ch)
  BY <1>7, CarriedNothing DEF Clears
<1>8. ASSUME NEW message \in Messages, Reads(ch, message)
      PROVE  /\ \A e \in Carried(held'[ch], queue'[ch]) : Fine(e)
             /\ \A msg \in acks'[ch] : Sent(msg, ch)'
  <2>1. /\ Carried(held'[ch], queue'[ch]) \subseteq Carried(held[ch], queue[ch])
        /\ message.kind = "setup" => message \in Carried(held[ch], queue[ch])
    BY <1>1, <1>8, NextChannel, CarriedReadOff DEF Reads
  <2>2. message.kind = "setup" => Sent(message.msg, ch)'
    BY <1>3, <1>4, <2>1
  <2> QED
    BY <1>4, <1>5, <1>8, <2>1, <2>2 DEF Reads
<1>9. ASSUME NEW t \in Tasks, NEW side \in Sides, PutsSetup(ch, t, side)
      PROVE  /\ \A e \in Carried(held'[ch], queue'[ch]) : Fine(e)
             /\ \A msg \in acks'[ch] : Sent(msg, ch)'
  <2>0. PICK m : m = EndOf(t, side)
    OBVIOUS
  <2>1. /\ SetupSend(t, side) /\ AtSend(t, side, "send") /\ ch = task[t].send[side].ch
        /\ m \in Setups /\ m \in Messages /\ Added(queue[ch], m, queue'[ch])
        /\ held'[ch] = held[ch] /\ acks'[ch] = acks[ch]
    BY <1>9, <2>0 DEF PutsSetup, Puts, Messages
  <2>2. \E pc \in {"none", "wait"} :
           /\ SameControl(t) /\ task'[t].send[side].ch = ch /\ task'[t].send[side].pc = pc
    <3>1. PICK pc \in {"none", "wait"} : SendGoto(t, side, pc)
      BY <2>1 DEF SetupSend
    <3>2. /\ \A u \in Tasks : SameControl(u)
          /\ \A u \in Tasks, x \in Sides :
                /\ task'[u].send[x].ch = task[u].send[x].ch
                /\ task'[u].send[x].pc = IF u = t /\ x = side THEN pc ELSE task[u].send[x].pc
      BY <3>1, GotoStep
    <3> QED
      BY <2>1, <3>2
  <2>3. Fine(m)
    <3>1. /\ m.msg[1] = t /\ m.msg[2] = side /\ m.msg[3] = task[t].round /\ m.id = task[t].net
          /\ task[t].round \in Nat
          /\ m = Setup(m.msg, m.msg[2], m.id, DockerOf[m.msg[1]])
      BY <2>0, EndParts
    <3>2. /\ task'[t].send[side].pc \notin {"lookup", "send"} /\ task'[t].send[side].ch = ch
          /\ task'[t].round = task[t].round /\ task'[t].net = task[t].net
      BY <2>2 DEF SameControl
    <3>3. m.msg[3] <= task'[t].round
      BY <3>1, <3>2
    <3> QED
      BY <3>1, <3>2, <3>3 DEF Fine, Sent, Current
  <2>4. Carried(held'[ch], queue'[ch]) \subseteq Carried(held[ch], queue[ch]) \cup {m}
    BY <1>1, <2>1, NextChannel, CarriedAdded
  <2> QED
    BY <1>4, <1>5, <2>1, <2>3, <2>4
<1>10. ASSUME NEW t \in Tasks, PutsTeardown(ch, t)
      PROVE  /\ \A e \in Carried(held'[ch], queue'[ch]) : Fine(e)
             /\ \A msg \in acks'[ch] : Sent(msg, ch)'
  <2> DEFINE m == Teardown(task[t].leg, task[t].net)
  <2>1. /\ m \in Teardowns /\ m \in Messages /\ Added(queue[ch], m, queue'[ch])
        /\ held'[ch] = held[ch] /\ acks'[ch] = acks[ch]
    BY <1>10 DEF PutsTeardown, Puts, Messages
  <2> HIDE DEF m
  <2>2. Carried(held'[ch], queue'[ch]) \subseteq Carried(held[ch], queue[ch])
    BY <1>1, <2>1, NextChannel, CarriedAdded, Kinds
  <2> QED
    BY <1>4, <1>5, <2>1, <2>2
<1> QED
  BY <1>1, <1>6, <1>7, <1>8, <1>9, <1>10, NextChannel

------------------------------------------------------------------------------
(* No network is being set up.                                             *)
LEMMA InitInstalled == Init => Installed
  BY DEF Init, Installed, IdleTask

(* Every step keeps Installed: until the task's own teardown, no message   *)
(* that is sent names its ends, because no other task has its identifier;  *)
(* and an acknowledgement is of the end that was read.                     *)
LEMMA NextInstalled ==
    TypeOK /\ Routes /\ Lookups /\ Lent /\ Traffic /\ Installed /\ [Next]_vars => Installed'
<1> SUFFICES ASSUME TypeOK, Routes, Lookups, Lent, Traffic, Installed, [Next]_vars,
                    NEW t \in Tasks, NEW side \in Sides, task'[t].pc \in {"setup", "up"},
                    NEW e, e = EndOf(t, side)', NEW msg, msg = MsgId(t, side)'
             PROVE  /\ \A ch \in Channels :
                          /\ Lasting(held'[ch], queue'[ch], e)
                          /\ msg \in acks'[ch] => e \in held'[ch]
                    /\ task'[t].send[side].pc = "acked" /\ ~Broken(task[t].send[side].ch)'
                          => e \in held'[task'[t].send[side].ch]
  BY DEF Installed
<1>1. WellFormed(pool) /\ TypeOK' /\ Lookups' /\ task[t].round \in Nat
  BY NextTypeOK, NextLookups DEF Lent, TypeOK, TaskStates
<1>2. /\ e = Setup(msg, side, task'[t].net, DockerOf[t]) /\ e.msg = msg /\ e.id = task'[t].net
      /\ msg = <<t, side, task'[t].round>> /\ e.kind = "setup"
  BY DEF EndOf, MsgId, Setup
<1>3. e \in Setups
  <2>1. task'[t].net \in NetIds /\ task'[t].round \in Nat
    BY <1>1 DEF TypeOK, TaskStates
  <2>2. msg \in MsgIds
    BY <1>2, <2>1 DEF MsgIds
  <2> QED
    BY <1>2, <2>1, <2>2, SetupTyped
<1>4. CASE AllocateNetId(t)
  <2>1. /\ task'[t].round = task[t].round + 1 /\ task'[t].send[side].pc = "lookup"
        /\ UNCHANGED <<queue, acks, held>>
    BY <1>4, AllocateStep DEF hostVars
  <2>2. ASSUME NEW ch \in Channels
        PROVE  e \notin Carried(held[ch], queue[ch]) /\ msg \notin acks[ch]
    <3>1. ~Sent(msg, ch)
      BY <1>1, <1>2, <2>1 DEF Sent
    <3> QED
      BY <1>2, <3>1 DEF Traffic
  <2>3. ASSUME NEW ch \in Channels PROVE Lasting(held[ch], queue[ch], e)
    BY <2>2, LastingNothing, ChannelTyped
  <2> QED
    BY <2>1, <2>2, <2>3
<1>5. CASE ~AllocateNetId(t)
  <2>1. /\ task'[t].round = task[t].round /\ task'[t].net = task[t].net
        /\ task[t].pc \in {"setup", "up"}
        /\ task[t].send[side].pc \notin {"lookup", "send"} =>
               task'[t].send[side].ch = task[t].send[side].ch
    BY <1>5, NextGoes DEF Goes
  <2>2. e = EndOf(t, side) /\ msg = MsgId(t, side)
    BY <1>2, <2>1 DEF EndOf, MsgId
  <2>3. ASSUME NEW ch \in Channels
        PROVE  /\ Lasting(held[ch], queue[ch], e)
               /\ msg \in acks[ch] => e \in held[ch]
    BY <2>1, <2>2 DEF Installed
  <2>4. ASSUME NEW ch \in Channels
        PROVE  /\ Lasting(held'[ch], queue'[ch], e)
               /\ msg \in acks'[ch] => e \in held'[ch]
               /\ e \in held[ch] /\ inbound'[ch] # "ended" => e \in held'[ch]
    <3> DEFINE Goal == /\ Lasting(held'[ch], queue'[ch], e)
                       /\ msg \in acks'[ch] => e \in held'[ch]
                       /\ e \in held[ch] /\ inbound'[ch] # "ended" => e \in held'[ch]
    <3>1. CASE Same(ch)
      BY <2>3, <3>1 DEF Same
    <3>2. CASE Clears(ch)
      <4>1. Lasting({}, <<>>, e)
        BY DEF Lasting, At
      <4> QED
        BY <3>2, <4>1 DEF Clears
    <3>3. ASSUME NEW m \in Messages, Reads(ch, m) PROVE Goal
      <4>1. /\ Lasting(held'[ch], queue'[ch], e)
            /\ e \in held[ch] => e \in held'[ch]
            /\ m.kind = "setup" => m \in held'[ch]
        BY <1>1, <1>3, <2>3, <3>3, NextChannel, LastingReadOff DEF Reads
      <4>2. m.kind = "setup" /\ m.msg = msg => m = e
        <5>1. m.kind = "setup" => m \in Carried(held[ch], queue[ch])
          BY <1>1, <3>3, NextChannel, CarriedReadOff DEF Reads
        <5>2. Current(msg)
          BY <1>2, <2>1 DEF Current
        <5> QED
          BY <1>2, <2>1, <5>1, <5>2 DEF Traffic
      <4>3. msg \in acks'[ch] => msg \in acks[ch] \/ (m.kind = "setup" /\ m.msg = msg)
        BY <3>3 DEF Reads
      <4> QED
        BY <2>3, <4>1, <4>2, <4>3
    <3>4. ASSUME NEW m \in Messages, Puts(ch, m), ~Names(m, e) PROVE Goal
      <4>1. Lasting(held'[ch], queue'[ch], e)
        BY <1>1, <1>3, <2>3, <3>4, NextChannel, LastingAdded DEF Puts
      <4> QED
        BY <2>3, <3>4, <4>1 DEF Puts
    <3>5. ASSUME NEW u \in Tasks, NEW x \in Sides, PutsSetup(ch, u, x) PROVE Goal
      <4>1. PICK m : m = EndOf(u, x)
        OBVIOUS
      <4>2. m \in Messages /\ Puts(ch, m) /\ m.kind = "setup"
        BY <3>5, <4>1, Kinds DEF PutsSetup, Messages
      <4>3. ~Names(m, e)
        BY <4>2 DEF Names
      <4> QED
        BY <3>4, <4>2, <4>3
    <3>6. ASSUME NEW u \in Tasks, PutsTeardown(ch, u) PROVE Goal
      <4>1. PICK m : m = Teardown(task[u].leg, task[u].net)
        OBVIOUS
      <4>2. m \in Messages /\ Puts(ch, m) /\ m.id = task[u].net
        BY <3>6, <4>1 DEF PutsTeardown, Messages, Teardown
      <4>3. u # t /\ task[u].pc # "idle" /\ task[t].pc # "idle"
        BY <2>1, <3>6 DEF PutsTeardown, TearingDown
      <4>4. task[u].net # task[t].net
        BY <4>3 DEF Lent
      <4>5. ~Names(m, e)
        BY <1>2, <2>1, <4>2, <4>4 DEF Names
      <4> QED
        BY <3>4, <4>2, <4>5
    <3> HIDE DEF Goal
    <3>7. Goal
      BY <1>1, <3>1, <3>2, <3>3, <3>5, <3>6, NextChannel DEF Goal
    <3> QED
      BY <3>7 DEF Goal
  <2>5. ASSUME task'[t].send[side].pc = "acked", ~Broken(task[t].send[side].ch)'
        PROVE  e \in held'[task'[t].send[side].ch]
    <3>1. PICK c : c = task'[t].send[side].ch
      OBVIOUS
    <3>2. c \in Channels
      BY <1>1, <2>5, <3>1 DEF TypeOK, TaskStates, Sends, Lookups, LookedUp
    <3>3. inbound'[c] \notin {"ended", "removed"}
      BY <2>5, <3>1 DEF Broken
    <3>4. CASE task[t].send[side].pc = "acked"
      <4>1. c = task[t].send[side].ch
        BY <2>1, <3>1, <3>4
      <4>2. ~Broken(c)
        BY <3>2, <3>3, NextBroken
      <4>3. e \in held[c]
        BY <2>1, <2>2, <3>4, <4>1, <4>2 DEF Installed
      <4> QED
        BY <2>4, <3>1, <3>2, <3>3, <4>3
    <3>5. ASSUME NEW ch \in Channels, MsgId(t, side) \in acks[ch], UNCHANGED held
          PROVE  e \in held'[c]
      <4>1. Current(msg)
        BY <1>2, <2>1 DEF Current
      <4>2. ch = task[t].send[side].ch /\ task[t].send[side].pc \notin {"lookup", "send"}
        <5>1. Sent(msg, ch)
          BY <1>2, <2>2, <3>5 DEF Traffic
        <5>2. msg[1] = t /\ msg[2] = side
          BY <1>2
        <5> QED
          BY <4>1, <5>1, <5>2 DEF Sent
      <4>3. ch = c
        BY <2>1, <3>1, <4>2
      <4> QED
        BY <2>2, <2>3, <3>5, <4>3
    <3>6. Acknowledged(t, side)
      BY <2>1, <2>5, NextCalls
    <3> QED
      BY <3>1, <3>4, <3>5, <3>6 DEF Acknowledged
  <2> QED
    BY <2>4, <2>5
<1> QED
  BY <1>4, <1>5

------------------------------------------------------------------------------
(* No host keeps anything yet.                                             *)
LEMMA InitKept == Init => Kept
  BY KeepsNothing, ChannelParts, OrchestratorConstants DEF Init, Kept

(* Every step keeps Kept. The steps that could break it are those of the   *)
(* teardown of the end's own network: TeardownLookup passes an end by only *)
(* when its host has no channel, and TeardownSend puts a message that      *)
(* names the end on the channel that keeps it, because a host's channel    *)
(* that was looked up later is the same or a newer one.                    *)
LEMMA NextKept ==
    TypeOK /\ Routes /\ Lookups /\ Lent /\ Traffic /\ Kept /\ [Next]_vars => Kept'
<1> SUFFICES ASSUME TypeOK, Routes, Lookups, Lent, Traffic, Kept, [Next]_vars,
                    NEW h \in Hosts, clients'[h] # None,
                    NEW e \in Keeps(held'[clients'[h]], queue'[clients'[h]])
             PROVE  Unswept(e.msg)'
  BY DEF Kept
<1>0. PICK ch : ch = clients'[h]
  OBVIOUS
<1>1. WellFormed(pool) /\ TypeOK'
  BY NextTypeOK DEF Lent
<1>2. ch = clients[h] /\ ch \in Channels
  <2>1. ch \in Channels
    BY <1>0, <1>1 DEF TypeOK
  <2>2. clients'[h] = clients[h]
    BY NextClients, KeepsNothing
  <2> QED
    BY <1>0, <2>1, <2>2
<1>3. ch[1] = h /\ ch[2] = opened[h] /\ ch # None /\ opened[h] \in Nat
  BY <1>0, <1>2 DEF Routes, TypeOK
<1>4. /\ e \in Setups
      /\ \/ /\ e \in Keeps(held[ch], queue[ch])
            /\ \A t \in Tasks : PutsTeardown(ch, t) =>
                   ~Names(Teardown(task[t].leg, task[t].net), e)
         \/ \E t \in Tasks, side \in Sides : PutsSetup(ch, t, side) /\ e = EndOf(t, side)
  BY <1>0, <1>1, <1>2, NextKeeps
<1>5. ASSUME NEW t \in Tasks, NEW side \in Sides, PutsSetup(ch, t, side), e = EndOf(t, side)
      PROVE  Unswept(e.msg)'
  <2>1. e.msg[1] = t /\ e.msg[3] = task[t].round
    BY <1>5, EndParts
  <2>2. SetupSend(t, side) /\ task[t].pc = "setup"
    BY <1>5 DEF PutsSetup, AtSend
  <2>3. task'[t].pc = "setup" /\ task'[t].round = task[t].round /\ task'[t].leg = task[t].leg
    BY <2>2, SetupSendStep DEF SameControl, SameLeg
  <2>4. task[t].leg = "client"
    BY <2>2 DEF Lookups, LookedUp
  <2> QED
    BY <2>1, <2>3, <2>4 DEF Unswept, Current
<1>6. ASSUME e \in Keeps(held[ch], queue[ch]),
             \A t \in Tasks : PutsTeardown(ch, t) =>
                ~Names(Teardown(task[t].leg, task[t].net), e)
      PROVE  Unswept(e.msg)'
  <2>0. PICK t, side : t = e.msg[1] /\ side = e.msg[2]
    OBVIOUS
  <2>1. t \in Tasks /\ side \in Sides /\ e.msg \in MsgIds
    BY <1>4, <2>0, MsgParts DEF Setups
  <2>2. /\ Unswept(e.msg) /\ Current(e.msg)
        /\ task[t].pc # "idle" /\ e.msg[3] = task[t].round /\ task[t].leg \in {"client", side}
    BY <1>2, <1>3, <1>6, <2>0 DEF Kept, Unswept, Current
  <2>3. e \in Carried(held[ch], queue[ch])
    BY <1>6, KeepsCarried
  <2>4. /\ ch = task[t].send[side].ch
        /\ e = Setup(e.msg, side, e.id, DockerOf[t]) /\ e.id = task[t].net
    BY <1>2, <2>0, <2>2, <2>3 DEF Traffic, Sent
  <2>5. e.side = side
    BY <2>4 DEF Setup
  <2>a. ASSUME task'[t].pc # "idle", task'[t].round = task[t].round,
               task'[t].leg \in {"client", side}
        PROVE  Unswept(e.msg)'
    BY <2>0, <2>2, <2>a DEF Unswept, Current
  <2>6. CASE Stays(t)
    BY <2>0, <2>2, <2>6 DEF Stays, Unswept, Current
  <2>7. CASE AllocateNetId(t)
    BY <2>1, <2>2, <2>7, AllocateStep
  <2>8. CASE TeardownFree(t)
    BY <2>1, <2>2, <2>8 DEF TeardownFree, Leg, Sides
  <2>9. CASE TeardownLookup(t)
    <3>1. /\ task[t].leg \in Sides /\ task'[t].pc = task[t].pc /\ task'[t].round = task[t].round
          /\ \/ clients[EndsOf[t][task[t].leg]] = None /\ task'[t].leg = NextLeg(task[t].leg)
             \/ task'[t].leg = task[t].leg
      BY <2>1, <2>9, TeardownLookupStep DEF SameControl
    <3>2. CASE task[t].leg = side
      <4>1. EndsOf[t][side] = h
        BY <1>3, <2>1, <2>4 DEF Lookups, LookedUp
      <4>2. task'[t].leg = task[t].leg
        BY <1>2, <1>3, <3>1, <3>2, <4>1
      <4> QED
        BY <2>0, <2>2, <3>1, <4>2 DEF Unswept, Current
    <3>3. CASE task[t].leg # side
      <4>1. task[t].leg = "client" /\ side = "server"
        BY <2>1, <2>2, <3>3 DEF Sides
      <4>2. task'[t].leg \in {"client", side}
        BY <3>1, <4>1 DEF NextLeg
      <4> QED
        BY <2>2, <2>a, <3>1, <4>2
    <3> QED
      BY <3>2, <3>3
  <2>10. CASE TeardownSend(t)
    <3>1. /\ task[t].leg \in Sides /\ TearingDown(t) /\ task'[t].pc = task[t].pc
          /\ task'[t].round = task[t].round
          /\ task'[t].leg = NextLeg(task[t].leg)
          /\ task[t].ch \in Channels /\ task[t].ch[1] = EndsOf[t][task[t].leg]
          /\ task[t].ch[2] <= opened[task[t].ch[1]]
          /\ \/ Broken(task[t].ch)
             \/ /\ inbound[task[t].ch] = "open"
                /\ queue' = [queue EXCEPT ![task[t].ch] =
                                 Append(@, Teardown(task[t].leg, task[t].net))]
      BY <2>1, <2>10, TeardownSendStep DEF SameControl
    <3>2. CASE task[t].leg = side
      <4>1. EndsOf[t][side] = h /\ task[t].ch # None
        BY <1>3, <2>1, <2>4, <2>10 DEF Lookups, LookedUp, TeardownSend
      <4>2. ch[2] <= task[t].ch[2]
        BY <1>3, <2>1, <2>4, <3>2, <4>1 DEF Lookups, LookedUp
      <4>3. task[t].ch = ch
        <5>1. task[t].ch[2] \in Nat /\ task[t].ch = <<task[t].ch[1], task[t].ch[2]>>
          BY <3>1, ChannelParts, OrchestratorConstants
        <5>2. ch = <<ch[1], ch[2]>>
          BY <1>2, ChannelParts
        <5>3. task[t].ch[1] = ch[1] /\ task[t].ch[2] = ch[2]
          BY <1>3, <3>1, <3>2, <4>1, <4>2, <5>1
        <5> QED
          BY <5>1, <5>2, <5>3, Zenon
      <4>4. ~Broken(ch)
        BY <1>2, <1>6, KeepsNothing DEF Broken, Routes
      <4> QED
        <5>1. PICK m : m = Teardown(task[t].leg, task[t].net)
          OBVIOUS
        <5>2. m.kind = "teardown" /\ m.id = e.id /\ e.side \in m.sides
          BY <2>1, <2>4, <2>5, <3>2, <5>1 DEF Teardown
        <5>3. Names(m, e)
          BY <5>2 DEF Names
        <5>4. ~PutsTeardown(ch, t)
          BY <1>6, <2>1, <5>1, <5>3
        <5>5. m \in Teardowns
          BY <2>1, <3>1, <5>1, TeardownTyped DEF TypeOK, TearingDown
        <5>6. queue'[ch] = Append(queue[ch], m)
          BY <1>2, <3>1, <4>3, <4>4, <5>1 DEF TypeOK
        <5>7. Added(queue[ch], m, queue'[ch])
          BY <1>2, <5>5, <5>6, ChannelTyped, AppendAdds DEF Messages
        <5>8. held' = held /\ acks' = acks
          BY <2>10 DEF TeardownSend
        <5>9. PutsTeardown(ch, t)
          BY <2>10, <3>1, <4>3, <4>4, <5>1, <5>5, <5>7, <5>8 DEF PutsTeardown, Puts
        <5> QED
          BY <5>4, <5>9, Zenon
    <3>3. CASE task[t].leg # side
      <4>1. task[t].leg = "client" /\ side = "server"
        BY <2>1, <2>2, <3>3 DEF Sides
      <4>2. task'[t].leg \in {"client", side}
        BY <3>1, <4>1 DEF NextLeg
      <4> QED
        BY <2>2, <2>a, <3>1, <4>2
    <3> QED
      BY <3>2, <3>3
  <2> QED
    BY <2>1, <2>6, <2>7, <2>8, <2>9, <2>10, NextStays
<1> QED
  BY <1>4, <1>5, <1>6

------------------------------------------------------------------------------
(* No call is about to send anything.                                      *)
LEMMA InitFresh == Init => Fresh
  BY DEF Init, Fresh, AtSend, IdleTask

(* Every step keeps Fresh: when the channel is looked up, what the host    *)
(* keeps is of networks that still have their identifiers, so none has     *)
(* this one; and later another network cannot be sent with an identifier   *)
(* that is in use.                                                         *)
LEMMA NextFresh ==
    TypeOK /\ Routes /\ Lookups /\ Lent /\ Traffic /\ Kept /\ Fresh /\ [Next]_vars => Fresh'
<1> SUFFICES ASSUME TypeOK, Routes, Lookups, Lent, Traffic, Kept, Fresh, [Next]_vars,
                    NEW t \in Tasks, NEW side \in Sides, AtSend(t, side, "send")',
                    NEW ch, ch = task'[t].send[side].ch,
                    NEW e \in Keeps(held'[ch], queue'[ch]), e.id = task'[t].net
             PROVE  e.msg[1] = t /\ e.msg[3] = task'[t].round
  BY DEF Fresh
<1>1. WellFormed(pool) /\ TypeOK' /\ Lookups'
  BY NextTypeOK, NextLookups DEF Lent
<1>2. ch \in Channels
  <2>1. task'[t].send[side] \in Sends
    BY <1>1 DEF TypeOK, TaskStates
  <2>2. LookedUp(t)' /\ task'[t].send[side].pc = "send"
    BY <1>1 DEF Lookups, AtSend
  <2>3. ch # None
    BY <2>2 DEF LookedUp
  <2> QED
    BY <2>1, <2>3 DEF Sends
<1>3. task'[t].pc = "setup" /\ task'[t].send[side].pc = "send"
  BY DEF AtSend
<1>4. /\ task'[t].round = task[t].round /\ task'[t].net = task[t].net
      /\ task[t].pc # "idle"
  <2>1. ~AllocateNetId(t)
    <3>1. AllocateNetId(t) => task'[t].send[side].pc = "lookup"
      BY AllocateStep
    <3> QED
      BY <1>3, <3>1
  <2> QED
    BY <1>3, <2>1, NextGoes DEF Goes
<1>5. Sending(t, side)
  BY <1>4, NextCalls
<1>6. /\ e \in Setups
      /\ \/ e \in Keeps(held[ch], queue[ch])
         \/ \E u \in Tasks, x \in Sides : PutsSetup(ch, u, x) /\ e = EndOf(u, x)
  BY <1>1, <1>2, NextKeeps
<1>7. ASSUME NEW u \in Tasks, NEW x \in Sides, PutsSetup(ch, u, x), e = EndOf(u, x)
      PROVE  e.msg[1] = t /\ e.msg[3] = task[t].round
  <2>1. e.msg[1] = u /\ e.msg[3] = task[u].round /\ e.id = task[u].net
    BY <1>7, EndParts
  <2>2. task[u].pc # "idle"
    BY <1>7 DEF PutsSetup, AtSend
  <2>3. u = t
    BY <1>4, <2>1, <2>2 DEF Lent
  <2> QED
    BY <2>1, <2>3
<1>8. ASSUME e \in Keeps(held[ch], queue[ch]), AtSend(t, side, "send"), ch = task[t].send[side].ch
      PROVE  e.msg[1] = t /\ e.msg[3] = task[t].round
  BY <1>4, <1>8 DEF Fresh
<1>9. ASSUME e \in Keeps(held[ch], queue[ch]),
             ch = clients[EndsOf[t][side]], clients[EndsOf[t][side]] # None
      PROVE  e.msg[1] = t /\ e.msg[3] = task[t].round
  <2>1. EndsOf[t][side] \in Hosts
    BY OrchestratorConstants
  <2>2. Current(e.msg)
    BY <1>9, <2>1 DEF Kept, Unswept
  <2>3. e \in Carried(held[ch], queue[ch])
    BY <1>9, KeepsCarried
  <2>4. e.id = task[e.msg[1]].net
    BY <1>2, <2>2, <2>3 DEF Traffic
  <2>5. e.msg[1] \in Tasks
    BY <1>6, MsgParts DEF Setups
  <2>6. e.msg[1] = t
    BY <1>4, <2>2, <2>4, <2>5 DEF Lent, Current
  <2> QED
    BY <2>2, <2>6 DEF Current
<1> QED
  BY <1>4, <1>5, <1>6, <1>7, <1>8, <1>9 DEF Sending

(* No channel holds anything yet.                                          *)
LEMMA InitSeparated == Init => Separated
  BY ApartNothing DEF Init, Separated

(* Every step keeps Separated: a set-up that is sent is Fresh, and what is *)
(* read was apart in the queue.                                            *)
LEMMA NextSeparated ==
    TypeOK /\ Routes /\ Lookups /\ Lent /\ Fresh /\ Separated /\ [Next]_vars => Separated'
<1> SUFFICES ASSUME TypeOK, Routes, Lookups, Lent, Fresh, Separated, [Next]_vars,
                    NEW ch \in Channels
             PROVE  Apart(held'[ch], queue'[ch])
  BY DEF Separated
<1>1. Apart(held[ch], queue[ch]) /\ WellFormed(pool)
  BY DEF Separated, Lent
<1>2. CASE Same(ch)
  BY <1>1, <1>2 DEF Same
<1>3. CASE Clears(ch)
  BY <1>3, ApartNothing DEF Clears
<1>4. ASSUME NEW message \in Messages, Reads(ch, message) PROVE Apart(held'[ch], queue'[ch])
  BY <1>1, <1>4, NextChannel, ApartReadOff DEF Reads
<1>5. ASSUME NEW t \in Tasks, NEW side \in Sides, PutsSetup(ch, t, side)
      PROVE  Apart(held'[ch], queue'[ch])
  <2>0. PICK m : m = EndOf(t, side)
    OBVIOUS
  <2>1. /\ AtSend(t, side, "send") /\ ch = task[t].send[side].ch
        /\ m \in Setups /\ m \in Messages /\ Added(queue[ch], m, queue'[ch])
        /\ held'[ch] = held[ch]
    BY <1>5, <2>0 DEF PutsSetup, Puts, Messages
  <2>2. \A e \in Keeps(held[ch], queue[ch]) :
           e.id = task[t].net => e.msg[1] = t /\ e.msg[3] = task[t].round
    BY <2>1 DEF Fresh
  <2>3. m.msg[1] = t /\ m.msg[3] = task[t].round /\ m.id = task[t].net
    BY <2>0, EndParts
  <2>4. \A e \in Keeps(held[ch], queue[ch]) : e.id = m.id => SameNet(e, m)
    BY <2>2, <2>3 DEF SameNet
  <2> QED
    BY <1>1, <2>1, <2>4, NextChannel, ApartAdded
<1>6. ASSUME NEW t \in Tasks, PutsTeardown(ch, t) PROVE Apart(held'[ch], queue'[ch])
  <2>0. PICK m : m = Teardown(task[t].leg, task[t].net)
    OBVIOUS
  <2>1. /\ m \in Teardowns /\ m \in Messages /\ Added(queue[ch], m, queue'[ch])
        /\ held'[ch] = held[ch]
    BY <1>6, <2>0 DEF PutsTeardown, Puts, Messages
  <2>2. m \notin Setups
    BY <2>1, Kinds
  <2> QED
    BY <1>1, <2>1, <2>2, NextChannel, ApartAdded
<1> QED
  BY <1>1, <1>2, <1>3, <1>4, <1>5, <1>6, NextChannel

------------------------------------------------------------------------------
(* The inductive invariant holds at the start.                             *)
LEMMA InitExchange == Init => ExchangeInv
  BY InitTypeOK, InitLayers, InitTraffic, InitInstalled, InitKept, InitFresh, InitSeparated
     DEF ExchangeInv

(* Every step keeps the inductive invariant, layer by layer.               *)
LEMMA NextExchange == ExchangeInv /\ [Next]_vars => ExchangeInv'
<1> SUFFICES ASSUME ExchangeInv, [Next]_vars PROVE ExchangeInv'
  OBVIOUS
<1>1. /\ TypeOK /\ Routes /\ Lookups /\ Lent /\ PendingOwned
      /\ Traffic /\ Installed /\ Kept /\ Fresh /\ Separated
  BY DEF ExchangeInv
<1>2. WellFormed(pool)
  BY <1>1 DEF Lent
<1>3. TypeOK' /\ Routes' /\ Lookups' /\ Lent' /\ PendingOwned'
  BY <1>1, <1>2, NextTypeOK, NextRoutes, NextLookups, NextLent, NextPendingOwned
<1>4. Traffic' /\ Installed' /\ Kept' /\ Fresh' /\ Separated'
  BY <1>1, NextTraffic, NextInstalled, NextKept, NextFresh, NextSeparated
<1> QED
  BY <1>3, <1>4 DEF ExchangeInv

(* The inductive invariant of the exchange always holds, for any hosts,    *)
(* edges, capacity and number of rounds.                                   *)
THEOREM ExchangeSafe == Spec => []ExchangeInv
<1> QED
  BY InitExchange, NextExchange, PTL DEF Spec

------------------------------------------------------------------------------
(* The state is always typed; in particular no outbound queue is ever      *)
(* longer than its capacity, and the networks of a sweep are in the map or *)
(* on their way out.                                                       *)
THEOREM ExchangeTyped == Spec => []TypeOK
<1>1. ExchangeInv => TypeOK
  BY DEF ExchangeInv
<1> QED
  BY <1>1, ExchangeSafe, PTL

(* An entry of pending is one that its call is going to remove, or was     *)
(* when the call was aborted (send_net_setup, the inbound task of          *)
(* control_channel and the drop of the JoinSet in net_chain_setup), in     *)
(* whatever order time-outs, late acknowledgements and the end of channels *)
(* come: with callers that never give up, the map does not leak.           *)
THEOREM PendingAccounted == Spec => []PendingOwned
<1>1. ExchangeInv => PendingOwned
  BY DEF ExchangeInv
<1> QED
  BY <1>1, ExchangeSafe, PTL

(* A network in the map has both acknowledgements, so both ends are        *)
(* installed.                                                              *)
LEMMA InvUsable == ExchangeInv => UsableWhenUp
<1> SUFFICES ASSUME ExchangeInv, NEW t \in Tasks, task[t].pc = "up"
             PROVE  /\ \A side \in Sides : ~Broken(task[t].send[side].ch) =>
                          EndOf(t, side) \in held[task[t].send[side].ch]
                    /\ EndOf(t, "client").mapping \in EndOf(t, "server").local
  BY DEF UsableWhenUp, Up
<1>1. \A side \in Sides : task[t].send[side].pc = "acked"
  BY DEF ExchangeInv, Lookups, LookedUp, BothAcked
<1>2. \A side \in Sides : ~Broken(task[t].send[side].ch) =>
         EndOf(t, side) \in held[task[t].send[side].ch]
  BY <1>1 DEF ExchangeInv, Installed
<1>3. ServerSlot(DockerOf[t]) \in LocalSlots("server")
  BY NetTypes DEF ServerSlot, LocalSlots
<1>4. EndOf(t, "client").mapping = Addr(task[t].net, ServerSlot(DockerOf[t]))
  BY DEF EndOf, Setup
<1>5. EndOf(t, "server").local = {Addr(task[t].net, slot) : slot \in LocalSlots("server")}
  BY DEF EndOf, Setup
<1> QED
  BY <1>2, <1>3, <1>4, <1>5

(* A network in the map works on every host whose channel has lasted       *)
(* (net_chain_setup enters it after both acknowledgements), whatever       *)
(* messages of earlier networks are still on their way.                    *)
THEOREM UpIsUsable == Spec => []UsableWhenUp
  BY InvUsable, ExchangeSafe, PTL

(* What a host keeps has still to be torn down, so its identifier is in    *)
(* use.                                                                    *)
LEMMA InvNoOrphan == ExchangeInv => NoOrphan
<1> SUFFICES ASSUME ExchangeInv, NEW h \in Hosts, clients[h] # None,
                    NEW e \in Keeps(held[clients[h]], queue[clients[h]])
             PROVE  e.id \in InUse(pool)
  BY DEF NoOrphan
<1>1. clients[h] \in Channels
  BY DEF ExchangeInv, TypeOK
<1>2. Current(e.msg)
  BY DEF ExchangeInv, Kept, Unswept
<1>3. e \in Carried(held[clients[h]], queue[clients[h]])
  BY KeepsCarried
<1>4. e.id = task[e.msg[1]].net
  BY <1>1, <1>2, <1>3 DEF ExchangeInv, Traffic
<1>5. e.msg[1] \in Tasks
  <2>1. e \in Setups
    BY <1>1, <1>3, ChannelTyped, CarriedTyped DEF ExchangeInv
  <2> QED
    BY <2>1, MsgParts DEF Setups, ExchangeInv
<1> QED
  BY <1>2, <1>4, <1>5 DEF Current, ExchangeInv, Lent

(* send_net_teardown gives an identifier back only when no host that       *)
(* messages reach will keep an end of its network, after all it has been   *)
(* sent.                                                                   *)
THEOREM NothingOrphaned == Spec => []NoOrphan
  BY InvNoOrphan, ExchangeSafe, PTL

(* Every identifier of the pool has a block, and the slots of the two ends *)
(* are in it and apart.                                                    *)
LEMMA IdsAndSlots ==
    /\ NetIds \subseteq Ids
    /\ \A side \in Sides : LocalSlots(side) \subseteq Slots
    /\ LocalSlots("client") \cap LocalSlots("server") = {}
<1>1. NetIds \subseteq Ids
  BY PoolBounds, OrchestratorConstants, WidthCases DEF NetIds, Ids
<1>2. NetType = "VLAN" => Slots = 1 .. 2
  BY DEF Slots, Width
<1>3. NetType = "VXLAN" => Slots = 1 .. 6
  BY DEF Slots, Width
<1> QED
  BY <1>1, <1>2, <1>3, NetTypes DEF LocalSlots, Sides

(* Two ends a host holds have different identifiers and different blocks,  *)
(* or are the two ends of one network.                                     *)
LEMMA InvNoClash == ExchangeInv => NoClash
<1> SUFFICES ASSUME ExchangeInv, NEW ch \in Channels, NEW e \in held[ch], NEW f \in held[ch], e # f,
                    NEW a \in e.local, NEW b \in f.local
             PROVE  a # b /\ (Subnet(a) = Subnet(b) => e.id = f.id /\ e.msg[1] = f.msg[1])
  BY DEF NoClash
<1> USE DEF ExchangeInv
<1>0. queue[ch] \in Seq(Messages) /\ held[ch] \in EndSets
  BY ChannelTyped
<1>1. /\ e \in Setups /\ f \in Setups
      /\ e \in At(held[ch], queue[ch], 0) /\ f \in At(held[ch], queue[ch], 0)
      /\ 0 \in 0 .. Len(queue[ch])
  BY <1>0 DEF At, EndSets
<1>2. /\ e = Setup(e.msg, e.msg[2], e.id, DockerOf[e.msg[1]])
      /\ f = Setup(f.msg, f.msg[2], f.id, DockerOf[f.msg[1]])
  BY <1>1 DEF Traffic, Carried
<1>3. e.id = f.id => SameNet(e, f)
  BY <1>1 DEF Separated, Apart
<1>4. /\ e.msg[2] \in Sides /\ f.msg[2] \in Sides /\ e.id \in Ids /\ f.id \in Ids
      /\ e.msg = <<e.msg[1], e.msg[2], e.msg[3]>> /\ f.msg = <<f.msg[1], f.msg[2], f.msg[3]>>
  BY <1>1, IdsAndSlots, MsgParts DEF Setups
<1>5. /\ e.local = {Addr(e.id, slot) : slot \in LocalSlots(e.msg[2])}
      /\ f.local = {Addr(f.id, slot) : slot \in LocalSlots(f.msg[2])}
  BY <1>2 DEF Setup
<1>6. PICK i \in LocalSlots(e.msg[2]), j \in LocalSlots(f.msg[2]) :
         a = Addr(e.id, i) /\ b = Addr(f.id, j)
  BY <1>5
<1>7. i \in Slots /\ j \in Slots
  BY <1>4, <1>6, IdsAndSlots
<1>8. Subnet(a) = Subnet(b) <=> e.id = f.id
  BY <1>4, <1>6, <1>7, SubnetsDistinct
<1>9. CASE e.id # f.id
  BY <1>8, <1>9
<1>10. CASE e.id = f.id
  <2>1. e.msg[1] = f.msg[1] /\ e.msg[3] = f.msg[3]
    BY <1>3, <1>10 DEF SameNet
  <2>2. e.msg[2] # f.msg[2]
    <3>1. SUFFICES ASSUME e.msg[2] = f.msg[2] PROVE FALSE
      OBVIOUS
    <3>2. e.msg = f.msg
      BY <1>4, <2>1, <3>1, Zenon
    <3> QED
      BY <1>2, <1>10, <3>2, Zenon
  <2>3. i # j
    BY <1>4, <1>6, <2>2, IdsAndSlots DEF Sides
  <2>4. a # b
    <3>1. i \in Nat /\ j \in Nat /\ e.id * Width \in Nat
      BY <1>4, <1>7, WidthCases, OffsetFits DEF Slots
    <3>2. /\ Addr(e.id, i)[2] * 65536 + Addr(e.id, i)[3] * 256 + Addr(e.id, i)[4]
                = e.id * Width + i
          /\ Addr(e.id, j)[2] * 65536 + Addr(e.id, j)[3] * 256 + Addr(e.id, j)[4]
                = e.id * Width + j
      BY <1>4, <1>7, AddressesExact
    <3> DEFINE o == e.id * Width
    <3> HIDE DEF o
    <3>3. o + i # o + j
      BY <2>3, <3>1 DEF o
    <3> QED
      BY <1>6, <1>10, <3>2, <3>3 DEF o
  <2> QED
    BY <1>10, <2>1, <2>4
<1> QED
  BY <1>9, <1>10

(* Two networks that a host holds never share a subnet, and the two ends   *)
(* of one never an address, however identifiers are reused (net.rs).       *)
THEOREM NetworksApart == Spec => []NoClash
  BY InvNoClash, ExchangeSafe, PTL

------------------------------------------------------------------------------
(* NetLeases has the same pool.                                            *)
LEMMA SamePool ==
    /\ Leases!NetIds = NetIds /\ Leases!NewPool = NewPool
    /\ \A p, id : /\ Leases!IsNextId(p, id) <=> IsNextId(p, id)
                  /\ Leases!Allocate(p, id) = Allocate(p, id)
    /\ \A p : Leases!InUse(p) = InUse(p)
    /\ \A p, ids : Leases!FreeAll(p, ids) = FreeAll(p, ids)
<1>1. Leases!NetIds = NetIds /\ Leases!NewPool = NewPool
  BY DEF NetIds, Leases!NetIds, NewPool, Leases!NewPool
<1>2. ASSUME NEW p, NEW id
      PROVE  /\ Leases!IsNextId(p, id) <=> IsNextId(p, id)
             /\ Leases!Allocate(p, id) = Allocate(p, id)
  BY Zenon DEF IsNextId, Leases!IsNextId, Allocate, Leases!Allocate
<1>3. ASSUME NEW p PROVE Leases!InUse(p) = InUse(p)
  BY Zenon DEF InUse, Leases!InUse
<1>4. ASSUME NEW p, NEW ids PROVE Leases!FreeAll(p, ids) = FreeAll(p, ids)
  BY <1>1, Zenon DEF FreeAll, Leases!FreeAll
<1> QED
  BY <1>1, <1>2, <1>3, <1>4

(* No network is being set up, and none is in the map.                     *)
LEMMA InitLeases == Init => Leases!Init
<1> SUFFICES ASSUME Init PROVE Leases!Init
  OBVIOUS
<1>1. \A t \in Tasks : task[t].pc = "idle"
  BY DEF Init, IdleTask
<1>2. pool = Leases!NewPool
  BY SamePool DEF Init
<1> QED
  BY <1>1, <1>2 DEF Leases!Init, Flight, Live, Up

(* A step that leaves the pool alone, and every network where it is, is    *)
(* none of NetLeases.                                                      *)
LEMMA LeasesStutter ==
    ASSUME TypeOK, UNCHANGED pool,
           \A u \in Tasks :
               /\ task'[u].pc = task[u].pc \/ {task[u].pc, task'[u].pc} = {"setup", "rollback"}
               /\ task'[u].net = task[u].net
    PROVE  UNCHANGED Leases!vars
<1>1. \A u \in Tasks : task'[u].pc = "up" <=> task[u].pc = "up"
  OBVIOUS
<1>2. Up' = Up
  BY <1>1 DEF Up
<1>3. Live' = Live
  BY <1>2 DEF Live, Up
<1>4. \A u \in Tasks : task'[u].pc \in {"setup", "rollback"} <=> task[u].pc \in {"setup", "rollback"}
  OBVIOUS
<1>5. Flight' = Flight
  BY <1>4 DEF Flight
<1> QED
  BY <1>3, <1>5  DEF Leases!vars

(* Every step is one of NetLeases, or none of them: allocate_net_id takes  *)
(* a lease, entering the network settles it, rolling it back gives it      *)
(* back, giving up on it abandons it, and taking the entry out and freeing its identifier retire it.    *)
(* That the identifier that is freed is no other network's, as Retire      *)
(* requires, is Lent.                                                      *)
LEMMA StepLeases == ExchangeInv /\ [Next]_vars => [Leases!Next]_(Leases!vars)
<1> SUFFICES ASSUME ExchangeInv, [Next]_vars PROVE Leases!Next \/ UNCHANGED Leases!vars
  OBVIOUS
<1> DEFINE Stutter == UNCHANGED Leases!vars
<1> USE DEF ExchangeInv
<1>a. ASSUME NEW t \in Tasks
      PROVE  \/ Leases!Take(t) \/ Leases!Settle(t) \/ Leases!Abandon(t)
             \/ Leases!GiveBack(t) \/ Leases!Retire
             => Leases!Next
  BY DEF Leases!Next
<1>0. pool \in Pools /\ WellFormed(pool) /\ task \in [Tasks -> TaskStates]
  BY DEF TypeOK, Lent
<1>b. ASSUME NEW t \in Tasks, task[t].pc # "idle" PROVE task[t].net \in NetIds /\ task[t].net # 0
  BY <1>b, PoolBounds DEF TypeOK, NetIds
<1>1. ASSUME NEW t \in Tasks, AllocateNetId(t) PROVE Leases!Take(t)
  <2>1. PICK id \in NetIds :
           /\ task[t].pc = "idle"
           /\ IsNextId(pool, id) /\ pool' = Allocate(pool, id)
           /\ task'[t].pc = "setup" /\ task'[t].net = id
           /\ \A u \in Tasks \ {t} : task'[u] = task[u]
    BY <1>1, AllocateStep
  <2>2. Flight[t] = 0 /\ Flight' = [Flight EXCEPT ![t] = id]
    BY <2>1 DEF Flight
  <2>3. Up' = Up /\ t \notin Up
    BY <2>1 DEF Up
  <2>4. Live' = Live
    BY <2>1, <2>3 DEF Live, Up
  <2>5. id \in Leases!NetIds /\ Leases!IsNextId(pool, id) /\ pool' = Leases!Allocate(pool, id)
    BY <2>1, SamePool
  <2> QED
    BY <2>2, <2>4, <2>5 DEF Leases!Take
<1>2. ASSUME NEW t \in Tasks, TeardownFree(t), task[t].pc = "rollback" PROVE Leases!GiveBack(t)
  <2>1. /\ task'[t].pc = "idle" /\ pool' = FreeAll(pool, {task[t].net})
        /\ \A u \in Tasks \ {t} : task'[u] = task[u]
    BY <1>2, FreeStep DEF TeardownFree
  <2>2. Flight[t] = task[t].net /\ Flight[t] # 0 /\ Flight' = [Flight EXCEPT ![t] = 0]
    BY <1>2, <1>b, <2>1 DEF Flight
  <2>3. Up' = Up /\ t \notin Up
    BY <1>2, <2>1 DEF Up
  <2>4. Live' = Live
    BY <2>1, <2>3 DEF Live, Up
  <2>5. pool' = Leases!FreeAll(pool, {task[t].net})
    BY <2>1, SamePool
  <2> QED
    BY <2>2, <2>4, <2>5 DEF Leases!GiveBack
<1>3. ASSUME NEW t \in Tasks, TeardownFree(t), task[t].pc = "down" PROVE Leases!Retire
  <2>1. /\ task'[t].pc = "idle" /\ pool' = FreeAll(pool, {task[t].net})
        /\ \A u \in Tasks \ {t} : task'[u] = task[u]
    BY <1>3, FreeStep DEF TeardownFree
  <2>2. Flight' = Flight
    BY <1>3, <2>1 DEF Flight
  <2>3. Up' = Up /\ t \notin Up
    BY <1>3, <2>1 DEF Up
  <2>4. Live' = Live
    BY <2>1, <2>3 DEF Live, Up
  <2>5. pool' = Leases!FreeAll(pool, {task[t].net}) /\ {task[t].net} \in SUBSET Leases!NetIds
    BY <1>3, <1>b, <2>1, SamePool
  <2>6. task[t].net \in InUse(pool)
    BY <1>3 DEF Lent
  <2>7. \A u \in Tasks : Flight[u] # task[t].net
    BY <1>3, <1>b DEF Flight, Lent
  <2>8. \A l \in Live : l.id # task[t].net
    BY <1>3 DEF Live, Up, Lent
  <2>9. {task[t].net} \subseteq
           Leases!InUse(pool) \ (({Flight[u] : u \in Tasks} \ {0}) \cup {l.id : l \in Live})
    BY <2>6, <2>7, <2>8, SamePool
  <2> QED
    BY <2>2, <2>4, <2>5, <2>9 DEF Leases!Retire, Leases!InFlight
<1>4. ASSUME NEW t \in Tasks, RemoveEntry(t) PROVE Leases!Retire
  <2>1. /\ task[t].pc = "up" /\ task'[t].pc = "down" /\ task'[t].net = task[t].net
        /\ \A u \in Tasks \ {t} : task'[u] = task[u]
        /\ pool' = pool
    BY <1>4, PcStep DEF RemoveEntry
  <2>2. Flight' = Flight
    BY <2>1 DEF Flight
  <2>3. Up' \subseteq Up /\ \A u \in Up' : task'[u].net = task[u].net
    BY <2>1 DEF Up
  <2>4. Live' \in SUBSET Live
    BY <2>3 DEF Live
  <2>5. pool' = FreeAll(pool, {})
    BY <1>0, <2>1 DEF FreeAll, Pools
  <2>6. pool' = Leases!FreeAll(pool, {})
    BY <2>5, SamePool
  <2> QED
    BY <2>2, <2>4, <2>6 DEF Leases!Retire
<1>5. ASSUME NEW t \in Tasks, Commit(t) \/ Rollback(t) \/ Aborted(t)
      PROVE  Leases!Settle(t) \/ Leases!Abandon(t) \/ Stutter
  <2>1. PICK pc \in {"up", "rollback", "abandoned"} :
           /\ task[t].pc \in {"setup", "rollback"} /\ (pc # "abandoned" => task[t].pc = "setup")
           /\ task'[t].pc = pc /\ task'[t].net = task[t].net
           /\ \A u \in Tasks \ {t} : task'[u] = task[u]
           /\ pool' = pool
    BY <1>5, ReturnStep, AbortStep
  <2>2. CASE pc = "rollback"
    BY <2>1, <2>2, LeasesStutter
  <2>3. CASE pc = "up"
    <3>1. Flight[t] = task[t].net /\ Flight[t] # 0 /\ Flight' = [Flight EXCEPT ![t] = 0]
      BY <1>b, <2>1, <2>3 DEF Flight
    <3>2. Up' = Up \cup {t} /\ t \notin Up
      BY <2>1, <2>3 DEF Up
    <3>3. Live' = Live \cup {[wire |-> t, user |-> t, id |-> task[t].net]}
      <4>1. \A u \in Up' : task'[u].net = task[u].net
        BY <2>1 DEF Up
      <4> QED
        BY <3>2, <4>1 DEF Live
    <3>4. {l \in Live : l.wire # t \/ l.user # t} = Live
      BY <3>2 DEF Live
    <3>5. Live' = Leases!Put(t, t, Flight[t])
      BY <3>1, <3>3, <3>4 DEF Leases!Put
    <3> QED
      BY <2>1, <3>1, <3>5 DEF Leases!Settle
  <2>4. CASE pc = "abandoned"
    <3>1. Flight[t] # 0 /\ Flight' = [Flight EXCEPT ![t] = 0]
      BY <1>b, <2>1, <2>4 DEF Flight
    <3>2. Up' = Up /\ t \notin Up
      BY <2>1, <2>4 DEF Up
    <3>3. Live' = Live
      BY <2>1, <3>2 DEF Live, Up
    <3> QED
      BY <2>1, <3>1, <3>3 DEF Leases!Abandon
  <2> QED
    BY <2>1, <2>2, <2>3, <2>4
<1>6. ASSUME UNCHANGED pool, \A u \in Tasks : SameControl(u) PROVE Stutter
  BY <1>6, LeasesStutter DEF SameControl
<1>7. ASSUME NEW t \in Tasks, NEW side \in Sides, SetupStep(t, side) PROVE Stutter
  BY <1>6, <1>7, SetupLookupStep, SetupSendStep, TimeoutStep DEF SetupStep
<1>8. ASSUME NEW t \in Tasks, TeardownLookup(t) \/ TeardownSend(t) PROVE Stutter
  BY <1>6, <1>8, TeardownLookupStep, TeardownSendStep
<1>9. ASSUME NEW ch \in Channels, AckArrives(ch) PROVE Stutter
  BY <1>6, <1>9, AckStep
<1>10. ASSUME \/ ApplyChanges
              \/ \E h \in Hosts : AddClient(h) \/ HostReads(h) \/ HandleNodeDisconnect(h)
              \/ \E ch \in Channels : ChannelEnds(ch) \/ RemoveClient(ch)
              \/ UNCHANGED vars
       PROVE Stutter
  <2>1. UNCHANGED <<pool, task>>
    BY <1>10
       DEF ApplyChanges, AddClient, HostReads, HandleNodeDisconnect, ChannelEnds, RemoveClient, vars
  <2> QED
    BY <1>6, <2>1 DEF SameControl
<1>11. ASSUME NEW t \in Tasks, TeardownFree(t) PROVE Leases!Next
  <2>1. task[t].pc \in {"rollback", "down"}
    BY <1>11 DEF TeardownFree, TearingDown
  <2> QED
    BY <1>a, <1>2, <1>3, <1>11, <2>1
<1>12. ASSUME NEW t \in Tasks, AllocateNetId(t) \/ RemoveEntry(t) PROVE Leases!Next
  BY <1>a, <1>1, <1>4, <1>12
<1>13. ASSUME NEW t \in Tasks, Commit(t) \/ Rollback(t) \/ Aborted(t)
       PROVE  Leases!Next \/ Stutter
  BY <1>a, <1>5, <1>13
<1> HIDE DEF Stutter
<1>14. Leases!Next \/ Stutter
  BY <1>7, <1>8, <1>9, <1>10, <1>11, <1>12, <1>13 DEF Next, TaskStep
<1> QED
  BY <1>14 DEF Stutter

(* Message by message, whatever is lost or late, identifiers are handled   *)
(* as NetLeases allows; so what LeasesSafe proves of NetLeases holds of    *)
(* the exchange: no identifier names two networks.                         *)
THEOREM RefinesLeases == Spec => ImplementsLeases
<1> QED
  BY InitLeases, StepLeases, ExchangeSafe, PTL DEF Spec, ImplementsLeases, Leases!Spec
=============================================================================
