------------------------------- MODULE NetAddr -------------------------------
(***************************************************************************)
(* Overlay addresses (src/net.rs): what the two hosts of a network are     *)
(* told to install.  Every identifier has a block of 10.0.0.0/8, a /30 for *)
(* a VLAN and a /29 for a VXLAN, and every end of the network fixed slots  *)
(* in it.                                                                  *)
(*                                                                         *)
(* An address is the tuple of its four bytes.  The offset of a block is a  *)
(* u32 whose upper byte to_be_bytes drops, and the slot is added to a u8,  *)
(* so both are computed modulo what these types hold.                      *)
(***************************************************************************)
EXTENDS Naturals

CONSTANTS
    NetType,   \* NET_TYPE: "VLAN" or "VXLAN"
    None       \* Option::None

ASSUME NetTypes == NetType \in {"VLAN", "VXLAN"}

Sides == {"client", "server"}

(* MAX_NET_ID. *)
LastNetId == IF NetType = "VLAN" THEN 4094 ELSE 2097151

(* A slip: a VXLAN has four addresses too, as a VLAN has. *)
FourAddresses == 4

(* Addresses per identifier. *)
Width == IF NetType = "VLAN" THEN 4 ELSE 8

Byte(n) == n % 256
Addresses == (0 .. 255) \X (0 .. 255) \X (0 .. 255) \X (0 .. 255)

Addr(id, slot) ==
    LET offset == id * Width
    IN  <<10, Byte(offset \div 65536), Byte(offset \div 256), Byte(Byte(offset) + slot)>>

(* The block an address is in, given the prefix length of the network. *)
Subnet(addr) == <<addr[1], addr[2], addr[3], addr[4] \div Width>>

(* A VLAN end is one veth; a VXLAN end a namespace and a bridge. *)
LocalSlots(side) ==
    IF NetType = "VLAN"
        THEN IF side = "server" THEN {1} ELSE {2}
        ELSE IF side = "server" THEN {1, 2} ELSE {3, 4}

(* Where the service listens: in the namespace if it runs in a container,  *)
(* on the bridge otherwise.                                                *)
ServerSlot(docker) == IF NetType = "VLAN" \/ docker # None THEN 1 ELSE 2

(* Net::setup for one end; docker is the server's container. The client is *)
(* told the address of the server's name.                                  *)
Setup(msg, side, id, docker) ==
    [kind |-> "setup", msg |-> msg, side |-> side, id |-> id,
     local |-> {Addr(id, slot) : slot \in LocalSlots(side)},
     mapping |-> IF side = "client" THEN Addr(id, ServerSlot(docker)) ELSE None]

(* Net::teardown. A VXLAN end is named by identifier and side, a VLAN by   *)
(* the identifier alone.                                                   *)
Teardown(side, id) ==
    [kind |-> "teardown", id |-> id,
     sides |-> IF NetType = "VLAN" THEN Sides ELSE {side}]
==============================================================================
