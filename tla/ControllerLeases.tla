--------------------------- MODULE ControllerLeases ---------------------------
(***************************************************************************)
(* Controller implements NetLeases: the entries of the service map that    *)
(* have a network are the leases, and the identifiers edge tasks are       *)
(* installing are the ones in flight.                                      *)
(***************************************************************************)
EXTENDS Controller

(* A network connects a replica of a service with one other endpoint: a    *)
(* proxy host, or the replica of a dependent service.                      *)
Endpoint(c) == IF IsProxy(c) THEN [c EXCEPT !.name = None] ELSE c

LeasesOf(cl) ==
    {[wire |-> <<k[1], k[2], Endpoint(k[3])>>, user |-> k[3], id |-> cl[k].net_id] :
        k \in {j \in DOMAIN cl : cl[j].net_id # 0}}

(* Every client that can appear: a caller, or any replica of any service. *)
AllReplicas ==
    (UNION {ToSet(BootReplicas[n]) : n \in Names})
        \cup {<<l[1], s[2]>> : l \in Lists, s \in UNION {ToSet(m[2]) : m \in Lists}}
AllClients ==
    {ClientOf(r) : r \in {q \in Reqs : CallOf[q][1] = "proxy"}}
        \cup {ServiceClient(n, rid) : n \in Names, rid \in AllReplicas}

Leases == INSTANCE NetLeases WITH
    Tasks <- Task,
    Users <- AllClients,
    Wires <- Names \X AllReplicas \X {Endpoint(c) : c \in AllClients},
    flight <- [t \in Task |-> IF Installing(t) THEN req[t[1]].edges[t[2]].net ELSE 0],
    live <- LeasesOf(clients)

(* Whatever requests, teardowns and failures do, network identifiers are   *)
(* handled as NetLeases allows.                                            *)
ImplementsLeases == Leases!Spec
===============================================================================
