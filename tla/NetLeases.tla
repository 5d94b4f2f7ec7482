------------------------------ MODULE NetLeases ------------------------------
(***************************************************************************)
(* What the control plane promises about network identifiers, whatever the *)
(* services, replicas and chains are: an abstract specification that the   *)
(* request handlers and teardowns of Controller implement.                 *)
(*                                                                         *)
(* A task takes an identifier from the pool, installs the network on two   *)
(* hosts and then either settles it in the service map, gives it back, or  *)
(* abandons it.  A settled identifier names one wire (one overlay network  *)
(* between two endpoints), which several users may share; it goes back to  *)
(* the pool only once no entry of the map refers to it.                    *)
(***************************************************************************)
EXTENDS NetIdPool, FiniteSets

CONSTANTS
    Tasks,   \* the edge tasks spawned by net_chain_setup
    Wires,   \* pairs of endpoints an overlay network may connect
    Users    \* the clients that use a network

VARIABLES
    pool,    \* Orchestrator.net_id_pool
    flight,  \* flight[t]: the identifier task t has taken, 0 if none
    live     \* the established entries of the service map

vars == <<pool, flight, live>>

Leases == [wire : Wires, user : Users, id : NetIds]

InFlight == {flight[t] : t \in Tasks} \ {0}
LiveIds == {l.id : l \in live}

Init ==
    /\ pool = NewPool
    /\ flight = [t \in Tasks |-> 0]
    /\ live = {}

(* allocate_net_id(): the task owns the identifier the pool returns. *)
Take(t) ==
    /\ flight[t] = 0
    /\ \E id \in NetIds :
          /\ IsNextId(pool, id)
          /\ pool' = Allocate(pool, id)
          /\ flight' = [flight EXCEPT ![t] = id]
    /\ UNCHANGED live

(* Writing the entry of user u on wire w replaces the one it had. *)
Put(w, u, id) ==
    {l \in live : l.wire # w \/ l.user # u}
        \cup {[wire |-> w, user |-> u, id |-> id]}

(* Both ends acknowledged: the task writes the entry of its client. *)
Settle(t) ==
    /\ flight[t] # 0
    /\ flight' = [flight EXCEPT ![t] = 0]
    /\ UNCHANGED pool
    /\ \E w \in Wires, u \in Users : live' = Put(w, u, flight[t])

(* The replica disappeared while the network was being installed: the entry *)
(* is not written and the identifier is never given back.                  *)
Abandon(t) ==
    /\ flight[t] # 0
    /\ flight' = [flight EXCEPT ![t] = 0]
    /\ UNCHANGED <<pool, live>>

(* A failed setup is rolled back with send_net_teardown. *)
GiveBack(t) ==
    /\ flight[t] # 0
    /\ pool' = FreeAll(pool, {flight[t]})
    /\ flight' = [flight EXCEPT ![t] = 0]
    /\ UNCHANGED live

(* Past max_networks a new user joins a wire that is already up. *)
Share ==
    /\ UNCHANGED <<pool, flight>>
    /\ \E old \in live, u \in Users : live' = Put(old.wire, u, old.id)

(* A slip: identifiers are freed without looking who still refers to them. *)
RetireUnchecked ==
    /\ UNCHANGED flight
    /\ live' \in SUBSET live
    /\ \E idle \in SUBSET InUse(pool) : pool' = FreeAll(pool, idle)

(* Entries are dropped, and identifiers that nothing refers to any more are *)
(* torn down and freed.  Dropping an entry without freeing is a leak, which *)
(* is safe.                                                                *)
Retire ==
    /\ UNCHANGED flight
    /\ live' \in SUBSET live
    /\ \E idle \in SUBSET NetIds :
          /\ idle \subseteq InUse(pool) \ (InFlight \cup {l.id : l \in live'})
          /\ pool' = FreeAll(pool, idle)

Next ==
    \/ \E t \in Tasks : Take(t) \/ Settle(t) \/ Abandon(t) \/ GiveBack(t)
    \/ Share
    \/ Retire

Spec == Init /\ [][Next]_vars
------------------------------------------------------------------------------
(* The pool stays within its range and every lease is well formed. *)
TypeOK ==
    /\ pool \in Pools
    /\ flight \in [Tasks -> NetIds \cup {0}]
    /\ live \subseteq Leases

(* No identifier names two networks: no two tasks are installing the same   *)
(* one, none is being installed while an entry uses it, and two entries    *)
(* with the same identifier are users of the same wire.                    *)
Exclusive ==
    /\ \A s, t \in Tasks : flight[s] # 0 /\ flight[s] = flight[t] => s = t
    /\ \A t \in Tasks, l \in live : flight[t] # l.id
    /\ \A k, l \in live : k.id = l.id => k.wire = l.wire

(* An identifier that a task or an entry refers to is out of the pool, so  *)
(* the pool cannot hand it out again, and only identifiers that were handed *)
(* out have been freed.                                                    *)
Accounted ==
    /\ InFlight \cup LiveIds \subseteq InUse(pool)
    /\ WellFormed(pool)

(* The inductive invariant of the proof. Exclusive alone is not inductive: *)
(* a pool that held a live identifier among its freed ones would hand it   *)
(* out a second time, and so would one that had been given an identifier   *)
(* it has yet to hand out.                                                 *)
LeaseInv == TypeOK /\ Exclusive /\ Accounted
==============================================================================
