--------------------------- MODULE NetLeasesProofs ---------------------------
(***************************************************************************)
(* Lease safety for every pool range and every set of tasks, wires and     *)
(* users: LeaseInv is inductive.                                           *)
(***************************************************************************)
EXTENDS NetLeases, NetIdPoolProofs, TLAPS

(* A new pool has nothing in use, and nothing is referred to. *)
LEMMA InitLeaseInv == Init => LeaseInv
  BY PoolBounds DEF Init, LeaseInv, TypeOK, Exclusive, Accounted, NewPool,
     Pools, NetIds, InFlight, LiveIds, WellFormed

(* Every action keeps LeaseInv. *)
LEMMA NextLeaseInv == LeaseInv /\ [Next]_vars => LeaseInv'
<1> SUFFICES ASSUME LeaseInv, [Next]_vars PROVE LeaseInv'
  OBVIOUS
<1> USE DEF LeaseInv
<1>a. 0 \notin NetIds
  BY PoolBounds DEF NetIds
<1>1. ASSUME NEW t \in Tasks, Take(t) PROVE LeaseInv'
  <2>1. PICK id \in NetIds :
          /\ IsNextId(pool, id)
          /\ pool' = Allocate(pool, id)
          /\ flight' = [flight EXCEPT ![t] = id]
    BY <1>1 DEF Take
  <2>2. /\ pool' \in Pools /\ WellFormed(pool')
        /\ id \notin InUse(pool)
        /\ InUse(pool') = InUse(pool) \cup {id}
    BY <2>1, AllocateGrants DEF TypeOK, Accounted
  <2>3. live' = live
    BY <1>1 DEF Take
  <2>4. TypeOK'
    BY <2>1, <2>2, <2>3 DEF TypeOK
  <2>5. id \notin InFlight \cup LiveIds
    BY <2>2 DEF Accounted
  <2>6. Exclusive'
    BY <1>a, <2>1, <2>3, <2>5 DEF Exclusive, InFlight, LiveIds, TypeOK
  <2>7. InFlight' \subseteq InFlight \cup {id}
    BY <2>1 DEF InFlight, TypeOK
  <2>8. Accounted'
    BY <2>2, <2>3, <2>7 DEF Accounted, LiveIds
  <2> QED
    BY <2>4, <2>6, <2>8
<1>2. ASSUME NEW t \in Tasks, Abandon(t) PROVE LeaseInv'
  <2>1. /\ flight' = [flight EXCEPT ![t] = 0]
        /\ pool' = pool /\ live' = live
    BY <1>2 DEF Abandon
  <2>2. TypeOK' /\ Exclusive'
    BY <1>a, <2>1 DEF TypeOK, Exclusive, Leases
  <2>3. InFlight' \subseteq InFlight
    BY <2>1 DEF InFlight, TypeOK
  <2> QED
    BY <2>1, <2>2, <2>3 DEF Accounted, LiveIds
<1>3. ASSUME NEW t \in Tasks, GiveBack(t) PROVE LeaseInv'
  <2>1. /\ flight[t] # 0
        /\ flight' = [flight EXCEPT ![t] = 0]
        /\ pool' = FreeAll(pool, {flight[t]}) /\ live' = live
    BY <1>3 DEF GiveBack
  <2>0. {flight[t]} \subseteq InUse(pool)
    BY <2>1 DEF Accounted, InFlight
  <2>2. /\ pool' \in Pools /\ WellFormed(pool')
        /\ InUse(pool') = InUse(pool) \ {flight[t]}
    BY <2>0, <2>1, FreeReleases DEF TypeOK, Accounted
  <2>3. TypeOK' /\ Exclusive'
    BY <1>a, <2>1, <2>2 DEF TypeOK, Exclusive, Leases
  <2>4. InFlight' \subseteq InFlight \ {flight[t]}
    BY <2>1 DEF InFlight, TypeOK, Exclusive
  <2>5. flight[t] \notin LiveIds
    BY DEF Exclusive, LiveIds
  <2> QED
    BY <2>1, <2>2, <2>3, <2>4, <2>5 DEF Accounted, LiveIds
<1>4. ASSUME NEW t \in Tasks, Settle(t) PROVE LeaseInv'
  <2>0. PICK w \in Wires, u \in Users : live' = Put(w, u, flight[t])
    BY <1>4 DEF Settle
  <2> DEFINE new == [wire |-> w, user |-> u, id |-> flight[t]]
  <2>1. /\ flight[t] # 0
        /\ live' \subseteq live \cup {new}
        /\ flight' = [flight EXCEPT ![t] = 0]
        /\ pool' = pool
    BY <1>4, <2>0 DEF Settle, Put
  <2>2. new \in Leases
    BY <2>1 DEF Leases, TypeOK
  <2>3. TypeOK'
    BY <2>1, <2>2 DEF TypeOK
  <2>4. \A l \in live : l.id # new.id
    BY DEF Exclusive
  <2>5. \A s \in Tasks : flight'[s] # new.id
    BY <2>1 DEF Exclusive, TypeOK
  <2>6. Exclusive'
    BY <1>a, <2>1, <2>4, <2>5 DEF Exclusive, TypeOK, Leases
  <2>7. InFlight' \subseteq InFlight /\ LiveIds' \subseteq LiveIds \cup {flight[t]}
    BY <2>1 DEF InFlight, LiveIds, TypeOK
  <2>8. flight[t] \in InFlight
    BY <2>1 DEF InFlight
  <2> QED
    BY <2>1, <2>3, <2>6, <2>7, <2>8 DEF Accounted
<1>5. ASSUME Share PROVE LeaseInv'
  <2>1. PICK old \in live, u \in Users : live' = Put(old.wire, u, old.id)
    BY <1>5 DEF Share
  <2> DEFINE new == [wire |-> old.wire, user |-> u, id |-> old.id]
  <2>2. pool' = pool /\ flight' = flight /\ live' \subseteq live \cup {new}
    BY <1>5, <2>1 DEF Share, Put
  <2>3. new \in Leases
    BY DEF Leases, TypeOK
  <2>4. TypeOK'
    BY <2>1, <2>2, <2>3 DEF TypeOK
  <2>5. Exclusive'
    BY <2>1, <2>2 DEF Exclusive
  <2>6. InFlight' = InFlight /\ LiveIds' \subseteq LiveIds
    BY <2>1, <2>2 DEF InFlight, LiveIds
  <2> QED
    BY <2>2, <2>4, <2>5, <2>6 DEF Accounted
<1>6. ASSUME Retire PROVE LeaseInv'
  <2>1. PICK idle \in SUBSET NetIds :
          /\ idle \subseteq InUse(pool) \ (InFlight \cup LiveIds')
          /\ pool' = FreeAll(pool, idle)
    BY <1>6 DEF Retire, LiveIds
  <2>0. live' \subseteq live /\ flight' = flight
    BY <1>6 DEF Retire
  <2>2. /\ pool' \in Pools /\ WellFormed(pool')
        /\ InUse(pool') = InUse(pool) \ idle
    BY <2>1, FreeReleases DEF TypeOK, Accounted
  <2>3. TypeOK' /\ Exclusive'
    BY <2>0, <2>2 DEF TypeOK, Exclusive
  <2>4. InFlight' = InFlight /\ LiveIds' \subseteq LiveIds
    BY <2>0 DEF InFlight, LiveIds
  <2> QED
    BY <2>1, <2>2, <2>3, <2>4 DEF Accounted
<1>7. CASE UNCHANGED vars
  BY <1>7 DEF vars, TypeOK, Exclusive, Accounted, InFlight, LiveIds
<1> QED
  BY <1>1, <1>2, <1>3, <1>4, <1>5, <1>6, <1>7 DEF Next

(* In every reachable state the pool and the leases are well typed. *)
THEOREM LeasesTyped == Spec => []TypeOK
  BY InitLeaseInv, NextLeaseInv, PTL DEF Spec, LeaseInv

(* No network identifier ever names two networks: for every pool range,    *)
(* number of concurrent edge tasks, wires and users.                       *)
THEOREM LeasesSafe == Spec => []Exclusive
  BY InitLeaseInv, NextLeaseInv, PTL DEF Spec, LeaseInv

(* The pool never holds an identifier that an edge task or an entry of the *)
(* map still refers to, so it is not given out again.                      *)
THEOREM LeasesAccounted == Spec => []Accounted
  BY InitLeaseInv, NextLeaseInv, PTL DEF Spec, LeaseInv
==============================================================================
