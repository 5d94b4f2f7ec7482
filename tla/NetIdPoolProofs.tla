--------------------------- MODULE NetIdPoolProofs ---------------------------
(***************************************************************************)
(* What allocate() and free() of NetIdPool do, for every range: the lemmas *)
(* that everything which takes identifiers from a pool rests on.           *)
(***************************************************************************)
EXTENDS NetIdPool, TLAPS

(* Allocating keeps the pool well formed, and moves exactly the returned   *)
(* identifier, which was not in use, into use (NetIdPool::allocate).       *)
LEMMA AllocateGrants ==
    ASSUME NEW p \in Pools, WellFormed(p), NEW id \in NetIds, IsNextId(p, id)
    PROVE  /\ Allocate(p, id) \in Pools
           /\ WellFormed(Allocate(p, id))
           /\ id \notin InUse(p)
           /\ InUse(Allocate(p, id)) = InUse(p) \cup {id}
<1>1. CASE p.freed # {}
  <2>1. id \in p.freed
    BY <1>1 DEF IsNextId
  <2>2. Allocate(p, id) = [p EXCEPT !.freed = @ \ {id}]
    BY <1>1 DEF Allocate
  <2>3. Allocate(p, id) \in Pools
    BY <2>2 DEF Pools
  <2>4. id \notin InUse(p)
    BY <2>1 DEF InUse
  <2>5. WellFormed(Allocate(p, id))
    BY <2>2 DEF WellFormed, Pools
  <2> QED
    BY <2>1, <2>2, <2>3, <2>4, <2>5 DEF InUse, Pools, WellFormed
<1>2. CASE p.freed = {}
  <2>1. id = p.next_fresh /\ p.next_fresh <= MaxNetId
    BY <1>2 DEF IsNextId
  <2>2. Allocate(p, id) = [p EXCEPT !.next_fresh = @ + 1]
    BY <1>2 DEF Allocate
  <2>3. Allocate(p, id) \in Pools
    BY <2>1, <2>2, PoolBounds DEF Pools
  <2>4. InUse(p) = MinNetId .. id - 1
    BY <1>2, <2>1 DEF InUse
  <2>5. InUse(Allocate(p, id)) = MinNetId .. id
    BY <1>2, <2>1, <2>2, PoolBounds DEF InUse, Pools, NetIds
  <2>6. WellFormed(Allocate(p, id))
    BY <1>2, <2>2 DEF WellFormed, Pools
  <2> QED
    BY <2>3, <2>4, <2>5, <2>6, PoolBounds DEF NetIds
<1> QED
  BY <1>1, <1>2

(* Freeing keeps the pool well formed and takes exactly the identifiers    *)
(* given back out of use (NetIdPool::free).                                *)
LEMMA FreeReleases ==
    ASSUME NEW p \in Pools, WellFormed(p), NEW ids, ids \subseteq InUse(p)
    PROVE  /\ FreeAll(p, ids) \in Pools
           /\ WellFormed(FreeAll(p, ids))
           /\ InUse(FreeAll(p, ids)) = InUse(p) \ ids
<1>1. FreeAll(p, ids) \in Pools
  BY DEF FreeAll, Pools
<1>2. InUse(p) \subseteq NetIds
  BY PoolBounds DEF InUse, Pools, NetIds
<1>3. WellFormed(FreeAll(p, ids))
  BY DEF FreeAll, InUse, WellFormed, Pools
<1> QED
  BY <1>1, <1>2, <1>3 DEF FreeAll, InUse, Pools
==============================================================================
