------------------------------ MODULE NetIdPool ------------------------------
(***************************************************************************)
(* The pool of VLAN / VXLAN network identifiers (src/net_id_pool.rs).       *)
(*                                                                         *)
(* A pool is a value, not a state machine: the orchestrator keeps one      *)
(* behind a mutex and each operation is one critical section, so every     *)
(* module that owns a pool keeps it in a variable and applies these        *)
(* operators to it.                                                        *)
(***************************************************************************)
EXTENDS Naturals

CONSTANTS
    MinNetId,   \* MIN_NET_ID: the first identifier handed out
    MaxNetId    \* MAX_NET_ID: the last one, which depends on NET_TYPE

(* 0 is never a pool identifier: a placeholder entry carries net_id 0. *)
ASSUME PoolBounds ==
    /\ MinNetId \in Nat \ {0}
    /\ MaxNetId \in Nat
    /\ MinNetId <= MaxNetId

NetIds == MinNetId .. MaxNetId

Pools == [next_fresh : MinNetId .. MaxNetId + 1, freed : SUBSET NetIds]

NewPool == [next_fresh |-> MinNetId, freed |-> {}]

(* allocate() returns id: the lowest freed identifier when there is one,   *)
(* otherwise the next fresh one, otherwise nothing.                        *)
IsNextId(pool, id) ==
    IF pool.freed # {}
        THEN id \in pool.freed /\ \A other \in pool.freed : id <= other
        ELSE id = pool.next_fresh /\ pool.next_fresh <= MaxNetId

Exhausted(pool) == pool.freed = {} /\ pool.next_fresh > MaxNetId

(* Slips: a fresh identifier is used up even when a freed one is returned;  *)
(* the freed one that is returned stays in the pool.                       *)
AllocateBurning(pool, id) ==
    [next_fresh |-> pool.next_fresh + 1, freed |-> pool.freed \ {id}]
AllocateKeeping(pool, id) ==
    IF pool.freed # {} THEN pool ELSE [pool EXCEPT !.next_fresh = @ + 1]

(* The pool after allocate() has returned id. *)
Allocate(pool, id) ==
    IF pool.freed # {}
        THEN [pool EXCEPT !.freed = @ \ {id}]
        ELSE [pool EXCEPT !.next_fresh = @ + 1]

(* The pool after free(id) for each id of ids. Identifiers out of range,    *)
(* the 0 of a placeholder among them, are ignored.                         *)
FreeAll(pool, ids) == [pool EXCEPT !.freed = @ \cup (ids \cap NetIds)]

(* in_use(), as the set it counts: handed out and not given back. *)
InUse(pool) == (MinNetId .. pool.next_fresh - 1) \ pool.freed

(* Only identifiers that were handed out before have been given back.      *)
(* free() does not check this; its callers have to keep it.                *)
WellFormed(pool) == pool.freed \subseteq MinNetId .. pool.next_fresh - 1
==============================================================================
