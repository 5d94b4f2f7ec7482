-------------------------- MODULE ControllerProofs ---------------------------
(***************************************************************************)
(* Controller keeps LeaseInv and implements NetLeases while no file sets   *)
(* max_networks, and with limits when one operation runs at a time. First: *)
(* which steps of NetLeases there are for what a step does to the entries, *)
(* the tasks and the pool. Then the calls on the stack, of which only      *)
(* teardown_networks and the decrement_chain of a proxy client matter;     *)
(* then each action; and last, why no client joins the network of a        *)
(* request that may still give it up.                                      *)
(***************************************************************************)
EXTENDS ControllerClients

(* 0 is no identifier of the pool.                                         *)
LEMMA NoZero ==
    ASSUME pool \in Pools
    PROVE  InUse(pool) \subseteq NetIds /\ 0 \notin NetIds
  BY PoolBounds DEF InUse, Pools, NetIds

(* What a step does to the identifiers that edge tasks hold. *)
LEMMA FlightsSame ==
    ASSUME \A r \in Reqs, i \in 1 .. MaxEdges :
              /\ i \in DOMAIN req'[r].edges <=> i \in DOMAIN req[r].edges
              /\ i \in DOMAIN req[r].edges =>
                    /\ req'[r].edges[i].pc = req[r].edges[i].pc
                    /\ req'[r].edges[i].net = req[r].edges[i].net
    PROVE  \A t \in Task : /\ Installing(t)' <=> Installing(t)
                           /\ Flight(t)' = Flight(t)
  BY DEF Task, Installing, Flight

(* A request without tasks that hold an identifier starts over.            *)
LEMMA FlightsQuiet ==
    ASSUME Called, NEW r \in Reqs, NEW q, req' = [req EXCEPT ![r] = q],
           \A i \in DOMAIN req[r].edges : ~Installing(<<r, i>>),
           \A i \in DOMAIN q.edges :
              q.edges[i].pc \notin {"sending", "unsent", "commit", "abort"}
    PROVE  \A t \in Task : /\ Installing(t)' <=> Installing(t)
                           /\ Flight(t)' = Flight(t)
<1>1. \A s \in Reqs : req'[s] = IF s = r THEN q ELSE req[s]
  BY DEF Called
<1>2. SUFFICES ASSUME NEW t \in Task
               PROVE  (Installing(t)' <=> Installing(t)) /\ Flight(t)' = Flight(t)
  OBVIOUS
<1>3. PICK s \in Reqs, i \in 1 .. MaxEdges : t = <<s, i>>
  BY DEF Task
<1>4. CASE s # r
  BY <1>1, <1>3, <1>4 DEF Installing, Flight
<1>5. CASE s = r
  <2>1. ~Installing(t)
    BY <1>3, <1>5 DEF Installing
  <2>2. ~Installing(t)'
    BY <1>1, <1>3, <1>5 DEF Installing
  <2> QED
    BY <2>1, <2>2 DEF Flight
<1> QED
  BY <1>4, <1>5

(* A task that has ended holds none.                                       *)
LEMMA NotInstalling ==
    ASSUME NEW r \in Reqs, AllEnded(req[r].edges)
    PROVE  \A i \in DOMAIN req[r].edges : ~Installing(<<r, i>>)
  BY DEF AllEnded, Ended, Installing

(* One task goes on.                                                       *)
LEMMA FlightMoves ==
    ASSUME Called, NEW r \in Reqs, NEW i \in 1 .. MaxEdges, i \in DOMAIN req[r].edges,
           NEW e, NEW pc,
           req' = [req EXCEPT ![r] = [req[r] EXCEPT !.edges = [req[r].edges EXCEPT ![i] = e],
                                                    !.pc = pc]]
    PROVE  /\ \A t \in Task \ {<<r, i>>} : /\ Installing(t)' <=> Installing(t)
                                           /\ Flight(t)' = Flight(t)
           /\ <<r, i>> \in Task
           /\ Installing(<<r, i>>)' <=> e.pc \in {"sending", "unsent", "commit", "abort"}
           /\ Flight(<<r, i>>)' = IF Installing(<<r, i>>)' THEN e.net ELSE 0
<1>1. PICK edges : edges = [req[r].edges EXCEPT ![i] = e]
  OBVIOUS
<1>2. PICK q : q = [req[r] EXCEPT !.edges = edges, !.pc = pc]
  OBVIOUS
<1>3. req[r] \in Requests
  BY DEF Called
<1>4. q.edges = edges
  BY <1>2, <1>3 DEF Requests
<1>5. /\ DOMAIN edges = DOMAIN req[r].edges
      /\ \A j \in DOMAIN edges : edges[j] = IF j = i THEN e ELSE req[r].edges[j]
  BY <1>1
<1>6. req' = [req EXCEPT ![r] = q]
  BY <1>1, <1>2
<1>7. \A s \in Reqs : req'[s] = IF s = r THEN q ELSE req[s]
  BY <1>6 DEF Called
<1>8. ASSUME NEW t \in Task \ {<<r, i>>}
      PROVE  (Installing(t)' <=> Installing(t)) /\ Flight(t)' = Flight(t)
  <2>1. PICK s \in Reqs, j \in 1 .. MaxEdges : t = <<s, j>>
    BY DEF Task
  <2>2. CASE s # r
    BY <1>7, <2>1, <2>2 DEF Installing, Flight
  <2>3. CASE s = r
    <3>1. j # i
      BY <1>8, <2>1, <2>3
    <3>2. req'[r].edges = edges
      BY <1>4, <1>7
    <3> QED
      BY <1>5, <2>1, <2>3, <3>1, <3>2 DEF Installing, Flight
  <2> QED
    BY <2>2, <2>3
<1>9. <<r, i>> \in Task
  BY DEF Task
<1>10. req'[r].edges = edges
  BY <1>4, <1>7
<1>11. /\ Installing(<<r, i>>)' <=> e.pc \in {"sending", "unsent", "commit", "abort"}
       /\ Flight(<<r, i>>)' = IF Installing(<<r, i>>)' THEN e.net ELSE 0
  BY <1>5, <1>10 DEF Installing, Flight
<1> QED
  BY <1>8, <1>9, <1>11
------------------------------------------------------------------------------
(* What a step does to the entries that have a network. *)

(* The entries of new are in cl, with the same networks.                   *)
Shrinks(cl, new) ==
    \A k \in DOMAIN new : new[k].net_id # 0 =>
        k \in DOMAIN cl /\ new[k].net_id = cl[k].net_id

(* Where entries only go, so do leases.                                    *)
LEMMA LeasesShrink ==
    ASSUME NEW cl, NEW new, Shrinks(cl, new)
    PROVE  LeasesOf(new) \subseteq LeasesOf(cl)
<1>1. SUFFICES ASSUME NEW k \in DOMAIN new, new[k].net_id # 0
               PROVE  [wire |-> <<k[1], k[2], Endpoint(k[3])>>, user |-> k[3], id |-> new[k].net_id]
                         \in LeasesOf(cl)
  BY DEF LeasesOf
<1>2. k \in DOMAIN cl /\ new[k].net_id = cl[k].net_id
  BY <1>1 DEF Shrinks
<1> QED
  BY <1>1, <1>2 DEF LeasesOf

(* Where no entry goes either, leases stay.                                *)
LEMMA LeasesSame ==
    ASSUME NEW cl, NEW new, Shrinks(cl, new), Shrinks(new, cl)
    PROVE  LeasesOf(new) = LeasesOf(cl)
  BY LeasesShrink

(* Removing keys.                                                          *)
LEMMA ShrinksWithout ==
    ASSUME NEW cl, NEW keys
    PROVE  Shrinks(cl, Without(cl, keys))
  BY DEF Shrinks, Without, Restrict

(* Counting chains touches no network.                                     *)
LEMMA ChainCounted ==
    ASSUME NEW D, NEW cl \in [D -> Entries], NEW new \in [D -> Entries],
           \A k \in D : new[k].net_id = cl[k].net_id
    PROVE  Shrinks(cl, new) /\ Shrinks(new, cl)
  BY DEF Shrinks
------------------------------------------------------------------------------
(* Nothing new is held, and only identifiers that nobody refers to are     *)
(* given back.                                                             *)
LEMMA HoldsLess ==
    ASSUME pool \in Pools, Owned, Lent, Shrinks(clients, clients'),
           \A t \in Task : /\ Flight(t)' # 0 => Flight(t)' = Flight(t)
                           /\ Installing(t)' => Installing(t) /\ Flight(t)' = Flight(t),
           NEW ids, ids \subseteq InUse(pool), pool' = FreeAll(pool, ids),
           \A t \in Task : Flight(t)' \notin ids,
           \A k \in DOMAIN clients' : clients'[k].net_id \notin ids
    PROVE  Owned' /\ Lent'
<1>1. WellFormed(pool') /\ InUse(pool') = InUse(pool) \ ids
  BY FreeReleases DEF Owned
<1>2. \A k \in DOMAIN clients' : clients'[k].net_id # 0 =>
         k \in DOMAIN clients /\ clients'[k].net_id = clients[k].net_id
  BY DEF Shrinks
<1>3. WellFormed(pool)'
  BY <1>1 DEF WellFormed
<1>4. InUse(pool)' = InUse(pool) \ ids
  BY <1>1 DEF InUse
<1>5. ASSUME NEW k \in DOMAIN clients', Established(k)'
      PROVE  clients'[k].net_id \in InUse(pool)'
  <2>1. k \in DOMAIN clients /\ clients'[k].net_id = clients[k].net_id /\ clients'[k].net_id # 0
    BY <1>2, <1>5 DEF Established
  <2> QED
    BY <1>4, <2>1 DEF Owned, Established
<1>6. ASSUME NEW j \in DOMAIN clients', NEW k \in DOMAIN clients', Established(k)',
             clients'[j].net_id = clients'[k].net_id
      PROVE  j = k \/ OneWire(j, k)
  <2>1. /\ k \in DOMAIN clients /\ clients'[k].net_id = clients[k].net_id /\ clients'[k].net_id # 0
        /\ j \in DOMAIN clients /\ clients'[j].net_id = clients[j].net_id
    BY <1>2, <1>6 DEF Established
  <2> QED
    BY <1>6, <2>1 DEF Owned, Established
<1>7. Owned'
  BY <1>3, <1>5, <1>6 DEF Owned, OneWire, IsProxy, Endpoint
<1>8. ASSUME NEW t \in Task, Installing(t)'
      PROVE  Flight(t)' \in InUse(pool)'
  BY <1>4, <1>8 DEF Lent
<1>9. ASSUME NEW s \in Task, NEW t \in Task, Flight(s)' # 0, Flight(s)' = Flight(t)'
      PROVE  s = t
  BY <1>9 DEF Lent
<1>10. ASSUME NEW t \in Task, NEW k \in DOMAIN clients', Flight(t)' # 0
       PROVE  Flight(t)' # clients'[k].net_id
  BY <1>2, <1>10 DEF Lent
<1>11. Lent'
  BY <1>8, <1>9, <1>10 DEF Lent
<1> QED
  BY <1>7, <1>11

(* The networks still to be looked at stay out of everyone's reach.        *)
LEMMA StillDoomed ==
    ASSUME pool \in Pools, Owned, Doomed, Shrinks(clients, clients'),
           \A t \in Task : Flight(t)' # 0 => Flight(t)' = Flight(t),
           NEW ids, ids \subseteq InUse(pool), pool' = FreeAll(pool, ids),
           \A p \in DOMAIN work' : work'[p][1] = "teardown_networks" =>
              \E q \in DOMAIN work :
                 /\ work[q][1] = "teardown_networks" /\ work[q][2] = work'[p][2]
                 /\ work'[p][3] \subseteq work[q][3] \ ids
    PROVE  Doomed'
<1>1. InUse(pool') = InUse(pool) \ ids
  BY FreeReleases DEF Owned
<1>2. InUse(pool)' = InUse(pool) \ ids
  BY <1>1 DEF InUse
<1>3. \A k \in DOMAIN clients' : clients'[k].net_id # 0 =>
         k \in DOMAIN clients /\ clients'[k].net_id = clients[k].net_id
  BY DEF Shrinks
<1>4. SUFFICES ASSUME NEW p \in DOMAIN work', work'[p][1] = "teardown_networks",
                      NEW id \in work'[p][3] \ {0}
               PROVE  /\ id \in InUse(pool)'
                      /\ \A t \in Task : Flight(t)' # id
                      /\ \A k \in DOMAIN clients' :
                            clients'[k].net_id = id => k[1] = work'[p][2] /\ IsProxy(k[3])'
  BY DEF Doomed
<1>5. PICK q \in DOMAIN work : /\ work[q][1] = "teardown_networks" /\ work[q][2] = work'[p][2]
                               /\ work'[p][3] \subseteq work[q][3] \ ids
  BY <1>4
<1>6. id \in work[q][3] \ {0} /\ id \notin ids
  BY <1>4, <1>5
<1>7. /\ id \in InUse(pool)
      /\ \A t \in Task : Flight(t) # id
      /\ \A k \in DOMAIN clients : clients[k].net_id = id => k[1] = work[q][2] /\ IsProxy(k[3])
  BY <1>5, <1>6 DEF Doomed
<1>8. id \in InUse(pool)'
  BY <1>2, <1>6, <1>7
<1>9. \A t \in Task : Flight(t)' # id
  BY <1>4, <1>7
<1>10. \A k \in DOMAIN clients' : clients'[k].net_id = id => k[1] = work'[p][2] /\ IsProxy(k[3])'
  BY <1>3, <1>4, <1>5, <1>7 DEF IsProxy
<1> QED
  BY <1>8, <1>9, <1>10
------------------------------------------------------------------------------
(* The steps of NetLeases. *)

(* A step that touches no identifier is a stutter of NetLeases.            *)
LEMMA StepStutters ==
    ASSUME UNCHANGED pool, LeasesOf(clients') = LeasesOf(clients),
           \A t \in Task : Flight(t)' = Flight(t)
    PROVE  UNCHANGED Leases!vars
<1>1. \A t \in Task : (IF Installing(t)' THEN req'[t[1]].edges[t[2]].net ELSE 0)
                      = IF Installing(t) THEN req[t[1]].edges[t[2]].net ELSE 0
  BY DEF Flight
<1>2. LeasesOf(clients)' = LeasesOf(clients)
  BY DEF LeasesOf, Endpoint, IsProxy
<1> QED
  BY <1>1, <1>2 DEF Leases!vars

(* Identifiers that nobody refers to any more are freed: Retire.           *)
LEMMA StepRetires ==
    ASSUME LeasesOf(clients') \subseteq LeasesOf(clients),
           \A t \in Task : Flight(t)' = Flight(t),
           pool \in Pools,
           NEW ids, ids \subseteq InUse(pool), pool' = FreeAll(pool, ids),
           \A t \in Task : Flight(t) \notin ids,
           \A k \in DOMAIN clients' : clients'[k].net_id \notin ids
    PROVE  Leases!Retire
<1>1. \A t \in Task : (IF Installing(t)' THEN req'[t[1]].edges[t[2]].net ELSE 0)
                      = IF Installing(t) THEN req[t[1]].edges[t[2]].net ELSE 0
  BY DEF Flight
<1>2. LeasesOf(clients)' = LeasesOf(clients')
  BY DEF LeasesOf, Endpoint, IsProxy
<1>3. ids \subseteq Leases!NetIds /\ ids \subseteq Leases!InUse(pool)
  BY NoZero DEF Leases!NetIds, Leases!InUse, InUse, NetIds
<1>4. \A l \in LeasesOf(clients') : l.id \notin ids
  BY DEF LeasesOf
<1>5. \A t \in Task : (IF Installing(t) THEN req[t[1]].edges[t[2]].net ELSE 0) \notin ids
  BY DEF Flight
<1>6. pool' = Leases!FreeAll(pool, ids)
  BY DEF FreeAll, Leases!FreeAll, NetIds, Leases!NetIds
<1> QED
  BY <1>1, <1>2, <1>3, <1>4, <1>5, <1>6 DEF Leases!Retire, Leases!InFlight

(* The function of NetLeases that has one task's identifier changed. *)
LEMMA OneFlight ==
    ASSUME NEW t \in Task, \A s \in Task \ {t} : Flight(s)' = Flight(s)
    PROVE  [s \in Task |-> Flight(s)'] = [[s \in Task |-> Flight(s)] EXCEPT ![t] = Flight(t)']
  OBVIOUS

(* An edge task is granted an identifier: Take.                            *)
LEMMA StepTakes ==
    ASSUME NEW t \in Task, \A s \in Task \ {t} : Flight(s)' = Flight(s), Flight(t) = 0,
           UNCHANGED clients,
           NEW id \in NetIds, IsNextId(pool, id), pool' = Allocate(pool, id), Flight(t)' = id
    PROVE  Leases!Take(t)
<1>1. [s \in Task |-> Flight(s)'] = [[s \in Task |-> Flight(s)] EXCEPT ![t] = id]
  OBVIOUS
<1>2. [s \in Task |-> IF Installing(s)' THEN req'[s[1]].edges[s[2]].net ELSE 0]
        = [[s \in Task |-> IF Installing(s) THEN req[s[1]].edges[s[2]].net ELSE 0] EXCEPT ![t] = id]
  BY <1>1 DEF Flight
<1>3. (IF Installing(t) THEN req[t[1]].edges[t[2]].net ELSE 0) = 0
  BY DEF Flight
<1>4. LeasesOf(clients)' = LeasesOf(clients)
  BY DEF LeasesOf, Endpoint, IsProxy
<1>5. id \in Leases!NetIds /\ Leases!IsNextId(pool, id) /\ pool' = Leases!Allocate(pool, id)
  BY DEF NetIds, IsNextId, Allocate, Leases!NetIds, Leases!IsNextId, Leases!Allocate
<1> QED
  BY <1>2, <1>3, <1>4, <1>5 DEF Leases!Take

(* A task that no longer holds one.                                        *)
LEMMA FlightEnds ==
    ASSUME NEW t \in Task, \A s \in Task \ {t} : Flight(s)' = Flight(s), Flight(t)' = 0
    PROVE  [s \in Task |-> Flight(s)'] = [[s \in Task |-> Flight(s)] EXCEPT ![t] = 0]
  OBVIOUS

(* A task gives up what it holds without freeing it: Abandon.              *)
LEMMA StepAbandons ==
    ASSUME NEW t \in Task, \A s \in Task \ {t} : Flight(s)' = Flight(s),
           Flight(t) # 0, Flight(t)' = 0, UNCHANGED pool,
           LeasesOf(clients') = LeasesOf(clients)
    PROVE  Leases!Abandon(t)
<1>1. [s \in Task |-> Flight(s)'] = [[s \in Task |-> Flight(s)] EXCEPT ![t] = 0]
  BY FlightEnds
<1>2. [s \in Task |-> IF Installing(s)' THEN req'[s[1]].edges[s[2]].net ELSE 0]
        = [[s \in Task |-> IF Installing(s) THEN req[s[1]].edges[s[2]].net ELSE 0] EXCEPT ![t] = 0]
  BY <1>1 DEF Flight
<1>3. (IF Installing(t) THEN req[t[1]].edges[t[2]].net ELSE 0) # 0
  BY DEF Flight
<1>4. LeasesOf(clients)' = LeasesOf(clients)
  BY DEF LeasesOf, Endpoint, IsProxy
<1> QED
  BY <1>2, <1>3, <1>4 DEF Leases!Abandon

(* A task frees what it holds: GiveBack.                                   *)
LEMMA StepGivesBack ==
    ASSUME NEW t \in Task, \A s \in Task \ {t} : Flight(s)' = Flight(s),
           Flight(t) # 0, Flight(t)' = 0, pool' = FreeAll(pool, {Flight(t)}),
           UNCHANGED clients
    PROVE  Leases!GiveBack(t)
<1>1. [s \in Task |-> Flight(s)'] = [[s \in Task |-> Flight(s)] EXCEPT ![t] = 0]
  BY FlightEnds
<1>2. [s \in Task |-> IF Installing(s)' THEN req'[s[1]].edges[s[2]].net ELSE 0]
        = [[s \in Task |-> IF Installing(s) THEN req[s[1]].edges[s[2]].net ELSE 0] EXCEPT ![t] = 0]
  BY <1>1 DEF Flight
<1>3. (IF Installing(t) THEN req[t[1]].edges[t[2]].net ELSE 0) = Flight(t)
  BY DEF Flight
<1>4. LeasesOf(clients)' = LeasesOf(clients)
  BY DEF LeasesOf, Endpoint, IsProxy
<1>5. pool' = Leases!FreeAll(pool, {Flight(t)})
  BY DEF FreeAll, Leases!FreeAll, NetIds, Leases!NetIds
<1> QED
  BY <1>2, <1>3, <1>4, <1>5 DEF Leases!GiveBack

(* Writing an entry is writing a lease.                                    *)
LEMMA LeasesPut ==
    ASSUME NEW key \in AllKeys, NEW x, x # 0, key \in DOMAIN clients', clients'[key].net_id = x,
           \A k \in DOMAIN clients' \ {key} : k \in DOMAIN clients
              /\ clients'[k].net_id = clients[k].net_id,
           DOMAIN clients \subseteq DOMAIN clients',
           DOMAIN clients' \subseteq AllKeys,
           NEW w, w = <<key[1], key[2], Endpoint(key[3])>>, NEW u, u = key[3]
    PROVE  LeasesOf(clients') = {l \in LeasesOf(clients) : l.wire # w \/ l.user # u}
                                  \cup {[wire |-> w, user |-> u, id |-> x]}
<1> DEFINE L(k, cl) == [wire |-> <<k[1], k[2], Endpoint(k[3])>>, user |-> k[3], id |-> cl[k].net_id]
           old == {l \in LeasesOf(clients) : l.wire # w \/ l.user # u}
           mine == [wire |-> w, user |-> u, id |-> x]
<1>1. mine \in LeasesOf(clients')
  <2>1. mine = L(key, clients')
    OBVIOUS
  <2> QED
    BY <2>1 DEF LeasesOf
<1>2. ASSUME NEW l \in old
      PROVE  l \in LeasesOf(clients')
  <2>1. PICK k \in DOMAIN clients : clients[k].net_id # 0 /\ l = L(k, clients)
    BY DEF LeasesOf
  <2>2. k # key
    BY <2>1
  <2>3. k \in DOMAIN clients' /\ clients'[k].net_id = clients[k].net_id
    BY <2>1, <2>2
  <2>4. l = L(k, clients')
    BY <2>1, <2>3
  <2> QED
    BY <2>1, <2>3, <2>4 DEF LeasesOf
<1>3. ASSUME NEW l \in LeasesOf(clients'), l # mine
      PROVE  l \in old
  <2>1. PICK k \in DOMAIN clients' : clients'[k].net_id # 0 /\ l = L(k, clients')
    BY DEF LeasesOf
  <2>2. k # key
    BY <1>3, <2>1
  <2>3. k \in DOMAIN clients /\ clients'[k].net_id = clients[k].net_id
    BY <2>1, <2>2
  <2>4. l = L(k, clients)
    BY <2>1, <2>3
  <2>5. l \in LeasesOf(clients)
    BY <2>1, <2>3, <2>4 DEF LeasesOf
  <2>6. k \in AllKeys
    BY <2>1
  <2>7. <<k[1], k[2], k[3]>> = k /\ <<key[1], key[2], key[3]>> = key
    BY <2>6 DEF AllKeys
  <2>8. l.wire # w \/ l.user # u
    <3>1. SUFFICES ASSUME l.wire = w, l.user = u PROVE FALSE
      OBVIOUS
    <3>2. k[1] = key[1] /\ k[2] = key[2] /\ k[3] = key[3]
      BY <2>1, <3>1
    <3> QED
      BY <2>2, <2>7, <3>2
  <2> QED
    BY <2>5, <2>8
<1> HIDE DEF old, mine
<1>4. LeasesOf(clients') = old \cup {mine}
  <2>1. old \subseteq LeasesOf(clients')
    BY <1>2
  <2>2. LeasesOf(clients') \subseteq old \cup {mine}
    BY <1>3
  <2> QED
    BY <1>1, <2>1, <2>2
<1> QED
  BY <1>4 DEF old, mine

(* A task's identifier becomes that of an entry: Settle.                   *)
LEMMA StepSettles ==
    ASSUME NEW t \in Task, \A s \in Task \ {t} : Flight(s)' = Flight(s),
           Flight(t) # 0, Flight(t)' = 0, UNCHANGED pool,
           NEW key \in AllKeys, key \in DOMAIN clients', clients'[key].net_id = Flight(t),
           \A k \in DOMAIN clients' \ {key} : k \in DOMAIN clients
              /\ clients'[k].net_id = clients[k].net_id,
           DOMAIN clients \subseteq DOMAIN clients',
           DOMAIN clients' \subseteq AllKeys
    PROVE  Leases!Settle(t)
<1>1. [s \in Task |-> Flight(s)'] = [[s \in Task |-> Flight(s)] EXCEPT ![t] = 0]
  BY FlightEnds
<1>2. [s \in Task |-> IF Installing(s)' THEN req'[s[1]].edges[s[2]].net ELSE 0]
        = [[s \in Task |-> IF Installing(s) THEN req[s[1]].edges[s[2]].net ELSE 0] EXCEPT ![t] = 0]
  BY <1>1 DEF Flight
<1>3. (IF Installing(t) THEN req[t[1]].edges[t[2]].net ELSE 0) = Flight(t)
  BY DEF Flight
<1>4. LeasesOf(clients)' = LeasesOf(clients')
  BY DEF LeasesOf, Endpoint, IsProxy
<1>5. PICK w, u : w = <<key[1], key[2], Endpoint(key[3])>> /\ u = key[3]
  OBVIOUS
<1>6. w \in Names \X AllReplicas \X {Endpoint(c) : c \in AllClients} /\ u \in AllClients
  BY <1>5 DEF AllKeys
<1>7. LeasesOf(clients') = {l \in LeasesOf(clients) : l.wire # w \/ l.user # u}
                              \cup {[wire |-> w, user |-> u, id |-> Flight(t)]}
  BY <1>5, LeasesPut
<1> QED
  BY <1>2, <1>3, <1>4, <1>6, <1>7 DEF Leases!Settle, Leases!Put
(* Another client joins a wire that is up: Share.                          *)
LEMMA StepShares ==
    ASSUME \A t \in Task : Flight(t)' = Flight(t), UNCHANGED pool,
           NEW old \in DOMAIN clients, clients[old].net_id # 0,
           NEW key \in AllKeys, OneWire(key, old),
           key \in DOMAIN clients', clients'[key].net_id = clients[old].net_id,
           \A k \in DOMAIN clients' \ {key} : k \in DOMAIN clients
              /\ clients'[k].net_id = clients[k].net_id,
           DOMAIN clients \subseteq DOMAIN clients',
           DOMAIN clients' \subseteq AllKeys
    PROVE  Leases!Share
<1>1. \A t \in Task : (IF Installing(t)' THEN req'[t[1]].edges[t[2]].net ELSE 0)
                      = IF Installing(t) THEN req[t[1]].edges[t[2]].net ELSE 0
  BY DEF Flight
<1>2. LeasesOf(clients)' = LeasesOf(clients')
  BY DEF LeasesOf, Endpoint, IsProxy
<1>3. PICK w, u, x : w = <<key[1], key[2], Endpoint(key[3])>> /\ u = key[3] /\ x = clients[old].net_id
  OBVIOUS
<1>4. LeasesOf(clients') = {l \in LeasesOf(clients) : l.wire # w \/ l.user # u}
                              \cup {[wire |-> w, user |-> u, id |-> x]}
  BY <1>3, LeasesPut
<1>5. PICK lease : lease = [wire |-> <<old[1], old[2], Endpoint(old[3])>>, user |-> old[3],
                            id |-> clients[old].net_id]
  OBVIOUS
<1>6. lease \in LeasesOf(clients)
  BY <1>5 DEF LeasesOf
<1>7. lease.wire = w /\ lease.id = x
  BY <1>3, <1>5 DEF OneWire
<1>8. u \in AllClients
  BY <1>3 DEF AllKeys
<1>9. LeasesOf(clients)' = Leases!Put(lease.wire, u, lease.id)
  BY <1>2, <1>4, <1>7 DEF Leases!Put
<1> QED
  BY <1>1, <1>6, <1>8, <1>9 DEF Leases!Share
------------------------------------------------------------------------------
(* Sequences of calls that tear down no network themselves, and give up no *)
(* chain of a proxy client.                                                *)
Gentle(call) == call[1] # "teardown_networks" /\ ~Undoes(call)
Mild(calls) ==
    /\ IsSequence(calls)
    /\ \A i \in DOMAIN calls : Gentle(calls[i])

(* The step puts no network on the stack. *)
NothingNew ==
    \A p \in DOMAIN work' : work'[p][1] = "teardown_networks" =>
        \E q \in DOMAIN work : work[q] = work'[p]

(* The step gives up no chain of a proxy client. *)
NothingUndone ==
    \A p \in DOMAIN work' : Undoes(work'[p]) => \E q \in DOMAIN work : work[q] = work'[p]

(* No calls.                                                               *)
LEMMA MildEmpty == Mild(<<>>)
  BY PlainEmpty DEF Plain, Mild

(* A call of another kind.                                                 *)
LEMMA MildOne ==
    ASSUME NEW x, x[1] \notin {"teardown_networks", "decrement_chain"}
    PROVE  Mild(<<x>>)
  BY One DEF Mild, Gentle, Undoes

(* Calls followed by calls.                                                *)
LEMMA MildConcat ==
    ASSUME NEW a, NEW b, Mild(a), Mild(b)
    PROVE  Mild(a \o b)
<1>1. PICK c : c = a \o b
  OBVIOUS
<1>2. IsSequence(c)
  BY <1>1, Concat DEF Mild
<1>3. ASSUME NEW i \in DOMAIN c
      PROVE  Gentle(c[i])
  BY <1>1, ConcatAt DEF Mild
<1> QED
  BY <1>1, <1>2, <1>3 DEF Mild

(* One call for each element of a list.                                    *)
LEMMA MildEach ==
    ASSUME NEW s, IsSequence(s), NEW calls, calls = [i \in DOMAIN s |-> calls[i]],
           \A i \in DOMAIN s : calls[i][1] \notin {"teardown_networks", "decrement_chain"}
    PROVE  Mild(calls)
<1>1. PICK n : n = Len(s)
  OBVIOUS
<1>2. n \in Nat /\ DOMAIN s = 1 .. n
  BY <1>1, SequenceIsFunction
<1>3. calls = [i \in 1 .. n |-> calls[i]]
  BY <1>2
<1>4. IsSequence(calls) /\ DOMAIN calls = 1 .. n
  BY <1>2, <1>3, EachIsSequence
<1> QED
  BY <1>2, <1>4 DEF Mild, Gentle, Undoes

(* A loop.                                                                 *)
LEMMA MildFor ==
    ASSUME NEW bodies
    PROVE  Mild(ForEach(bodies))
<1>1. PICK x : x = <<"for", bodies>>
  OBVIOUS
<1>2. x[1] \notin {"teardown_networks", "decrement_chain"}
  BY <1>1
<1> QED
  BY <1>1, <1>2, MildOne DEF ForEach

(* The call that is due ends.                                              *)
LEMMA MildPopped ==
    ASSUME Stacked, work # <<>>, work' = Tail(work)
    PROVE  NothingNew /\ NothingUndone
<1>1. IsSequence(work)
  BY DEF Stacked
<1>2. PICK t : t = Tail(work)
  OBVIOUS
<1>3. \A i \in DOMAIN t : i + 1 \in DOMAIN work /\ t[i] = work[i + 1]
  BY <1>1, <1>2, TailOf
<1> QED
  BY <1>2, <1>3 DEF NothingNew, NothingUndone

(* The call that is due is replaced by mild ones.                          *)
LEMMA MildPushed ==
    ASSUME Stacked, work # <<>>, NEW new, Mild(new), work' = new \o Tail(work)
    PROVE  NothingNew /\ NothingUndone
<1>1. IsSequence(work)
  BY DEF Stacked
<1>2. PICK t, w : t = Tail(work) /\ w = new \o t
  OBVIOUS
<1>3. IsSequence(t) /\ \A i \in DOMAIN t : i + 1 \in DOMAIN work /\ t[i] = work[i + 1]
  BY <1>1, <1>2, TailOf
<1>4. ASSUME NEW p \in DOMAIN w, ~Gentle(w[p])
      PROVE  \E q \in DOMAIN work : work[q] = w[p]
  <2>1. \/ p \in DOMAIN new /\ w[p] = new[p]
        \/ p - Len(new) \in DOMAIN t /\ w[p] = t[p - Len(new)]
    BY <1>2, <1>3, ConcatAt DEF Mild
  <2>2. ~(p \in DOMAIN new /\ w[p] = new[p])
    BY <1>4 DEF Mild
  <2> QED
    BY <1>3, <2>1, <2>2
<1>5. \A p \in DOMAIN w : w[p][1] = "teardown_networks" \/ Undoes(w[p]) => ~Gentle(w[p])
  BY DEF Gentle
<1> QED
  BY <1>2, <1>4, <1>5 DEF NothingNew, NothingUndone

(* An empty stack gets mild calls.                                         *)
LEMMA MildFresh ==
    ASSUME NEW new, Mild(new), work' = new
    PROVE  NothingNew /\ NothingUndone
  BY DEF Mild, Gentle, NothingNew, NothingUndone

(* The stack stays.                                                        *)
LEMMA NothingNewStays ==
    ASSUME UNCHANGED work
    PROVE  NothingNew /\ NothingUndone
  BY DEF NothingNew, NothingUndone
------------------------------------------------------------------------------
(* Only a teardown of the chains of a service puts networks on the stack. *)

(* A round of a loop.                                                      *)
LEMMA ForMild ==
    ASSUME CtlInv, For
    PROVE  NothingNew /\ NothingUndone
<1>1. Stacked /\ work # <<>> /\ work[1][1] = "for"
  BY DEF CtlInv, For, Due
<1>2. PICK bodies : bodies = work[1][2]
  OBVIOUS
<1>3. \A x \in DOMAIN bodies : Body(bodies[x])
  BY <1>1, <1>2, HeadCalled DEF WellCalled
<1>4. CASE work' = Tail(work)
  BY <1>1, <1>4, MildPopped
<1>5. ASSUME NEW x \in DOMAIN bodies,
             work' = bodies[x] \o <<<<"for", Without(bodies, {x})>>>> \o Tail(work)
      PROVE  NothingNew /\ NothingUndone
  <2>1. PICK b, f, new : b = bodies[x] /\ f = <<"for", Without(bodies, {x})>> /\ new = b \o <<f>>
    OBVIOUS
  <2>2. Mild(b)
    BY <1>3, <2>1 DEF Body, InLoop, Mild, Gentle, Undoes
  <2>3. f[1] \notin {"teardown_networks", "decrement_chain"}
    BY <2>1
  <2>4. Mild(<<f>>)
    BY <2>3, MildOne
  <2>5. Mild(new)
    BY <2>1, <2>2, <2>4, MildConcat
  <2>6. work' = new \o Tail(work)
    BY <1>5, <2>1
  <2> QED
    BY <1>1, <2>5, <2>6, MildPushed
<1> QED
  BY <1>2, <1>4, <1>5 DEF For, Rest

(* The teardown of a chain's walk.                                         *)
LEMMA WalksMild ==
    ASSUME CtlInv, TeardownDepChain \/ TeardownBackendChain \/ TeardownAllBackendChainsFor
    PROVE  NothingNew /\ NothingUndone
<1>1. Stacked /\ Listed /\ IsConfig(config) /\ work # <<>>
  BY DEF CtlInv, TeardownDepChain, TeardownBackendChain, TeardownAllBackendChainsFor, Due
<1>2. ASSUME NEW edges, BackendEdges(edges), work' = Decrements(edges) \o Tail(work)
      PROVE  NothingNew /\ NothingUndone
  <2>1. PICK new : new = Decrements(edges)
    OBVIOUS
  <2>2. Plain(new) /\ \A i \in DOMAIN new : Inner(new[i])
    BY <1>2, <2>1, DecrementsPlain
  <2>3. Mild(new)
    BY <2>2 DEF Plain, Inner, Mild, Gentle, Undoes
  <2> QED
    BY <1>1, <1>2, <2>1, <2>3, MildPushed
<1>3. CASE TeardownDepChain
  <2>1. CASE work' = work
    BY <2>1, NothingNewStays
  <2>2. CASE work' = Decrements(CollectDepChainEdges(work[1][2], work[1][3])) \o Tail(work)
    BY <1>1, <1>2, <2>2, DepWalkTyped
  <2> QED
    BY <1>3, <2>1, <2>2 DEF TeardownDepChain, Rest
<1>4. CASE TeardownBackendChain
  BY <1>1, <1>2, <1>4, BackendWalkTyped DEF TeardownBackendChain, Rest
<1>5. CASE TeardownAllBackendChainsFor
  <2>1. PICK name, rids : /\ name = work[1][2]
                          /\ rids = IF IsRegistered(name) THEN replicas[name] ELSE <<>>
    OBVIOUS
  <2>2. IsSequence(rids)
    <3>1. CASE IsRegistered(name)
      BY <1>1, <2>1, <3>1, RegisteredHasReplicas, TypedIsSequence DEF Listed
    <3>2. CASE ~IsRegistered(name)
      BY <2>1, <3>2, PlainEmpty DEF Plain
    <3> QED
      BY <3>1, <3>2
  <2>3. PICK new : new = [i \in DOMAIN rids |-> <<"teardown_backend_chain", name, rids[i], work[1][3]>>]
    OBVIOUS
  <2>4. /\ new = [i \in DOMAIN rids |-> new[i]]
        /\ \A i \in DOMAIN rids : new[i][1] \notin {"teardown_networks", "decrement_chain"}
    BY <2>3
  <2>5. Mild(new)
    BY <2>2, <2>4, MildEach
  <2>6. work' = new \o Tail(work)
    BY <1>5, <2>1, <2>3 DEF TeardownAllBackendChainsFor, Rest
  <2> QED
    BY <1>1, <2>5, <2>6, MildPushed
<1> QED
  BY <1>3, <1>4, <1>5

(* Replicas that left.                                                     *)
LEMMA ReplicasRemovedMild ==
    ASSUME CtlInv, ReplicasRemoved
    PROVE  NothingNew /\ NothingUndone
<1>1. /\ Stacked /\ Listed /\ work # <<>> /\ work[1][1] = "replicas_removed"
  BY DEF CtlInv, ReplicasRemoved, Due
<1>2. PICK name, filter : name = work[1][2] /\ filter = work[1][3]
  OBVIOUS
<1>3. name \in Names
  BY <1>1, <1>2, HeadCalled DEF WellCalled
<1>4. PICK one, some : /\ one = <<filter[2]>>
                       /\ some = Among(replicas[name], {rid \in ReplicaSet(name) : OnFilter(filter, rid)})
  OBVIOUS
<1>5. PICK leaving : leaving = IF filter[1] = "OnReplica" THEN one ELSE some
  OBVIOUS
<1>6. IsSequence(leaving)
  <2>1. IsSequence(one)
    BY <1>4, One
  <2>2. some \in Seq(AllReplicas)
    BY <1>1, <1>3, <1>4, AmongKeeps DEF Listed
  <2>3. IsSequence(some)
    BY <2>2, TypedIsSequence
  <2> QED
    BY <1>5, <2>1, <2>3
<1>7. PICK A, x, y, z : /\ A = [i \in DOMAIN leaving |->
                                  <<"teardown_backend_chain", name, leaving[i], None>>]
                        /\ x = <<"teardown_partial_replicas", name, filter>>
                        /\ y = <<"remove_replicas", name, filter>>
                        /\ z = <<"teardown_invalidated_service", name, TRUE>>
  OBVIOUS
<1>8. work' = <<z>> \o Tail(work) \/ work' = A \o <<x, y>> \o Tail(work)
  BY <1>2, <1>4, <1>5, <1>7 DEF ReplicasRemoved, Rest
<1>9. Mild(<<z>>)
  <2>1. z[1] \notin {"teardown_networks", "decrement_chain"}
    BY <1>7
  <2> QED
    BY <2>1, MildOne
<1>10. Mild(A)
  <2>1. /\ A = [i \in DOMAIN leaving |-> A[i]]
        /\ \A i \in DOMAIN leaving : A[i][1] \notin {"teardown_networks", "decrement_chain"}
    BY <1>7
  <2> QED
    BY <1>6, <2>1, MildEach
<1>11. Mild(<<x, y>>)
  <2>1. /\ x[1] \notin {"teardown_networks", "decrement_chain"}
        /\ y[1] \notin {"teardown_networks", "decrement_chain"}
    BY <1>7
  <2> QED
    BY <2>1, Two DEF Mild, Gentle, Undoes
<1>12. PICK new : new = A \o <<x, y>>
  OBVIOUS
<1>13. Mild(new)
  BY <1>10, <1>11, <1>12, MildConcat
<1>14. CASE work' = <<z>> \o Tail(work)
  BY <1>1, <1>9, <1>14, MildPushed
<1>15. CASE work' = new \o Tail(work)
  BY <1>1, <1>13, <1>15, MildPushed
<1> QED
  BY <1>8, <1>12, <1>14, <1>15

(* An invalidated service.                                                 *)
LEMMA TeardownInvalidatedServiceMild ==
    ASSUME CtlInv, TeardownInvalidatedService
    PROVE  NothingNew /\ NothingUndone
<1>1. Stacked /\ work # <<>>
  BY DEF CtlInv, TeardownInvalidatedService, Due
<1>2. PICK bodies : work' = ForEach(bodies)
                   \o (IF work[1][3] THEN <<<<"unregister", work[1][2]>>>> ELSE <<>>)
                   \o Tail(work)
  BY DEF TeardownInvalidatedService, Rest
<1>3. PICK F, x, new : /\ F = ForEach(bodies) /\ x = <<"unregister", work[1][2]>>
                       /\ new = F \o IF work[1][3] THEN <<x>> ELSE <<>>
  OBVIOUS
<1>4. Mild(F)
  BY <1>3, MildFor
<1>5. Mild(<<x>>)
  <2>1. x[1] \notin {"teardown_networks", "decrement_chain"}
    BY <1>3
  <2> QED
    BY <2>1, MildOne
<1>6. Mild(<<>>)
  BY MildEmpty
<1>7. Mild(new)
  BY <1>3, <1>4, <1>5, <1>6, MildConcat
<1>8. work' = new \o Tail(work)
  BY <1>2, <1>3
<1> QED
  BY <1>1, <1>7, <1>8, MildPushed

(* Some replicas of a service.                                             *)
LEMMA TeardownPartialReplicasMild ==
    ASSUME CtlInv, TeardownPartialReplicas
    PROVE  NothingNew /\ NothingUndone
<1>1. Stacked /\ work # <<>>
  BY DEF CtlInv, TeardownPartialReplicas, Due
<1>2. CASE work' = Tail(work)
  BY <1>1, <1>2, MildPopped
<1>3. ASSUME NEW bodies,
             work' = ForEach(bodies) \o <<<<"teardown_chain", work[1][2], work[1][3]>>>> \o Tail(work)
      PROVE  NothingNew /\ NothingUndone
  <2>1. PICK F, x, new : /\ F = ForEach(bodies) /\ x = <<"teardown_chain", work[1][2], work[1][3]>>
                         /\ new = F \o <<x>>
    OBVIOUS
  <2>2. Mild(F)
    BY <2>1, MildFor
  <2>3. Mild(<<x>>)
    <3>1. x[1] \notin {"teardown_networks", "decrement_chain"}
      BY <2>1
    <3> QED
      BY <3>1, MildOne
  <2>4. Mild(new)
    BY <2>1, <2>2, <2>3, MildConcat
  <2>5. work' = new \o Tail(work)
    BY <1>3, <2>1
  <2> QED
    BY <1>1, <2>4, <2>5, MildPushed
<1> QED
  BY <1>2, <1>3 DEF TeardownPartialReplicas, Rest

(* A proxy that left.                                                      *)
LEMMA ProxyDisconnectedMild ==
    ASSUME CtlInv, ProxyDisconnected
    PROVE  NothingNew /\ NothingUndone
<1>1. Stacked /\ work # <<>>
  BY DEF CtlInv, ProxyDisconnected, Due
<1>2. PICK bodies : work' = ForEach(bodies) \o Tail(work)
  BY DEF ProxyDisconnected, Rest
<1> QED
  BY <1>1, <1>2, MildFor, MildPushed

(* Events. *)
LEMMA EventsMild ==
    ASSUME CtlInv, Event \/ \E host \in Flapping : NodeDisconnect(host)
    PROVE  NothingNew /\ NothingUndone
<1>1. CASE UNCHANGED work
  BY <1>1, NothingNewStays
<1>2. ASSUME NEW host, NodeDisconnect(host)
      PROVE  NothingNew /\ NothingUndone
  <2>1. PICK bodies, b : /\ work' = ForEach(bodies) \o b
                         /\ b \in {<<>>, <<<<"proxy_disconnected", host>>>>}
    BY <1>2 DEF NodeDisconnect, Sweep, NodeDisconnectChanges
  <2>2. PICK x : x = <<"proxy_disconnected", host>>
    OBVIOUS
  <2>3. x[1] \notin {"teardown_networks", "decrement_chain"}
    BY <2>2
  <2>4. Mild(b)
    BY <2>1, <2>2, <2>3, MildOne, MildEmpty
  <2>5. Mild(ForEach(bodies) \o b)
    BY <2>4, MildFor, MildConcat
  <2> QED
    BY <2>1, <2>5, MildFresh
<1>3. ASSUME NEW l \in Lists, ServicesList(l[1], l[2])
      PROVE  NothingNew /\ NothingUndone
  <2>1. PICK bodies, adds : /\ work' = ForEach(bodies) \o adds
                            /\ adds = [i \in DOMAIN l[2] |-> <<"add_replica", l[2][i][1], <<l[1], l[2][i][2]>>>>]
    BY <1>3 DEF ServicesList, Sweep, ServicesListChanges
  <2>2. IsSequence(l[2])
    BY ControllerConstants
  <2>3. /\ adds = [i \in DOMAIN l[2] |-> adds[i]]
        /\ \A i \in DOMAIN l[2] : adds[i][1] \notin {"teardown_networks", "decrement_chain"}
    BY <2>1
  <2>4. Mild(adds)
    BY <2>2, <2>3, MildEach
  <2>5. Mild(ForEach(bodies) \o adds)
    BY <2>4, MildFor, MildConcat
  <2> QED
    BY <2>1, <2>5, MildFresh
<1>4. ASSUME NEW cfg \in Configs, ConfigUpdate(cfg)
      PROVE  NothingNew /\ NothingUndone
  <2>1. PICK f, g, b : work' = ForEach(f) \o ForEach(g) \o b /\ b = <<<<"update_from_file", cfg>>>>
    BY <1>4 DEF ConfigUpdate, Sweep, ConfigChanges
  <2>2. PICK x : x = <<"update_from_file", cfg>>
    OBVIOUS
  <2>3. x[1] \notin {"teardown_networks", "decrement_chain"}
    BY <2>2
  <2>4. Mild(b)
    BY <2>1, <2>2, <2>3, MildOne
  <2>5. PICK fg : fg = ForEach(f) \o ForEach(g)
    OBVIOUS
  <2>6. Mild(fg)
    BY <2>5, MildFor, MildConcat
  <2>7. Mild(fg \o b)
    BY <2>4, <2>6, MildConcat
  <2> QED
    BY <2>1, <2>5, <2>7, MildFresh
<1>5. CASE TimeoutSweep
  <2>1. PICK bodies : work' = ForEach(bodies)
    BY <1>5 DEF TimeoutSweep, Sweep, TimeoutChanges
  <2> QED
    BY <2>1, MildFor, MildFresh
<1>6. CASE \E host \in Flapping : ChannelClosed(host) \/ ChannelOpen(host)
  BY <1>1, <1>6 DEF ChannelClosed, ChannelOpen, changeVars
<1> QED
  BY <1>2, <1>3, <1>4, <1>5, <1>6 DEF Event

(* A failed request. *)
LEMMA JoinMild ==
    ASSUME CtlInv, NEW r \in Reqs, Join(r)
    PROVE  NothingNew
<1>1. Called
  BY DEF CtlInv
<1>2. CASE UNCHANGED work
  BY <1>2, NothingNewStays
<1>3. PICK edges, won : /\ edges = req[r].edges
                        /\ won = Among(edges, {e \in Range(edges) : e.pc = "ok"})
  OBVIOUS
<1>4. CASE work' = Decrements([i \in DOMAIN won |-> <<won[i].client, won[i].server>>])
  <2>1. req[r] \in Requests
    BY <1>1 DEF Called
  <2>2. won \in Seq(EdgeTasks)
    BY <1>3, <2>1, AmongKeeps DEF Requests
  <2>3. PICK d : d = [i \in DOMAIN won |->
                            <<"decrement_chain", <<won[i].client, won[i].server>>[2],
                              <<won[i].client, won[i].server>>[1]>>]
    OBVIOUS
  <2>4. DOMAIN d = DOMAIN won /\ \A i \in DOMAIN won : d[i][1] # "teardown_networks"
    BY <2>3
  <2>5. work' = d
    BY <1>4, <2>3 DEF Decrements
  <2> QED
    BY <2>4, <2>5 DEF NothingNew
<1> QED
  BY <1>2, <1>3, <1>4 DEF Join

(* The calls of the lock holder, but for the one that names the networks   *)
(* of the clients it takes down, and the one that ends them.               *)
LEMMA CallsMild ==
    ASSUME CtlInv, ChangesNext, ~TeardownChain, ~TeardownNetworks
    PROVE  NothingNew /\ NothingUndone
<1>1. CASE DecrementChain \/ RemoveClientEntry \/ Unregister \/ RemoveService \/ RemoveReplicas
           \/ UpdateFromFile \/ AddReplica
  <2>1. Stacked /\ work # <<>> /\ work' = Tail(work)
    BY <1>1 DEF CtlInv, DecrementChain, RemoveClientEntry, Unregister, RemoveService, RemoveReplicas,
       UpdateFromFile, AddReplica, Due, Rest
  <2> QED
    BY <2>1, MildPopped
<1> QED
  BY <1>1, ForMild, WalksMild, ReplicasRemovedMild, TeardownInvalidatedServiceMild,
     TeardownPartialReplicasMild, ProxyDisconnectedMild DEF ChangesNext

(* Calls that undo nothing replace the one that is due.                    *)
LEMMA UndonePushed ==
    ASSUME Stacked, work # <<>>, NEW new, IsSequence(new), \A i \in DOMAIN new : ~Undoes(new[i]),
           work' = new \o Tail(work)
    PROVE  NothingUndone
<1>1. IsSequence(work)
  BY DEF Stacked
<1>2. PICK t, w : t = Tail(work) /\ w = new \o t
  OBVIOUS
<1>3. IsSequence(t) /\ \A i \in DOMAIN t : i + 1 \in DOMAIN work /\ t[i] = work[i + 1]
  BY <1>1, <1>2, TailOf
<1>4. ASSUME NEW p \in DOMAIN w, Undoes(w[p])
      PROVE  \E q \in DOMAIN work : work[q] = w[p]
  <2>1. \/ p \in DOMAIN new /\ w[p] = new[p]
        \/ p - Len(new) \in DOMAIN t /\ w[p] = t[p - Len(new)]
    BY <1>2, <1>3, ConcatAt
  <2>2. ~(p \in DOMAIN new /\ w[p] = new[p])
    BY <1>4
  <2> QED
    BY <1>3, <2>1, <2>2
<1> QED
  BY <1>2, <1>4 DEF NothingUndone

(* No call of the lock holder gives up a chain of a proxy client.          *)
LEMMA CallsUndo ==
    ASSUME CtlInv, ChangesNext
    PROVE  NothingUndone
<1>1. Stacked /\ Listed /\ Placed
  BY DEF CtlInv
<1>2. CASE TeardownNetworks
  <2>1. work # <<>>
    BY <1>2 DEF TeardownNetworks, Due
  <2>2. PICK name, ids : work' = Tail(work) \/ work' = <<<<"teardown_networks", name, ids>>>> \o Tail(work)
    BY <1>2 DEF TeardownNetworks, Rest
  <2>3. PICK x : x = <<"teardown_networks", name, ids>>
    OBVIOUS
  <2>4. IsSequence(<<x>>) /\ DOMAIN <<x>> = {1} /\ <<x>>[1] = x /\ x[1] = "teardown_networks"
    BY <2>3, One
  <2>5. \A i \in DOMAIN <<x>> : ~Undoes(<<x>>[i])
    BY <2>4 DEF Undoes
  <2> QED
    BY <1>1, <2>1, <2>2, <2>3, <2>4, <2>5, MildPopped, UndonePushed
<1>3. CASE TeardownChain
  <2>1. work # <<>> /\ work[1][1] = "teardown_chain"
    BY <1>3 DEF TeardownChain, Due
  <2>2. PICK name, keys : /\ name = work[1][2]
                          /\ keys = {k \in KeysOf(name, clients) : Matches(work[1][3], k)}
    OBVIOUS
  <2>3. name \in Names
    BY <1>1, <2>1, <2>2, HeadCalled DEF WellCalled
  <2>4. PICK gone : gone = InReplicaOrder(name, keys)
    OBVIOUS
  <2>5. IsSequence(gone)
    BY <1>1, <2>2, <2>3, <2>4, GoneTyped DEF KeysOf
  <2>6. PICK A, B, x : /\ A = [i \in DOMAIN gone |-> <<"teardown_dep_chain", name, gone[i][2]>>]
                       /\ B = [i \in DOMAIN gone |-> <<"remove_client", name, gone[i][3]>>]
                       /\ x = <<"teardown_networks", name, {clients[gone[i]].net_id : i \in DOMAIN gone}>>
    OBVIOUS
  <2>7. /\ A = [i \in DOMAIN gone |-> A[i]] /\ B = [i \in DOMAIN gone |-> B[i]]
        /\ \A i \in DOMAIN gone : A[i][1] \notin {"teardown_networks", "decrement_chain"}
        /\ \A i \in DOMAIN gone : B[i][1] \notin {"teardown_networks", "decrement_chain"}
    BY <2>6
  <2>8. Mild(A) /\ Mild(B)
    BY <2>5, <2>7, MildEach
  <2>9. PICK C : C = A \o B
    OBVIOUS
  <2>10. Mild(C)
    BY <2>8, <2>9, MildConcat
  <2>11. IsSequence(<<x>>) /\ DOMAIN <<x>> = {1} /\ <<x>>[1] = x /\ x[1] = "teardown_networks"
    BY <2>6, One
  <2>12. PICK new : new = C \o <<x>>
    OBVIOUS
  <2>13. IsSequence(new)
    BY <2>10, <2>11, <2>12, Concat DEF Mild
  <2>14. ASSUME NEW i \in DOMAIN new
         PROVE  ~Undoes(new[i])
    <3>1. \/ i \in DOMAIN C /\ new[i] = C[i]
          \/ i - Len(C) \in DOMAIN <<x>> /\ new[i] = <<x>>[i - Len(C)]
      BY <2>10, <2>11, <2>12, ConcatAt DEF Mild
    <3> QED
      BY <2>10, <2>11, <3>1 DEF Mild, Gentle, Undoes
  <2>15. work' = Tail(work) \/ work' = new \o Tail(work)
    BY <1>3, <2>2, <2>4, <2>6, <2>9, <2>12 DEF TeardownChain, Rest
  <2> QED
    BY <1>1, <2>1, <2>13, <2>14, <2>15, MildPopped, UndonePushed
<1> QED
  BY <1>2, <1>3, CallsMild
------------------------------------------------------------------------------
(* What a step of a request does to the identifiers its edge tasks hold:   *)
(* nothing, unless an edge task takes it.                                  *)
FlightsKept ==
    \A t \in Task : (Installing(t)' <=> Installing(t)) /\ Flight(t)' = Flight(t)

(* The edge tasks of all requests stay.                                    *)
LEMMA SameEdges ==
    ASSUME \A s \in Reqs : req'[s].edges = req[s].edges
    PROVE  FlightsKept
  BY FlightsSame DEF FlightsKept

(* The requests stay.                                                      *)
LEMMA KeptQuiet ==
    ASSUME UNCHANGED req
    PROVE  FlightsKept
  BY SameEdges

(* A request goes on, its tasks stay.                                      *)
LEMMA OneRequest ==
    ASSUME Called, NEW r \in Reqs, NEW q, req' = [req EXCEPT ![r] = q],
           q.edges = req[r].edges
    PROVE  FlightsKept
<1>1. \A s \in Reqs : req'[s].edges = req[s].edges
  BY DEF Called
<1> QED
  BY <1>1, SameEdges

(* A request is answered when its tasks have ended.                        *)
LEMMA AnswerFlights ==
    ASSUME Called, NEW r \in Reqs, AllEnded(req[r].edges), NEW resp, Answer(r, resp)
    PROVE  FlightsKept
<1>1. PICK q : q = [Idle EXCEPT !.pc = "done", !.resp = resp]
  OBVIOUS
<1>2. q.edges = <<>>
  BY <1>1 DEF Idle
<1>3. req' = [req EXCEPT ![r] = q]
  BY <1>1 DEF Answer
<1>4. \A i \in DOMAIN req[r].edges : ~Installing(<<r, i>>)
  BY NotInstalling
<1>5. \A i \in DOMAIN q.edges : q.edges[i].pc \notin {"sending", "unsent", "commit", "abort"}
  BY <1>2
<1> QED
  BY <1>3, <1>4, <1>5, FlightsQuiet DEF FlightsKept

(* New tasks hold no identifier.                                           *)
LEMMA SpawnFlights ==
    ASSUME Called, NEW r \in Reqs, AllEnded(req[r].edges), NEW chain, Spawn(r, chain)
    PROVE  FlightsKept
<1>1. req[r] \in Requests
  BY DEF Called
<1>2. PICK edges : edges = [i \in DOMAIN chain |->
                           [client |-> chain[i].client, server |-> chain[i].server,
                            rid |-> chain[i].rid, pc |-> "reserve", net |-> 0]]
  OBVIOUS
<1>3. PICK q : q = [req[r] EXCEPT !.pc = "join", !.edges = edges]
  OBVIOUS
<1>4. q.edges = edges
  BY <1>1, <1>3 DEF Requests
<1>5. req' = [req EXCEPT ![r] = q]
  BY <1>2, <1>3 DEF Spawn
<1>6. \A i \in DOMAIN req[r].edges : ~Installing(<<r, i>>)
  BY NotInstalling
<1>7. \A i \in DOMAIN q.edges : q.edges[i].pc \notin {"sending", "unsent", "commit", "abort"}
  BY <1>2, <1>4
<1> QED
  BY <1>5, <1>6, <1>7, FlightsQuiet DEF FlightsKept

(* A request goes to its next step.                                        *)
LEMMA GotoFlights ==
    ASSUME Called, NEW r \in Reqs, NEW pc, NEW rid, NEW net,
           \/ req' = [req EXCEPT ![r].pc = pc]
           \/ req' = [req EXCEPT ![r].pc = pc, ![r].rid = rid]
           \/ req' = [req EXCEPT ![r].pc = pc, ![r].net = net]
           \/ req' = [req EXCEPT ![r].pc = pc, ![r].rid = rid, ![r].net = net]
    PROVE  FlightsKept
<1>1. req[r] \in Requests
  BY DEF Called
<1>2. PICK a, b, c, d : /\ a = [req[r] EXCEPT !.pc = pc]
                        /\ b = [req[r] EXCEPT !.pc = pc, !.rid = rid]
                        /\ c = [req[r] EXCEPT !.pc = pc, !.net = net]
                        /\ d = [req[r] EXCEPT !.pc = pc, !.rid = rid, !.net = net]
  OBVIOUS
<1>3. /\ a.edges = req[r].edges /\ b.edges = req[r].edges
      /\ c.edges = req[r].edges /\ d.edges = req[r].edges
  BY <1>1, <1>2 DEF Requests
<1>4. PICK q \in {a, b, c, d} : req' = [req EXCEPT ![r] = q]
  BY <1>2
<1> QED
  BY <1>3, <1>4, OneRequest

(* No step of a request itself takes or drops an identifier.               *)
LEMMA RequestFlights ==
    ASSUME CtlInv, NEW r \in Reqs, Start(r) \/ RequestStep(r) \/ CallerGone(r)
    PROVE  FlightsKept
<1>1. Called /\ InOrder(r, req[r])
  BY DEF CtlInv, Called
<1>2. req[r].pc \notin {"join", "gone"} => AllEnded(req[r].edges)
  BY <1>1 DEF InOrder
<1>3. CASE Start(r)
  <2>1. AllEnded(req[r].edges)
    BY <1>2, <1>3 DEF Start
  <2>2. PICK pc : pc = IF CallOf[r][1] = "proxy" THEN "lookup" ELSE "trigger"
    OBVIOUS
  <2>3. PICK q : q = [Idle EXCEPT !.pc = pc]
    OBVIOUS
  <2>4. q.edges = <<>>
    BY <2>3 DEF Idle
  <2>5. req' = [req EXCEPT ![r] = q]
    BY <1>3, <2>2, <2>3 DEF Start
  <2>6. \A i \in DOMAIN req[r].edges : ~Installing(<<r, i>>)
    BY <2>1, NotInstalling
  <2>7. \A i \in DOMAIN q.edges : q.edges[i].pc \notin {"sending", "unsent", "commit", "abort"}
    BY <2>4
  <2> QED
    BY <1>1, <2>5, <2>6, <2>7, FlightsQuiet DEF FlightsKept
<1>4. CASE ProxyLookup(r)
  <2>1. AllEnded(req[r].edges)
    BY <1>2, <1>4 DEF ProxyLookup
  <2>2. \/ Answer(r, <<"err">>)
        \/ \E net : req' = [req EXCEPT ![r].pc = "sticky", ![r].net = net]
        \/ \E rid, net : req' = [req EXCEPT ![r].pc = "reuse", ![r].rid = rid, ![r].net = net]
        \/ Goto(r, "pick")
    BY <1>4 DEF ProxyLookup
  <2>3. CASE Answer(r, <<"err">>)
    BY <1>1, <2>1, <2>3, AnswerFlights
  <2>4. ASSUME NEW net, req' = [req EXCEPT ![r].pc = "sticky", ![r].net = net]
        PROVE  FlightsKept
    BY <1>1, <2>4, GotoFlights
  <2>5. ASSUME NEW rid, NEW net, req' = [req EXCEPT ![r].pc = "reuse", ![r].rid = rid, ![r].net = net]
        PROVE  FlightsKept
    BY <1>1, <2>5, GotoFlights
  <2>6. CASE Goto(r, "pick")
    BY <1>1, <2>6, GotoFlights DEF Goto
  <2> QED
    BY <2>2, <2>3, <2>4, <2>5, <2>6
<1>5. CASE ProxySticky(r)
  <2>1. AllEnded(req[r].edges)
    BY <1>2, <1>5 DEF ProxySticky
  <2> QED
    BY <1>1, <1>5, <2>1, AnswerFlights DEF ProxySticky
<1>6. CASE ProxyReuse(r)
  <2>1. AllEnded(req[r].edges)
    BY <1>2, <1>6 DEF ProxyReuse
  <2>2. CASE Goto(r, "stuck")
    <3>1. PICK pc : pc = "stuck"
      OBVIOUS
    <3>2. req' = [req EXCEPT ![r].pc = pc]
      BY <2>2, <3>1 DEF Goto
    <3> QED
      BY <1>1, <3>2, GotoFlights
  <2>3. CASE \E net : Answer(r, <<"ok", net>>)
    BY <1>1, <2>1, <2>3, AnswerFlights
  <2> QED
    BY <1>6, <2>2, <2>3 DEF ProxyReuse
<1>7. CASE NewProxyChain(r)
  <2>1. AllEnded(req[r].edges)
    BY <1>2, <1>7 DEF NewProxyChain
  <2>2. \/ Answer(r, <<"err">>)
        \/ \E rid : req' = [req EXCEPT ![r].pc = "build", ![r].rid = rid]
    BY <1>7 DEF NewProxyChain
  <2> QED
    BY <1>1, <2>1, <2>2, AnswerFlights, GotoFlights
<1>8. CASE SetupProxyChain(r)
  <2>1. AllEnded(req[r].edges)
    BY <1>2, <1>8 DEF SetupProxyChain
  <2>2. Answer(r, <<"err">>) \/ \E chain : Spawn(r, chain)
    BY <1>8 DEF SetupProxyChain
  <2> QED
    BY <1>1, <2>1, <2>2, AnswerFlights, SpawnFlights
<1>9. CASE BackendTrigger(r)
  <2>1. AllEnded(req[r].edges)
    BY <1>2, <1>9 DEF BackendTrigger
  <2>2. \/ Answer(r, <<"err">>) \/ Answer(r, <<"ok", 0>>)
        \/ \E rid : req' = [req EXCEPT ![r].pc = "build_backend", ![r].rid = rid]
    BY <1>9 DEF BackendTrigger
  <2> QED
    BY <1>1, <2>1, <2>2, AnswerFlights, GotoFlights
<1>10. CASE SetupBackendChain(r)
  <2>1. AllEnded(req[r].edges)
    BY <1>2, <1>10 DEF SetupBackendChain
  <2>2. Answer(r, <<"err">>) \/ Answer(r, <<"ok", 0>>) \/ \E chain : Spawn(r, chain)
    BY <1>10 DEF SetupBackendChain
  <2> QED
    BY <1>1, <2>1, <2>2, AnswerFlights, SpawnFlights
<1>11. CASE Join(r)
  <2>1. AllEnded(req[r].edges)
    BY <1>11 DEF Join, AllEnded, Ended
  <2>2. \E resp : Answer(r, resp)
    BY <1>11 DEF Join
  <2> QED
    BY <1>1, <2>1, <2>2, AnswerFlights
<1>12. CASE CallerGone(r)
  <2>1. req[r] \in Requests
    BY <1>1 DEF Called
  <2>2. PICK pc : pc = IF AllEnded(req[r].edges) THEN "done" ELSE "gone"
    OBVIOUS
  <2>3. PICK q : q = [req[r] EXCEPT !.resp = <<"gone">>, !.pc = pc]
    OBVIOUS
  <2>4. q.edges = req[r].edges
    BY <2>1, <2>3 DEF Requests
  <2>5. req' = [req EXCEPT ![r] = q]
    BY <1>12, <2>2, <2>3 DEF CallerGone
  <2> QED
    BY <1>1, <2>4, <2>5, OneRequest
<1> QED
  BY <1>3, <1>4, <1>5, <1>6, <1>7, <1>8, <1>9, <1>10, <1>11, <1>12 DEF RequestStep
------------------------------------------------------------------------------
(* What the moves of an edge task do to the identifier it holds. *)

(* The edge task becomes e, and no other one changes. *)
BecomesTask(r, i, e) ==
    /\ \A t \in Task \ {<<r, i>>} : (Installing(t)' <=> Installing(t)) /\ Flight(t)' = Flight(t)
    /\ <<r, i>> \in Task
    /\ Installing(<<r, i>>)' <=> e.pc \in {"sending", "unsent", "commit", "abort"}
    /\ Flight(<<r, i>>)' = IF Installing(<<r, i>>)' THEN e.net ELSE 0

(* A task goes on with another identifier.                                 *)
LEMMA TaskTakes ==
    ASSUME Called, NEW r \in Reqs, NEW i \in 1 .. MaxEdges, i \in DOMAIN req[r].edges,
           NEW pc, NEW net,
           req' = [req EXCEPT ![r].edges[i].pc = pc, ![r].edges[i].net = net]
    PROVE  \E e : e.pc = pc /\ e.net = net /\ BecomesTask(r, i, e)
<1>1. req[r] \in Requests /\ req[r].edges[i] \in EdgeTasks
  BY EdgeAtTyped DEF Called
<1>2. PICK e : e = [req[r].edges[i] EXCEPT !.pc = pc, !.net = net]
  OBVIOUS
<1>3. e.pc = pc /\ e.net = net
  BY <1>1, <1>2 DEF EdgeTasks
<1>4. PICK q, p : q = [req[r] EXCEPT !.edges = [req[r].edges EXCEPT ![i] = e]] /\ p = req[r].pc
  OBVIOUS
<1>5. req' = [req EXCEPT ![r] = q]
  BY <1>2, <1>4
<1>6. q = [req[r] EXCEPT !.edges = [req[r].edges EXCEPT ![i] = e], !.pc = p]
  BY <1>1, <1>4 DEF Requests
<1>7. req' = [req EXCEPT ![r] = [req[r] EXCEPT !.edges = [req[r].edges EXCEPT ![i] = e], !.pc = p]]
  BY <1>5, <1>6
<1>8. BecomesTask(r, i, e)
  <2>1. Called /\ r \in Reqs /\ i \in 1 .. MaxEdges /\ i \in DOMAIN req[r].edges
    OBVIOUS
  <2> QED
    BY ONLY <2>1, <1>7, FlightMoves DEF BecomesTask
<1> QED
  BY <1>3, <1>8

(* A task goes on with the one it has.                                     *)
LEMMA TaskGoes ==
    ASSUME Called, NEW r \in Reqs, NEW i \in 1 .. MaxEdges, i \in DOMAIN req[r].edges,
           NEW pc, EdgeGoto(r, i, pc)
    PROVE  \E e : e.pc = pc /\ e.net = req[r].edges[i].net /\ BecomesTask(r, i, e)
<1>1. req[r] \in Requests /\ req[r].edges[i] \in EdgeTasks
  BY EdgeAtTyped DEF Called
<1>2. PICK e : e = [req[r].edges[i] EXCEPT !.pc = pc]
  OBVIOUS
<1>3. e.pc = pc /\ e.net = req[r].edges[i].net
  BY <1>1, <1>2 DEF EdgeTasks
<1>4. PICK q, p : q = [req[r] EXCEPT !.edges = [req[r].edges EXCEPT ![i] = e]] /\ p = req[r].pc
  OBVIOUS
<1>5. req' = [req EXCEPT ![r] = q]
  BY <1>2, <1>4 DEF EdgeGoto
<1>6. q = [req[r] EXCEPT !.edges = [req[r].edges EXCEPT ![i] = e], !.pc = p]
  BY <1>1, <1>4 DEF Requests
<1>7. req' = [req EXCEPT ![r] = [req[r] EXCEPT !.edges = [req[r].edges EXCEPT ![i] = e], !.pc = p]]
  BY <1>5, <1>6
<1>8. BecomesTask(r, i, e)
  <2>1. Called /\ r \in Reqs /\ i \in 1 .. MaxEdges /\ i \in DOMAIN req[r].edges
    OBVIOUS
  <2> QED
    BY ONLY <2>1, <1>7, FlightMoves DEF BecomesTask
<1> QED
  BY <1>3, <1>8
------------------------------------------------------------------------------
(* A step that keeps the invariant and is one of NetLeases. *)
LeaseStep == Owned' /\ Lent' /\ Doomed' /\ [Leases!Next]_(Leases!vars)

(* Freeing no identifier leaves the pool as it is.                         *)
LEMMA FreeNothing ==
    ASSUME pool \in Pools
    PROVE  pool = FreeAll(pool, {})
  BY DEF FreeAll, Pools

(* A step that leaves map, pool and identifiers alone.                     *)
LEMMA QuietStep ==
    ASSUME LeaseInv, UNCHANGED <<clients, pool>>, FlightsKept, NothingNew
    PROVE  LeaseStep
<1>1. Owned /\ Lent /\ Doomed
  BY DEF LeaseInv
<1>2. Owned'
  BY <1>1 DEF Owned, Established, InUse, WellFormed, OneWire, IsProxy, Endpoint
<1>3. InUse(pool)' = InUse(pool)
  BY DEF InUse
<1>4. Lent'
  BY <1>1, <1>3 DEF Lent, FlightsKept
<1>5. Doomed'
  BY <1>1, <1>3 DEF Doomed, NothingNew, FlightsKept, IsProxy
<1>6. UNCHANGED Leases!vars
  BY StepStutters DEF FlightsKept, LeasesOf, Endpoint, IsProxy
<1> QED
  BY <1>2, <1>4, <1>5, <1>6 DEF LeaseStep

(* The networks on the stack that may not be freed meanwhile. *)
OnlyFewer(ids) ==
    \A p \in DOMAIN work' : work'[p][1] = "teardown_networks" =>
       \E q \in DOMAIN work :
          /\ work[q][1] = "teardown_networks" /\ work[q][2] = work'[p][2]
          /\ work'[p][3] \subseteq work[q][3] \ ids

(* A step that frees identifiers nobody refers to any more.                *)
LEMMA RetireStep ==
    ASSUME LeaseInv, pool \in Pools, FlightsKept, Shrinks(clients, clients'),
           NEW ids, ids \subseteq InUse(pool), pool' = FreeAll(pool, ids),
           \A t \in Task : Flight(t) \notin ids,
           \A k \in DOMAIN clients' : clients'[k].net_id \notin ids,
           OnlyFewer(ids)
    PROVE  LeaseStep
<1>1. Owned /\ Lent /\ Doomed
  BY DEF LeaseInv
<1>2. \A t \in Task : Flight(t)' = Flight(t)
  BY DEF FlightsKept
<1>3. LeasesOf(clients') \subseteq LeasesOf(clients)
  BY LeasesShrink
<1>4. Leases!Next
  BY <1>2, <1>3, StepRetires DEF Leases!Next
<1>5. /\ \A t \in Task : Flight(t)' # 0 => Flight(t)' = Flight(t)
      /\ \A t \in Task : /\ Flight(t)' # 0 => Flight(t)' = Flight(t)
                         /\ Installing(t)' => Installing(t) /\ Flight(t)' = Flight(t)
      /\ \A t \in Task : Flight(t)' \notin ids
  BY DEF FlightsKept
<1>6. Owned' /\ Lent'
  BY <1>1, <1>5, HoldsLess
<1>7. Doomed'
  BY <1>1, <1>5, StillDoomed DEF OnlyFewer
<1> QED
  BY <1>4, <1>6, <1>7 DEF LeaseStep

(* Entries go, or only their chains are counted. *)
LEMMA DropStep ==
    ASSUME LeaseInv, pool \in Pools, FlightsKept, Shrinks(clients, clients'), UNCHANGED pool,
           NothingNew
    PROVE  LeaseStep
<1>1. PICK none : none = {}
  OBVIOUS
<1>2. pool' = FreeAll(pool, none)
  BY <1>1, FreeNothing
<1>3. OnlyFewer(none)
  BY <1>1 DEF OnlyFewer, NothingNew
<1> QED
  BY <1>1, <1>2, <1>3, RetireStep

(* An edge task gives up what it holds. *)
LEMMA GiveUp ==
    ASSUME LeaseInv, pool \in Pools, NEW t \in Task, Flight(t) # 0,
           \A s \in Task \ {t} : (Installing(s)' <=> Installing(s)) /\ Flight(s)' = Flight(s),
           ~Installing(t)', UNCHANGED work,
           Shrinks(clients, clients'),
           NEW ids, ids \subseteq {Flight(t)}, pool' = FreeAll(pool, ids)
    PROVE  Owned' /\ Lent' /\ Doomed'
<1>1. Owned /\ Lent /\ Doomed
  BY DEF LeaseInv
<1>2. Flight(t)' = 0
  BY DEF Flight
<1>3. Installing(t)
  BY DEF Flight
<1>4. ids \subseteq InUse(pool)
  BY <1>1, <1>3 DEF Lent
<1>5. \A s \in Task : /\ Flight(s)' # 0 => Flight(s)' = Flight(s)
                      /\ Installing(s)' => Installing(s) /\ Flight(s)' = Flight(s)
  BY <1>2
<1>6. \A s \in Task : Flight(s)' \notin ids
  <2>1. SUFFICES ASSUME NEW s \in Task, Flight(s)' = Flight(t) PROVE FALSE
    OBVIOUS
  <2>2. s # t
    BY <1>2, <2>1
  <2>3. Flight(s) = Flight(t)
    BY <2>1, <2>2
  <2> QED
    BY <1>1, <2>2, <2>3 DEF Lent
<1>7. \A k \in DOMAIN clients' : clients'[k].net_id \notin ids
  <2>1. SUFFICES ASSUME NEW k \in DOMAIN clients', clients'[k].net_id = Flight(t) PROVE FALSE
    OBVIOUS
  <2>2. k \in DOMAIN clients /\ clients[k].net_id = Flight(t)
    BY <2>1 DEF Shrinks
  <2> QED
    BY <1>1, <2>2 DEF Lent
<1>8. Owned' /\ Lent'
  BY <1>1, <1>4, <1>5, <1>6, <1>7, HoldsLess
<1>9. \A p \in DOMAIN work' : work'[p][1] = "teardown_networks" =>
       \E q \in DOMAIN work :
          /\ work[q][1] = "teardown_networks" /\ work[q][2] = work'[p][2]
          /\ work'[p][3] \subseteq work[q][3] \ ids
  BY <1>1 DEF Doomed
<1>10. Doomed'
  BY <1>1, <1>4, <1>5, <1>9, StillDoomed
<1> QED
  BY <1>8, <1>10
------------------------------------------------------------------------------
(* The calls that remove entries. *)

(* A chain is taken off an edge: its network is freed with the last one,   *)
(* and its entry goes in the same step.                                    *)
LEMMA DecrementStep ==
    ASSUME CtlInv, LeaseInv, Undone, DecrementChain, UNCHANGED req
    PROVE  LeaseStep
<1>1. /\ Stacked /\ Listed /\ Placed /\ IsConfig(config) /\ pool \in Pools
      /\ work # <<>> /\ work[1][1] = "decrement_chain" /\ work' = Tail(work)
  BY DEF CtlInv, DecrementChain, Due, Rest
<1>2. FlightsKept
  BY KeptQuiet
<1>3. NothingNew
  BY <1>1, MildPopped
<1>4. PICK name, c : name = work[1][2] /\ c = work[1][3]
  OBVIOUS
<1>5. PICK key : key = EntryKey(name, c, clients)
  OBVIOUS
<1>6. CASE UNCHANGED <<clients, pool>>
  BY <1>2, <1>3, <1>6, QuietStep
<1>7. CASE /\ IsRegistered(name) /\ Holds(name, c, clients)
           /\ clients' = [clients EXCEPT ![key].active_chains = @ - 1]
           /\ UNCHANGED pool
  <2>1. \A k \in DOMAIN clients : clients[k] \in Entries
    BY <1>1 DEF Placed
  <2>2. Shrinks(clients, clients')
    BY <1>7, <2>1 DEF Shrinks, Entries
  <2> QED
    BY <1>1, <1>2, <1>3, <1>7, <2>2, DropStep
<1>8. CASE /\ IsRegistered(name) /\ Holds(name, c, clients)
           /\ clients' = Without(clients, {key})
           /\ pool' = FreeAll(pool, {clients[key].net_id})
  <2>1. key \in DOMAIN clients /\ key[1] = name /\ key[3] = c
    BY <1>1, <1>5, <1>8, RegisteredHolder
  <2>2. PICK ids : ids = {clients[key].net_id} \ {0}
    OBVIOUS
  <2>3. Owned /\ Lent /\ Doomed
    BY DEF LeaseInv
  <2>4. ids \subseteq InUse(pool)
    BY <2>1, <2>2, <2>3 DEF Owned, Established
  <2>5. pool' = FreeAll(pool, ids)
    BY <1>1, <1>8, <2>2, NoZero DEF FreeAll
  <2>6. \A t \in Task : Flight(t) \notin ids
    BY <2>1, <2>2, <2>3 DEF Lent
  <2>7. Shrinks(clients, clients')
    BY <1>8, ShrinksWithout
  <2>8. \A k \in DOMAIN clients' : clients'[k].net_id \notin ids
    <3>1. \A k \in DOMAIN clients' : k \in DOMAIN clients /\ k # key /\ clients'[k] = clients[k]
      BY <1>8 DEF Without, Restrict
    <3>2. Established(key) => \A k \in DOMAIN clients : clients[k].net_id = clients[key].net_id => k = key
      <4>1. CASE IsProxy(c)
        <5>1. 1 \in DOMAIN work /\ Undoes(work[1])
          BY <1>1, <1>4, <4>1, HeadCalled DEF Undoes
        <5>2. Unshared(key)
          BY <1>4, <2>1, <5>1 DEF Undone
        <5> QED
          BY <5>2 DEF Unshared
      <4>2. CASE ~IsProxy(c)
        BY <2>1, <2>3, <4>2 DEF Owned, OneWire
      <4> QED
        BY <4>1, <4>2
    <3> QED
      BY <2>2, <3>1, <3>2 DEF Established
  <2>9. OnlyFewer(ids)
    <3>1. SUFFICES ASSUME NEW p \in DOMAIN work', work'[p][1] = "teardown_networks"
                   PROVE  \E q \in DOMAIN work :
                             /\ work[q][1] = "teardown_networks" /\ work[q][2] = work'[p][2]
                             /\ work'[p][3] \subseteq work[q][3] \ ids
      BY DEF OnlyFewer
    <3>2. PICK q \in DOMAIN work : work[q] = work'[p]
      BY <1>3, <3>1 DEF NothingNew
    <3>3. Inner(work[1])
      BY <1>1, <3>1, TailStacked
    <3>4. ~IsProxy(c)
      BY <1>1, <1>4, <3>3 DEF Inner
    <3>5. ASSUME NEW id \in ids
          PROVE  id \notin work[q][3]
      <4>1. SUFFICES ASSUME id \in work[q][3] PROVE FALSE
        OBVIOUS
      <4>2. id = clients[key].net_id /\ id \in work[q][3] \ {0}
        BY <2>2, <3>5, <4>1
      <4>3. work[q][1] = "teardown_networks"
        BY <3>1, <3>2
      <4>4. IsProxy(key[3])
        BY <2>1, <2>3, <4>2, <4>3 DEF Doomed
      <4> QED
        BY <2>1, <3>4, <4>4
    <3> QED
      BY <3>1, <3>2, <3>5
  <2> QED
    BY <1>1, <1>2, <2>4, <2>5, <2>6, <2>7, <2>8, <2>9, RetireStep
<1> QED
  BY <1>4, <1>5, <1>6, <1>7, <1>8 DEF DecrementChain

(* Entries are removed with their service, replica or client. Their        *)
(* networks may stay in use, but are nobody's.                             *)
LEMMA RemovalStep ==
    ASSUME CtlInv, LeaseInv, RemoveClientEntry \/ Unregister \/ RemoveReplicas, UNCHANGED req
    PROVE  LeaseStep
<1>1. pool \in Pools /\ Stacked
  BY DEF CtlInv
<1>2. FlightsKept
  BY KeptQuiet
<1>3. NothingNew
  <2>1. work # <<>> /\ work' = Tail(work)
    BY DEF RemoveClientEntry, Unregister, RemoveReplicas, Due, Rest
  <2> QED
    BY <1>1, <2>1, MildPopped
<1>4. UNCHANGED pool
  BY DEF RemoveClientEntry, Unregister, RemoveReplicas
<1>5. (\E keys : clients' = Without(clients, keys)) \/ clients' = clients
  BY DEF RemoveClientEntry, Unregister, RemoveReplicas, RemoveClient
<1>6. Shrinks(clients, clients')
  <2>1. CASE clients' = clients
    BY <2>1 DEF Shrinks
  <2> QED
    BY <1>5, <2>1, ShrinksWithout
<1> QED
  BY <1>1, <1>2, <1>3, <1>4, <1>6, DropStep

(* A network that nobody shares is freed. *)
LEMMA NetworksFreed ==
    ASSUME CtlInv, LeaseInv, TeardownNetworks, UNCHANGED req
    PROVE  LeaseStep
<1>1. /\ Stacked /\ pool \in Pools /\ UNCHANGED clients
      /\ work # <<>> /\ work[1][1] = "teardown_networks"
  BY DEF CtlInv, TeardownNetworks, Due, serviceVars
<1>2. FlightsKept
  BY KeptQuiet
<1>3. PICK name, all : name = work[1][2] /\ all = work[1][3]
  OBVIOUS
<1>4. PICK id \in all :
         /\ pool' = IF \E k \in KeysOf(name, clients) : clients[k].net_id = id
                       THEN pool ELSE FreeAll(pool, {id})
         /\ work' = IF all = {id} THEN Tail(work)
                    ELSE <<<<"teardown_networks", name, all \ {id}>>>> \o Tail(work)
  BY <1>3 DEF TeardownNetworks, Rest
<1>5. PICK ids : ids = IF \E k \in KeysOf(name, clients) : clients[k].net_id = id
                          THEN {} ELSE {id} \ {0}
  OBVIOUS
<1>6. Owned /\ Lent /\ Doomed
  BY DEF LeaseInv
<1>7. 1 \in DOMAIN work
  BY <1>1, HeadCalled
<1>8. ids # {} => /\ id \in InUse(pool)
                  /\ \A t \in Task : Flight(t) # id
                  /\ \A k \in DOMAIN clients : clients[k].net_id = id => k[1] = name
  <2>1. SUFFICES ASSUME ids # {}
                 PROVE  /\ id \in InUse(pool)
                        /\ \A t \in Task : Flight(t) # id
                        /\ \A k \in DOMAIN clients : clients[k].net_id = id => k[1] = name
    OBVIOUS
  <2>2. id \in work[1][3] \ {0}
    BY <1>3, <1>5, <2>1
  <2> QED
    BY <1>1, <1>3, <1>6, <1>7, <2>2 DEF Doomed
<1>9. ids \subseteq InUse(pool)
  BY <1>5, <1>8
<1>10. pool' = FreeAll(pool, ids)
  <2>1. FreeAll(pool, {0}) = FreeAll(pool, {})
    BY <1>1, NoZero DEF FreeAll
  <2> QED
    BY <1>1, <1>4, <1>5, <2>1, FreeNothing
<1>11. \A t \in Task : Flight(t) \notin ids
  BY <1>5, <1>8
<1>12. \A k \in DOMAIN clients' : clients'[k].net_id \notin ids
  BY <1>1, <1>5, <1>8 DEF KeysOf
<1>13. Shrinks(clients, clients')
  BY <1>1 DEF Shrinks
<1>14. ~Inner(work[1])
  BY <1>1 DEF Inner
<1>15. \A i \in DOMAIN Tail(work) : Tail(work)[i][1] # "teardown_networks"
  BY <1>1, <1>14, TailStacked
<1>16. OnlyFewer(ids)
  <2>1. CASE work' = Tail(work)
    BY <1>15, <2>1 DEF OnlyFewer
  <2>2. CASE work' = <<<<"teardown_networks", name, all \ {id}>>>> \o Tail(work)
    <3>1. PICK x, y : x = <<"teardown_networks", name, all \ {id}>> /\ y = <<x>>
      OBVIOUS
    <3>2. IsSequence(y) /\ DOMAIN y = {1} /\ y[1] = x
      BY <3>1, One
    <3>3. IsSequence(Tail(work)) /\ work' = y \o Tail(work)
      BY <1>1, <2>2, <3>1, TailStacked
    <3>4. PICK t, w : t = Tail(work) /\ w = y \o t
      OBVIOUS
    <3>5. ASSUME NEW p \in DOMAIN w, w[p][1] = "teardown_networks"
          PROVE  w[p] = x
      <4>1. \/ p \in DOMAIN y /\ w[p] = y[p]
            \/ p - Len(y) \in DOMAIN t /\ w[p] = t[p - Len(y)]
        BY <3>2, <3>3, <3>4, ConcatAt
      <4> QED
        BY <1>15, <3>2, <3>4, <3>5, <4>1
    <3>6. ids \subseteq {id}
      BY <1>5
    <3>7. \A p \in DOMAIN w : w[p][1] = "teardown_networks" =>
             /\ work[1][1] = "teardown_networks" /\ work[1][2] = w[p][2]
             /\ w[p][3] \subseteq work[1][3] \ ids
      BY <1>1, <1>3, <3>1, <3>5, <3>6
    <3> QED
      BY <1>7, <3>3, <3>4, <3>7 DEF OnlyFewer
  <2> QED
    BY <1>4, <2>1, <2>2
<1> QED
  BY <1>1, <1>2, <1>9, <1>10, <1>11, <1>12, <1>13, <1>16, RetireStep
------------------------------------------------------------------------------
(* The networks of the clients that are taken down. *)
LEMMA ChainStep ==
    ASSUME CtlInv, LeaseInv, TeardownChain, UNCHANGED req
    PROVE  LeaseStep
<1>1. /\ Stacked /\ Listed /\ Placed /\ work # <<>> /\ UNCHANGED <<clients, pool>>
      /\ work[1][1] = "teardown_chain"
  BY DEF CtlInv, TeardownChain, Due, serviceVars
<1>2. FlightsKept
  BY KeptQuiet
<1>3. PICK name, keys : /\ name = work[1][2]
                        /\ keys = {k \in KeysOf(name, clients) : Matches(work[1][3], k)}
  OBVIOUS
<1>4. name \in Names
  BY <1>1, <1>3, HeadCalled DEF WellCalled
<1>5. PICK gone : gone = InReplicaOrder(name, keys)
  OBVIOUS
<1>6. gone \in Seq(keys) /\ IsSequence(gone)
  BY <1>1, <1>3, <1>4, <1>5, GoneTyped DEF KeysOf
<1>7. \A i \in DOMAIN gone : gone[i] \in keys
  BY <1>6
<1>8. CASE work' = Tail(work)
  <2>1. NothingNew
    BY <1>1, <1>8, MildPopped
  <2> QED
    BY <1>1, <1>2, <2>1, QuietStep
<1>9. PICK A, B, ids : /\ A = [i \in DOMAIN gone |-> <<"teardown_dep_chain", name, gone[i][2]>>]
                       /\ B = [i \in DOMAIN gone |-> <<"remove_client", name, gone[i][3]>>]
                       /\ ids = {clients[gone[i]].net_id : i \in DOMAIN gone}
  OBVIOUS
<1>10. PICK N : N = <<"teardown_networks", name, ids>>
  OBVIOUS
<1>11. CASE work' = A \o B \o <<N>> \o Tail(work)
  <2>1. A = [i \in DOMAIN gone |-> A[i]] /\ B = [i \in DOMAIN gone |-> B[i]]
    BY <1>9
  <2>2. /\ \A i \in DOMAIN gone : A[i][1] \notin {"teardown_networks", "decrement_chain"}
        /\ \A i \in DOMAIN gone : B[i][1] \notin {"teardown_networks", "decrement_chain"}
    BY <1>9
  <2>3. Mild(A)
    BY <1>6, <2>1, <2>2, MildEach
  <2>4. Mild(B)
    BY <1>6, <2>1, <2>2, MildEach
  <2>5. PICK C, t : C = A \o B /\ t = Tail(work)
    OBVIOUS
  <2>6. Mild(C)
    BY <2>3, <2>4, <2>5, MildConcat
  <2>7. PICK new, w : new = C \o <<N>> /\ w = new \o t
    OBVIOUS
  <2>8. IsSequence(<<N>>) /\ DOMAIN <<N>> = {1} /\ <<N>>[1] = N
    BY One
  <2>9. IsSequence(new)
    BY <2>6, <2>7, <2>8, Concat DEF Mild
  <2>10. ASSUME NEW p \in DOMAIN new, new[p][1] = "teardown_networks"
         PROVE  new[p] = N
    <3>1. \/ p \in DOMAIN C /\ new[p] = C[p]
          \/ p - Len(C) \in DOMAIN <<N>> /\ new[p] = <<N>>[p - Len(C)]
      BY <2>6, <2>7, <2>8, ConcatAt DEF Mild
    <3> QED
      BY <2>6, <2>8, <2>10, <3>1 DEF Mild, Gentle
  <2>11. ~Inner(work[1])
    BY <1>1 DEF Inner
  <2>12. IsSequence(t) /\ \A i \in DOMAIN t : t[i][1] # "teardown_networks"
    BY <1>1, <2>5, <2>11, TailStacked
  <2>13. ASSUME NEW p \in DOMAIN w, w[p][1] = "teardown_networks"
         PROVE  w[p] = N
    <3>1. \/ p \in DOMAIN new /\ w[p] = new[p]
          \/ p - Len(new) \in DOMAIN t /\ w[p] = t[p - Len(new)]
      BY <2>7, <2>9, <2>12, ConcatAt
    <3> QED
      BY <2>10, <2>12, <2>13, <3>1
  <2>14. work' = w
    BY <1>11, <2>5, <2>7
  <2>15. Owned /\ Lent
    BY DEF LeaseInv
  <2>16. ASSUME NEW id \in ids \ {0}
         PROVE  /\ id \in InUse(pool)
                /\ \A s \in Task : Flight(s) # id
                /\ \A k \in DOMAIN clients : clients[k].net_id = id => k[1] = name /\ IsProxy(k[3])
    <3>1. PICK k0 \in keys : clients[k0].net_id = id
      BY <1>7, <1>9, <2>16
    <3>2. k0 \in DOMAIN clients /\ k0[1] = name /\ IsProxy(k0[3])
      BY <1>3, <3>1 DEF KeysOf, Matches
    <3>3. Established(k0)
      BY <2>16, <3>1 DEF Established
    <3>4. id \in InUse(pool)
      BY <2>15, <3>1, <3>2, <3>3 DEF Owned
    <3>5. \A s \in Task : Flight(s) # id
      BY <2>15, <2>16, <3>1, <3>2 DEF Lent
    <3>6. \A k \in DOMAIN clients : clients[k].net_id = id => k = k0 \/ OneWire(k, k0)
      BY <2>15, <3>1, <3>2, <3>3 DEF Owned
    <3> QED
      BY <3>2, <3>4, <3>5, <3>6 DEF OneWire
  <2>17. Owned'
    BY <1>1, <2>15 DEF Owned, Established, InUse, WellFormed, OneWire, IsProxy, Endpoint
  <2>18. InUse(pool)' = InUse(pool)
    BY <1>1 DEF InUse
  <2>19. Lent'
    BY <1>1, <1>2, <2>15, <2>18 DEF Lent, FlightsKept
  <2>20. Doomed'
    <3>1. N[2] = name /\ N[3] = ids
      BY <1>10
    <3>2. ASSUME NEW p \in DOMAIN work', work'[p][1] = "teardown_networks"
          PROVE  work'[p][2] = name /\ work'[p][3] = ids
      BY <2>13, <2>14, <3>1, <3>2
    <3> QED
      BY <1>1, <1>2, <2>16, <2>18, <3>2 DEF Doomed, FlightsKept, IsProxy
  <2>21. UNCHANGED Leases!vars
    BY <1>1, <1>2, StepStutters DEF FlightsKept, LeasesOf, Endpoint, IsProxy
  <2> QED
    BY <2>17, <2>19, <2>20, <2>21 DEF LeaseStep
<1>12. work' = Tail(work) \/ work' = A \o B \o <<N>> \o Tail(work)
  BY <1>3, <1>5, <1>9, <1>10 DEF TeardownChain, Rest
<1> QED
  BY <1>8, <1>11, <1>12

(* The lock holder. *)
LEMMA LockHolderLeases ==
    ASSUME CtlInv, LeaseInv, Undone, LockHolderStep
    PROVE  LeaseStep
<1>1. UNCHANGED req /\ ChangesNext
  BY DEF LockHolderStep
<1>2. CASE ~TeardownChain /\ ~TeardownNetworks /\ UNCHANGED <<clients, pool>>
  <2>1. NothingNew
    BY <1>1, <1>2, CallsMild
  <2> QED
    BY <1>1, <1>2, <2>1, KeptQuiet, QuietStep
<1>3. CASE For \/ TeardownDepChain \/ TeardownBackendChain \/ TeardownAllBackendChainsFor
           \/ TeardownInvalidatedService \/ RemoveService \/ ReplicasRemoved
           \/ TeardownPartialReplicas \/ ProxyDisconnected \/ UpdateFromFile \/ AddReplica
  <2>1. UNCHANGED <<clients, pool>>
    BY <1>3 DEF For, TeardownDepChain, TeardownBackendChain, TeardownAllBackendChainsFor,
       TeardownInvalidatedService, RemoveService, ReplicasRemoved, TeardownPartialReplicas,
       ProxyDisconnected, UpdateFromFile, AddReplica, serviceVars
  <2>2. ~TeardownChain /\ ~TeardownNetworks
    BY <1>3 DEF For, TeardownDepChain, TeardownBackendChain, TeardownAllBackendChainsFor,
       TeardownInvalidatedService, RemoveService, ReplicasRemoved, TeardownPartialReplicas,
       ProxyDisconnected, UpdateFromFile, AddReplica, Due, TeardownChain, TeardownNetworks
  <2> QED
    BY <1>2, <2>1, <2>2
<1> QED
  BY <1>1, <1>3, DecrementStep, RemovalStep, NetworksFreed, ChainStep DEF ChangesNext

------------------------------------------------------------------------------
(* Joining a network.                                                      *)

(* A network that is up gets one more entry, for a client of its proxy.    *)
LEMMA ShareStep ==
    ASSUME CtlInv, LeaseInv, FlightsKept, UNCHANGED pool,
           \A p \in DOMAIN work' : work'[p][1] # "teardown_networks",
           NEW old \in DOMAIN clients, Established(old), NEW key \in AllKeys, OneWire(key, old),
           Enters(clients, clients', key, clients[old].net_id),
           DOMAIN clients \subseteq DOMAIN clients'
    PROVE  LeaseStep
<1>1. Owned /\ Lent /\ pool \in Pools /\ DOMAIN clients \subseteq AllKeys
  BY DEF LeaseInv, CtlInv, Placed
<1>2. /\ DOMAIN clients' \subseteq DOMAIN clients \cup {key}
      /\ \A k \in DOMAIN clients' : clients'[k].net_id =
            IF k = key THEN clients[old].net_id ELSE clients[k].net_id
  BY DEF Enters
<1>3. \A p \in DOMAIN work' : work'[p][1] # "teardown_networks"
  OBVIOUS
<1>4. CASE key \notin DOMAIN clients'
  <2>1. Shrinks(clients, clients')
    BY <1>2, <1>4 DEF Shrinks
  <2> QED
    BY <1>1, <1>3, <2>1, DropStep DEF NothingNew
<1>5. CASE key \in DOMAIN clients'
  <2>1. Leases!Next
    <3>1. clients'[key].net_id = clients[old].net_id /\ clients[old].net_id # 0
      BY <1>2, <1>5 DEF Established
    <3>2. \A k \in DOMAIN clients' \ {key} : k \in DOMAIN clients
              /\ clients'[k].net_id = clients[k].net_id
      BY <1>2
    <3>3. DOMAIN clients' \subseteq AllKeys
      BY <1>1, <1>2
    <3>4. \A t \in Task : Flight(t)' = Flight(t)
      BY DEF FlightsKept
    <3> QED
      BY <1>5, <3>1, <3>2, <3>3, <3>4, StepShares DEF Leases!Next
  <2>2. InUse(pool)' = InUse(pool) /\ WellFormed(pool)'
    BY <1>1 DEF InUse, WellFormed, Owned
  <2>3. PICK from : from = [k \in DOMAIN clients' |-> IF k = key THEN old ELSE k]
    OBVIOUS
  <2>4. \A k \in DOMAIN clients' :
           /\ from[k] = IF k = key THEN old ELSE k
           /\ from[k] \in DOMAIN clients /\ clients'[k].net_id = clients[from[k]].net_id
    BY <1>2, <2>3
  <2>5. ASSUME NEW k \in DOMAIN clients', Established(k)'
        PROVE  clients'[k].net_id \in InUse(pool)'
    BY <1>1, <2>2, <2>4, <2>5 DEF Owned, Established
  <2>6. ASSUME NEW j \in DOMAIN clients', NEW k \in DOMAIN clients', Established(k)',
               clients'[j].net_id = clients'[k].net_id
        PROVE  j = k \/ OneWire(j, k)
    <3>1. from[j] = from[k] \/ OneWire(from[j], from[k])
      BY <1>1, <2>4, <2>6 DEF Owned, Established
    <3>2. \A a, b, c : OneWire(a, b) /\ OneWire(b, c) => OneWire(a, c)
      BY DEF OneWire
    <3>3. \A a, b : OneWire(a, b) => OneWire(b, a)
      BY DEF OneWire
    <3> QED
      BY <2>4, <3>1, <3>2, <3>3
  <2>7. Owned'
    BY <2>2, <2>5, <2>6 DEF Owned, OneWire, IsProxy, Endpoint
  <2>8. Lent'
    <3>1. ASSUME NEW t \in Task, NEW k \in DOMAIN clients', Flight(t)' # 0
          PROVE  Flight(t)' # clients'[k].net_id
      BY <1>1, <2>4, <3>1 DEF Lent, FlightsKept
    <3> QED
      BY <1>1, <2>2, <3>1 DEF Lent, FlightsKept
  <2>9. Doomed'
    BY <1>3 DEF Doomed
  <2> QED
    BY <2>1, <2>7, <2>8, <2>9 DEF LeaseStep
<1> QED
  BY <1>4, <1>5

(* The clients of a proxy are one end of a wire.                           *)
LEMMA SameEndpoint ==
    ASSUME NEW r \in ProxyReqs, NEW c \in AllClients, c.proxy = HostOf(r)
    PROVE  IsProxy(c) /\ Endpoint(c) = Endpoint(ClientOf(r))
<1>1. HostOf(r) # None /\ ClientOf(r).proxy = HostOf(r)
  BY ProxyNamed
<1>2. IsProxy(c) /\ IsProxy(ClientOf(r))
  BY <1>1 DEF IsProxy
<1>3. \E user, proxy : c = [name |-> user, proxy |-> proxy, replica |-> None]
  BY <1>2 DEF AllClients, ServiceClient, IsProxy, ClientOf, ProxyClient
<1>4. ClientOf(r) = [name |-> CallOf[r][4], proxy |-> HostOf(r), replica |-> None]
  BY DEF ClientOf, ProxyClient, HostOf
<1> QED
  BY <1>2, <1>3, <1>4 DEF Endpoint

(* The network that a request found is still up when it joins it.          *)
LEMMA ReuseLeases ==
    ASSUME CtlInv, LeaseInv, NEW r \in Reqs, Found(r), ProxyReuse(r)
    PROVE  LeaseStep
<1>1. pool \in Pools /\ Called /\ InOrder(r, req[r]) /\ Placed
  BY DEF CtlInv, Called
<1>2. FlightsKept
  BY RequestFlights DEF RequestStep
<1>3. req[r].pc = "reuse" /\ UNCHANGED pool
  BY DEF ProxyReuse
<1>4. ReuseLeads(r)
  BY ProxyReuseLeads
<1>5. \A p \in DOMAIN work' : work'[p][1] # "teardown_networks"
  <2>1. PICK x : x = <<"endless_walk">>
    OBVIOUS
  <2>2. work' = <<>> \/ work' = <<x>>
    BY <2>1 DEF ProxyReuse, LockFree
  <2>3. DOMAIN <<>> = {} /\ DOMAIN <<x>> = 1 .. 1 /\ <<x>>[1] = x
    BY One
  <2> QED
    BY <2>1, <2>2, <2>3
<1>6. CASE Keeps(clients, clients')
  <2>1. Shrinks(clients, clients')
    BY <1>6 DEF Shrinks, Keeps
  <2> QED
    BY <1>1, <1>2, <1>3, <1>5, <2>1, DropStep DEF NothingNew
<1>7. CASE /\ Enters(clients, clients', <<ServiceOf(r), req[r].rid, ClientOf(r)>>, req[r].net)
           /\ DOMAIN clients \subseteq DOMAIN clients'
  <2>1. r \in ProxyReqs /\ req[r].rid \in AllReplicas
    BY <1>1, <1>3 DEF InOrder, ProxyReqs
  <2>2. PICK old \in DOMAIN clients : /\ old[1] = ServiceOf(r) /\ old[2] = req[r].rid
                                      /\ old[3].proxy = HostOf(r)
                                      /\ Established(old) /\ clients[old].net_id = req[r].net
    BY <1>3 DEF Found
  <2>3. PICK key : key = <<ServiceOf(r), req[r].rid, ClientOf(r)>>
    OBVIOUS
  <2>4. old \in AllKeys
    BY <1>1 DEF Placed
  <2>5. old[1] \in Names /\ old[3] \in AllClients
    BY <2>4 DEF AllKeys
  <2>6. ClientOf(r) \in AllClients
    BY <2>1 DEF AllClients, ProxyReqs
  <2>7. key \in AllKeys
    BY <2>1, <2>2, <2>3, <2>5, <2>6 DEF AllKeys
  <2>8. OneWire(key, old)
    BY <2>1, <2>2, <2>3, <2>5, SameEndpoint, ClientIsProxy DEF OneWire
  <2> QED
    BY <1>2, <1>3, <1>5, <1>7, <2>2, <2>3, <2>7, <2>8, ShareStep
<1> QED
  BY <1>4, <1>6, <1>7 DEF ReuseLeads
------------------------------------------------------------------------------
(* Requests, but for their edge tasks. *)
LEMMA RequestLeases ==
    ASSUME CtlInv, LeaseInv, NEW r \in Reqs, Found(r), Start(r) \/ RequestStep(r) \/ CallerGone(r)
    PROVE  LeaseStep
<1>1. FlightsKept
  BY RequestFlights
<1>2. SUFFICES ASSUME ~ProxyReuse(r) PROVE LeaseStep
  BY ReuseLeases
<1>3. UNCHANGED <<clients, pool>>
  BY <1>2 DEF Start, RequestStep, CallerGone, ProxyLookup, ProxySticky, NewProxyChain, SetupProxyChain,
     BackendTrigger, SetupBackendChain, Join, changeVars, serviceVars
<1>4. NothingNew
  <2>1. CASE Join(r)
    BY <2>1, JoinMild
  <2>2. CASE UNCHANGED work
    BY <2>2, NothingNewStays
  <2> QED
    BY <1>2, <2>1, <2>2 DEF Start, RequestStep, CallerGone, ProxyLookup, ProxySticky, NewProxyChain,
       SetupProxyChain, BackendTrigger, SetupBackendChain, changeVars
<1> QED
  BY <1>1, <1>3, <1>4, QuietStep

(* Events only start teardowns.                                            *)
LEMMA EventLeases ==
    ASSUME CtlInv, LeaseInv, Event \/ \E host \in Flapping : NodeDisconnect(host)
    PROVE  LeaseStep
<1>1. UNCHANGED <<clients, pool, req>>
  BY EventsLeave
<1> QED
  BY <1>1, EventsMild, KeptQuiet, QuietStep
------------------------------------------------------------------------------
(* The steps of an edge task. *)

(* A task that keeps what it holds.                                        *)
LEMMA TaskKept ==
    ASSUME NEW r, NEW i, NEW e, BecomesTask(r, i, e),
           Installing(<<r, i>>) <=> e.pc \in {"sending", "unsent", "commit", "abort"},
           e.net = req[r].edges[i].net
    PROVE  FlightsKept
<1>1. PICK t \in Task : t = <<r, i>>
  BY DEF BecomesTask
<1>2. Installing(t)' <=> Installing(t)
  BY <1>1 DEF BecomesTask
<1>3. Flight(t)' = Flight(t)
  BY <1>1 DEF BecomesTask, Flight
<1> QED
  BY <1>1, <1>2, <1>3 DEF BecomesTask, FlightsKept

(* A placeholder names no network.                                         *)
LEMMA ReserveLeases ==
    ASSUME CtlInv, LeaseInv, NEW r \in Reqs, NEW i \in 1 .. MaxEdges, EdgeReserve(r, i)
    PROVE  LeaseStep
<1>1. Placed /\ Listed /\ IsConfig(config) /\ Called /\ pool \in Pools
  BY DEF CtlInv
<1>2. PICK e : e = req[r].edges[i]
  OBVIOUS
<1>3. i \in DOMAIN req[r].edges /\ e.pc = "reserve" /\ UNCHANGED <<pool, work>>
  BY <1>2 DEF EdgeReserve, EdgeAt
<1>4. FlightsKept
  <2>1. PICK pc \in {"failed", "ok", "allocate"} : EdgeGoto(r, i, pc)
    BY DEF EdgeReserve
  <2>2. PICK d : d.pc = pc /\ d.net = req[r].edges[i].net /\ BecomesTask(r, i, d)
    BY <1>1, <1>3, <2>1, TaskGoes
  <2>3. ~Installing(<<r, i>>)
    BY <1>2, <1>3 DEF Installing
  <2> QED
    BY <2>1, <2>2, <2>3, TaskKept
<1>5. NothingNew
  BY <1>3, NothingNewStays
<1>6. CASE UNCHANGED clients
  BY <1>3, <1>4, <1>5, <1>6, QuietStep
<1>7. CASE IsRegistered(e.server) /\ clients' = AddChain(e.server, e.client, clients)
  <2>1. PICK D, m : D = DOMAIN clients /\ m = Len(replicas[e.server])
    OBVIOUS
  <2>2. clients \in [D -> Entries] /\ m \in Nat /\ DOMAIN replicas[e.server] = 1 .. m
    BY <1>1, <1>7, <2>1, RegisteredHasReplicas DEF Placed
  <2>3. PICK new : new = AddChain(e.server, e.client, clients)
    OBVIOUS
  <2>4. new \in [D -> Entries] /\ \A k \in D : new[k].net_id = clients[k].net_id
    BY <2>2, <2>3, AddChainKeeps
  <2>5. Shrinks(clients, new)
    BY <2>2, <2>4, ChainCounted
  <2> QED
    BY <1>1, <1>3, <1>4, <1>5, <1>7, <2>3, <2>5, DropStep
<1>8. CASE clients' = AddClientToReplica(e.server, e.rid, e.client, Placeholder, clients)
  <2>1. PICK n, rid, c, info, D :
          /\ n = e.server /\ rid = e.rid /\ c = e.client /\ info = Placeholder
          /\ D = DOMAIN clients
    OBVIOUS
  <2>2. info \in Entries /\ info.net_id = 0 /\ clients \in [D -> Entries]
    BY <1>1, <2>1 DEF Placeholder, Entries, Placed
  <2>3. PICK new : new = AddClientToReplica(n, rid, c, info, clients)
    OBVIOUS
  <2>4. /\ DOMAIN new = D \cup (IF rid \in ReplicaSet(n) THEN {<<n, rid, c>>} ELSE {})
        /\ \A k \in DOMAIN new :
              new[k] = IF rid \in ReplicaSet(n) /\ k = <<n, rid, c>> THEN info ELSE clients[k]
    BY <2>2, <2>3 DEF AddClientToReplica
  <2>5. Shrinks(clients, new)
    BY <2>1, <2>2, <2>4 DEF Shrinks
  <2>6. clients' = new
    BY <1>8, <2>1, <2>3
  <2> QED
    BY <1>1, <1>3, <1>4, <1>5, <2>5, <2>6, DropStep
<1> QED
  BY <1>2, <1>6, <1>7, <1>8 DEF EdgeReserve

(* The identifier that is taken is new to every task and entry.            *)
LEMMA TakeStep ==
    ASSUME CtlInv, LeaseInv, NEW t \in Task, ~Installing(t),
           \A s \in Task \ {t} : (Installing(s)' <=> Installing(s)) /\ Flight(s)' = Flight(s),
           UNCHANGED <<clients, work>>,
           NEW id \in NetIds, IsNextId(pool, id), pool' = Allocate(pool, id), Flight(t)' = id
    PROVE  LeaseStep
<1>1. Owned /\ Lent /\ Doomed /\ pool \in Pools
  BY DEF LeaseInv, CtlInv
<1>2. Flight(t) = 0
  BY DEF Flight
<1>3. /\ WellFormed(pool') /\ id \notin InUse(pool)
      /\ InUse(pool') = InUse(pool) \cup {id}
  BY <1>1, AllocateGrants DEF Owned
<1>4. WellFormed(pool)' /\ InUse(pool)' = InUse(pool) \cup {id}
  BY <1>3 DEF WellFormed, InUse
<1>5. Leases!Next
  <2>1. Leases!Take(t)
    BY <1>2, StepTakes
  <2> QED
    BY <2>1 DEF Leases!Next
<1>6. Owned'
  BY <1>1, <1>4 DEF Owned, Established, OneWire, IsProxy, Endpoint
<1>7. id # 0
  BY <1>1, NoZero
<1>8. \A s \in Task : Flight(s) # 0 => Flight(s) \in InUse(pool)
  BY <1>1 DEF Lent, Flight
<1>9. \A k \in DOMAIN clients : clients[k].net_id # 0 => clients[k].net_id \in InUse(pool)
  BY <1>1 DEF Owned, Established
<1>10. ASSUME NEW s \in Task, Installing(s)'
       PROVE  Flight(s)' \in InUse(pool)'
  <2>1. CASE s = t
    BY <1>4, <2>1
  <2>2. CASE s # t
    BY <1>1, <1>4, <1>10, <2>2 DEF Lent
  <2> QED
    BY <2>1, <2>2
<1>11. ASSUME NEW s \in Task, NEW u \in Task, Flight(s)' # 0, Flight(s)' = Flight(u)'
       PROVE  s = u
  BY <1>1, <1>3, <1>7, <1>8, <1>11 DEF Lent
<1>12. ASSUME NEW s \in Task, NEW k \in DOMAIN clients', Flight(s)' # 0
       PROVE  Flight(s)' # clients'[k].net_id
  <2>1. CASE s = t
    BY <1>3, <1>7, <1>9, <2>1
  <2>2. CASE s # t
    BY <1>1, <1>12, <2>2 DEF Lent
  <2> QED
    BY <2>1, <2>2
<1>13. Lent'
  BY <1>10, <1>11, <1>12 DEF Lent
<1>14. Doomed'
  <2>1. SUFFICES ASSUME NEW q \in DOMAIN work', work'[q][1] = "teardown_networks",
                        NEW x \in work'[q][3] \ {0}
                 PROVE  /\ x \in InUse(pool)'
                        /\ \A s \in Task : Flight(s)' # x
                        /\ \A k \in DOMAIN clients' :
                              clients'[k].net_id = x => k[1] = work'[q][2] /\ IsProxy(k[3])'
    BY DEF Doomed
  <2>2. /\ x \in InUse(pool)
        /\ \A s \in Task : Flight(s) # x
        /\ \A k \in DOMAIN clients : clients[k].net_id = x => k[1] = work[q][2] /\ IsProxy(k[3])
    BY <1>1, <2>1 DEF Doomed
  <2>3. \A s \in Task : Flight(s)' # x
    BY <1>3, <2>2
  <2> QED
    BY <1>4, <2>2, <2>3 DEF IsProxy
<1> QED
  BY <1>5, <1>6, <1>13, <1>14 DEF LeaseStep

(* allocate_net_id is Take.                                                *)
LEMMA AllocateLeases ==
    ASSUME CtlInv, LeaseInv, NEW r \in Reqs, NEW i \in 1 .. MaxEdges, EdgeAllocate(r, i)
    PROVE  LeaseStep
<1>1. Called /\ pool \in Pools
  BY DEF CtlInv
<1>2. /\ i \in DOMAIN req[r].edges /\ req[r].edges[i].pc = "allocate"
      /\ UNCHANGED <<clients, work>>
  BY DEF EdgeAllocate, EdgeAt, serviceVars
<1>3. ~Installing(<<r, i>>)
  BY <1>2 DEF Installing
<1>4. CASE EdgeGoto(r, i, "drop") /\ UNCHANGED pool
  <2>1. PICK d : d.pc = "drop" /\ d.net = req[r].edges[i].net /\ BecomesTask(r, i, d)
    BY <1>1, <1>2, <1>4, TaskGoes
  <2>2. FlightsKept
    BY <1>3, <2>1, TaskKept
  <2> QED
    BY <1>2, <1>4, <2>2, NothingNewStays, QuietStep
<1>5. ASSUME NEW id \in NetIds, IsNextId(pool, id), pool' = Allocate(pool, id),
             NEW pc \in {"sending", "unsent"},
             req' = [req EXCEPT ![r].edges[i].net = id, ![r].edges[i].pc = pc]
      PROVE  LeaseStep
  <2>1. req' = [req EXCEPT ![r].edges[i].pc = pc, ![r].edges[i].net = id]
    BY <1>5
  <2>2. PICK d : d.pc = pc /\ d.net = id /\ BecomesTask(r, i, d)
    BY <1>1, <1>2, <2>1, TaskTakes
  <2>3. PICK t \in Task : t = <<r, i>>
    BY <2>2 DEF BecomesTask
  <2>4. Flight(t)' = id
    BY <1>5, <2>2, <2>3 DEF BecomesTask
  <2>5. \A s \in Task \ {t} : (Installing(s)' <=> Installing(s)) /\ Flight(s)' = Flight(s)
    BY <2>2, <2>3 DEF BecomesTask
  <2> QED
    BY <1>2, <1>3, <1>5, <2>3, <2>4, <2>5, TakeStep
<1>6. \/ EdgeGoto(r, i, "drop") /\ UNCHANGED pool
      \/ \E id \in NetIds, pc \in {"sending", "unsent"} :
            /\ IsNextId(pool, id) /\ pool' = Allocate(pool, id)
            /\ req' = [req EXCEPT ![r].edges[i].net = id, ![r].edges[i].pc = pc]
  BY DEF EdgeAllocate
<1> QED
  BY <1>4, <1>5, <1>6

(* The acknowledgement changes nothing of the leases.                      *)
LEMMA AckedLeases ==
    ASSUME CtlInv, LeaseInv, NEW r \in Reqs, NEW i \in 1 .. MaxEdges, EdgeAcked(r, i)
    PROVE  LeaseStep
<1>1. Called
  BY DEF CtlInv
<1>2. /\ i \in DOMAIN req[r].edges /\ req[r].edges[i].pc = "sending"
      /\ UNCHANGED <<clients, pool, work>> /\ EdgeGoto(r, i, "commit")
  BY DEF EdgeAcked, EdgeAt, changeVars
<1>3. Installing(<<r, i>>)
  BY <1>2 DEF Installing
<1>4. PICK d : d.pc = "commit" /\ d.net = req[r].edges[i].net /\ BecomesTask(r, i, d)
  BY <1>1, <1>2, TaskGoes
<1>5. FlightsKept
  BY <1>3, <1>4, TaskKept
<1> QED
  BY <1>2, <1>5, NothingNewStays, QuietStep

(* A set-up that failed, or was overtaken by the end of its service. *)
LEMMA GiveBackLeases ==
    ASSUME CtlInv, LeaseInv, NEW r \in Reqs, NEW i \in 1 .. MaxEdges,
           EdgeRollback(r, i) \/ EdgeAbort(r, i)
    PROVE  LeaseStep
<1>1. Called /\ pool \in Pools
  BY DEF CtlInv
<1>2. /\ i \in DOMAIN req[r].edges /\ req[r].edges[i].pc \in {"sending", "unsent", "abort"}
      /\ UNCHANGED <<clients, work>> /\ pool' = FreeAll(pool, {req[r].edges[i].net})
  BY DEF EdgeRollback, EdgeAbort, EdgeAt, serviceVars
<1>3. PICK pc \in {"drop", "failed"} :
          req' = [req EXCEPT ![r].edges[i].pc = pc, ![r].edges[i].net = 0]
  BY DEF EdgeRollback, EdgeAbort
<1>4. PICK d : d.pc = pc /\ d.net = 0 /\ BecomesTask(r, i, d)
  BY <1>1, <1>2, <1>3, TaskTakes
<1>5. PICK t \in Task : t = <<r, i>>
  BY <1>4 DEF BecomesTask
<1>6. Installing(t) /\ Flight(t) = req[r].edges[i].net
  BY <1>2, <1>5 DEF Installing, Flight
<1>7. Flight(t) # 0
  BY <1>1, <1>6, NoZero DEF LeaseInv, Lent
<1>8. ~Installing(t)' /\ Flight(t)' = 0
  BY <1>3, <1>4, <1>5 DEF BecomesTask
<1>9. \A s \in Task \ {t} : (Installing(s)' <=> Installing(s)) /\ Flight(s)' = Flight(s)
  BY <1>4, <1>5 DEF BecomesTask
<1>10. pool' = FreeAll(pool, {Flight(t)})
  BY <1>2, <1>6
<1>11. Leases!GiveBack(t)
  BY <1>2, <1>7, <1>8, <1>9, <1>10, StepGivesBack
<1>12. Shrinks(clients, clients')
  BY <1>2 DEF Shrinks
<1>13. PICK ids : ids = {Flight(t)}
  OBVIOUS
<1>14. ids \subseteq {Flight(t)} /\ pool' = FreeAll(pool, ids)
  BY <1>10, <1>13
<1>15. Owned' /\ Lent' /\ Doomed'
  BY <1>1, <1>2, <1>7, <1>8, <1>9, <1>12, <1>14, GiveUp
<1> QED
  BY <1>11, <1>15 DEF LeaseStep, Leases!Next

(* The placeholder of a failed task names no network.                      *)
LEMMA DropLeases ==
    ASSUME CtlInv, LeaseInv, NEW r \in Reqs, NEW i \in 1 .. MaxEdges, EdgeDrop(r, i)
    PROVE  LeaseStep
<1>1. Called /\ pool \in Pools
  BY DEF CtlInv
<1>2. /\ i \in DOMAIN req[r].edges /\ req[r].edges[i].pc = "drop"
      /\ UNCHANGED <<pool, work>> /\ EdgeGoto(r, i, "failed")
  BY DEF EdgeDrop, EdgeAt
<1>3. ~Installing(<<r, i>>)
  BY <1>2 DEF Installing
<1>4. PICK d : d.pc = "failed" /\ d.net = req[r].edges[i].net /\ BecomesTask(r, i, d)
  BY <1>1, <1>2, TaskGoes
<1>5. FlightsKept
  BY <1>3, <1>4, TaskKept
<1>6. (\E keys : clients' = Without(clients, keys)) \/ clients' = clients
  BY DEF EdgeDrop, RemoveClient
<1>7. Shrinks(clients, clients')
  <2>1. CASE clients' = clients
    BY <2>1 DEF Shrinks
  <2> QED
    BY <1>6, <2>1, ShrinksWithout
<1> QED
  BY <1>1, <1>2, <1>5, <1>7, NothingNewStays, DropStep

(* The identifier of an aborted task is nobody's. *)
LEMMA AbortedLeases ==
    ASSUME CtlInv, LeaseInv, NEW r \in Reqs, NEW i \in 1 .. MaxEdges, EdgeAborted(r, i)
    PROVE  LeaseStep
<1>1. Called /\ pool \in Pools
  BY DEF CtlInv
<1>2. i \in DOMAIN req[r].edges /\ UNCHANGED <<clients, pool, work>>
  BY DEF EdgeAborted, changeVars, serviceVars
<1>3. req[r] \in Requests /\ req[r].edges[i] \in EdgeTasks
  BY <1>1, <1>2, EdgeAtTyped DEF Called
<1>4. PICK e : e = [req[r].edges[i] EXCEPT !.pc = "aborted", !.net = 0]
  OBVIOUS
<1>5. e.pc = "aborted"
  BY <1>3, <1>4 DEF EdgeTasks
<1>6. PICK pc : req' = [req EXCEPT ![r] = [req[r] EXCEPT !.edges = [req[r].edges EXCEPT ![i] = e],
                                                        !.pc = pc]]
  <2>1. PICK edges : edges = [req[r].edges EXCEPT ![i].pc = "aborted", ![i].net = 0]
    OBVIOUS
  <2>2. edges = [req[r].edges EXCEPT ![i] = e]
    BY <1>4, <2>1
  <2>3. PICK pc : req' = [req EXCEPT ![r].edges = edges, ![r].pc = pc]
    BY <2>1 DEF EdgeAborted
  <2>4. req' = [req EXCEPT ![r] = [req[r] EXCEPT !.edges = edges, !.pc = pc]]
    BY <2>3
  <2> QED
    BY <2>2, <2>4
<1>7. BecomesTask(r, i, e)
  <2>1. r \in Reqs /\ i \in 1 .. MaxEdges
    OBVIOUS
  <2> QED
    BY ONLY <1>1, <1>2, <1>6, <2>1, FlightMoves DEF BecomesTask
<1>8. PICK t \in Task : t = <<r, i>>
  BY <1>7 DEF BecomesTask
<1>9. ~Installing(t)' /\ Flight(t)' = 0
  BY <1>5, <1>7, <1>8 DEF BecomesTask
<1>10. \A s \in Task \ {t} : (Installing(s)' <=> Installing(s)) /\ Flight(s)' = Flight(s)
  BY <1>7, <1>8 DEF BecomesTask
<1>11. CASE Installing(t)
  <2>1. Flight(t) # 0
    BY <1>1, <1>11, NoZero DEF LeaseInv, Lent
  <2>2. Leases!Abandon(t)
    <3>1. LeasesOf(clients') = LeasesOf(clients)
      BY <1>2
    <3> QED
      BY <1>2, <1>9, <1>10, <2>1, <3>1, StepAbandons
  <2>3. PICK ids : ids = {}
    OBVIOUS
  <2>4. ids \subseteq {Flight(t)} /\ pool' = FreeAll(pool, ids) /\ Shrinks(clients, clients')
    BY <1>1, <1>2, <2>3, FreeNothing DEF Shrinks
  <2>5. Owned' /\ Lent' /\ Doomed'
    BY <1>1, <1>2, <1>9, <1>10, <2>1, <2>4, GiveUp
  <2> QED
    BY <2>2, <2>5 DEF LeaseStep, Leases!Next
<1>12. CASE ~Installing(t)
  <2>1. FlightsKept
    BY <1>9, <1>10, <1>12 DEF FlightsKept, Flight
  <2> QED
    BY <1>2, <2>1, NothingNewStays, QuietStep
<1> QED
  BY <1>11, <1>12
------------------------------------------------------------------------------
(* The entry that an edge task writes has the identifier it took. *)
LEMMA SettleStep ==
    ASSUME CtlInv, LeaseInv, NEW t \in Task, Installing(t), ~Installing(t)',
           \A s \in Task \ {t} : (Installing(s)' <=> Installing(s)) /\ Flight(s)' = Flight(s),
           UNCHANGED pool, work' = <<>>,
           NEW key \in AllKeys, DOMAIN clients' = DOMAIN clients \cup {key},
           clients'[key].net_id = Flight(t),
           \A k \in DOMAIN clients \ {key} : clients'[k].net_id = clients[k].net_id
    PROVE  LeaseStep
<1>1. Owned /\ Lent /\ pool \in Pools /\ DOMAIN clients \subseteq AllKeys
  BY DEF LeaseInv, CtlInv, Placed
<1>2. PICK f : f = Flight(t)
  OBVIOUS
<1>3. f \in InUse(pool) /\ f # 0
  BY <1>1, <1>2, NoZero DEF Lent
<1>4. Flight(t)' = 0
  BY DEF Flight
<1>5. Leases!Next
  <2>1. /\ DOMAIN clients \subseteq DOMAIN clients' /\ DOMAIN clients' \subseteq AllKeys
        /\ key \in DOMAIN clients'
        /\ \A k \in DOMAIN clients' \ {key} : k \in DOMAIN clients
              /\ clients'[k].net_id = clients[k].net_id
    BY <1>1
  <2>2. \A s \in Task \ {t} : Flight(s)' = Flight(s)
    OBVIOUS
  <2>3. Leases!Settle(t)
    BY <1>2, <1>3, <1>4, <2>1, <2>2, StepSettles
  <2> QED
    BY <2>3 DEF Leases!Next
<1>6. InUse(pool)' = InUse(pool) /\ WellFormed(pool)'
  BY <1>1 DEF InUse, WellFormed, Owned
<1>7. \A k \in DOMAIN clients : clients[k].net_id # f
  BY <1>1, <1>2, <1>3 DEF Lent
<1>8. Owned'
  <2>1. ASSUME NEW k \in DOMAIN clients', Established(k)'
        PROVE  clients'[k].net_id \in InUse(pool)'
    <3>1. CASE k = key
      BY <1>2, <1>3, <1>6, <3>1
    <3>2. CASE k # key
      BY <1>1, <1>6, <2>1, <3>2 DEF Owned, Established
    <3> QED
      BY <3>1, <3>2
  <2>2. ASSUME NEW j \in DOMAIN clients', NEW k \in DOMAIN clients', Established(k)',
               clients'[j].net_id = clients'[k].net_id
        PROVE  j = k \/ OneWire(j, k)
    <3>1. CASE j # key /\ k # key
      BY <1>1, <2>2, <3>1 DEF Owned, Established
    <3>2. CASE j = key \/ k = key
      BY <1>2, <1>7, <2>2, <3>2
    <3> QED
      BY <3>1, <3>2
  <2> QED
    BY <1>6, <2>1, <2>2 DEF Owned, OneWire, IsProxy, Endpoint
<1>9. Lent'
  <2>1. ASSUME NEW s \in Task, Installing(s)'
        PROVE  Flight(s)' \in InUse(pool)'
    BY <1>1, <1>6, <2>1 DEF Lent
  <2>2. ASSUME NEW s \in Task, NEW u \in Task, Flight(s)' # 0, Flight(s)' = Flight(u)'
        PROVE  s = u
    BY <1>1, <1>4, <2>2 DEF Lent
  <2>3. ASSUME NEW s \in Task, NEW k \in DOMAIN clients', Flight(s)' # 0
        PROVE  Flight(s)' # clients'[k].net_id
    <3>1. s # t /\ Flight(s) = Flight(s)' /\ Flight(s) # 0
      BY <1>4, <2>3
    <3>2. CASE k = key
      BY <1>1, <1>2, <1>3, <3>1, <3>2 DEF Lent
    <3>3. CASE k # key
      BY <1>1, <3>1, <3>3 DEF Lent
    <3> QED
      BY <3>2, <3>3
  <2> QED
    BY <2>1, <2>2, <2>3 DEF Lent
<1>10. Doomed'
  BY PlainEmpty DEF Plain, Doomed
<1> QED
  BY <1>5, <1>8, <1>9, <1>10 DEF LeaseStep

(* A task that has written its entry.                                      *)
LEMMA TaskDone ==
    ASSUME Called, NEW r \in Reqs, NEW i \in 1 .. MaxEdges, i \in DOMAIN req[r].edges,
           NEW net,
           req' = [req EXCEPT ![r].edges[i].pc = "ok", ![r].edges[i].net = net]
    PROVE  \E d : d.pc = "ok" /\ d.net = net /\ BecomesTask(r, i, d)
<1>1. req[r] \in Requests /\ req[r].edges[i] \in EdgeTasks
  BY EdgeAtTyped DEF Called
<1>2. PICK e : e = [req[r].edges[i] EXCEPT !.pc = "ok", !.net = net]
  OBVIOUS
<1>3. e.pc = "ok" /\ e.net = net
  BY <1>1, <1>2 DEF EdgeTasks
<1>4. PICK q, p : q = [req[r] EXCEPT !.edges = [req[r].edges EXCEPT ![i] = e]] /\ p = req[r].pc
  OBVIOUS
<1>5. req' = [req EXCEPT ![r] = q]
  BY <1>2, <1>4
<1>6. q = [req[r] EXCEPT !.edges = [req[r].edges EXCEPT ![i] = e], !.pc = p]
  BY <1>1, <1>4 DEF Requests
<1>7. req' = [req EXCEPT ![r] = [req[r] EXCEPT !.edges = [req[r].edges EXCEPT ![i] = e], !.pc = p]]
  BY <1>5, <1>6
<1>8. BecomesTask(r, i, e)
  <2>1. Called /\ r \in Reqs /\ i \in 1 .. MaxEdges /\ i \in DOMAIN req[r].edges
    OBVIOUS
  <2> QED
    BY ONLY <2>1, <1>7, FlightMoves DEF BecomesTask
<1> QED
  BY <1>3, <1>8

(* The entry is written with the network: Settle, or Abandon if its        *)
(* replica is gone.                                                        *)
LEMMA CommitLeases ==
    ASSUME CtlInv, LeaseInv, NEW r \in Reqs, NEW i \in 1 .. MaxEdges, EdgeCommit(r, i)
    PROVE  LeaseStep
<1>1. Placed /\ Listed /\ IsConfig(config) /\ Called /\ pool \in Pools
  BY DEF CtlInv
<1>2. PICK e : e = req[r].edges[i]
  OBVIOUS
<1>3. /\ i \in DOMAIN req[r].edges /\ e.pc = "commit" /\ UNCHANGED <<pool, work>>
      /\ work = <<>>
  BY <1>2 DEF EdgeCommit, EdgeAt, LockFree
<1>4. req[r] \in Requests /\ e \in EdgeTasks
  BY <1>1, <1>2, <1>3, EdgeAtTyped DEF Called
<1>5. Installing(<<r, i>>) /\ Flight(<<r, i>>) = e.net
  BY <1>2, <1>3 DEF Installing, Flight
<1>6. CASE EdgeGoto(r, i, "abort") /\ UNCHANGED clients
  <2>1. PICK d : d.pc = "abort" /\ d.net = req[r].edges[i].net /\ BecomesTask(r, i, d)
    BY <1>1, <1>3, <1>6, TaskGoes
  <2>2. FlightsKept
    BY <1>5, <2>1, TaskKept
  <2> QED
    BY <1>3, <1>6, <2>2, NothingNewStays, QuietStep
<1>7. PICK n, rid, c, info, D :
        /\ n = e.server /\ rid = e.rid /\ c = e.client /\ D = DOMAIN clients
        /\ info = [net_id |-> e.net, active_chains |-> 0]
  OBVIOUS
<1>8. PICK mid, new : /\ mid = AddClientToReplica(n, rid, c, info, clients)
                      /\ new = AddChain(n, c, mid)
  OBVIOUS
<1>9. CASE /\ IsRegistered(n)
           /\ clients' = new
           /\ \E net : req' = [req EXCEPT ![r].edges[i].pc = "ok", ![r].edges[i].net = net]
  <2>1. PICK net : req' = [req EXCEPT ![r].edges[i].pc = "ok", ![r].edges[i].net = net]
    BY <1>9
  <2>2. PICK d : d.pc = "ok" /\ d.net = net /\ BecomesTask(r, i, d)
    BY <1>1, <1>3, <2>1, TaskDone
  <2>3. PICK t \in Task : t = <<r, i>>
    BY <2>2 DEF BecomesTask
  <2>4. Installing(t) /\ Flight(t) = e.net /\ ~Installing(t)'
    BY <1>5, <2>2, <2>3 DEF BecomesTask
  <2>5. \A s \in Task \ {t} : (Installing(s)' <=> Installing(s)) /\ Flight(s)' = Flight(s)
    BY <2>2, <2>3 DEF BecomesTask
  <2>6. Flight(t) # 0
    BY <1>1, <2>4, NoZero DEF LeaseInv, Lent
  <2>7. info \in Entries /\ info.net_id = e.net /\ clients \in [D -> Entries]
    BY <1>1, <1>4, <1>7 DEF Entries, EdgeTasks, Placed
  <2>8. /\ mid \in [DOMAIN mid -> Entries]
        /\ DOMAIN mid = D \cup (IF rid \in ReplicaSet(n) THEN {<<n, rid, c>>} ELSE {})
        /\ \A k \in DOMAIN mid :
              mid[k] = IF rid \in ReplicaSet(n) /\ k = <<n, rid, c>> THEN info ELSE clients[k]
    BY <1>8, <2>7 DEF AddClientToReplica
  <2>9. PICK E, m : E = DOMAIN mid /\ m = Len(replicas[n])
    OBVIOUS
  <2>10. mid \in [E -> Entries] /\ m \in Nat /\ DOMAIN replicas[n] = 1 .. m
    BY <1>1, <1>9, <2>8, <2>9, RegisteredHasReplicas
  <2>11. new \in [E -> Entries] /\ \A k \in E : new[k].net_id = mid[k].net_id
    BY <1>8, <2>10, AddChainKeeps
  <2>12. CASE rid \in ReplicaSet(n)
    <3>1. PICK key : key = <<n, rid, c>>
      OBVIOUS
    <3>2. key \in AllKeys
      BY <1>4, <1>7, <3>1 DEF AllKeys, EdgeTasks
    <3>3. DOMAIN new = DOMAIN clients \cup {key}
      BY <1>7, <2>8, <2>9, <2>11, <2>12, <3>1
    <3>4. new[key].net_id = Flight(t)
      BY <2>4, <2>7, <2>8, <2>9, <2>11, <2>12, <3>1
    <3>5. \A k \in DOMAIN clients \ {key} : new[k].net_id = clients[k].net_id
      BY <1>7, <2>8, <2>9, <2>11, <2>12, <3>1
    <3>6. /\ DOMAIN clients' = DOMAIN clients \cup {key}
          /\ clients'[key].net_id = Flight(t)
          /\ \A k \in DOMAIN clients \ {key} : clients'[k].net_id = clients[k].net_id
      BY <1>9, <3>3, <3>4, <3>5
    <3> QED
      BY <1>3, <2>4, <2>5, <3>2, <3>6, SettleStep
  <2>13. CASE rid \notin ReplicaSet(n)
    <3>1. E = D /\ \A k \in D : new[k].net_id = clients[k].net_id
      BY <2>8, <2>9, <2>11, <2>13
    <3>2. Shrinks(clients, new) /\ Shrinks(new, clients)
      BY <2>7, <2>11, <3>1, ChainCounted
    <3>3. LeasesOf(clients') = LeasesOf(clients)
      BY <1>9, <3>2, LeasesSame
    <3>4. \A s \in Task \ {t} : Flight(s)' = Flight(s)
      BY <2>5
    <3>5. Flight(t)' = 0
      BY <2>4 DEF Flight
    <3>6. Leases!Abandon(t)
      BY <1>3, <2>6, <3>3, <3>4, <3>5, StepAbandons
    <3>7. PICK ids : ids = {}
      OBVIOUS
    <3>8. ids \subseteq {Flight(t)} /\ pool' = FreeAll(pool, ids) /\ Shrinks(clients, clients')
      BY <1>1, <1>3, <1>9, <3>2, <3>7, FreeNothing
    <3>9. Owned' /\ Lent' /\ Doomed'
      BY <1>1, <1>3, <2>4, <2>5, <2>6, <3>8, GiveUp
    <3> QED
      BY <3>6, <3>9 DEF LeaseStep, Leases!Next
  <2> QED
    BY <2>12, <2>13
<1>10. \/ EdgeGoto(r, i, "abort") /\ UNCHANGED clients
       \/ /\ IsRegistered(n)
          /\ clients' = new
          /\ \E net : req' = [req EXCEPT ![r].edges[i].pc = "ok", ![r].edges[i].net = net]
  <2>1. PICK net : net = IF IsProxy(req[r].edges[i].client) THEN req[r].edges[i].net ELSE 0
    OBVIOUS
  <2>2. ASSUME IsRegistered(n),
               req' = [req EXCEPT ![r].edges[i].pc = "ok",
                                   ![r].edges[i].net = IF IsProxy(e.client) THEN @ ELSE 0]
        PROVE  req' = [req EXCEPT ![r].edges[i].pc = "ok", ![r].edges[i].net = net]
    BY <1>2, <1>3, <1>4, <2>1, <2>2 DEF Requests, EdgeTasks
  <2> QED
    BY <1>2, <1>7, <1>8, <2>2 DEF EdgeCommit
<1> QED
  BY <1>6, <1>9, <1>10

(* The steps of an edge task.                                              *)
LEMMA EdgeLeases ==
    ASSUME CtlInv, LeaseInv, NEW r \in Reqs, NEW i \in 1 .. MaxEdges, EdgeStep(r, i)
    PROVE  LeaseStep
  BY ReserveLeases, AllocateLeases, AckedLeases, GiveBackLeases, DropLeases, CommitLeases,
     AbortedLeases DEF EdgeStep

(* Every step is a step of NetLeases or changes nothing of the leases, and *)
(* keeps Owned, Lent and Doomed.                                           *)
LEMMA NextLeases ==
    ASSUME CtlInv, LeaseInv, Undone, \A r \in Reqs : Found(r), [Next]_vars
    PROVE  LeaseStep
<1>1. CASE UNCHANGED vars
  <2>1. UNCHANGED <<clients, pool, req, work>>
    BY <1>1 DEF vars
  <2> QED
    BY <2>1, KeptQuiet, NothingNewStays, QuietStep
<1>2. CASE Next
  BY <1>2, RequestLeases, EdgeLeases, EventLeases, LockHolderLeases DEF Next
<1> QED
  BY <1>1, <1>2
------------------------------------------------------------------------------
(* Which entries have a network of their own. *)

(* Entries are dropped, or one is written with a network nobody has.       *)
NewAlone ==
    \/ Keeps(clients, clients')
    \/ \E key, x : /\ Enters(clients, clients', key, x)
                   /\ x = 0 \/ \A j \in DOMAIN clients : clients[j].net_id # x

(* Then nobody comes to share a network.                                   *)
LEMMA StaysUnshared ==
    ASSUME NewAlone, NEW k \in DOMAIN clients', k \in DOMAIN clients => Unshared(k)
    PROVE  Unshared(k)'
<1>1. CASE Keeps(clients, clients')
  BY <1>1 DEF Keeps, Unshared, Established
<1>2. CASE \E key, x : /\ Enters(clients, clients', key, x)
                       /\ x = 0 \/ \A j \in DOMAIN clients : clients[j].net_id # x
  <2>1. PICK key, x : /\ Enters(clients, clients', key, x)
                      /\ x = 0 \/ \A j \in DOMAIN clients : clients[j].net_id # x
    BY <1>2
  <2>2. \A j \in DOMAIN clients' : clients'[j].net_id = IF j = key THEN x ELSE clients[j].net_id
    BY <2>1 DEF Enters
  <2>3. \A j \in DOMAIN clients' : j # key => j \in DOMAIN clients
    BY <2>1 DEF Enters
  <2>4. SUFFICES ASSUME clients'[k].net_id # 0, NEW j \in DOMAIN clients',
                        clients'[j].net_id = clients'[k].net_id
                 PROVE  j = k
    BY DEF Unshared, Established
  <2>5. CASE k = key \/ j = key
    BY <2>1, <2>2, <2>3, <2>4, <2>5
  <2>6. CASE k # key /\ j # key
    BY <2>2, <2>3, <2>4, <2>6 DEF Unshared, Established
  <2> QED
    BY <2>5, <2>6
<1> QED
  BY <1>1, <1>2 DEF NewAlone

(* An edge task puts a placeholder or the network it has taken into its    *)
(* slot, and nobody else has that.                                         *)
LEMMA TasksAlone ==
    ASSUME CtlInv, LeaseInv, NEW r \in Reqs, NEW i \in 1 .. MaxEdges, EdgeStep(r, i)
    PROVE  NewAlone
<1>1. CASE EdgeReserve(r, i)
  BY <1>1, ReserveEnters DEF ReserveLeads, NewAlone
<1>2. CASE EdgeDrop(r, i)
  BY <1>2, DropRemoves DEF NewAlone
<1>3. CASE EdgeCommit(r, i)
  <2>1. /\ i \in DOMAIN req[r].edges /\ req[r].edges[i].pc = "commit"
        /\ UNCHANGED clients \/ Enters(clients, clients', Slot(r, i), req[r].edges[i].net)
    BY <1>3, CommitEnters DEF CommitLeads
  <2>2. PICK t \in Task : t = <<r, i>>
    BY DEF Task
  <2>3. Flight(t) = req[r].edges[i].net /\ Installing(t)
    BY <2>1, <2>2 DEF Flight, Installing
  <2>4. \A j \in DOMAIN clients : Flight(t) # 0 => clients[j].net_id # Flight(t)
    BY DEF LeaseInv, Lent
  <2> QED
    BY <2>1, <2>3, <2>4, KeepsSame DEF NewAlone
<1>4. CASE \/ EdgeAllocate(r, i) \/ EdgeAcked(r, i) \/ EdgeRollback(r, i)
           \/ EdgeAbort(r, i) \/ EdgeAborted(r, i)
  BY <1>4, RequestsLeaveEntries, KeepsSame DEF NewAlone
<1> QED
  BY <1>1, <1>2, <1>3, <1>4 DEF EdgeStep

(* Only a request that has found a network to join writes that of another. *)
LEMMA EntriesAlone ==
    ASSUME CtlInv, LeaseInv, [Next]_vars, \A r \in Reqs : ~ProxyReuse(r)
    PROVE  NewAlone
<1>1. CASE \E r \in Reqs : Start(r) \/ RequestStep(r)
  BY <1>1, RequestLeads, KeepsSame DEF NewAlone
<1>2. CASE \E r \in Reqs : CallerGone(r)
  BY <1>2, RequestsLeaveEntries, KeepsSame DEF NewAlone
<1>3. CASE \E r \in Reqs : \E i \in 1 .. MaxEdges : EdgeStep(r, i)
  BY <1>3, TasksAlone
<1>4. CASE \/ LockHolderStep \/ Event \/ UNCHANGED vars
           \/ \E host \in Flapping : NodeDisconnect(host)
  BY <1>4, OthersKeep DEF NewAlone
<1> QED
  BY <1>1, <1>2, <1>3, <1>4 DEF Next
------------------------------------------------------------------------------
(* Without limits no request ever joins the network of another. *)

(* A file without limits sets none.                                        *)
LEMMA NextUnlimited ==
    ASSUME NoLimits, CtlInv, Unlimited(config), [Next]_vars
    PROVE  Unlimited(config)'
<1>1. Unlimited(config) /\ Stacked
  BY DEF CtlInv
<1>2. CASE UpdateFromFile
  <2>1. work # <<>> /\ work[1][1] = "update_from_file"
    BY <1>2 DEF UpdateFromFile, Due
  <2>2. PICK cfg : cfg = work[1][2]
    OBVIOUS
  <2>3. cfg \in Configs
    BY <1>1, <2>1, <2>2, HeadCalled DEF WellCalled
  <2>4. Unlimited(cfg)
    BY <2>3 DEF NoLimits
  <2>5. config' = [n \in DOMAIN cfg \cup DOMAIN config |->
                     IF n \in DOMAIN cfg THEN cfg[n] ELSE config[n]]
    BY <1>2, <2>2 DEF UpdateFromFile
  <2> QED
    BY <1>1, <2>4, <2>5 DEF Unlimited
<1>3. CASE RemoveService
  BY <1>1, <1>3 DEF RemoveService, Unlimited, Without, Restrict
<1>4. CASE UNCHANGED config
  BY <1>1, <1>4 DEF Unlimited
<1> QED
  BY <1>2, <1>3, <1>4, LeavesConfig

(* Without limits ProxyLookup never goes to reuse.                         *)
LEMMA NextUnshared ==
    ASSUME NoLimits, CtlInv, LeaseInv, NothingShared, [Next]_vars
    PROVE  NothingShared'
<1>1. Called /\ Unlimited(config) /\ \A r \in Reqs : req[r].pc # "reuse"
  BY DEF NothingShared, CtlInv
<1>2. ASSUME NEW r \in Reqs, NEW q, q.pc # "reuse", req' = [req EXCEPT ![r] = q]
      PROVE  \A s \in Reqs : req'[s].pc # "reuse"
  BY <1>1, <1>2 DEF Called
<1>3. UNCHANGED req => \A s \in Reqs : req'[s].pc # "reuse"
  BY <1>1
<1>4. ASSUME NEW r \in Reqs, NEW resp, Answer(r, resp)
      PROVE  \A s \in Reqs : req'[s].pc # "reuse"
  <2>1. PICK q : q = [Idle EXCEPT !.pc = "done", !.resp = resp]
    OBVIOUS
  <2>2. q.pc # "reuse"
    BY <2>1 DEF Idle
  <2>3. req' = [req EXCEPT ![r] = q]
    BY <1>4, <2>1 DEF Answer
  <2> QED
    BY <1>2, <2>2, <2>3
<1>5. ASSUME NEW r \in Reqs, NEW pc, pc # "reuse", NEW rid, NEW net,
             \/ req' = [req EXCEPT ![r].pc = pc]
             \/ req' = [req EXCEPT ![r].pc = pc, ![r].rid = rid]
             \/ req' = [req EXCEPT ![r].pc = pc, ![r].net = net]
      PROVE  \A s \in Reqs : req'[s].pc # "reuse"
  <2>1. req[r] \in Requests
    BY <1>1 DEF Called
  <2>2. PICK a, b, c : /\ a = [req[r] EXCEPT !.pc = pc]
                       /\ b = [req[r] EXCEPT !.pc = pc, !.rid = rid]
                       /\ c = [req[r] EXCEPT !.pc = pc, !.net = net]
    OBVIOUS
  <2>3. a.pc = pc /\ b.pc = pc /\ c.pc = pc
    BY <2>1, <2>2 DEF Requests
  <2>4. PICK q \in {a, b, c} : req' = [req EXCEPT ![r] = q]
    BY <1>5, <2>2
  <2> QED
    BY <1>2, <1>5, <2>3, <2>4
<1>6. ASSUME NEW r \in Reqs, NEW chain, Spawn(r, chain)
      PROVE  \A s \in Reqs : req'[s].pc # "reuse"
  <2>1. req[r] \in Requests
    BY <1>1 DEF Called
  <2>2. PICK edges : edges = [i \in DOMAIN chain |->
                           [client |-> chain[i].client, server |-> chain[i].server,
                            rid |-> chain[i].rid, pc |-> "reserve", net |-> 0]]
    OBVIOUS
  <2>3. PICK q : q = [req[r] EXCEPT !.pc = "join", !.edges = edges]
    OBVIOUS
  <2>4. q.pc = "join"
    BY <2>1, <2>3 DEF Requests
  <2>5. req' = [req EXCEPT ![r] = q]
    BY <1>6, <2>2, <2>3 DEF Spawn
  <2> QED
    BY <1>2, <2>4, <2>5
<1>7. ASSUME NEW r \in Reqs, Start(r)
      PROVE  \A s \in Reqs : req'[s].pc # "reuse"
  <2>1. PICK pc : pc = IF CallOf[r][1] = "proxy" THEN "lookup" ELSE "trigger"
    OBVIOUS
  <2>2. PICK q : q = [Idle EXCEPT !.pc = pc]
    OBVIOUS
  <2>3. q.pc = pc /\ pc # "reuse"
    BY <2>1, <2>2 DEF Idle
  <2>4. req' = [req EXCEPT ![r] = q]
    BY <1>7, <2>1, <2>2 DEF Start
  <2> QED
    BY <1>2, <2>3, <2>4
<1>8. ASSUME NEW r \in Reqs, RequestStep(r)
      PROVE  \A s \in Reqs : req'[s].pc # "reuse"
  <2>1. CASE ProxyLookup(r)
    <3>1. IsRegistered(ServiceOf(r)) => ~AtLimit(ServiceOf(r))
      BY <1>1 DEF IsRegistered, AtLimit, Unlimited
    <3>2. \/ Answer(r, <<"err">>)
          \/ \E net : req' = [req EXCEPT ![r].pc = "sticky", ![r].net = net]
          \/ Goto(r, "pick")
      BY <2>1, <3>1 DEF ProxyLookup
    <3>3. CASE Answer(r, <<"err">>)
      BY <1>4, <3>3
    <3>4. ASSUME NEW net, req' = [req EXCEPT ![r].pc = "sticky", ![r].net = net]
          PROVE  \A s \in Reqs : req'[s].pc # "reuse"
      BY <1>5, <3>4
    <3>5. CASE Goto(r, "pick")
      BY <1>5, <3>5 DEF Goto
    <3> QED
      BY <3>2, <3>3, <3>4, <3>5
  <2>2. CASE NewProxyChain(r)
    <3>1. \/ Answer(r, <<"err">>)
          \/ \E rid : req' = [req EXCEPT ![r].pc = "build", ![r].rid = rid]
      BY <2>2 DEF NewProxyChain
    <3> QED
      BY <1>4, <1>5, <3>1
  <2>3. CASE BackendTrigger(r)
    <3>1. \/ Answer(r, <<"err">>) \/ Answer(r, <<"ok", 0>>)
          \/ \E rid : req' = [req EXCEPT ![r].pc = "build_backend", ![r].rid = rid]
      BY <2>3 DEF BackendTrigger
    <3> QED
      BY <1>4, <1>5, <3>1
  <2>4. CASE ProxySticky(r) \/ Join(r)
    <3>1. \E resp : Answer(r, resp)
      BY <2>4 DEF ProxySticky, Join
    <3> QED
      BY <1>4, <3>1
  <2>5. CASE SetupProxyChain(r) \/ SetupBackendChain(r)
    <3>1. (\E resp : Answer(r, resp)) \/ \E chain : Spawn(r, chain)
      BY <2>5 DEF SetupProxyChain, SetupBackendChain
    <3> QED
      BY <1>4, <1>6, <3>1
  <2>6. ~ProxyReuse(r)
    BY <1>1 DEF ProxyReuse
  <2> QED
    BY <1>8, <2>1, <2>2, <2>3, <2>4, <2>5, <2>6 DEF RequestStep
<1>9. ASSUME NEW r \in Reqs, CallerGone(r)
      PROVE  \A s \in Reqs : req'[s].pc # "reuse"
  <2>1. req[r] \in Requests
    BY <1>1 DEF Called
  <2>2. PICK pc : pc = IF AllEnded(req[r].edges) THEN "done" ELSE "gone"
    OBVIOUS
  <2>3. PICK q : q = [req[r] EXCEPT !.resp = <<"gone">>, !.pc = pc]
    OBVIOUS
  <2>4. q.pc # "reuse"
    BY <2>1, <2>2, <2>3 DEF Requests
  <2>5. req' = [req EXCEPT ![r] = q]
    BY <1>9, <2>2, <2>3 DEF CallerGone
  <2> QED
    BY <1>2, <2>4, <2>5
<1>10. ASSUME NEW r \in Reqs, NEW i \in 1 .. MaxEdges, EdgeStep(r, i)
       PROVE  \A s \in Reqs : req'[s].pc # "reuse"
  <2>1. req[r] \in Requests
    BY <1>1 DEF Called
  <2>2. \/ \E edges : req' = [req EXCEPT ![r].edges = edges]
        \/ \E q : q.pc # "reuse" /\ req' = [req EXCEPT ![r] = q]
    <3>1. CASE EdgeAborted(r, i)
      <4>1. PICK edges : edges = [req[r].edges EXCEPT ![i].pc = "aborted", ![i].net = 0]
        OBVIOUS
      <4>2. PICK pc : pc = IF AllEnded(edges) THEN "done" ELSE "gone"
        OBVIOUS
      <4>3. req' = [req EXCEPT ![r].edges = edges, ![r].pc = pc]
        BY <3>1, <4>1, <4>2 DEF EdgeAborted
      <4>4. PICK q : q = [req[r] EXCEPT !.edges = edges, !.pc = pc]
        OBVIOUS
      <4>5. q.pc # "reuse"
        BY <2>1, <4>2, <4>4 DEF Requests
      <4>6. req' = [req EXCEPT ![r] = q]
        BY <4>3, <4>4
      <4> QED
        BY <4>5, <4>6
    <3>2. ASSUME NEW pc, EdgeGoto(r, i, pc)
          PROVE  \E edges : req' = [req EXCEPT ![r].edges = edges]
      <4>1. req' = [req EXCEPT ![r].edges = [req[r].edges EXCEPT ![i].pc = pc]]
        BY <3>2 DEF EdgeGoto
      <4> QED
        BY <4>1
    <3>3. ASSUME NEW pc, NEW net,
                 \/ req' = [req EXCEPT ![r].edges[i].pc = pc, ![r].edges[i].net = net]
                 \/ req' = [req EXCEPT ![r].edges[i].net = net, ![r].edges[i].pc = pc]
          PROVE  \E edges : req' = [req EXCEPT ![r].edges = edges]
      <4>1. \/ req' = [req EXCEPT ![r].edges = [req[r].edges EXCEPT ![i].pc = pc, ![i].net = net]]
            \/ req' = [req EXCEPT ![r].edges = [req[r].edges EXCEPT ![i].net = net, ![i].pc = pc]]
        BY <3>3
      <4> QED
        BY <4>1
    <3>4. CASE EdgeReserve(r, i) \/ EdgeAcked(r, i) \/ EdgeDrop(r, i)
      BY <3>2, <3>4 DEF EdgeReserve, EdgeAcked, EdgeDrop
    <3>5. CASE EdgeRollback(r, i) \/ EdgeAbort(r, i)
      BY <3>3, <3>5 DEF EdgeRollback, EdgeAbort
    <3>6. CASE EdgeAllocate(r, i)
      BY <3>2, <3>3, <3>6 DEF EdgeAllocate
    <3>7. CASE EdgeCommit(r, i)
      <4>1. \/ EdgeGoto(r, i, "abort")
            \/ req' = [req EXCEPT ![r].edges[i].pc = "ok",
                            ![r].edges[i].net = IF IsProxy(req[r].edges[i].client) THEN @ ELSE 0]
        BY <3>7 DEF EdgeCommit
      <4>2. req[r].edges[i] \in EdgeTasks
        BY <1>1, <3>7, EdgeAtTyped DEF EdgeCommit, EdgeAt
      <4>3. PICK net : net = IF IsProxy(req[r].edges[i].client) THEN req[r].edges[i].net ELSE 0
        OBVIOUS
      <4>4. CASE req' = [req EXCEPT ![r].edges[i].pc = "ok",
                            ![r].edges[i].net = IF IsProxy(req[r].edges[i].client) THEN @ ELSE 0]
        <5>1. req' = [req EXCEPT ![r].edges[i].pc = "ok", ![r].edges[i].net = net]
          BY <2>1, <4>2, <4>3, <4>4 DEF Requests, EdgeTasks
        <5> QED
          BY <3>3, <5>1
      <4> QED
        BY <3>2, <4>1, <4>4
    <3> QED
      BY <1>10, <3>1, <3>4, <3>5, <3>6, <3>7 DEF EdgeStep
  <2>3. ASSUME NEW edges, req' = [req EXCEPT ![r].edges = edges]
        PROVE  \A s \in Reqs : req'[s].pc # "reuse"
    <3>1. PICK q : q = [req[r] EXCEPT !.edges = edges]
      OBVIOUS
    <3>2. q.pc # "reuse"
      BY <1>1, <2>1, <3>1 DEF Requests
    <3>3. req' = [req EXCEPT ![r] = q]
      BY <2>3, <3>1
    <3> QED
      BY <1>2, <3>2, <3>3
  <2> QED
    BY <1>2, <2>2, <2>3
<1>11. ASSUME LockHolderStep \/ Event \/ \E host \in Flapping : NodeDisconnect(host)
       PROVE  \A s \in Reqs : req'[s].pc # "reuse"
  BY <1>3, <1>11, EventsLeave DEF LockHolderStep
<1>12. ASSUME UNCHANGED vars
       PROVE  \A s \in Reqs : req'[s].pc # "reuse"
  BY <1>3, <1>12 DEF vars
<1>13. \A s \in Reqs : req'[s].pc # "reuse"
  BY <1>7, <1>8, <1>9, <1>10, <1>11, <1>12 DEF Next
<1>14. \A k \in DOMAIN clients' : Unshared(k)'
  <2>1. \A r \in Reqs : ~ProxyReuse(r)
    BY <1>1 DEF ProxyReuse
  <2> QED
    BY <2>1, EntriesAlone, StaysUnshared DEF NothingShared
<1>15. Unlimited(config)'
  BY NextUnlimited DEF NothingShared
<1> QED
  BY <1>13, <1>14, <1>15 DEF NothingShared
------------------------------------------------------------------------------
(* While one operation runs at a time a request that has set up a network  *)
(* is alone with it until it ends. *)

(* The request that gives up gives up the chains of its own edges.         *)
LEMMA JoinUndoes ==
    ASSUME CtlInv, NEW r \in Reqs, Fresh(r), Join(r), work' # work,
           NEW p \in DOMAIN work', Undoes(work'[p])
    PROVE  /\ work'[p][2] = ServiceOf(r) /\ work'[p][3] = ClientOf(r)
           /\ \E i \in DOMAIN req[r].edges :
                 IsProxy(req[r].edges[i].client) /\ req[r].edges[i].pc = "ok"
<1>1. Called /\ req[r].pc = "join"
  BY DEF CtlInv, Join
<1>2. PICK edges, won : /\ edges = req[r].edges
                        /\ won = Among(edges, {e \in Range(edges) : e.pc = "ok"})
  OBVIOUS
<1>3. work' = Decrements([i \in DOMAIN won |-> <<won[i].client, won[i].server>>])
  BY <1>2 DEF Join
<1>4. won \in Seq(EdgeTasks) /\ ToSet(won) \subseteq {e \in Range(edges) : e.pc = "ok"}
  <2>1. edges \in Seq(EdgeTasks)
    BY <1>1, <1>2 DEF Called, Requests
  <2> QED
    BY <1>2, <2>1, AmongKeeps
<1>5. PICK d : d = [i \in DOMAIN won |->
                       <<"decrement_chain", <<won[i].client, won[i].server>>[2],
                         <<won[i].client, won[i].server>>[1]>>]
  OBVIOUS
<1>6. work' = d
  BY <1>3, <1>5 DEF Decrements
<1>7. p \in DOMAIN won /\ work'[p][2] = won[p].server /\ work'[p][3] = won[p].client
  BY <1>5, <1>6
<1>8. PICK i \in DOMAIN edges : won[p] = edges[i] /\ edges[i].pc = "ok"
  <2>1. won[p] \in ToSet(won)
    BY <1>7 DEF ToSet
  <2> QED
    BY <1>4, <2>1 DEF Range
<1>9. IsProxy(req[r].edges[i].client)
  BY <1>2, <1>7, <1>8 DEF Undoes
<1>10. req[r].edges[i].server = ServiceOf(r) /\ req[r].edges[i].client = ClientOf(r)
  BY <1>1, <1>2, <1>8, <1>9 DEF Fresh, OneProxyEdge
<1> QED
  BY <1>2, <1>7, <1>8, <1>9, <1>10

(* Joining a network gives none up.                                        *)
LEMMA ReuseUndoes ==
    ASSUME CtlInv, NEW r \in Reqs, ProxyReuse(r)
    PROVE  \A p \in DOMAIN work' : ~Undoes(work'[p])
<1>1. PICK x : x = <<"endless_walk">>
  OBVIOUS
<1>2. work' = <<>> \/ work' = <<x>>
  BY <1>1 DEF ProxyReuse, LockFree
<1>3. DOMAIN <<>> = {} /\ DOMAIN <<x>> = 1 .. 1 /\ <<x>>[1] = x
  BY One
<1>4. x[1] = "endless_walk"
  BY <1>1
<1> QED
  BY <1>2, <1>3, <1>4 DEF Undoes

(* A chain of a proxy client that is still to be given up keeps its        *)
(* network to itself.                                                      *)
LEMMA NextUndone ==
    ASSUME CtlInv, LeaseInv, OwnNetworks, \A r \in Reqs : Fresh(r), [Next]_vars
    PROVE  Undone'
<1>1. CASE \E r \in Reqs : ProxyReuse(r)
  BY <1>1, ReuseUndoes DEF Undone, Undoes
<1>2. CASE NewAlone /\ NothingUndone
  <2>1. ASSUME NEW q \in DOMAIN work', Undoes(work'[q]), NEW k \in DOMAIN clients',
               k[1] = work'[q][2], k[3] = work'[q][3]
        PROVE  Unshared(k)'
    <3>1. PICK p \in DOMAIN work : work[p] = work'[q]
      BY <1>2, <2>1 DEF NothingUndone
    <3>2. k \in DOMAIN clients => Unshared(k)
      BY <2>1, <3>1 DEF OwnNetworks, Undone
    <3> QED
      BY <1>2, <3>2, StaysUnshared
  <2> QED
    BY <2>1 DEF Undone, Undoes
<1>3. CASE NewAlone /\ \E r \in Reqs : Join(r) /\ work' # work
  <2>1. PICK r \in Reqs : Join(r) /\ work' # work
    BY <1>3
  <2>2. req[r].pc = "join"
    BY <2>1 DEF Join
  <2>3. ASSUME NEW q \in DOMAIN work', Undoes(work'[q]), NEW k \in DOMAIN clients',
               k[1] = work'[q][2], k[3] = work'[q][3]
        PROVE  Unshared(k)'
    <3>1. /\ work'[q][2] = ServiceOf(r) /\ work'[q][3] = ClientOf(r)
          /\ \E i \in DOMAIN req[r].edges :
                IsProxy(req[r].edges[i].client) /\ req[r].edges[i].pc = "ok"
      BY <2>1, <2>3, JoinUndoes
    <3>2. k \in DOMAIN clients => k \in Mine(r)
      BY <2>3, <3>1 DEF Mine
    <3>3. k \in DOMAIN clients => Unshared(k)
      BY <2>2, <3>1, <3>2 DEF OwnNetworks, SetUp
    <3> QED
      BY <1>3, <3>3, StaysUnshared
  <2> QED
    BY <2>3 DEF Undone, Undoes
<1>4. (\A r \in Reqs : ~ProxyReuse(r)) => NewAlone
  BY EntriesAlone
<1>5. CASE UNCHANGED work
  BY <1>1, <1>2, <1>4, <1>5, NothingNewStays
<1>6. CASE LockHolderStep \/ Event \/ \E host \in Flapping : NodeDisconnect(host)
  BY <1>1, <1>2, <1>4, <1>6, CallsUndo, EventsMild DEF LockHolderStep
<1>7. CASE \E r \in Reqs : Start(r) \/ CallerGone(r) \/ \E i \in 1 .. MaxEdges : EdgeStep(r, i)
  <2>1. PICK r \in Reqs : Start(r) \/ CallerGone(r) \/ \E i \in 1 .. MaxEdges : EdgeStep(r, i)
    BY <1>7
  <2>2. Start(r) \/ CallerGone(r) => UNCHANGED work
    BY DEF Start, CallerGone, changeVars
  <2>3. ASSUME NEW i \in 1 .. MaxEdges, EdgeStep(r, i) PROVE UNCHANGED work
    BY <2>3 DEF EdgeStep, EdgeReserve, EdgeAllocate, EdgeAcked, EdgeRollback, EdgeDrop, EdgeCommit,
       EdgeAbort, EdgeAborted, changeVars
  <2> QED
    BY <1>5, <2>1, <2>2, <2>3
<1>8. CASE \E r \in Reqs : RequestStep(r)
  BY <1>1, <1>3, <1>4, <1>5, <1>8 DEF RequestStep, ProxyLookup, ProxySticky, NewProxyChain,
     SetupProxyChain, BackendTrigger, SetupBackendChain, changeVars
<1>9. UNCHANGED vars => UNCHANGED work
  BY DEF vars
<1> QED
  BY <1>5, <1>6, <1>7, <1>8, <1>9 DEF Next

(* A task that succeeds finds its client with no other entry than its own  *)
(* placeholder, and puts a network there that nobody has.                  *)
LEMMA EdgeSetUp ==
    ASSUME CtlInv, LeaseInv, NEW r \in Reqs, Fresh(r), SetUp(r), NEW i \in 1 .. MaxEdges,
           EdgeStep(r, i)
    PROVE  SetUp(r)'
<1>1. NewAlone
  BY TasksAlone
<1>2. /\ i \in DOMAIN req[r].edges
      /\ \/ req[r].pc = "join" /\ req'[r].pc = "join"
         \/ req[r].pc = "gone" /\ req'[r].pc \in {"gone", "done"}
  BY EdgeStepMoves
<1>3. PICK pc, net : TaskMoves(r, i, pc, net)
  BY EdgeStepMoves
<1>4. ASSUME req[r].pc = "join", NEW j \in DOMAIN req'[r].edges,
             IsProxy(req'[r].edges[j].client), req'[r].edges[j].pc = "ok",
             NEW k \in DOMAIN clients', k[1] = ServiceOf(r), k[3] = ClientOf(r)
      PROVE  Unshared(k)'
  <2>1. j \in DOMAIN req[r].edges /\ IsProxy(req[r].edges[j].client)
    BY <1>3, <1>4 DEF TaskMoves
  <2>2. k \in DOMAIN clients => k \in Mine(r)
    BY <1>4 DEF Mine
  <2>3. CASE req[r].edges[j].pc = "ok"
    <3>1. k \in DOMAIN clients => Unshared(k)
      BY <1>4, <2>1, <2>2, <2>3 DEF SetUp
    <3> QED
      BY <1>1, <3>1, StaysUnshared
  <2>4. CASE req[r].edges[j].pc # "ok"
    <3>1. j = i
      BY <1>3, <1>4, <2>1, <2>4 DEF TaskMoves
    <3>2. pc = "ok"
      BY <1>3, <1>4, <3>1 DEF TaskMoves
    <3>3. req[r].edges[i].pc \in {"reserve", "commit"}
      <4>1. CASE EdgeReserve(r, i)
        BY <4>1, ReserveEnters
      <4>2. CASE EdgeCommit(r, i)
        BY <4>2, CommitEnters
      <4>3. CASE EdgeDrop(r, i)
        BY <1>4, <3>1, <4>3, DropRemoves DEF TaskBecomes, TaskMoves
      <4>4. CASE EdgeAllocate(r, i)
        <5>1. Called
          BY DEF CtlInv
        <5> QED
          BY <1>4, <3>1, <4>4, <5>1, AllocateBecomes DEF TaskBecomes, TaskMoves
      <4>5. CASE EdgeAcked(r, i) \/ EdgeRollback(r, i) \/ EdgeAbort(r, i)
        <5>1. Called
          BY DEF CtlInv
        <5> QED
          BY <1>4, <3>1, <4>5, <5>1, AckedBecomes, RollbackBecomes, AbortBecomes
             DEF TaskBecomes, TaskMoves
      <4>6. ~EdgeAborted(r, i)
        BY <1>4 DEF EdgeAborted
      <4> QED
        BY <4>1, <4>2, <4>3, <4>4, <4>5, <4>6 DEF EdgeStep
    <3>4. k \in DOMAIN clients => ~Established(k)
      BY <1>4, <2>1, <2>2, <3>1, <3>3 DEF Fresh
    <3>5. k \in DOMAIN clients => Unshared(k)
      BY <3>4 DEF Unshared
    <3> QED
      BY <1>1, <3>5, StaysUnshared
  <2> QED
    BY <2>3, <2>4
<1> QED
  BY <1>2, <1>4 DEF SetUp, Mine, ServiceOf, ClientOf

(* No step gives a request that has set up its network a fellow.           *)
LEMMA NextSetUp ==
    ASSUME CtlInv, ProxyInv, ~Overlap, Serial, LeaseInv, \A r \in Reqs : SetUp(r), [Next]_vars
    PROVE  \A r \in Reqs : SetUp(r)'
<1>1. Called /\ \A r \in Reqs : Fresh(r)
  BY DEF CtlInv, ProxyInv
<1>2. ASSUME NEW r \in Reqs, NEW s \in Reqs, s # r,
             Start(r) \/ RequestStep(r) \/ CallerGone(r) \/ \E i \in 1 .. MaxEdges : EdgeStep(r, i)
      PROVE  SetUp(s)'
  BY <1>2, OthersFinished DEF Finished, SetUp
<1>3. ASSUME NEW r \in Reqs, Start(r) \/ RequestStep(r)
      PROVE  SetUp(r)'
  <2>1. CASE \E pc \in Pcs : Leads(r, pc)
    <3>1. req'[r].edges = <<>>
      BY <2>1 DEF Leads
    <3>2. DOMAIN <<>> = {}
      OBVIOUS
    <3> QED
      BY <3>1, <3>2 DEF SetUp
  <2>2. CASE Spawns(r)
    <3>1. \A i \in DOMAIN req'[r].edges : req'[r].edges[i].pc = "reserve"
      BY <2>2 DEF Spawns, NewTask
    <3> QED
      BY <3>1 DEF SetUp
  <2>3. {"done", "sticky", "reuse", "stuck", "pick"} \subseteq Pcs
    BY DEF Pcs
  <2> QED
    BY <1>3, <2>1, <2>2, <2>3, RequestLeads DEF LookupLeads, ReuseLeads
<1>4. ASSUME NEW r \in Reqs, CallerGone(r)
      PROVE  SetUp(r)'
  BY <1>1, <1>4, CallerGoneLeads DEF SetUp
<1>5. ASSUME NEW r \in Reqs, NEW i \in 1 .. MaxEdges, EdgeStep(r, i)
      PROVE  SetUp(r)'
  BY <1>1, <1>5, EdgeSetUp
<1>6. ASSUME \/ LockHolderStep \/ Event \/ UNCHANGED vars
             \/ \E host \in Flapping : NodeDisconnect(host),
             NEW r \in Reqs
      PROVE  SetUp(r)'
  <2>1. UNCHANGED req /\ NewAlone
    BY <1>6, OthersKeep DEF NewAlone
  <2>2. ASSUME req[r].pc = "join", NEW j \in DOMAIN req[r].edges,
               IsProxy(req[r].edges[j].client), req[r].edges[j].pc = "ok",
               NEW k \in DOMAIN clients', k[1] = ServiceOf(r), k[3] = ClientOf(r)
        PROVE  Unshared(k)'
    <3>1. k \in DOMAIN clients => Unshared(k)
      BY <2>2 DEF SetUp, Mine
    <3> QED
      BY <2>1, <3>1, StaysUnshared
  <2> QED
    BY <2>1, <2>2 DEF SetUp, Mine, ServiceOf, ClientOf
<1> QED
  BY <1>2, <1>3, <1>4, <1>5, <1>6 DEF Next
------------------------------------------------------------------------------
(* The theorems. *)

(* The boot state has no network.                                          *)
LEMMA InitLeases ==
    ASSUME Init
    PROVE  LeaseInv /\ OwnNetworks /\ Leases!Init
<1>2. DOMAIN clients = {} /\ DOMAIN work = {}
  <2>1. DOMAIN <<>> = {}
    OBVIOUS
  <2> QED
    BY <2>1 DEF Init
<1>3. \A t \in Task : ~Installing(t)
  BY DEF Init, Idle, Task, Installing
<1>4. OwnNetworks
  BY <1>2 DEF Init, Idle, OwnNetworks, Undone, SetUp
<1>5. WellFormed(pool)
  BY DEF Init, NewPool, WellFormed
<1>6. Owned /\ Lent /\ Doomed
  BY <1>2, <1>3, <1>5 DEF Owned, Lent, Doomed, Flight
<1>7. LeasesOf(clients) = {}
  BY <1>2 DEF LeasesOf
<1>8. [t \in Task |-> IF Installing(t) THEN req[t[1]].edges[t[2]].net ELSE 0] = [t \in Task |-> 0]
  BY <1>3
<1>9. pool = Leases!NewPool
  BY DEF Init, NewPool, Leases!NewPool
<1> QED
  BY <1>4, <1>6, <1>7, <1>8, <1>9 DEF LeaseInv, Leases!Init

(* What keeps the networks of the proxy clients apart: that there is no    *)
(* limit ...                                                               *)
Unlimiting == NoLimits /\ CtlInv /\ LeaseInv /\ NothingShared

(* ... or that one operation runs at a time.                               *)
Serialised == ~Overlap /\ CtlInv /\ ProxyInv /\ SerialInv /\ LeaseInv /\ OwnNetworks

(* Both begin with the boot state.                                         *)
LEMMA InitShared ==
    ASSUME Init
    PROVE  (NoLimits => Unlimiting) /\ (~Overlap => Serialised) /\ Leases!Init
<1>1. DOMAIN clients = {}
  BY DEF Init
<1>2. NoLimits => NothingShared
  BY <1>1 DEF NoLimits, Init, NothingShared, Idle
<1> QED
  BY <1>2, InitCtl, InitProxies, InitFound, InitLeases DEF Unlimiting, Serialised

(* Without limits every step is one of NetLeases or a stutter.             *)
LEMMA NextUnlimiting ==
    ASSUME Unlimiting, [Next]_vars
    PROVE  Unlimiting' /\ [Leases!Next]_(Leases!vars)
<1>1. Undone /\ \A r \in Reqs : Found(r)
  BY DEF Unlimiting, NothingShared, Undone, Found
<1>2. NoLimits'
  BY DEF Unlimiting, NoLimits, Unlimited
<1> QED
  BY <1>1, <1>2, NextCtl, NextLeases, NextUnshared DEF Unlimiting, LeaseStep, LeaseInv

(* So it is when one operation runs at a time.                             *)
LEMMA NextSerialised ==
    ASSUME Serialised, [Next]_vars
    PROVE  Serialised' /\ [Leases!Next]_(Leases!vars)
<1>1. /\ CtlInv /\ ProxyInv /\ SerialInv /\ Serial /\ LeaseInv /\ OwnNetworks /\ ~Overlap
      /\ \A r \in Reqs : Found(r) /\ Fresh(r) /\ SetUp(r)
  BY DEF Serialised, SerialInv, ProxyInv, OwnNetworks
<1>2. SoleCaller
  BY <1>1, SerialSole
<1>3. CtlInv' /\ ProxyInv' /\ SerialInv'
  BY <1>1, <1>2, NextCtl, NextProxies, NextFound
<1>4. LeaseStep
  BY <1>1, NextLeases DEF OwnNetworks
<1>5. OwnNetworks'
  BY <1>1, NextUndone, NextSetUp DEF OwnNetworks
<1> QED
  BY <1>1, <1>3, <1>4, <1>5 DEF Serialised, LeaseStep, LeaseInv

(* Whatever requests, tasks, teardowns and disconnects interleave while no *)
(* file sets max_networks, and with limits when one operation runs at a    *)
(* time: every network that the map or an edge task refers to is out of    *)
(* the pool, two entries that refer to one are two clients of one proxy on *)
(* one replica, and what a teardown has chosen to free is used by nobody   *)
(* else.                                                                   *)
THEOREM LeasesKept == (NoLimits \/ ~Overlap) /\ Spec => []LeaseInv
<1>1. Init => (NoLimits => Unlimiting) /\ (~Overlap => Serialised)
  BY InitShared
<1>2. Unlimiting /\ [Next]_vars => Unlimiting'
  BY NextUnlimiting
<1>3. Serialised /\ [Next]_vars => Serialised'
  BY NextSerialised
<1>4. (Unlimiting => LeaseInv) /\ (Serialised => LeaseInv)
  BY DEF Unlimiting, Serialised
<1>5. Unlimiting /\ [][Next]_vars => []LeaseInv
  BY <1>2, <1>4, PTL
<1>6. Serialised /\ [][Next]_vars => []LeaseInv
  BY <1>3, <1>4, PTL
<1> QED
  BY <1>1, <1>5, <1>6, PTL DEF Spec

(* While no file sets max_networks every entry has a network of its own,   *)
(* however requests and teardowns interleave.                              *)
THEOREM NetworksUnshared == NoLimits /\ Spec => []NothingShared
<1>1. Init => (NoLimits => Unlimiting)
  BY InitShared
<1>2. Unlimiting /\ [Next]_vars => Unlimiting'
  BY NextUnlimiting
<1>3. Unlimiting => NothingShared
  BY DEF Unlimiting
<1>4. Unlimiting /\ [][Next]_vars => []NothingShared
  BY <1>2, <1>3, PTL
<1> QED
  BY <1>1, <1>4, PTL DEF Spec

(* ControllerLeases!ImplementsLeases, for files without limits, and for    *)
(* all files when one operation runs at a time: the controller implements  *)
(* NetLeases, so that LeasesSafe holds of it: no identifier ever names two *)
(* networks.                                                               *)
THEOREM ControllerLeasing == (NoLimits \/ ~Overlap) /\ Spec => ImplementsLeases
<1>1. Init => Leases!Init /\ (NoLimits => Unlimiting) /\ (~Overlap => Serialised)
  BY InitShared
<1>2. Unlimiting /\ [Next]_vars => Unlimiting' /\ [Leases!Next]_(Leases!vars)
  BY NextUnlimiting
<1>3. Serialised /\ [Next]_vars => Serialised' /\ [Leases!Next]_(Leases!vars)
  BY NextSerialised
<1>4. Unlimiting /\ [][Next]_vars => [][Leases!Next]_(Leases!vars)
  BY <1>2, PTL
<1>5. Serialised /\ [][Next]_vars => [][Leases!Next]_(Leases!vars)
  BY <1>3, PTL
<1> QED
  BY <1>1, <1>4, <1>5, PTL DEF Spec, ImplementsLeases, Leases!Spec
==============================================================================
