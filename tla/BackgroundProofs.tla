--------------------------- MODULE BackgroundProofs ---------------------------
(***************************************************************************)
(* No proxy client outlives its timeout (src/timeout.rs), for every        *)
(* sequence of files, every set of users and all periods of the watcher;   *)
(* and the loop that sees to it does not spin, unless TIMEOUT is 0.        *)
(*                                                                         *)
(* NeverOverdue is not inductive: what makes it true is how long the loop  *)
(* may still sleep, and what it left when it last ran.  WakesInTime and    *)
(* Swept say so, and ExpiryInv is the conjunction.                         *)
(***************************************************************************)
EXTENDS Background, TLAPS, WellFoundedInduction

(* The minimum of a set of naturals is in it and below the others. *)
LEMMA MinOf ==
    ASSUME NEW S, S \subseteq Nat, S # {}
    PROVE  Min(S) \in S /\ \A y \in S : Min(S) <= y
  <1>1. \E x \in S : \A y \in S : ~(<<y, x>> \in OpToRel(<, Nat))
    BY NatLessThanWellFounded, WFMin, Zenon
  <1>2. PICK x \in S : \A y \in S : ~(<<y, x>> \in OpToRel(<, Nat))
    BY <1>1
  <1>3. \A y \in S : ~(y < x)
    BY <1>2 DEF OpToRel
  <1>4. \A y \in S : x <= y
    BY <1>3, SMT
  <1> QED
    BY <1>4, Zenon DEF Min

(* The greatest of some positions of a sequence is one of them. *)
LEMMA LastIn ==
    ASSUME NEW m \in Nat, NEW I, I \subseteq 1 .. m, I # {}
    PROVE  Max(I) \in I
  <1> DEFINE S == {m - i : i \in I}
  <1>1. S \subseteq Nat
    <2> SUFFICES ASSUME NEW i \in I PROVE m - i \in Nat
      OBVIOUS
    <2>1. i \in 1 .. m
      OBVIOUS
    <2> QED
      BY <2>1, SMT
  <1>2. S # {}
    OBVIOUS
  <1>3. Min(S) \in S /\ \A y \in S : Min(S) <= y
    BY <1>1, <1>2, MinOf, Zenon
  <1>4. PICK i \in I : Min(S) = m - i
    BY <1>3
  <1>5. \A j \in I : i >= j
    <2> SUFFICES ASSUME NEW j \in I PROVE i >= j
      OBVIOUS
    <2>1. m - j \in S
      OBVIOUS
    <2>2. m - i <= m - j
      BY <2>1, <1>3, <1>4, Zenon
    <2>3. i \in Nat /\ j \in Nat
      BY SMT
    <2> QED
      BY <2>2, <2>3, SMT
  <1> QED
    BY <1>5, Zenon DEF Max

(* services_map gives every service a timeout, or none. *)
LEMMA Timeouts ==
    ASSUME NEW f \in Files \ {Broken}, NEW n \in DOMAIN ServicesMap(f)
    PROVE  ServicesMap(f)[n].timeout \in Nat \cup {None}
  <1>1. f \in Seq(ToSet(f)) /\ \A i \in DOMAIN f : f[i].timeout \in Nat \cup {None}
    BY BackgroundConstants
  <1> DEFINE I == {i \in 1 .. Len(f) : f[i].name = n}
             d == IF I # {} THEN Max(I) ELSE 0
             l == SelectLastInSeq(f, LAMBDA s : n \in ToSet(s.proxy_dependencies))
  <1>2. Len(f) \in Nat /\ DOMAIN f = 1 .. Len(f)
    BY <1>1, SMT
  <1>3. d = 0 \/ d \in DOMAIN f
    <2>1. CASE I = {}
      BY <2>1
    <2>2. CASE I # {}
      <3>1. Max(I) \in I
        BY <2>2, <1>2, LastIn, Zenon
      <3> QED
        BY <3>1, <1>2, <2>2
    <2> QED
      BY <2>1, <2>2
  <1>4. ServicesMap(f)[n] = IF d # 0 THEN Declared(f[d])
            ELSE IF l # 0 THEN Implicit(TailAfter(f[l].proxy_dependencies, n))
            ELSE Implicit(<<>>)
    BY Zenon DEF ServicesMap, SelectLastInSeq
  <1>5. d # 0 => Declared(f[d]).timeout \in Nat \cup {None}
    BY <1>1, <1>3, TimeoutLoopConstants DEF Declared
  <1> QED
    BY <1>4, <1>5 DEF Implicit

(* What the timeouts of a configuration are. *)
TimeoutsTyped(cfg) == \A n \in DOMAIN cfg : cfg[n].timeout \in Nat \cup {None}

(* What TypeOK leaves out and the steps need. *)
Shapes ==
    /\ TimeoutsTyped(config)
    /\ DOMAIN watch = {"pc", "left", "loaded"}
    /\ watch.pc = "update" => TimeoutsTyped(watch.loaded)

(* About to plan its sleep, the loop has just removed what had expired. *)
Swept == loop.pc = "plan" => \A k \in TimedClients : age[k] < config[k[1]].timeout

(* The sleep ends before any client can be overdue, also one that comes    *)
(* later; or the configuration has changed and the loop is to wake up.     *)
WakesInTime ==
    loop.pc = "sleep" /\ ~notified =>
        /\ \A n \in Timed : loop.left <= config[n].timeout
        /\ \A k \in TimedClients : age[k] + loop.left <= config[k[1]].timeout

(* The inductive invariant. *)
ExpiryInv == TypeOK /\ Shapes /\ NeverOverdue /\ Swept /\ WakesInTime

(* The case of two numbers, as in the bounds on ages and on since. *)
LEMMA MinOfTwo ==
    ASSUME NEW a \in Nat, NEW b \in Nat
    PROVE  Min({a, b}) \in Nat /\ Min({a, b}) <= a /\ Min({a, b}) <= b
  BY MinOf, Zenon

(* The loop has not run and there are no clients. *)
LEMMA InitInv == Init => ExpiryInv
  <1> SUFFICES ASSUME Init PROVE ExpiryInv
    OBVIOUS
  <1>1. TimeoutsTyped(config)
    BY Timeouts, BackgroundConstants, Zenon DEF Init, TimeoutsTyped
  <1>2. DOMAIN age = {}
    BY SMT DEF Init
  <1>3. TimedClients = {}
    BY <1>2, Zenon DEF TimedClients
  <1>4. age \in [DOMAIN age -> 0 .. MaxAge]
    <2>1. age \in Seq(0 .. MaxAge) /\ Len(age) = 0
      BY SMT DEF Init
    <2> QED
      BY <2>1, SMT
  <1>5. TypeOK
    <2>1. loop \in [pc : {"plan", "sleep", "apply"}, left : Nat]
      BY SMT DEF Init
    <2>2. events \in 0 .. MaxEvents /\ since \in 0 .. Debounce + 1 /\ file \in Files
      BY BackgroundConstants, SMT DEF Init
    <2>3. watch.pc = "recv" /\ watch.left \in 0 .. Settle
      BY BackgroundConstants, SMT DEF Init, Receiving
    <2>4. notified \in BOOLEAN
      BY DEF Init
    <2>5. asked = {}
      BY DEF Init
    <2> QED
      BY <1>2, <1>4, <2>1, <2>2, <2>3, <2>4, <2>5, Zenon DEF TypeOK
  <1>6. Shapes
    BY <1>1, SMT DEF Init, Shapes, Receiving
  <1> QED
    BY <1>3, <1>5, <1>6, SMT DEF Init, ExpiryInv, NeverOverdue, Swept, WakesInTime

(* The three parts about time are about these variables only. *)
LEMMA TimesKept ==
    ASSUME NeverOverdue, Swept, WakesInTime, UNCHANGED timeoutVars
    PROVE  (NeverOverdue /\ Swept /\ WakesInTime)'
  BY DEF timeoutVars, NeverOverdue, Swept, WakesInTime, TimedClients, Timed

(* Up to the update, the watcher changes nothing but its own state. *)
LEMMA WatcherKeeps ==
    ASSUME ExpiryInv, EditFile \/ ReceiveEvent \/ LoadFile
    PROVE  ExpiryInv'
  <1> USE DEF ExpiryInv
  <1>1. UNCHANGED timeoutVars
    BY DEF EditFile, ReceiveEvent, LoadFile
  <1>2. (NeverOverdue /\ Swept /\ WakesInTime)'
    BY <1>1, TimesKept
  <1>3. UNCHANGED <<config, age, asked, loop, notified>>
    BY <1>1 DEF timeoutVars
  <1>4. CASE EditFile
    <2>1. TypeOK'
      BY <1>3, <1>4, BackgroundConstants, SMT DEF TypeOK, EditFile
    <2>2. Shapes'
      BY <1>3, <1>4 DEF Shapes, EditFile, TimeoutsTyped
    <2> QED
      BY <1>2, <2>1, <2>2
  <1>5. CASE ReceiveEvent
    <2>1. watch' = watch \/ watch' = [watch EXCEPT !.pc = "settle", !.left = Settle]
      BY <1>5 DEF ReceiveEvent
    <2>2. TypeOK'
      BY <1>3, <1>5, <2>1, BackgroundConstants, SMT DEF TypeOK, ReceiveEvent, Shapes
    <2>3. Shapes'
      <3>1. CASE watch' = watch
        BY <1>3, <3>1 DEF Shapes, TimeoutsTyped
      <3>2. CASE watch' = [watch EXCEPT !.pc = "settle", !.left = Settle]
        <4>1. watch'.pc = "settle" /\ DOMAIN watch' = DOMAIN watch
          BY <3>2, SMT DEF Shapes
        <4> QED
          BY <1>3, <4>1, Zenon DEF Shapes, TimeoutsTyped
      <3> QED
        BY <2>1, <3>1, <3>2
    <2> QED
      BY <1>2, <2>2, <2>3
  <1>6. CASE LoadFile
    <2>1. CASE file = Broken
      <3>1. watch' = Receiving /\ since' = 0 /\ UNCHANGED <<file, events>>
        BY <1>6, <2>1 DEF LoadFile
      <3>2. TypeOK'
        BY <1>3, <3>1, BackgroundConstants, SMT DEF TypeOK, Receiving
      <3>3. Shapes'
        BY <1>3, <3>1, SMT DEF Shapes, TimeoutsTyped, Receiving
      <3> QED
        BY <1>2, <3>2, <3>3
    <2>2. CASE file # Broken
      <3>1. /\ watch' = [watch EXCEPT !.pc = "update", !.loaded = ServicesMap(file)]
            /\ UNCHANGED <<since, file, events>>
        BY <1>6, <2>2 DEF LoadFile
      <3>2. TypeOK'
        BY <1>3, <3>1, SMT DEF TypeOK, Shapes
      <3>3. TimeoutsTyped(ServicesMap(file))
        BY <2>2, Timeouts, Zenon DEF TimeoutsTyped, TypeOK
      <3>4. watch'.loaded = ServicesMap(file)
        BY <3>1 DEF Shapes
      <3>5. TimeoutsTyped(watch'.loaded)
        BY <3>3, <3>4, Zenon
      <3>6. DOMAIN watch' = {"pc", "left", "loaded"}
        BY <3>1 DEF Shapes
      <3>7. TimeoutsTyped(config')
        BY <1>3 DEF Shapes
      <3>8. Shapes'
        BY <3>5, <3>6, <3>7, Zenon DEF Shapes, TimeoutsTyped
      <3> QED
        BY <1>2, <3>2, <3>8
    <2> QED
      BY <2>1, <2>2
  <1> QED
    BY <1>4, <1>5, <1>6

(* What a proxy request does to the entries: it writes one that is new, or *)
(* used again; or it removes one; or it leaves them alone.                 *)
LEMMA ProxyWrites ==
    ASSUME TypeOK, ProxyStep
    PROVE  /\ UNCHANGED <<config, loop, notified>>
           /\ \/ UNCHANGED age
              \/ \E r \in asked : /\ r.client \in DOMAIN age \/ r.client[1] \in DOMAIN config
                                  /\ age' = Used(r.client)
              \/ \E r \in asked : age' = WithoutClients({r.client})
  <1>1. CASE \E n \in DOMAIN config, u \in Users : AskFor(n, u)
    BY <1>1 DEF AskFor
  <1>2. CASE \E r \in asked : Refresh(r.client)
    BY <1>2 DEF Refresh
  <1>3. CASE \E r \in asked : JoinNetwork(r.client) \/ Reserve(r.client) \/ Commit(r.client)
    BY <1>3 DEF JoinNetwork, Reserve, Commit
  <1>4. CASE \E r \in asked : Leave(r)
    BY <1>4 DEF Leave
  <1> QED
    BY <1>1, <1>2, <1>3, <1>4 DEF ProxyStep

(* A request keeps the user it came with, and is in one of three places. *)
LEMMA AskedTyped ==
    ASSUME TypeOK, ProxyStep
    PROVE  \A r \in asked' : /\ DOMAIN r = {"client", "step"} /\ r.client[2] \in Users
                             /\ r.step \in {"refresh", "setup", "commit"}
  <1>1. CASE \E n \in DOMAIN config, u \in Users : AskFor(n, u)
    <2>1. PICK n \in DOMAIN config, u \in Users : AskFor(n, u)
      BY <1>1
    <2>2. PICK s \in {"refresh", "setup"} :
              asked' = asked \cup {[client |-> <<n, u>>, step |-> s]}
      BY <2>1 DEF AskFor
    <2> QED
      BY <2>2, SMT DEF TypeOK
  <1>2. CASE \E r \in asked : \/ Refresh(r.client) \/ JoinNetwork(r.client)
                              \/ Commit(r.client) \/ Leave(r)
    <2>1. asked' \subseteq asked
      BY <1>2 DEF Refresh, JoinNetwork, Commit, Leave
    <2> QED
      BY <2>1 DEF TypeOK
  <1>3. CASE \E r \in asked : Reserve(r.client)
    <2>1. PICK r \in asked : Reserve(r.client)
      BY <1>3
    <2>2. \A q \in asked' : q \in asked \/ q = [client |-> r.client, step |-> "commit"]
      BY <2>1 DEF Reserve
    <2> QED
      BY <2>2, SMT DEF TypeOK
  <1> QED
    BY <1>1, <1>2, <1>3 DEF ProxyStep

(* A client that comes, or is used again, has its whole timeout left, and  *)
(* the sleep is no longer than any timeout, whichever configuration the    *)
(* request was let in under.                                               *)
LEMMA ProxyKeeps ==
    ASSUME ExpiryInv, ProxyStep, UNCHANGED watchVars
    PROVE  ExpiryInv'
  <1> USE DEF ExpiryInv
  <1>1. UNCHANGED <<config, loop, notified, file, events, watch, since>>
    BY ProxyWrites DEF watchVars
  <1>2. /\ \A k \in DOMAIN age' :
               /\ k[1] \in DOMAIN config /\ k[2] \in Users
               /\ age'[k] = 0 \/ (k \in DOMAIN age /\ age'[k] = age[k])
        /\ age' = [k \in DOMAIN age' |-> age'[k]]
    <2>1. CASE UNCHANGED age
      BY <2>1 DEF TypeOK
    <2>2. CASE \E r \in asked : /\ r.client \in DOMAIN age \/ r.client[1] \in DOMAIN config
                                /\ age' = Used(r.client)
      <3>1. PICK r \in asked : /\ r.client \in DOMAIN age \/ r.client[1] \in DOMAIN config
                               /\ age' = Used(r.client)
        BY <2>2
      <3>2. r.client[1] \in DOMAIN config /\ r.client[2] \in Users
        BY <3>1 DEF TypeOK
      <3>3. /\ DOMAIN age' = DOMAIN age \cup {r.client}
            /\ \A k \in DOMAIN age' : age'[k] = IF k = r.client THEN 0 ELSE age[k]
            /\ age' = [k \in DOMAIN age' |-> age'[k]]
        BY <3>1 DEF Used
      <3> QED
        BY <3>2, <3>3 DEF TypeOK
    <2>3. CASE \E r \in asked : age' = WithoutClients({r.client})
      BY <2>3 DEF TypeOK, WithoutClients, Restrict
    <2> QED
      BY <2>1, <2>2, <2>3, ProxyWrites
  <1>3. \A k \in DOMAIN age' : age'[k] \in 0 .. MaxAge
    BY <1>2, TimeoutLoopConstants, SMT DEF TypeOK
  <1>4. age' \in [DOMAIN age' -> 0 .. MaxAge]
    BY <1>2, <1>3, Zenon
  <1>5. TypeOK'
    BY <1>1, <1>2, <1>4, AskedTyped, Zenon DEF TypeOK
  <1>6. Shapes'
    BY <1>1 DEF Shapes, TimeoutsTyped
  <1>7. Timed' = Timed /\ \A m \in Timed : config[m].timeout \in Nat \ {0}
    BY <1>1, SMT DEF Timed, Shapes, TimeoutsTyped
  <1>8. NeverOverdue'
    BY <1>1, <1>2, <1>3, <1>7, SMT DEF NeverOverdue, TimedClients
  <1>9. Swept'
    BY <1>1, <1>2, <1>7, SMT DEF Swept, TimedClients
  <1>10. WakesInTime'
    BY <1>1, <1>2, <1>7, SMT DEF WakesInTime, TimedClients, TypeOK
  <1> QED
    BY <1>5, <1>6, <1>8, <1>9, <1>10

(* nearest_timeout is within every timeout and before every expiry, and is *)
(* one of these or TIMEOUT.                                                *)
LEMMA NearestBound ==
    ASSUME ExpiryInv
    PROVE  /\ NearestTimeout \in Nat
           /\ \A n \in Timed : NearestTimeout <= config[n].timeout
           /\ \A k \in TimedClients : NearestTimeout <= UntilExpiry(k)
           /\ \/ NearestTimeout = DefaultTimeout
              \/ \E n \in Timed : NearestTimeout = config[n].timeout
              \/ \E k \in TimedClients : NearestTimeout = UntilExpiry(k)
  <1> DEFINE S == {DefaultTimeout} \cup {config[n].timeout : n \in Timed}
                     \cup {UntilExpiry(k) : k \in TimedClients}
  <1>1. \A n \in Timed : config[n].timeout \in Nat
    BY DEF ExpiryInv, Shapes, TimeoutsTyped, Timed
  <1>2. \A k \in TimedClients : UntilExpiry(k) \in Nat
    BY <1>1, SMT DEF ExpiryInv, TypeOK, TimedClients, UntilExpiry
  <1>3. S \subseteq Nat /\ S # {}
    BY <1>1, <1>2, TimeoutLoopConstants
  <1>4. Min(S) \in S /\ \A y \in S : Min(S) <= y
    BY <1>3, MinOf, Zenon
  <1>5. NearestTimeout = Min(S)
    BY DEF NearestTimeout
  <1>6. NearestTimeout \in S /\ \A y \in S : NearestTimeout <= y
    BY <1>4, <1>5, Zenon
  <1> QED
    BY <1>3, <1>6, Zenon

(* check_timeouts: the sleep it plans is short enough, and what it leaves  *)
(* is not due.                                                             *)
LEMMA LoopKeeps ==
    ASSUME ExpiryInv, LoopStep, UNCHANGED watchVars
    PROVE  ExpiryInv'
  <1> USE DEF ExpiryInv
  <1>1. UNCHANGED <<config, asked, file, events, watch, since>>
    BY DEF LoopStep, PlanSleep, SleepOver, WokenUp, ApplyTimeouts, watchVars
  <1>2. Shapes' /\ Timed' = Timed
    BY <1>1 DEF Shapes, TimeoutsTyped, Timed
  <1>3. CASE PlanSleep
    <2>1. UNCHANGED <<age, notified>> /\ loop' = [pc |-> "sleep", left |-> NearestTimeout]
      BY <1>3 DEF PlanSleep
    <2>2. TypeOK'
      BY <1>1, <2>1, NearestBound, SMT DEF TypeOK
    <2>3. NeverOverdue' /\ TimedClients' = TimedClients
      BY <1>1, <1>2, <2>1 DEF NeverOverdue, TimedClients
    <2>4. Swept'
      BY <2>1, SMT DEF Swept
    <2>5. \A k \in TimedClients : /\ age[k] \in Nat /\ config[k[1]].timeout \in Nat
                                 /\ age[k] < config[k[1]].timeout
      BY <1>3, SMT DEF PlanSleep, Swept, TypeOK, TimedClients, Timed, Shapes, TimeoutsTyped
    <2>6. \A k \in TimedClients : age[k] + NearestTimeout <= config[k[1]].timeout
      BY <2>5, NearestBound, SMT DEF UntilExpiry
    <2>7. WakesInTime'
      BY <1>1, <1>2, <2>1, <2>3, <2>6, NearestBound, SMT DEF WakesInTime
    <2> QED
      BY <1>2, <2>2, <2>3, <2>4, <2>7
  <1>4. CASE SleepOver \/ WokenUp
    <2>1. /\ UNCHANGED age /\ loop' = [pc |-> "apply", left |-> 0]
          /\ notified' \in BOOLEAN
      BY <1>4 DEF SleepOver, WokenUp, TypeOK
    <2>2. TypeOK'
      BY <1>1, <2>1, SMT DEF TypeOK
    <2>3. NeverOverdue'
      BY <1>1, <1>2, <2>1 DEF NeverOverdue, TimedClients
    <2>4. Swept' /\ WakesInTime'
      BY <2>1, SMT DEF Swept, WakesInTime
    <2> QED
      BY <1>2, <2>2, <2>3, <2>4
  <1>5. CASE ApplyTimeouts
    <2>1. /\ loop' = [pc |-> "plan", left |-> 0] /\ UNCHANGED notified
          /\ age' = [k \in DOMAIN age \ TimedOutClients |-> age[k]]
      BY <1>5 DEF ApplyTimeouts, WithoutClients, Restrict
    <2>2. age' \in [DOMAIN age' -> 0 .. MaxAge]
      BY <2>1 DEF TypeOK
    <2>3. TypeOK'
      BY <1>1, <2>1, <2>2, SMT DEF TypeOK
    <2>4. \A k \in TimedClients' : k \in TimedClients \ TimedOutClients /\ age'[k] = age[k]
      BY <1>2, <2>1 DEF TimedClients
    <2>5. \A k \in TimedClients \ TimedOutClients : age[k] < config[k[1]].timeout
      BY SMT DEF TimedClients, TimedOutClients, Timed, TypeOK, Shapes, TimeoutsTyped
    <2>6. Swept' /\ NeverOverdue'
      BY <1>1, <2>4, <2>5, SMT DEF Swept, NeverOverdue
    <2>7. WakesInTime'
      BY <2>1, SMT DEF WakesInTime
    <2> QED
      BY <1>2, <2>3, <2>6, <2>7
  <1> QED
    BY <1>3, <1>4, <1>5 DEF LoopStep

(* Time passes while the loop sleeps, as much for it as for the clients. *)
LEMMA TickKeeps ==
    ASSUME ExpiryInv, Tick
    PROVE  ExpiryInv'
  <1> USE DEF ExpiryInv
  <1>1. /\ UNCHANGED <<config, asked, notified, file, events>>
        /\ loop.pc = "sleep" /\ loop.left # 0 /\ ~notified
        /\ loop' = [loop EXCEPT !.left = @ - 1]
        /\ age' = [k \in DOMAIN age |-> Min({age[k] + 1, MaxAge})]
    BY DEF Tick, LoopReady, Older
  <1>2. /\ loop' \in [pc : {"plan", "sleep", "apply"}, left : Nat]
        /\ loop'.pc = "sleep" /\ loop'.left = loop.left - 1 /\ loop.left \in Nat
    BY <1>1, SMT DEF TypeOK
  <1>3. \A k \in DOMAIN age :
            /\ age[k] \in Nat /\ age'[k] \in Nat
            /\ age'[k] <= age[k] + 1 /\ age'[k] <= MaxAge
    <2> SUFFICES ASSUME NEW k \in DOMAIN age
                 PROVE  /\ age[k] \in Nat /\ age'[k] \in Nat
                        /\ age'[k] <= age[k] + 1 /\ age'[k] <= MaxAge
      OBVIOUS
    <2>1. age[k] \in Nat /\ age[k] + 1 \in Nat
      BY SMT DEF TypeOK
    <2>2. age'[k] = Min({age[k] + 1, MaxAge})
      BY <1>1
    <2> QED
      BY <2>1, <2>2, MinOfTwo, TimeoutLoopConstants, Zenon
  <1>4. age' \in [DOMAIN age' -> 0 .. MaxAge] /\ DOMAIN age' = DOMAIN age
    BY <1>1, <1>3, TimeoutLoopConstants, SMT
  <1>5. since' \in 0 .. Debounce + 1
    <2>1. since' = Min({since + 1, Debounce + 1}) /\ since + 1 \in Nat /\ Debounce + 1 \in Nat
      BY BackgroundConstants, SMT DEF Tick, TypeOK
    <2>2. since' \in Nat /\ since' <= Debounce + 1
      BY <2>1, MinOfTwo, Zenon
    <2> QED
      BY <2>2, BackgroundConstants, SMT
  <1>6. \/ watch' = watch
        \/ watch.pc = "settle" /\ watch.left # 0 /\ watch' = [watch EXCEPT !.left = @ - 1]
    BY DEF Tick, WatchReady
  <1>7. /\ watch'.pc = watch.pc /\ watch'.loaded = watch.loaded
        /\ watch'.left \in 0 .. Settle /\ DOMAIN watch' = DOMAIN watch
    BY <1>6, BackgroundConstants, SMT DEF TypeOK, Shapes
  <1>8. TypeOK'
    BY <1>1, <1>2, <1>4, <1>5, <1>7, Zenon DEF TypeOK
  <1>9. Shapes'
    BY <1>1, <1>7, Zenon DEF Shapes, TimeoutsTyped
  <1>10. Timed' = Timed /\ TimedClients' = TimedClients
    BY <1>1, <1>4 DEF Timed, TimedClients
  <1>11. \A n \in Timed : config[n].timeout \in Nat /\ loop.left <= config[n].timeout
    BY <1>1 DEF Timed, Shapes, TimeoutsTyped, WakesInTime
  <1>12. \A k \in TimedClients : age'[k] + loop'.left <= config[k[1]].timeout
    BY <1>1, <1>2, <1>3, <1>11, SMT DEF WakesInTime, TimedClients
  <1>13. WakesInTime'
    <2>1. \A n \in Timed : loop'.left <= config[n].timeout
      BY <1>2, <1>11, SMT
    <2> QED
      BY <1>1, <1>10, <1>12, <2>1, Zenon DEF WakesInTime
  <1>14. NeverOverdue'
    BY <1>1, <1>2, <1>3, <1>10, <1>11, <1>12, SMT DEF NeverOverdue, TimedClients
  <1>15. Swept'
    BY <1>2, SMT DEF Swept
  <1> QED
    BY <1>8, <1>9, <1>13, <1>14, <1>15

(* apply_config_update: a client that stays either had its timeout extended, *)
(* or is younger than the new one; and the loop has its permit.            *)
LEMMA UpdateKeeps ==
    ASSUME ExpiryInv, ApplyConfigUpdate
    PROVE  ExpiryInv'
  <1> USE DEF ExpiryInv
  <1> DEFINE new == watch.loaded
  <1>1. /\ config' = new /\ notified' = TRUE /\ watch' = Receiving /\ since' = 0
        /\ UNCHANGED <<asked, loop, file, events>> /\ watch.pc = "update"
        /\ age' = [k \in DOMAIN age \ {j \in DOMAIN age : TornDown(new, j)} |-> age[k]]
    BY DEF ApplyConfigUpdate, WithoutClients, Restrict
  <1>2. TimeoutsTyped(config) /\ TimeoutsTyped(new)
    BY <1>1 DEF Shapes
  <1>3. \A k \in DOMAIN age' : k \in DOMAIN age /\ age'[k] = age[k] /\ ~TornDown(new, k)
    BY <1>1
  <1>4. age' \in [DOMAIN age' -> 0 .. MaxAge]
    BY <1>1 DEF TypeOK
  <1>5. ASSUME NEW k \in DOMAIN age'
        PROVE  /\ k[1] \in DOMAIN config /\ k[1] \in DOMAIN new /\ k[2] \in Users
               /\ (new[k[1]].timeout = None) = (config[k[1]].timeout = None)
               /\ Tightened(config[k[1]].timeout, new[k[1]].timeout)
                     => ~(age[k] >= new[k[1]].timeout)
    <2>1. k[1] \in DOMAIN config /\ k[2] \in Users
      BY <1>3 DEF TypeOK
    <2>2. ~TornDown(new, k)
      BY <1>3
    <2>3. k[1] \notin Invalidated(new)
      BY <2>2, Zenon DEF TornDown
    <2>4. k[1] \in DOMAIN new
      BY <2>1, <2>3, Zenon DEF Invalidated
    <2>5. (new[k[1]].timeout = None) = (config[k[1]].timeout = None)
      BY <2>2, Zenon DEF TornDown
    <2>6. Tightened(config[k[1]].timeout, new[k[1]].timeout) => ~(age[k] >= new[k[1]].timeout)
      BY <2>2, Zenon DEF TornDown
    <2> QED
      BY <2>1, <2>4, <2>5, <2>6, Zenon
  <1>6. TypeOK'
    <2>1. watch'.pc = "recv" /\ watch'.left \in 0 .. Settle /\ since' \in 0 .. Debounce + 1
      BY <1>1, BackgroundConstants, SMT DEF Receiving
    <2> QED
      BY <1>1, <1>4, <1>5, <2>1, Zenon DEF TypeOK
  <1>7. Shapes'
    BY <1>1, <1>2, SMT DEF Shapes, TimeoutsTyped, Receiving
  <1>8. ASSUME NEW k \in TimedClients'
        PROVE  /\ age'[k] <= config'[k[1]].timeout
               /\ loop'.pc = "plan" => age'[k] < config'[k[1]].timeout
    <2> DEFINE o == config[k[1]].timeout
               t == new[k[1]].timeout
               a == age[k]
    <2>1. k \in DOMAIN age' /\ t # None /\ t # 0 /\ config'[k[1]].timeout = t /\ age'[k] = a
      BY <1>1, <1>3 DEF TimedClients, Timed
    <2>2. o # None /\ o \in Nat /\ t \in Nat /\ a \in Nat /\ k[1] \in DOMAIN config
      BY <1>2, <1>3, <1>5, <2>1, SMT DEF TimeoutsTyped, TypeOK
    <2>3. Tightened(o, t) => a < t
      BY <1>5, <2>1, <2>2, SMT
    <2>4. o # 0 => a <= o /\ (loop.pc = "plan" => a < o)
      BY <1>3, <2>1, <2>2 DEF NeverOverdue, Swept, TimedClients, Timed
    <2>5. a <= t /\ (loop.pc = "plan" => a < t)
      BY <2>1, <2>2, <2>3, <2>4, SMT DEF Tightened
    <2> QED
      BY <1>1, <2>1, <2>5
  <1>9. NeverOverdue' /\ Swept'
    BY <1>8, Zenon DEF NeverOverdue, Swept
  <1>10. WakesInTime'
    BY <1>1 DEF WakesInTime
  <1> QED
    BY <1>6, <1>7, <1>9, <1>10

(* ExpiryInv is inductive. *)
LEMMA NextInv == ExpiryInv /\ [Next]_vars => ExpiryInv'
  <1> SUFFICES ASSUME ExpiryInv, [Next]_vars PROVE ExpiryInv'
    OBVIOUS
  <1>1. CASE EditFile \/ ReceiveEvent \/ LoadFile
    BY <1>1, WatcherKeeps
  <1>2. CASE ProxyStep /\ UNCHANGED watchVars
    BY <1>2, ProxyKeeps
  <1>3. CASE LoopStep /\ UNCHANGED watchVars
    BY <1>3, LoopKeeps
  <1>4. CASE ApplyConfigUpdate
    BY <1>4, UpdateKeeps
  <1>5. CASE Tick
    BY <1>5, TickKeeps
  <1>6. CASE UNCHANGED vars
    <2>1. UNCHANGED <<config, age, asked, loop, notified, file, events, watch, since>>
      BY <1>6 DEF vars, timeoutVars, watchVars
    <2>2. (NeverOverdue /\ Swept /\ WakesInTime)'
      BY <2>1, TimesKept DEF ExpiryInv, timeoutVars
    <2>3. TypeOK' /\ Shapes'
      BY <2>1 DEF ExpiryInv, TypeOK, Shapes, TimeoutsTyped
    <2> QED
      BY <2>2, <2>3 DEF ExpiryInv
  <1> QED
    BY <1>1, <1>2, <1>3, <1>4, <1>5, <1>6 DEF Next, WatchStep

(* The state of the two tasks and of the requests beside them is always    *)
(* typed. In particular a proxy client is only ever that of a service in   *)
(* the map: no request writes one after its service has left the file, and *)
(* no update keeps one. (Its service may have ceased to be an entry point.) *)
THEOREM BackgroundTyped == Spec => []TypeOK
  <1>1. ExpiryInv => TypeOK
    BY DEF ExpiryInv
  <1> QED
    BY <1>1, InitInv, NextInv, PTL DEF Spec

(* check_timeouts, woken by the clock or by the watcher, tears every proxy *)
(* client down no later than its timeout, whatever is edited and used      *)
(* while it sleeps.                                                        *)
THEOREM ExpirySafe == Spec => []NeverOverdue
  <1>1. ExpiryInv => NeverOverdue
    BY DEF ExpiryInv
  <1> QED
    BY <1>1, InitInv, NextInv, PTL DEF Spec

(* With any TIMEOUT but 0, check_timeouts never plans a sleep of no time: it *)
(* takes the write lock periodically and not in a tight loop.              *)
THEOREM NeverSpins ==
    ASSUME DefaultTimeout # 0
    PROVE  Spec => Paced
  <1>1. ExpiryInv /\ [Next]_vars => [PlanSleep => loop'.left > 0]_vars
    <2> SUFFICES ASSUME ExpiryInv, PlanSleep PROVE loop'.left > 0
      OBVIOUS
    <2>1. \A n \in Timed : config[n].timeout \in Nat \ {0}
      BY DEF ExpiryInv, Shapes, TimeoutsTyped, Timed
    <2>2. \A k \in TimedClients : UntilExpiry(k) # 0
      BY <2>1, SMT DEF ExpiryInv, PlanSleep, Swept, TypeOK, TimedClients, UntilExpiry
    <2>3. NearestTimeout \in Nat /\ NearestTimeout # 0
      BY <2>1, <2>2, NearestBound
    <2> QED
      BY <2>3, SMT DEF PlanSleep
  <1>2. Spec => []ExpiryInv
    BY InitInv, NextInv, PTL DEF Spec
  <1> QED
    BY <1>1, <1>2, PTL DEF Spec, Paced
==============================================================================
