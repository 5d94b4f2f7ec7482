----------------------------- MODULE TimeoutLoop -----------------------------
(***************************************************************************)
(* Expiry of proxy clients (src/timeout.rs): a task that sleeps until the  *)
(* first client can expire, or until the configuration changes, and then   *)
(* tears down the clients that have not been used for their service's      *)
(* timeout.                                                                *)
(*                                                                         *)
(* Time is counted in ticks.  A client is an entry <<service, user>> and   *)
(* is kept as the time since its last use; what a teardown does to the     *)
(* rest of the map is in Changes.  Timeouts are those of ServicesToml:     *)
(* None for a service that is no entry point, 0 for one without a limit.   *)
(*                                                                         *)
(* A proxy request asks whether its service is an entry point, and what it *)
(* has to do, under one read lock; it writes the client's entry under      *)
(* later write locks, when the configuration may be another.               *)
(***************************************************************************)
EXTENDS ServicesToml

CONSTANTS
    Users,       \* the users of the proxies
    MaxAge,      \* bound on the ages that are told apart
    MaxAsked     \* bound on the requests on their way

VARIABLES
    config,     \* the configuration in the service map
    age,        \* age[k]: the time since ClientInfo.latest
    asked,      \* proxy requests that have still to write: [client, step]
    loop,       \* check_timeouts: [pc, left], left of its sleep
    notified    \* config_changed: a permit is stored

timeoutVars == <<config, age, asked, loop, notified>>

ASSUME TimeoutLoopConstants ==
    DefaultTimeout \in Nat /\ MaxAge \in Nat /\ MaxAsked \in Nat

Timed == {n \in DOMAIN config : config[n].timeout \notin {None, 0}}
TimedClients == {k \in DOMAIN age : k[1] \in Timed}

WithoutClients(ks) == Restrict(age, DOMAIN age \ ks)

(* A slip: a client that is exactly as old as allowed stays. *)
PastTimeout == {k \in TimedClients : age[k] > config[k[1]].timeout}

(* collect_timed_out_clients, with expired_proxy_clients. *)
TimedOutClients == {k \in TimedClients : age[k] >= config[k[1]].timeout}

(* nearest_proxy_expiry: a saturating difference. *)
UntilExpiry(k) ==
    IF age[k] >= config[k[1]].timeout THEN 0 ELSE config[k[1]].timeout - age[k]

(* nearest_timeout: the timeouts themselves are in it so that a client who *)
(* comes during the sleep is not overlooked.                               *)
NearestTimeout ==
    Min({DefaultTimeout} \cup {config[n].timeout : n \in Timed}
            \cup {UntilExpiry(k) : k \in TimedClients})

(* handle_proxy_request, up to its answer of a sticky session: the service *)
(* is an entry point, and the client has an entry to refresh or none.      *)
AskFor(n, u) ==
    /\ n \in DOMAIN config /\ config[n].timeout # None
    /\ Cardinality(asked) < MaxAsked
    /\ asked' = asked \cup {[client |-> <<n, u>>,
                             step |-> IF <<n, u>> \in DOMAIN age THEN "refresh" ELSE "setup"]}
    /\ UNCHANGED <<config, age, loop, notified>>

Used(k) == [c \in DOMAIN age \cup {k} |-> IF c = k THEN 0 ELSE age[c]]

(* set_latest_now, unless the entry has been removed in between. *)
Refresh(k) ==
    /\ [client |-> k, step |-> "refresh"] \in asked
    /\ age' = IF k \in DOMAIN age THEN Used(k) ELSE age
    /\ asked' = asked \ {[client |-> k, step |-> "refresh"]}
    /\ UNCHANGED <<config, loop, notified>>

(* Past max_networks: an entry that shares a network. *)
JoinNetwork(k) ==
    /\ [client |-> k, step |-> "setup"] \in asked /\ k[1] \in DOMAIN config
    /\ age' = Used(k)
    /\ asked' = asked \ {[client |-> k, step |-> "setup"]}
    /\ UNCHANGED <<config, loop, notified>>

(* The placeholder of net_chain_setup, unless another request was faster.  *)
Reserve(k) ==
    /\ [client |-> k, step |-> "setup"] \in asked /\ k[1] \in DOMAIN config
    /\ k \notin DOMAIN age
    /\ age' = Used(k)
    /\ asked' = (asked \ {[client |-> k, step |-> "setup"]})
                    \cup {[client |-> k, step |-> "commit"]}
    /\ UNCHANGED <<config, loop, notified>>

(* A slip: the service may have been removed from the file since. *)
CommitUnchecked(k) ==
    /\ [client |-> k, step |-> "commit"] \in asked
    /\ age' = Used(k)
    /\ asked' = asked \ {[client |-> k, step |-> "commit"]}
    /\ UNCHANGED <<config, loop, notified>>

(* The entry replaces the placeholder, or whatever is left of it. *)
Commit(k) ==
    /\ [client |-> k, step |-> "commit"] \in asked /\ k[1] \in DOMAIN config
    /\ age' = Used(k)
    /\ asked' = asked \ {[client |-> k, step |-> "commit"]}
    /\ UNCHANGED <<config, loop, notified>>

(* The request writes nothing more: it finds the edge taken or its service *)
(* or replica gone, or its caller gives up; or the set-up has failed and   *)
(* remove_client takes the entry out.                                      *)
Leave(r) ==
    /\ r \in asked
    /\ asked' = asked \ {r}
    /\ age' = age \/ (r.step = "commit" /\ age' = WithoutClients({r.client}))
    /\ UNCHANGED <<config, loop, notified>>

ProxyStep ==
    \/ \E n \in DOMAIN config, u \in Users : AskFor(n, u)
    \/ \E r \in asked : \/ Refresh(r.client) \/ JoinNetwork(r.client)
                        \/ Reserve(r.client) \/ Commit(r.client) \/ Leave(r)

PlanSleep ==
    /\ loop.pc = "plan"
    /\ loop' = [pc |-> "sleep", left |-> NearestTimeout]
    /\ UNCHANGED <<config, age, asked, notified>>

(* select!: the sleep is over, or there is a permit, which is taken. *)
SleepOver ==
    /\ loop.pc = "sleep" /\ loop.left = 0
    /\ loop' = [pc |-> "apply", left |-> 0]
    /\ UNCHANGED <<config, age, asked, notified>>

WokenUp ==
    /\ loop.pc = "sleep" /\ notified
    /\ loop' = [pc |-> "apply", left |-> 0]
    /\ notified' = FALSE
    /\ UNCHANGED <<config, age, asked>>

(* apply_timeouts. *)
ApplyTimeouts ==
    /\ loop.pc = "apply"
    /\ age' = WithoutClients(TimedOutClients)
    /\ loop' = [pc |-> "plan", left |-> 0]
    /\ UNCHANGED <<config, asked, notified>>

LoopStep == PlanSleep \/ SleepOver \/ WokenUp \/ ApplyTimeouts

(* The loop has something to do at once. *)
LoopReady == loop.pc # "sleep" \/ loop.left = 0 \/ notified

Older == [k \in DOMAIN age |-> Min({age[k] + 1, MaxAge})]
==============================================================================
