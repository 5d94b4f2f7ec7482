------------------------------ MODULE Background ------------------------------
(***************************************************************************)
(* The two background tasks of the controller (NullnetGrpcImpl::new): the  *)
(* expiry of TimeoutLoop, and the watcher that keeps the map up to date    *)
(* with services.toml (ServicesToml::watch in src/services/input.rs).      *)
(*                                                                         *)
(* The watcher takes file events from a queue.  It drops those that come   *)
(* too soon after the last update, waits for the others to settle, reads   *)
(* the file, and applies it once it has the write lock.                    *)
(*                                                                         *)
(* Steps take no time: a tick passes only when neither task has anything   *)
(* to do.  Edits and users come at any moment, between any two steps.      *)
(***************************************************************************)
EXTENDS TimeoutLoop

CONSTANTS
    Files,       \* contents the file may have, Broken among them
    BootFile,    \* the one read at start-up
    Broken,      \* a content that cannot be parsed
    Debounce,    \* the events of an update are dropped for so long (100 ms)
    Settle,      \* the sleep before the file is read (100 ms)
    MaxEvents    \* bound on the events in the queue

ASSUME BackgroundConstants ==
    /\ Debounce \in Nat /\ Settle \in Nat /\ MaxEvents \in Nat
    /\ BootFile \in Files \ {Broken}
    /\ \A f \in Files \ {Broken} :
          /\ f \in Seq(ToSet(f))
          /\ \A i \in DOMAIN f : f[i].timeout \in Nat \cup {None}

VARIABLES
    file,      \* the content of services.toml
    events,    \* how many Modify events are queued
    watch,     \* the watcher: [pc, left, loaded], left of the settling time
    since      \* the time since last_update_time

watchVars == <<file, events, watch, since>>
vars == <<timeoutVars, watchVars>>

Receiving == [pc |-> "recv", left |-> 0, loaded |-> <<>>]

Init ==
    /\ file = BootFile
    /\ config = ServicesMap(BootFile)
    /\ age = <<>>
    /\ asked = {}
    /\ loop = [pc |-> "plan", left |-> 0]
    /\ notified = FALSE
    /\ events = 0
    /\ watch = Receiving
    /\ since = Debounce + 1
------------------------------------------------------------------------------
(* The file is saved; one save may cause several events. *)
EditFile ==
    /\ \E f \in Files \ {file} : file' = f
    /\ \E n \in 1 .. 2 : events' = events + n
    /\ events' <= MaxEvents
    /\ UNCHANGED <<timeoutVars, watch, since>>

(* A slip: the window is taken the wrong way round. *)
ReceiveInWindow ==
    /\ watch.pc = "recv" /\ events > 0
    /\ events' = events - 1
    /\ watch' = IF since > Debounce
                    THEN watch ELSE [watch EXCEPT !.pc = "settle", !.left = Settle]
    /\ UNCHANGED <<timeoutVars, file, since>>

(* An event within the window counts as a duplicate and is dropped. *)
ReceiveEvent ==
    /\ watch.pc = "recv" /\ events > 0
    /\ events' = events - 1
    /\ watch' = IF since > Debounce
                    THEN [watch EXCEPT !.pc = "settle", !.left = Settle] ELSE watch
    /\ UNCHANGED <<timeoutVars, file, since>>

(* load: a file that cannot be parsed changes nothing, but the window      *)
(* starts all the same.                                                    *)
LoadFile ==
    /\ watch.pc = "settle" /\ watch.left = 0
    /\ IF file = Broken
           THEN watch' = Receiving /\ since' = 0
           ELSE /\ watch' = [watch EXCEPT !.pc = "update", !.loaded = ServicesMap(file)]
                /\ UNCHANGED since
    /\ UNCHANGED <<timeoutVars, file, events>>

(* The clients that detect_config_changes and apply_changes take down.     *)
(* (An entry's service is registered: it has a replica.)                   *)
Tightened(old, new) ==
    /\ old # None /\ new # None
    /\ new # old /\ new > 0
    /\ old = 0 \/ new < old

DepsOf(n) ==
    ToSet(config[n].proxy_deps) \cup UNION {ToSet(c) : c \in Range(config[n].triggers)}

Invalidated(loaded) ==
    (DOMAIN config \ DOMAIN loaded)
        \cup {n \in DOMAIN config \cap DOMAIN loaded :
                  loaded[n].proxy_deps # config[n].proxy_deps}

TornDown(loaded, k) ==
    LET n == k[1]
    IN  \/ ({n} \cup DepsOf(n)) \cap Invalidated(loaded) # {}
        \/ (loaded[n].timeout = None) # (config[n].timeout = None)
        \/ Tightened(config[n].timeout, loaded[n].timeout) /\ age[k] >= loaded[n].timeout

(* A slip: nobody tells the other task. *)
UpdateQuietly ==
    /\ watch.pc = "update"
    /\ config' = watch.loaded
    /\ age' = WithoutClients({k \in DOMAIN age : TornDown(watch.loaded, k)})
    /\ watch' = Receiving
    /\ since' = 0
    /\ UNCHANGED <<asked, loop, notified, file, events>>

(* apply_config_update, notify_one, and the start of the next window. *)
ApplyConfigUpdate ==
    /\ watch.pc = "update"
    /\ config' = watch.loaded
    /\ age' = WithoutClients({k \in DOMAIN age : TornDown(watch.loaded, k)})
    /\ notified' = TRUE
    /\ watch' = Receiving
    /\ since' = 0
    /\ UNCHANGED <<asked, loop, file, events>>

WatchStep == ReceiveEvent \/ LoadFile \/ ApplyConfigUpdate

WatchReady ==
    \/ watch.pc = "recv" /\ events > 0
    \/ watch.pc = "settle" /\ watch.left = 0
    \/ watch.pc = "update"
------------------------------------------------------------------------------
Tick ==
    /\ ~LoopReady /\ ~WatchReady
    /\ age' = Older
    /\ loop' = [loop EXCEPT !.left = @ - 1]
    /\ watch' = IF watch.pc = "settle" THEN [watch EXCEPT !.left = @ - 1] ELSE watch
    /\ since' = Min({since + 1, Debounce + 1})
    /\ UNCHANGED <<config, asked, notified, file, events>>

Next ==
    \/ EditFile
    \/ ProxyStep /\ UNCHANGED watchVars
    \/ LoopStep /\ UNCHANGED watchVars
    \/ WatchStep
    \/ Tick

Spec == Init /\ [][Next]_vars

(* Tasks that can run do run, and time passes. *)
FairSpec ==
    /\ Spec
    /\ WF_vars(LoopStep /\ UNCHANGED watchVars)
    /\ WF_vars(WatchStep)
    /\ WF_vars(Tick)
------------------------------------------------------------------------------
(* Types, and that every client is one of a service in the file, whatever  *)
(* was saved while its request was on its way. That the service is still   *)
(* an entry point does not follow: a client whose request was let in       *)
(* before may be written after, and such a client does not expire.         *)
TypeOK ==
    /\ age \in [DOMAIN age -> 0 .. MaxAge]
    /\ \A k \in DOMAIN age : k[1] \in DOMAIN config /\ k[2] \in Users
    /\ \A r \in asked : /\ DOMAIN r = {"client", "step"} /\ r.client[2] \in Users
                        /\ r.step \in {"refresh", "setup", "commit"}
    /\ loop \in [pc : {"plan", "sleep", "apply"}, left : Nat]
    /\ notified \in BOOLEAN
    /\ file \in Files
    /\ events \in 0 .. MaxEvents
    /\ watch.pc \in {"recv", "settle", "update"} /\ watch.left \in 0 .. Settle
    /\ since \in 0 .. Debounce + 1

(* No client outlives its timeout, whenever it came, was used again or had *)
(* its timeout changed while check_timeouts was asleep or about to sleep.  *)
NeverOverdue == \A k \in TimedClients : age[k] <= config[k[1]].timeout

(* check_timeouts does not spin: it never goes to sleep for no time at all, *)
(* and takes the write lock "periodically", as NullnetGrpcImpl::new says.  *)
Paced == [][PlanSleep => loop'.left > 0]_vars

(* A save that is noticed outside the window is loaded, unless there is    *)
(* another one before that.                                                *)
EditLoaded ==
    \A f \in Files \ {Broken} :
        (file = f /\ WatchReady /\ watch.pc = "recv" /\ since > Debounce)
            ~> (file # f \/ config = ServicesMap(f))

(* "keep services up to date with the services.toml file": when the saves  *)
(* come to an end, the last one is what the map has.                       *)
UpToDate ==
    \/ []<><<file' # file>>_vars
    \/ <>[](file # Broken => config = ServicesMap(file))
==============================================================================
