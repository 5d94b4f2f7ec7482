----------------------------- MODULE MCController -----------------------------
(***************************************************************************)
(* The instances of Controller. Every configuration goes through           *)
(* ServicesMap, so it is one that a file can produce, and every boot state *)
(* is the one after the hosts have opened their channels and sent their    *)
(* lists. hA, hB, hC host services A, B, C; hA2 is a second host of A, and *)
(* so on; p1 is a proxy.                                                   *)
(***************************************************************************)
EXTENDS ControllerInv

Toml == INSTANCE ServicesToml WITH DefaultTimeout <- 60

Service(name, deps) ==
    [name |-> name, timeout |-> 5, proxy_dependencies |-> deps,
     triggers |-> <<>>, max_networks |-> None]
WithTriggers(service, chains) ==
    [service EXCEPT !.triggers =
        [port \in DOMAIN chains |-> [port |-> port, chain |-> chains[port]]]]
Limited(service, max) == [service EXCEPT !.max_networks = max]
------------------------------------------------------------------------------
(* Where services run, and what hosts may announce later. *)
On(hosts) == [i \in DOMAIN hosts |-> <<hosts[i], None>>]
Runs(host, name) == <<host, <<<<name, None>>>>>>
Idles(host) == <<host, <<>>>>

Hosts == {"hA", "hA2", "hB", "hB2", "hC", "hC2", "p1"}
Never == {}
OneService == {"A"}
TwoServices == {"A", "B"}
ThreeServices == {"A", "B", "C"}

AOnOne == [A |-> On(<<"hA">>)]
ABOnOneEach == [A |-> On(<<"hA">>), B |-> On(<<"hB">>)]
AOnTwoBOnOne == [A |-> On(<<"hA", "hA2">>), B |-> On(<<"hB">>)]
AOnOneBOnTwo == [A |-> On(<<"hA">>), B |-> On(<<"hB", "hB2">>)]
AOnTwoBCOnOne == [A |-> On(<<"hA", "hA2">>), B |-> On(<<"hB">>), C |-> On(<<"hC">>)]
ABCOnOneEach == [A |-> On(<<"hA">>), B |-> On(<<"hB">>), C |-> On(<<"hC">>)]
COnTwo == [A |-> On(<<"hA">>), B |-> On(<<"hB">>), C |-> On(<<"hC", "hC2">>)]

BComesAndGoes == {Idles("hB"), Runs("hB", "B")}
BCComeAndGo == BComesAndGoes \cup {Idles("hC"), Runs("hC", "C")}
ABCComeAndGo == BCComeAndGo \cup {Idles("hA"), Runs("hA", "A")}
CComesAndGoes == {Idles("hC"), Runs("hC", "C"), Runs("hB", "B")}
CLeaves == {Idles("hC")}

HostA == {"hA"}
HostB == {"hB"}
ProxyAndHost == {"hA2", "p1"}
------------------------------------------------------------------------------
(* Calls. *)
OneUser == << <<"proxy", "A", "p1", "u1">> >>
TwoUsers == Append(OneUser, <<"proxy", "A", "p1", "u2">>)
UsersAndTrigger == Append(TwoUsers, <<"trigger", "A", "hA", 1>>)
UserAndTrigger == Append(OneUser, <<"trigger", "A", "hA", 1>>)

FirstCall == {1}
SecondCall == {2}
------------------------------------------------------------------------------
(* Files. *)
Alone == Toml!ServicesMap(<<Service("A", <<>>)>>)
Pair == Toml!ServicesMap(<<Service("A", <<"B">>)>>)
Line == Toml!ServicesMap(<<Service("A", <<"B", "C">>)>>)

(* A reaches B as a proxy dependency and, by a trigger, B through C. *)
Triggered == Toml!ServicesMap(<<WithTriggers(Service("A", <<"B">>), << <<"C", "B">> >>)>>)

(* C moves from the proxy chain to a trigger; C is dropped and A gets a    *)
(* limit; A no longer depends on B; A is no longer an entry point.         *)
LineEdits == {Line, Triggered,
              Toml!ServicesMap(<<Limited(Service("A", <<"B">>), 1)>>),
              Toml!ServicesMap(<<Service("A", <<>>), Service("B", <<"C">>)>>),
              Toml!ServicesMap(<<Service("B", <<"A">>)>>)}

(* The proxy chain and the trigger chain are the same edge. *)
SameEdge == Toml!ServicesMap(<<WithTriggers(Service("A", <<"B">>), << <<"B">> >>)>>)
===============================================================================
