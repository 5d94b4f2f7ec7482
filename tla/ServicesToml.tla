---------------------------- MODULE ServicesToml ----------------------------
(***************************************************************************)
(* The configuration file (src/services/input.rs): what a list of service  *)
(* declarations means.  Reading and parsing the file are I/O; a file that   *)
(* cannot be read or parsed changes nothing.                               *)
(*                                                                         *)
(* A declaration is a record                                               *)
(*   [name, timeout, proxy_dependencies, triggers, max_networks]           *)
(* where timeout and max_networks may be None and triggers is a sequence   *)
(* of [port, chain].  The configuration of one service is a record         *)
(*   [proxy_deps, triggers, timeout, max_networks]                         *)
(* where triggers maps a port to its chain, and timeout is None for a      *)
(* service that is not an entry point.                                     *)
(***************************************************************************)
EXTENDS Naturals, Sequences, SequencesExt, FiniteSetsExt

CONSTANTS
    None,            \* Option::None
    DefaultTimeout   \* the TIMEOUT environment variable

(* The elements of slice after the first occurrence of elem. *)
TailAfter(slice, elem) ==
    LET i == SelectInSeq(slice, LAMBDA d : d = elem)
    IN  IF i = 0 THEN <<>> ELSE SubSeq(slice, i + 1, Len(slice))

(* Triggers are collected into a map: the last chain of a port wins. *)
TriggerMap(triggers) ==
    [p \in {t.port : t \in ToSet(triggers)} |->
        triggers[SelectLastInSeq(triggers, LAMBDA t : t.port = p)].chain]

(* A declared service is an entry point; TIMEOUT applies when it gives none. *)
Declared(s) ==
    [proxy_deps |-> s.proxy_dependencies,
     triggers |-> TriggerMap(s.triggers),
     timeout |-> IF s.timeout = None THEN DefaultTimeout ELSE s.timeout,
     max_networks |-> s.max_networks]

(* A service only named in a chain can be hosted but not asked for. *)
Implicit(proxy_deps) ==
    [proxy_deps |-> proxy_deps, triggers |-> <<>>, timeout |-> None,
     max_networks |-> None]

(* services_map(): a dependency inherits the rest of the last list naming  *)
(* it; a declaration overrides whatever its name inherited.                *)
ServicesMap(toml) ==
    LET Decl(n) == SelectLastInSeq(toml, LAMBDA s : s.name = n)
        Lister(n) ==
            SelectLastInSeq(toml, LAMBDA s : n \in ToSet(s.proxy_dependencies))
        Mentioned(s) ==
            {s.name} \cup ToSet(s.proxy_dependencies)
                \cup UNION {ToSet(t.chain) : t \in ToSet(s.triggers)}
    IN  [n \in UNION {Mentioned(s) : s \in ToSet(toml)} |->
            IF Decl(n) # 0 THEN Declared(toml[Decl(n)])
            ELSE IF Lister(n) # 0
                THEN Implicit(TailAfter(toml[Lister(n)].proxy_dependencies, n))
                ELSE Implicit(<<>>)]
==============================================================================
