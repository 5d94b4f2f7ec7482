----------------------------- MODULE MCBackground -----------------------------
(***************************************************************************)
(* The instances of Background: one user, services A and B.                *)
(***************************************************************************)
EXTENDS Background

Service(name, timeout, deps, chain) ==
    [name |-> name, timeout |-> timeout, proxy_dependencies |-> deps,
     triggers |-> <<[port |-> 1, chain |-> chain]>>, max_networks |-> None]

OneUser == {"u"}

(* A depends on B. Edits give it a short timeout instead of a long one, and *)
(* a trigger; switch its timeout off and make B an entry point, which ends  *)
(* when the edit is taken back; or leave only B, with TIMEOUT.              *)
Long == <<Service("A", 2, <<"B">>, <<>>)>>
Edits == {Long, Broken,
          <<Service("A", 1, <<"B">>, <<"C">>)>>,
          <<Service("A", 0, <<"B">>, <<>>), Service("B", 2, <<>>, <<>>)>>,
          <<Service("B", None, <<>>, <<>>)>>}

(* Every timeout is switched off, as in the README of the repository. *)
Disabled == <<Service("A", 0, <<"B">>, <<>>)>>
OnlyDisabled == {Disabled, Broken}
===============================================================================
