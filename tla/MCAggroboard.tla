----------------------------- MODULE MCAggroboard -----------------------------
(***************************************************************************)
(* Aggroboard on small fleets: two hosts named by their bare host names.     *)
(***************************************************************************)
EXTENDS Aggroboard, TLC

CONSTANTS h1, h2

TwoHosts   == {h1, h2}
BareTwo    == (h1 :> h1) @@ (h2 :> h2)
AnyOfTwo   == SUBSET TwoHosts
=============================================================================
