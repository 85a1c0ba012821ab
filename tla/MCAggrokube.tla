------------------------------ MODULE MCAggrokube ------------------------------
(***************************************************************************)
(* Aggrokube on a cluster of one node, a namespace with a Deployment and a    *)
(* system namespace with a DaemonSet: the kinds that are asked for first and   *)
(* last.                                                                   *)
(***************************************************************************)
EXTENDS Aggrokube, TLC

CONSTANTS app, system, web, proxy, sorted, shuffled

SpaceOfEach == (web :> app) @@ (proxy :> system)
KindOfEach  == (web :> "Deployment") @@ (proxy :> "DaemonSet")
=============================================================================
