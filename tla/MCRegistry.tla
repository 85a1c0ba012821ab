------------------------------ MODULE MCRegistry ------------------------------
(***************************************************************************)
(* Registry on small instances. The threads, labels and deployments of each  *)
(* run are in its .cfg; the sets that a .cfg cannot write are here.          *)
(***************************************************************************)
EXTENDS Registry

\* PUT bodies: the two that pull a row's fate in opposite directions, and the one
\* that takes a pin off again.
KeepOrRetire      == {"persistent", "retired"}
KeepClearOrRetire == {"persistent", "retired", None}
=============================================================================
