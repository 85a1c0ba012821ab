--------------------------- MODULE DockerInventory ---------------------------
(***************************************************************************)
(* What docker-inventory reports of a container to Prometheus, in the terms   *)
(* of the registry that reads it there (build_metrics in                     *)
(* collector/docker-inventory/app.py).                                       *)
(***************************************************************************)
EXTENDS RegistryStore

CONSTANT Standalone   \* the compose_project of what has no compose labels

ASSUME StandaloneAssumption == Standalone \in Projects

\* A container as Docker knows it; what compose did not start has no compose label.
DockerContainer == [status : {"running", "exited"}, compose : Projects \cup {None}]
Dockers         == [Containers -> DockerContainer \cup {None}]

\* No label, then a default for both compose_project and compose_service.
Reported(c) ==
    [running |-> c.status = "running",
     compose |-> IF c.compose = None THEN Standalone ELSE c.compose]

\* All containers, not only the running ones.
Listed(docker) ==
    [c \in Containers |-> IF docker[c] = None THEN None ELSE Reported(docker[c])]

\* The socket does not answer: comments only, and no series.
NothingListed == [c \in Containers |-> None]
=============================================================================
