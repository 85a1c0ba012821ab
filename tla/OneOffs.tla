------------------------------- MODULE OneOffs -------------------------------
(***************************************************************************)
(* From Docker to the entity table: the containers of a host, what            *)
(* docker-inventory says of them, what Prometheus still holds of the last     *)
(* scrape, and the discovery that turns it into rows with a class. Each of    *)
(* the three copies is of a different age. Scrapes and discovery are one       *)
(* step each here; Exporter and Registry have their steps.                    *)
(***************************************************************************)
EXTENDS DockerInventory

CONSTANT MaxClock   \* bound: ticks of the clock

VARIABLES
    docker,  \* the containers there are
    series,  \* docker_container_info, as Prometheus has it
    store,   \* the entity table
    started, \* who started the container of that name: compose or docker run
    clock

vars == <<docker, series, store, started, clock>>

Starters == {"compose", "run"}

Init ==
    /\ docker = [c \in Containers |-> None] /\ series = NothingListed
    /\ store = EmptyTable /\ clock = 0
    /\ started \in [Containers -> Starters]

\* A name stays with the one who uses it.
StartContainer(c) ==
    /\ docker[c] = None
    /\ \E p \in Projects :
        docker' = [docker EXCEPT ![c] =
            [status |-> "running", compose |-> IF started[c] = "compose" THEN p ELSE None]]
    /\ UNCHANGED <<series, store, started, clock>>

ContainerExits(c) ==
    /\ docker[c] # None /\ docker[c].status = "running"
    /\ docker' = [docker EXCEPT ![c].status = "exited"]
    /\ UNCHANGED <<series, store, started, clock>>

RemoveContainer(c) ==
    /\ docker[c] # None /\ docker' = [docker EXCEPT ![c] = None]
    /\ UNCHANGED <<series, store, started, clock>>

\* Prometheus scrapes the exporter, which may have failed to reach Docker.
Scrape ==
    /\ series' \in {Listed(docker), NothingListed}
    /\ UNCHANGED <<docker, store, started, clock>>

\* A discovery: what is running is written, what has faded is deleted.
Discover ==
    LET seen    == ContainerSightings(series, [c \in Containers |-> None])
        written == UpsertAll(store, seen, clock, None, None)
    IN  /\ store' = Delete(written, Faded(written, clock))
        /\ UNCHANGED <<docker, series, started, clock>>

Tick == clock < MaxClock /\ clock' = clock + 1 /\ UNCHANGED <<docker, series, store, started>>

Next ==
    \/ \E c \in Containers : StartContainer(c) \/ ContainerExits(c) \/ RemoveContainer(c)
    \/ Scrape \/ Discover \/ Tick

Spec == Init /\ [][Next]_vars

\* "Anything else ephemeral (drone steps, scanner jobs, docker run one-offs)" (header
\* of lifecycle.py): the row of a container that compose did not start is never of
\* the class that is kept for good.
OneOffsAreEphemeral ==
    \A c \in Containers :
        store[c] # None /\ started[c] = "run" => Classify(c, store[c]) = "ephemeral"
=============================================================================
