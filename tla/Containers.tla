----------------------------- MODULE Containers -----------------------------
(***************************************************************************)
(* The docker control both campaigns share (graphbench/finalization.py):   *)
(* _compose, _wait_for_container and _stop_local_databases.  Docker itself *)
(* is outside the repository: a command may fail, and how the code takes   *)
(* the failure is what is modelled.                                        *)
(***************************************************************************)
EXTENDS FiniteSets

CONSTANTS
    Local,          \* the databases that run in containers of this host
    InspectFails    \* whether `docker inspect` may fail for a container that exists

ASSUME InspectAssumption == InspectFails \in BOOLEAN

VARIABLE running    \* the containers that are running

\* _compose(d, "up") returns: the container was running, or docker started it.
Up(d) == running' = running \cup {d}

\* ... or raises, when docker can not start it; after an inspect that failed
\* `docker compose up` is tried on a container that may be running.
UpFails(d) == (d \notin running \/ InspectFails) /\ UNCHANGED running

\* _compose(d, "down") returns: docker stopped the container, or it was not
\* running, or inspect failed, which the code takes for not running.
Down(d) ==
    \/ running' = running \ {d}
    \/ InspectFails /\ UNCHANGED running

\* ... or raises, when `docker stop` fails.
DownFails(d) == d \in running /\ UNCHANGED running

\* _stop_local_databases returns: each container went down, one after the other.
StopLocal ==
    \E left \in SUBSET running :
        /\ InspectFails \/ left = {}
        /\ running' = left

\* ... or raises at the first that does not stop; those after it still run.
StopLocalFails ==
    \E left \in SUBSET running \ {{}} : running' = left
=============================================================================
