-------------------------- MODULE ManagerRegistry --------------------------
(***************************************************************************)
(* The manager implements the registry.  A delete-job that is still        *)
(* erasing its workers has already happened for a client, who cannot be    *)
(* served before it is over; so has a stop.                                *)
(***************************************************************************)
EXTENDS Manager

\* The workers that the request in progress leaves in the map.
Seen ==
  IF ~Up \/ Clearing THEN {} ELSE {w \in workers : job[w] # target}

R == INSTANCE Registry WITH
  live <- Seen,
  memberOf <- job,
  health <- state,
  open <- IF Up THEN jobs \ {target} ELSE {},
  given <- issued,
  phase <- IF ~Up THEN "down" ELSE IF Clearing THEN "stopping" ELSE "up"

\* Every request of manager::handle takes effect at once, although
\* delete_job and stop erase one worker at a time, block in destructors and
\* share the map with the monitor: every step of the manager is a step of
\* the registry or changes nothing in it.
ImplementsRegistry == R!RegSpec
=============================================================================
