----------------------------- MODULE Processes -----------------------------
(***************************************************************************)
(* The worker processes as the service's kernel sees them: what fork(2),   *)
(* kill(2) and waitpid(2) do to the children of wye-service, through the   *)
(* wrappers of src/process (posix_start, process::terminate, child::wait). *)
(*                                                                         *)
(* A pid of a child that was waited for is "gone": the kernel may hand it  *)
(* to a later fork.  Every other pid a waitpid or kill could name is not a *)
(* child of the service, so both calls fail on it (ECHILD, ESRCH).         *)
(***************************************************************************)
CONSTANTS
  Workers,    \* worker ids, one uuid per worker object (worker.C)
  Pids,       \* process identifiers of the host
  Nobody,     \* "no worker"
  Reusable    \* pids that fork may return again once they were waited for

ASSUME ProcessesAssumption ==
  /\ Nobody \notin Workers
  /\ Reusable \subseteq Pids

VARIABLES
  pstat,      \* [Pids -> "unused" | "alive" | "zombie" | "gone"]
  powner,     \* the worker a child was forked for (not known to the code)
  signalled   \* the children that were sent SIGTERM

procVars == <<pstat, powner, signalled>>

PStates == {"unused", "alive", "zombie", "gone"}

\* The children waitpid can name: running, or dead and not yet waited for.
Existing == {p \in Pids : pstat[p] \in {"alive", "zombie"}}

Alive(p) == pstat[p] = "alive"

Forkable(p) == pstat[p] = "unused" \/ (p \in Reusable /\ pstat[p] = "gone")

PInit ==
  /\ pstat = [p \in Pids |-> "unused"]
  /\ powner = [p \in Pids |-> Nobody]
  /\ signalled = {}

\* fork(2) and execve(2): the child p of worker w.  A failing execve is a
\* child that exits at once (Exit), as in the code.
posix_start(w, p) ==
  /\ Forkable(p)
  /\ pstat' = [pstat EXCEPT ![p] = "alive"]
  /\ powner' = [powner EXCEPT ![p] = w]
  /\ UNCHANGED signalled

\* A bug form: the signal goes to the worker's id, not to its process.
KilledById(p) == signalled \cup {powner[p]}

\* A bug form: the destructor waits for a process it never signalled.
NotKilled(p) == signalled

Killed(p) == signalled \cup {p}

\* kill(2) of an existing child; a zombie accepts the signal too.
terminate(p) ==
  /\ signalled' = Killed(p)
  /\ UNCHANGED <<pstat, powner>>

\* waitpid(2) of a zombie, blocking or not: the pid is given back.
Reap(p) ==
  /\ pstat[p] = "zombie"
  /\ pstat' = [pstat EXCEPT ![p] = "gone"]
  /\ powner' = [powner EXCEPT ![p] = Nobody]
  /\ signalled' = signalled \ {p}

\* A worker process ends: it is killed, it crashes, or its program returns.
Exit(p) ==
  /\ Alive(p)
  /\ pstat' = [pstat EXCEPT ![p] = "zombie"]
  /\ UNCHANGED <<powner, signalled>>

PTypeOK ==
  /\ pstat \in [Pids -> PStates]
  /\ powner \in [Pids -> Workers \cup {Nobody}]
  /\ signalled \subseteq Pids
=============================================================================
