------------------------------ MODULE Registry ------------------------------
(***************************************************************************)
(* What the service of wye promises to its clients (README.md of the       *)
(* repository, utils/, python/wye/context.py): a registry of jobs and of   *)
(* workers, each worker in one job, whose requests are atomic.  It says    *)
(* nothing of threads, mutexes, pipes or processes; Manager implements it  *)
(* (ManagerRegistry).                                                      *)
(***************************************************************************)
CONSTANTS Workers, Jobs, NoJob

VARIABLES
  live,       \* the workers a client can see
  memberOf,   \* the job each worker was created for; NoJob before that
  health,     \* what the service says of each worker
  open,       \* the jobs a client can see
  given,      \* the job ids given out so far
  phase       \* "up", "stopping" or "down"

regVars == <<live, memberOf, health, open, given, phase>>

RegInit ==
  /\ live = {}
  /\ memberOf = [w \in Workers |-> NoJob]
  /\ health = [w \in Workers |-> "RUNNING"]
  /\ open = {} /\ given = {}
  /\ phase = "up"

NewJob(j) ==
  /\ j \notin given
  /\ \A w \in Workers : memberOf[w] # j
  /\ open' = open \cup {j}
  /\ given' = given \cup {j}
  /\ UNCHANGED <<live, memberOf, health, phase>>

NewWorker(w, j) ==
  /\ memberOf[w] = NoJob
  /\ memberOf' = [memberOf EXCEPT ![w] = j]
  /\ live' = live \cup {w}
  /\ UNCHANGED <<health, open, given, phase>>

Remove(w) ==
  /\ w \in live
  /\ live' = live \ {w}
  /\ UNCHANGED <<memberOf, health, open, given, phase>>

\* The job and all its workers go at once.
CloseJob(j) ==
  /\ j \in open
  /\ open' = open \ {j}
  /\ live' = {w \in live : memberOf[w] # j}
  /\ UNCHANGED <<memberOf, health, given, phase>>

\* A worker that stopped stays in the registry, and stays STOPPED.
ReportStopped(w) ==
  /\ w \in live
  /\ health[w] = "RUNNING"
  /\ health' = [health EXCEPT ![w] = "STOPPED"]
  /\ UNCHANGED <<live, memberOf, open, given, phase>>

\* Nothing is kept: a stopped service has no workers, one that is down no
\* jobs either.
Stop ==
  /\ phase' = "stopping"
  /\ live' = {}
  /\ UNCHANGED <<memberOf, health, open, given>>

GoDown ==
  /\ phase' = "down"
  /\ live' = {} /\ open' = {}
  /\ UNCHANGED <<memberOf, health, given>>

RegNext ==
  \/ /\ phase = "up"
     /\ \/ \E j \in Jobs : NewJob(j) \/ CloseJob(j)
        \/ \E w \in Workers :
             \/ \E j \in Jobs : NewWorker(w, j)
             \/ Remove(w)
             \/ ReportStopped(w)
        \/ Stop
  \/ phase # "down" /\ GoDown

RegSpec == RegInit /\ [][RegNext]_regVars
=============================================================================
