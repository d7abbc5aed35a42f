----------------------------- MODULE JobClient -----------------------------
(***************************************************************************)
(* The python client library (python/wye): Job.implement creates a job and *)
(* then its workers, one request at a time, against the registry of the    *)
(* service (Registry, which Manager implements).  Other clients delete     *)
(* jobs and workers meanwhile, starts fail and leave their worker behind,  *)
(* replies get lost, the service goes, and a client whose call raised an   *)
(* exception calls implement again.                                        *)
(***************************************************************************)
EXTENDS Registry, Naturals, FiniteSets, Sequences, Functions

CONSTANTS
  Clients,        \* programs with one Job object each
  Definition,     \* client -> its workers: [to, parallelism, reports]
  MaxAttempts     \* calls of Job.implement by a client (a bound)

Size(c) == Len(Definition[c])

\* A worker is connected to workers that were defined before it: "the API
\* forces streams to be created back-to-front" (__init__.py).  A job without
\* workers has nothing to build.
ASSUME DefinitionAssumption ==
  /\ Definition \in [Clients -> Seq([to : SUBSET Nat,
                                     parallelism : Nat \ {0},
                                     reports : BOOLEAN])]
  /\ \A c \in Clients :
       /\ Size(c) > 0
       /\ \A k \in 1 .. Size(c) : Definition[c][k].to \subseteq 1 .. (k - 1)

VARIABLES
  pc,         \* client -> idle, implementing, done (returned), failed (raised)
  attempts,   \* client -> calls of implement so far
  id,         \* client -> Job.id
  at,         \* client -> the worker being implemented
  ids,        \* client -> worker -> Worker.ids
  inputs,     \* client -> worker -> Worker.inputs, an address being named by
              \* the instance that listens there
  wired,      \* instance -> the addresses it was told to write to
  early       \* jobs deleted while they were being implemented

objects == <<id, at, ids, inputs>>
vars == <<regVars, pc, attempts, objects, wired, early>>

Init ==
  /\ RegInit
  /\ pc = [c \in Clients |-> "idle"]
  /\ attempts = [c \in Clients |-> 0]
  /\ id = [c \in Clients |-> NoJob]
  /\ at = [c \in Clients |-> 0]
  /\ ids = [c \in Clients |-> [k \in 1 .. Size(c) |-> <<>>]]
  /\ inputs = [c \in Clients |-> [k \in 1 .. Size(c) |-> {}]]
  /\ wired = [w \in Workers |-> {}]
  /\ early = {}

Up == phase = "up"
Raise(c) == pc' = [pc EXCEPT ![c] = "failed"]

\* Identifiers are new: which one is of no matter.
FreshJob == CHOOSE j \in Jobs : j \notin given /\ j # NoJob
FreshWorker == CHOOSE w \in Workers : memberOf[w] = NoJob
JobsLeft == \E j \in Jobs : j \notin given /\ j # NoJob
WorkersLeft == \E w \in Workers : memberOf[w] = NoJob

-----------------------------------------------------------------------------
(* The library *)

\* A bug form: addresses of an earlier attempt are kept.
KeepInputs(c, k) == inputs

\* The head of Worker.implement.
NoInputs(c, k) == [inputs EXCEPT ![c][k] = {}]

StartWorker(c, k) ==
  /\ at' = [at EXCEPT ![c] = k]
  /\ ids' = [ids EXCEPT ![c][k] = <<>>]
  /\ inputs' = NoInputs(c, k)

\* The head of Job.implement: a request that is refused, or whose reply is
\* lost, raises.
create_job(c) ==
  /\ pc[c] # "implementing" /\ attempts[c] < MaxAttempts
  /\ attempts' = [attempts EXCEPT ![c] = @ + 1]
  /\ \/ /\ Up /\ JobsLeft /\ NewJob(FreshJob)
        /\ \/ /\ id' = [id EXCEPT ![c] = FreshJob]
              /\ pc' = [pc EXCEPT ![c] = "implementing"]
              /\ StartWorker(c, 1)
           \/ Raise(c) /\ UNCHANGED objects
     \/ Raise(c) /\ UNCHANGED <<regVars, objects>>
  /\ UNCHANGED <<wired, early>>

\* A bug form: the identifier of the first job is kept.
FirstId(c) == IF attempts[c] > 1 THEN CHOOSE j \in given : TRUE ELSE id[c]

JobId(c) == id[c]

\* The "outputs" of a request.
Outputs(c) == UNION {inputs[c][k] : k \in Definition[c][at[c]].to}

\* One turn of the loop of Worker.implement: the worker is in the registry
\* also when its start failed, or when the reply is lost.
create_worker(c) ==
  /\ pc[c] = "implementing"
  /\ Len(ids[c][at[c]]) < Definition[c][at[c]].parallelism
  /\ \/ /\ Up /\ WorkersLeft
        /\ NewWorker(FreshWorker, JobId(c))
        /\ wired' = [wired EXCEPT ![FreshWorker] = Outputs(c)]
        /\ \/ /\ ids' = [ids EXCEPT ![c][at[c]] = Append(@, FreshWorker)]
              /\ inputs' = [inputs EXCEPT
                   ![c][at[c]] = @ \cup IF Definition[c][at[c]].reports
                                        THEN {FreshWorker} ELSE {}]
              /\ UNCHANGED <<pc, id, at>>
           \/ Raise(c) /\ UNCHANGED objects
     \/ Raise(c) /\ UNCHANGED <<regVars, wired, objects>>
  /\ UNCHANGED <<attempts, early>>

\* The loop of Job.implement goes to the next worker, or returns.
next_worker(c) ==
  /\ pc[c] = "implementing"
  /\ Len(ids[c][at[c]]) = Definition[c][at[c]].parallelism
  /\ \/ /\ at[c] < Size(c)
        /\ StartWorker(c, at[c] + 1)
        /\ UNCHANGED <<pc, id>>
     \/ /\ at[c] = Size(c)
        /\ pc' = [pc EXCEPT ![c] = "done"]
        /\ UNCHANGED objects
  /\ UNCHANGED <<regVars, attempts, wired, early>>

-----------------------------------------------------------------------------
(* What else happens.  That a worker stops is of no matter to the library,  *)
(* which does not ask for it.                                               *)

clientVars == <<pc, attempts, objects, wired>>

delete_job(j) ==
  /\ Up /\ CloseJob(j)
  /\ early' = IF \E c \in Clients : pc[c] = "implementing" /\ id[c] = j
              THEN early \cup {j} ELSE early
  /\ UNCHANGED clientVars

delete_worker(w) == Up /\ Remove(w) /\ UNCHANGED <<clientVars, early>>

ServiceGoes ==
  /\ \/ Up /\ Stop
     \/ phase # "down" /\ GoDown
  /\ UNCHANGED <<clientVars, early>>

Next ==
  \/ \E c \in Clients : create_job(c) \/ create_worker(c) \/ next_worker(c)
  \/ \E j \in Jobs : delete_job(j)
  \/ \E w \in Workers : delete_worker(w)
  \/ ServiceGoes

Spec == Init /\ [][Next]_vars

-----------------------------------------------------------------------------
\* When implement returns, the job is what was defined, whatever attempts
\* failed before and whatever others did meanwhile: every worker has all its
\* instances, all of the new job, and each of them writes to all instances of
\* the workers it is connected to, those of this attempt and no other
\* (Worker.implement, __init__.py).
BuiltAsDefined ==
  \A c \in Clients : pc[c] = "done" =>
    \A k \in 1 .. Size(c) :
      /\ Len(ids[c][k]) = Definition[c][k].parallelism
      /\ \A w \in Range(ids[c][k]) :
           /\ memberOf[w] = id[c]
           /\ wired[w] = UNION {Range(ids[c][t]) :
                t \in {t \in Definition[c][k].to : Definition[c][t].reports}}

\* A worker is never told to write to a worker of another job, and what a
\* client left behind goes with its job: once a job is deleted, and nobody
\* was implementing it, no worker of it is or comes back.
DeletedForGood ==
  /\ \A w \in Workers : \A x \in wired[w] : memberOf[x] = memberOf[w]
  /\ \A w \in live : memberOf[w] \in open \cup early
=============================================================================
