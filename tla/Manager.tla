------------------------------ MODULE Manager ------------------------------
(***************************************************************************)
(* The manager of wye-service (src/src/manager.C, process.C, main.C): the  *)
(* map of workers and the map of jobs, the requests that change them, the  *)
(* thread that watches the worker processes, and the SIGTERM handler.      *)
(*                                                                         *)
(* Two threads share the map of workers under workers_mutex:               *)
(*   - the main thread runs every request and the signal handler, one at a *)
(*     time, from the event loop; it blocks inside a request, the mutex    *)
(*     held, to read a worker's control pipe and to wait for a process it  *)
(*     terminates;                                                         *)
(*   - the monitor thread sweeps the map once a second.                    *)
(* The worker processes run, talk and die at any time.                     *)
(*                                                                         *)
(* jobs_mutex is left out: the main thread alone takes it, and only around *)
(* workers_mutex.  The read-only requests (get-workers, get-jobs, get-job) *)
(* and the ones rejected before they change the maps are stuttering steps. *)
(***************************************************************************)
EXTENDS Processes

CONSTANTS
  Jobs,           \* job ids, one uuid per job object (job.C)
  NoJob,
  NoPid,          \* a null process::proc
  LaunchMayFail   \* may pipe(2) or fork(2) fail?

ASSUME ManagerAssumption ==
  /\ NoJob \notin Jobs
  /\ NoPid \notin Pids
  /\ LaunchMayFail \in BOOLEAN

VARIABLES
  workers,     \* keys of manager::workers
  job,         \* worker::job_id
  state,       \* worker::state
  proc,        \* process::proc, the pid of the child object or NoPid
  reply,       \* how the create-worker request of each id was answered
  jobs,        \* keys of manager::jobs
  issued,      \* every job id given out so far
  mutex,       \* holder of workers_mutex
  pc,          \* what the main thread is doing
  cur,         \* the worker it is starting or destroying
  after,       \* pc to go back to once cur is destroyed
  target,      \* the job that delete-job is removing
  pipe,        \* what the control pipe of the worker being started holds
  todo,        \* workers the monitor's sweep has still to visit
  sigpending,  \* a SIGINT or SIGTERM waits for the event loop
  svc          \* the service process

mainVars == <<pc, cur, after, target, pipe>>
mapVars  == <<workers, job, state, proc, reply>>
jobVars  == <<jobs, issued>>
runVars  == <<sigpending, svc>>
vars == <<procVars, mapVars, jobVars, mainVars, runVars, mutex, todo>>

PCs == {"idle", "reading", "reaping", "purging", "clearing"}

TypeOK ==
  /\ PTypeOK
  /\ workers \subseteq Workers
  /\ job \in [Workers -> Jobs \cup {NoJob}]
  /\ state \in [Workers -> {"RUNNING", "STOPPED"}]
  /\ proc \in [Workers -> Pids \cup {NoPid}]
  /\ reply \in [Workers -> {"unborn", "pending", "ok", "error"}]
  /\ jobs \subseteq Jobs
  /\ issued \subseteq Jobs
  /\ mutex \in {"free", "main", "monitor"}
  /\ pc \in PCs
  /\ cur \in Workers \cup {Nobody}
  /\ after \in {"idle", "purging", "clearing"}
  /\ target \in Jobs \cup {NoJob}
  /\ pipe \in {"silent", "running", "bad", "eof"}
  /\ todo \subseteq Workers
  /\ sigpending \in BOOLEAN
  /\ svc \in {"up", "aborted", "exited"}

Init ==
  /\ PInit
  /\ workers = {}
  /\ job = [w \in Workers |-> NoJob]
  /\ state = [w \in Workers |-> "RUNNING"]
  /\ proc = [w \in Workers |-> NoPid]
  /\ reply = [w \in Workers |-> "unborn"]
  /\ jobs = {} /\ issued = {}
  /\ mutex = "free"
  /\ pc = "idle" /\ cur = Nobody /\ after = "idle" /\ target = NoJob
  /\ pipe = "silent"
  /\ todo = {}
  /\ sigpending = FALSE
  /\ svc = "up"

Up == svc = "up"

\* A bug form: a request that does not take workers_mutex.
NoLock == TRUE

\* std::lock_guard<std::mutex> guard(workers_mutex), in the main thread.
WorkersMutexFree == mutex = "free"

\* The event loop picks the next request or signal.
MainIdle == Up /\ pc = "idle"

\* The main thread is done with its request: the guard is released.
Return ==
  /\ pc' = "idle"
  /\ cur' = Nobody
  /\ mutex' = "free"

-----------------------------------------------------------------------------
(* Jobs *)

\* A fresh uuid, never seen before, not even in a request.
create_job(j) ==
  /\ MainIdle
  /\ j \notin issued
  /\ \A w \in Workers : job[w] # j
  /\ jobs' = jobs \cup {j}
  /\ issued' = issued \cup {j}
  /\ UNCHANGED <<procVars, mapVars, mainVars, runVars, mutex, todo>>

-----------------------------------------------------------------------------
(* Starting a worker *)

\* process::run failed before there was a child: the worker is in the map,
\* RUNNING, without a process.
LaunchFails(w) ==
  /\ LaunchMayFail
  /\ reply' = [reply EXCEPT ![w] = "error"]
  /\ UNCHANGED <<procVars, proc, mainVars, mutex>>

\* application_process::run_process: answered as soon as it is forked.
LaunchApplication(w, p) ==
  /\ posix_start(w, p)
  /\ proc' = [proc EXCEPT ![w] = p]
  /\ reply' = [reply EXCEPT ![w] = "ok"]
  /\ UNCHANGED <<mainVars, mutex>>

\* process::run_process: the mutex stays taken while the pipe is read.
LaunchAndRead(w, p) ==
  /\ posix_start(w, p)
  /\ proc' = [proc EXCEPT ![w] = p]
  /\ reply' = [reply EXCEPT ![w] = "pending"]
  /\ pc' = "reading"
  /\ cur' = w
  /\ pipe' = "silent"
  /\ mutex' = "main"
  /\ UNCHANGED <<after, target>>

\* The worker is put in the map before it is run; nothing asks whether its
\* job exists.
create_worker(w, j) ==
  /\ MainIdle
  /\ WorkersMutexFree
  /\ reply[w] = "unborn"
  /\ workers' = workers \cup {w}
  /\ job' = [job EXCEPT ![w] = j]
  /\ \/ LaunchFails(w)
     \/ \E p \in Pids : LaunchApplication(w, p) \/ LaunchAndRead(w, p)
  /\ UNCHANGED <<state, jobVars, runVars, todo>>

\* The worker (or a process it started) writes the line that decides the
\* handshake, or the last write end of its control pipe is closed.
WorkerReports(line) ==
  /\ Up
  /\ pc = "reading"
  /\ pipe = "silent"
  /\ pipe' = line
  /\ UNCHANGED <<procVars, mapVars, jobVars, pc, cur, after, target, runVars,
                 mutex, todo>>

\* A bug form: whatever ends the handshake is taken for RUNNING.
AlwaysOk(line) == "ok"

ReplyTo(line) == IF line = "running" THEN "ok" ELSE "error"

\* run_process returns or throws; either way the worker stays in the map
\* and its process is left alone.
ReadReport ==
  /\ Up
  /\ pc = "reading"
  /\ pipe # "silent"
  /\ reply' = [reply EXCEPT ![cur] = ReplyTo(pipe)]
  /\ Return
  /\ pipe' = "silent"
  /\ UNCHANGED <<procVars, workers, job, state, proc, jobVars, after, target,
                 runVars, todo>>

-----------------------------------------------------------------------------
(* Destroying workers *)

\* The service ends otherwise than by its signal handler: std::terminate,
\* from a destructor or the monitor thread that throws.
Abort == svc' = "aborted"

\* process::~process() of a worker just taken out of the map: nothing to
\* kill, or kill and wait; kill(2) fails on a process that was waited for,
\* and an exception that leaves a destructor ends the service.
Destroy(w, next) ==
  \/ /\ proc[w] = NoPid
     /\ pc' = next
     /\ mutex' = IF next = "idle" THEN "free" ELSE "main"
     /\ UNCHANGED <<procVars, cur, after, svc>>
  \/ /\ proc[w] \in Existing
     /\ terminate(proc[w])
     /\ pc' = "reaping"
     /\ cur' = w
     /\ after' = next
     /\ mutex' = "main"
     /\ UNCHANGED svc
  \/ /\ proc[w] \notin Existing \cup {NoPid}
     /\ Abort
     /\ UNCHANGED <<procVars, pc, cur, after, mutex>>

\* A bug form: the entry stays in the map.
NotErased(w) == workers

WithoutWorker(w) == workers \ {w}

Erase(w, next) ==
  /\ workers' = WithoutWorker(w)
  /\ Destroy(w, next)
  /\ UNCHANGED <<job, state, proc, reply, issued, target, pipe, sigpending,
                 todo>>

delete_worker(w) ==
  /\ MainIdle
  /\ WorkersMutexFree
  /\ w \in workers
  /\ Erase(w, "idle")
  /\ UNCHANGED jobs

\* The blocking wait of ~process ends: the process is gone.
FinishDestroy ==
  /\ Up
  /\ pc = "reaping"
  /\ Reap(proc[cur])
  /\ proc' = [proc EXCEPT ![cur] = NoPid]
  /\ pc' = after
  /\ cur' = Nobody
  /\ mutex' = IF after = "idle" THEN "free" ELSE "main"
  /\ after' = "idle"
  /\ UNCHANGED <<workers, job, state, reply, jobVars, target, pipe, runVars,
                 todo>>

delete_job(j) ==
  /\ MainIdle
  /\ WorkersMutexFree
  /\ j \in jobs
  /\ pc' = "purging"
  /\ target' = j
  /\ mutex' = "main"
  /\ UNCHANGED <<procVars, mapVars, jobVars, cur, after, pipe, runVars, todo>>

\* A bug form: one pass over the map, which erases nothing.
NoMember == {}

\* What delete_job's loop still has to erase.
Members == {w \in workers : job[w] = target}

PurgeWorker(w) ==
  /\ Up
  /\ pc = "purging"
  /\ w \in Members
  /\ Erase(w, "purging")
  /\ UNCHANGED jobs

PurgeDone ==
  /\ Up
  /\ pc = "purging"
  /\ Members = {}
  /\ jobs' = jobs \ {target}
  /\ target' = NoJob
  /\ Return
  /\ UNCHANGED <<procVars, mapVars, issued, after, pipe, runVars, todo>>

-----------------------------------------------------------------------------
(* The signal handler of main.C, and the other ways the service ends *)

\* A signal arrives.  If the kernel delivers it to the main thread while
\* that thread is blocked, the blocked call fails with EINTR: the read is
\* then taken for an end of file, the wait throws out of the destructor.
Signal ==
  /\ Up
  /\ sigpending' = TRUE
  /\ \/ UNCHANGED <<pipe, svc>>
     \/ pc = "reading" /\ pipe = "silent" /\ pipe' = "eof" /\ UNCHANGED svc
     \/ pc = "reaping" /\ Alive(proc[cur]) /\ Abort /\ UNCHANGED pipe
  /\ UNCHANGED <<procVars, mapVars, jobVars, pc, cur, after, target, mutex,
                 todo>>

stop ==
  /\ MainIdle
  /\ sigpending
  /\ WorkersMutexFree
  /\ pc' = "clearing"
  /\ mutex' = "main"
  /\ UNCHANGED <<procVars, mapVars, jobVars, cur, after, target, pipe,
                 runVars, todo>>

\* One node of workers.clear().
ClearWorker(w) ==
  /\ Up
  /\ pc = "clearing"
  /\ w \in workers
  /\ Erase(w, "clearing")
  /\ UNCHANGED jobs

\* exit(1)
ClearDone ==
  /\ Up
  /\ pc = "clearing"
  /\ workers = {}
  /\ svc' = "exited"
  /\ mutex' = "free"
  /\ UNCHANGED <<procVars, mapVars, jobVars, mainVars, sigpending, todo>>

\* The acceptor fails (exit(1), without stop), or an exception other than
\* the peer's end of file leaves a connection's coroutine, and with it
\* ios.run() and main: no worker is terminated.
connection_throws ==
  /\ MainIdle
  /\ Abort
  /\ UNCHANGED <<procVars, mapVars, jobVars, mainVars, sigpending, mutex, todo>>

-----------------------------------------------------------------------------
(* The monitor thread *)

SweepBegin ==
  /\ Up
  /\ mutex = "free"
  /\ mutex' = "monitor"
  /\ todo' = workers
  /\ UNCHANGED <<procVars, mapVars, jobVars, mainVars, runVars>>

\* A bug form: waitpid's 0, "still running", is taken for a failure.
AnyFailure(p) == pstat[p] # "zombie"

\* A bug form: the result of waitpid is not looked at.
NeverFails(p) == FALSE

\* waitpid(.., WNOHANG) returns -1: not a child, or waited for already.
WaitFails(p) == p \notin Existing

\* A bug form: the null child object is not paired with STOPPED.
StaysRunning(w) == state

MarkStopped(w) == [state EXCEPT ![w] = "STOPPED"]

\* process::is_running.  The first waitpid after a death succeeds and the
\* worker stays RUNNING; the next one finds no child.
is_running(w) ==
  \/ /\ state[w] # "RUNNING"
     /\ UNCHANGED <<procVars, state, proc, svc>>
  \/ /\ state[w] = "RUNNING"
     /\ proc[w] = NoPid
     /\ Abort
     /\ UNCHANGED <<procVars, state, proc>>
  \/ /\ state[w] = "RUNNING"
     /\ proc[w] # NoPid
     /\ ~WaitFails(proc[w])
     /\ Reap(proc[w]) \/ (Alive(proc[w]) /\ UNCHANGED procVars)
     /\ UNCHANGED <<state, proc, svc>>
  \/ /\ state[w] = "RUNNING"
     /\ proc[w] # NoPid
     /\ WaitFails(proc[w])
     /\ state' = MarkStopped(w)
     /\ proc' = [proc EXCEPT ![w] = NoPid]
     /\ UNCHANGED <<procVars, svc>>

SweepWorker(w) ==
  /\ Up
  /\ mutex = "monitor"
  /\ w \in todo
  /\ is_running(w)
  /\ todo' = todo \ {w}
  /\ UNCHANGED <<workers, job, reply, jobVars, mainVars, sigpending, mutex>>

SweepEnd ==
  /\ Up
  /\ mutex = "monitor"
  /\ todo = {}
  /\ mutex' = "free"
  /\ UNCHANGED <<procVars, mapVars, jobVars, mainVars, runVars, todo>>

-----------------------------------------------------------------------------
(* The worker processes *)

WorkerExit(p) ==
  /\ Up
  /\ Exit(p)
  /\ UNCHANGED <<mapVars, jobVars, mainVars, runVars, mutex, todo>>

-----------------------------------------------------------------------------
\* The service is over; what its orphans do is not followed.
Down == ~Up /\ UNCHANGED vars

Request ==
  \/ \E j \in Jobs : create_job(j) \/ delete_job(j)
  \/ \E w \in Workers, j \in Jobs : create_worker(w, j)
  \/ \E w \in Workers : delete_worker(w)

\* The steps of a request or of the handler, once it has started.
Continue ==
  \/ ReadReport
  \/ FinishDestroy
  \/ \E w \in Workers : PurgeWorker(w) \/ ClearWorker(w)
  \/ PurgeDone
  \/ ClearDone

Monitor ==
  \/ SweepBegin
  \/ \E w \in Workers : SweepWorker(w)
  \/ SweepEnd

Report == \E line \in {"running", "bad", "eof"} : WorkerReports(line)

Next ==
  \/ Request
  \/ Signal
  \/ stop
  \/ connection_throws
  \/ Continue
  \/ Monitor
  \/ Report
  \/ \E p \in Pids : WorkerExit(p)
  \/ Down

Spec == Init /\ [][Next]_vars

\* Both threads are scheduled; the event loop serves its queue in order, so
\* a signal's turn comes, and the monitor's sleep leaves workers_mutex free
\* for a second at a time; a worker that is starting says something or
\* closes its pipe; SIGTERM ends a process.  The last two are what the
\* worker programs of the repository do (python/wye/func.py, examples/).
Fairness ==
  /\ WF_vars(Continue)
  /\ WF_vars(Monitor)
  /\ WF_vars(Report)
  /\ SF_vars(stop)
  /\ \A p \in Pids : WF_vars(p \in signalled /\ WorkerExit(p))

FairSpec == Spec /\ Fairness
-----------------------------------------------------------------------------
(* Safety *)

\* The monitor's iterator (manager::run walks the map with
\* v = workers.begin() .. v++) never stands on an entry that a request or
\* the signal handler has erased: during a sweep what is left to visit is
\* in the map, and outside a sweep nothing is.
SweepValid ==
  /\ todo # {} => mutex = "monitor"
  /\ todo \subseteq workers

\* No child of the service is ever lost: every process that waitpid could
\* name is held by the worker it was forked for, and that worker is in the
\* map or is the one whose destructor is waiting for it.  This is what
\* manager::run, delete_worker, delete_job and stop do together to the
\* child objects of process.C.
NoLeakedChild ==
  \A p \in Existing :
    LET w == powner[p]
    IN /\ w \in Workers
       /\ proc[w] = p
       /\ w \in workers \/ (pc = "reaping" /\ cur = w)

\* A worker that get-workers and get-job report STOPPED (process::describe)
\* has no process, running or waiting to be reaped: is_running never gives
\* up a process that is still there.
StoppedIsDead ==
  \A w \in Workers :
    state[w] = "STOPPED" => \A p \in Existing : powner[p] # w

\* The only RUNNING workers without a child object, on which is_running
\* throws, are the ones whose create-worker request was answered with an
\* error: no worker whose start was acknowledged, and none that the monitor
\* has found dead, can make the monitor thread throw.
NullProcFailed ==
  \A w \in workers :
    state[w] = "RUNNING" /\ proc[w] = NoPid => reply[w] = "error"

\* When the service leaves through exit(1) after a SIGTERM, every worker
\* process it ever started has been killed and waited for (manager::stop).
StopReapsAll == svc = "exited" => Existing = {}

\* When delete_job forgets a job no worker of it is in the map, and no
\* process of any worker that was ever in it exists, dead or alive: the
\* destructors have waited for every one, although the monitor reaps too.
PurgeComplete ==
  [][\A j \in jobs \ jobs' :
       /\ \A w \in workers' : job[w] # j
       /\ \A p \in Existing' : job'[powner'[p]] # j]_vars

\* A process is sent SIGTERM only for a worker that has left the map: no
\* request kills the process of a worker that stays.  It needs that the pid
\* is not reused while a child object still names it.
OnlyRemovedKilled ==
  \A p \in signalled \ Reusable : powner[p] \notin workers

(* Liveness *)

\* Every request, and the signal handler, comes to its end or the service
\* does: what has begun is never stuck on a control pipe or in the wait of a
\* destructor.  (A request that still waits for workers_mutex has not begun.)
RequestCompletes == pc # "idle" ~> (pc = "idle" \/ ~Up)

\* SIGINT and SIGTERM end the service, whatever it is doing when they come:
\* the handler of main.C gets its turn, and its loop over the workers ends.
SignalEndsService == sigpending ~> ~Up

Dead(w) == proc[w] \notin Existing \cup Reusable \cup {NoPid}

\* A worker whose process is over is found out: once its process was
\* reaped, and while no other process has its pid, the monitor marks it STOPPED, or it is deleted first.
DeadWorkerMarked ==
  \A w \in Workers :
    (w \in workers /\ Dead(w))
      ~> (state[w] = "STOPPED" \/ w \notin workers \/ ~Up)

(* What the comments of the code say, and the code does not do *)

\* process.C:125 "Process is shared ptr, will go out of scope and be
\* terminated.": after a failed start no process of the worker is running.
FailedStartTerminated ==
  \A p \in Existing : Alive(p) => reply[powner[p]] # "error"

\* manager.C:377 "Failed workers aren't deleted just marked as STOPPED": when
\* the monitor comes to a worker whose launch failed, which has no child
\* object (NullProcFailed), it marks it STOPPED.
FailedMarkedStopped ==
  [][\A w \in Workers :
       SweepWorker(w) /\ state[w] = "RUNNING" /\ proc[w] = NoPid
         => state'[w] = "STOPPED"]_vars

Clearing == pc = "clearing" \/ (pc = "reaping" /\ after = "clearing")

\* manager.C:408 "Destructors will kill processors.": once stop is over,
\* however it ended, every worker process that still runs was sent SIGTERM.
StopKillsAll == ~Up /\ Clearing => \A p \in Pids : Alive(p) => p \in signalled
=============================================================================
