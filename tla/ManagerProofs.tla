--------------------------- MODULE ManagerProofs ---------------------------
(***************************************************************************)
(* The safety of the manager, for every set of workers, pids and jobs, and *)
(* that it implements the registry.                                        *)
(*                                                                         *)
(* What makes the invariants inductive is who may touch what: the main     *)
(* thread holds workers_mutex whenever it is in the middle of a request    *)
(* (Locked), so the monitor can neither reap the process a destructor is   *)
(* about to wait for (Reaping) nor mark the worker whose start is being    *)
(* read (Starting); and an id that was never given out has no trace in the *)
(* map or among the child objects (Unborn), so a fork never overwrites the *)
(* child object of a process that still exists.                            *)
(***************************************************************************)
EXTENDS ManagerRegistry, TLAPS

Locked == Up => (mutex = "main" <=> pc # "idle")

Starting == pc = "reading" => cur \in workers /\ reply[cur] = "pending"

Reaping ==
  pc = "reaping" =>
    /\ cur \in Workers
    /\ cur \notin workers
    /\ proc[cur] \in Existing

Unborn ==
  \A w \in Workers : reply[w] = "unborn" =>
    /\ w \notin workers
    /\ state[w] = "RUNNING"
    /\ proc[w] = NoPid

StoppedNoProc == \A w \in Workers : state[w] = "STOPPED" => proc[w] = NoPid

IInv ==
  /\ TypeOK
  /\ Locked
  /\ SweepValid
  /\ Starting
  /\ Reaping
  /\ Unborn
  /\ StoppedNoProc
  /\ NoLeakedChild
  /\ NullProcFailed
  /\ StopReapsAll

-----------------------------------------------------------------------------
(* What the kernel calls do to the children that exist *)

\* A fork adds its child, a pid that named no child before.
LEMMA StartExisting ==
  ASSUME PTypeOK, NEW w \in Workers, NEW p \in Pids, posix_start(w, p)
  PROVE  /\ p \notin Existing
         /\ Existing' = Existing \cup {p}
         /\ powner'[p] = w
         /\ \A q \in Pids \ {p} : powner'[q] = powner[q]
BY DEF PTypeOK, PStates, posix_start, Forkable, Existing

\* A wait removes the child it names, which exists, and no other.
LEMMA ReapExisting ==
  ASSUME PTypeOK, NEW p \in Pids, Reap(p)
  PROVE  /\ p \in Existing
         /\ Existing' = Existing \ {p}
         /\ \A q \in Pids \ {p} : powner'[q] = powner[q]
BY DEF PTypeOK, PStates, Reap, Existing

\* A process that ends stays a child until it is waited for.
LEMMA ExitExisting ==
  ASSUME PTypeOK, NEW p \in Pids, Exit(p)
  PROVE  Existing' = Existing /\ powner' = powner
BY DEF PTypeOK, PStates, Exit, Alive, Existing

\* A signal alone ends nothing.
LEMMA TerminateExisting ==
  ASSUME NEW p \in Pids, terminate(p)
  PROVE  Existing' = Existing /\ powner' = powner
BY DEF terminate, Existing

LEMMA SameExisting ==
  ASSUME UNCHANGED procVars
  PROVE  Existing' = Existing /\ powner' = powner
BY DEF procVars, Existing

-----------------------------------------------------------------------------
(* Type correctness *)

USE ManagerAssumption, ProcessesAssumption

LEMMA StartType ==
  ASSUME PTypeOK, NEW w \in Workers, NEW p \in Pids, posix_start(w, p)
  PROVE  PTypeOK'
BY DEF PTypeOK, PStates, posix_start

LEMMA ReapType ==
  ASSUME PTypeOK, NEW p \in Pids, Reap(p)
  PROVE  PTypeOK'
BY DEF PTypeOK, PStates, Reap

LEMMA TerminateType ==
  ASSUME PTypeOK, NEW p \in Pids, terminate(p)
  PROVE  PTypeOK'
BY DEF PTypeOK, terminate, Killed

LEMMA ExitType ==
  ASSUME PTypeOK, NEW p \in Pids, Exit(p)
  PROVE  PTypeOK'
BY DEF PTypeOK, PStates, Exit

LEMMA SamePType == PTypeOK /\ UNCHANGED procVars => PTypeOK'
BY DEF PTypeOK, procVars

LEMMA InitType == Init => TypeOK
BY DEF Init, PInit, TypeOK, PTypeOK, PStates, PCs

\* Taking a worker out of the map, whatever its destructor meets.
LEMMA EraseType ==
  ASSUME TypeOK, NEW w \in Workers, w \in workers,
         NEW next \in {"idle", "purging", "clearing"},
         Erase(w, next), jobs' = jobs
  PROVE  TypeOK'
<1>1. PTypeOK'
  <2>1. CASE UNCHANGED procVars
    BY <2>1, SamePType DEF TypeOK
  <2>2. CASE proc[w] \in Existing /\ terminate(proc[w])
    BY <2>2, TerminateType DEF TypeOK, Existing
  <2> QED BY <2>1, <2>2 DEF Erase, Destroy
<1>2. /\ pc' \in PCs /\ cur' \in Workers \cup {Nobody}
      /\ after' \in {"idle", "purging", "clearing"}
      /\ mutex' \in {"free", "main", "monitor"}
      /\ svc' \in {"up", "aborted", "exited"}
  BY DEF Erase, Destroy, Abort, TypeOK, PCs
<1> QED BY <1>1, <1>2 DEF Erase, WithoutWorker, TypeOK

LEMMA NextType == TypeOK /\ [Next]_vars => TypeOK'
<1> SUFFICES ASSUME TypeOK, [Next]_vars PROVE TypeOK'
  OBVIOUS
<1> USE DEF TypeOK, PCs
<1>1. ASSUME NEW j \in Jobs, create_job(j) PROVE TypeOK'
  BY <1>1, SamePType DEF create_job, mapVars, mainVars, runVars
<1>2. ASSUME NEW w \in Workers, NEW j \in Jobs, create_worker(w, j)
      PROVE TypeOK'
  <2> USE <1>2 DEF create_worker, jobVars, runVars, mainVars
  <2>1. CASE LaunchFails(w)
    BY <2>1, SamePType DEF LaunchFails
  <2>2. ASSUME NEW p \in Pids, LaunchApplication(w, p) PROVE TypeOK'
    BY <2>2, StartType DEF LaunchApplication
  <2>3. ASSUME NEW p \in Pids, LaunchAndRead(w, p) PROVE TypeOK'
    BY <2>3, StartType DEF LaunchAndRead
  <2> QED BY <2>1, <2>2, <2>3
<1>3. ASSUME NEW w \in Workers, delete_worker(w) PROVE TypeOK'
  BY <1>3, EraseType DEF delete_worker
<1>4. ASSUME NEW j \in Jobs, delete_job(j) PROVE TypeOK'
  BY <1>4, SamePType DEF delete_job, mapVars, jobVars, runVars
<1>5. CASE Signal
  BY <1>5, SamePType DEF Signal, Abort, mapVars, jobVars
<1>6. CASE stop
  BY <1>6, SamePType DEF stop, mapVars, jobVars, runVars
<1>7. CASE ReadReport
  BY <1>7, SamePType DEF ReadReport, ReplyTo, Return, jobVars, runVars
<1>8. CASE FinishDestroy
  <2> USE <1>8 DEF FinishDestroy
  <2>1. PTypeOK'
    BY ReapType DEF Reap, PTypeOK
  <2> QED BY <2>1 DEF jobVars, runVars
<1>9. ASSUME NEW w \in Workers, PurgeWorker(w) PROVE TypeOK'
  BY <1>9, EraseType DEF PurgeWorker, Members
<1>10. ASSUME NEW w \in Workers, ClearWorker(w) PROVE TypeOK'
  BY <1>10, EraseType DEF ClearWorker
<1>11. CASE PurgeDone
  BY <1>11, SamePType DEF PurgeDone, Return, mapVars, runVars
<1>12. CASE ClearDone
  BY <1>12, SamePType DEF ClearDone, mapVars, jobVars, mainVars
<1>13. CASE SweepBegin
  BY <1>13, SamePType DEF SweepBegin, mapVars, jobVars, mainVars, runVars
<1>14. ASSUME NEW w \in Workers, SweepWorker(w) PROVE TypeOK'
  <2> USE <1>14 DEF SweepWorker
  <2>1. PTypeOK'
    BY SamePType, ReapType DEF is_running, WaitFails
  <2>2. /\ state' \in [Workers -> {"RUNNING", "STOPPED"}]
        /\ proc' \in [Workers -> Pids \cup {NoPid}]
        /\ svc' \in {"up", "aborted", "exited"}
    BY DEF is_running, MarkStopped, Abort
  <2> QED BY <2>1, <2>2 DEF jobVars, mainVars
<1>15. CASE SweepEnd
  BY <1>15, SamePType DEF SweepEnd, mapVars, jobVars, mainVars, runVars
<1>16. ASSUME NEW line \in {"running", "bad", "eof"}, WorkerReports(line)
       PROVE TypeOK'
  BY <1>16, SamePType DEF WorkerReports, mapVars, jobVars, runVars
<1>17. ASSUME NEW p \in Pids, WorkerExit(p) PROVE TypeOK'
  BY <1>17, ExitType DEF WorkerExit, mapVars, jobVars, mainVars, runVars
<1>18. CASE UNCHANGED vars
  BY <1>18, SamePType
    DEF vars, mapVars, jobVars, mainVars, runVars
<1>19. CASE connection_throws
  BY <1>19, SamePType
    DEF connection_throws, Abort, mapVars, jobVars, mainVars
<1> QED
  BY <1>1, <1>2, <1>3, <1>4, <1>5, <1>6, <1>7, <1>8, <1>9, <1>10, <1>11,
     <1>12, <1>13, <1>14, <1>15, <1>16, <1>17, <1>18, <1>19
  DEF Next, Request, Continue, Monitor, Report, Down

\* The shape of every variable of the manager and of the kernel's process
\* table is kept by every step of both threads.
THEOREM TypeCorrect == Spec => []TypeOK
BY InitType, NextType, PTL DEF Spec

-----------------------------------------------------------------------------
(* The inductive invariant *)

LEMMA InitInv == Init => IInv
<1> SUFFICES ASSUME Init PROVE IInv
  OBVIOUS
<1>1. TypeOK
  BY InitType
<1>2. Existing = {}
  BY DEF Init, PInit, Existing
<1> QED
  BY <1>1, <1>2
  DEF Init, IInv, Locked, SweepValid, Starting, Reaping, Unborn,
      StoppedNoProc, NoLeakedChild, NullProcFailed, StopReapsAll

\* The conjuncts that read the map, the child objects and the children.
ChildInv ==
  /\ Reaping
  /\ Unborn
  /\ StoppedNoProc
  /\ NoLeakedChild
  /\ NullProcFailed

\* A new worker and its child, if the launch got that far: the id has no
\* child object, so none is overwritten.
LEMMA CreateInv ==
  ASSUME IInv, NEW w \in Workers, NEW j \in Jobs, create_worker(w, j)
  PROVE  ChildInv'
<1> USE DEF create_worker, MainIdle, IInv, TypeOK, Unborn
<1>0. pc = "idle" /\ proc[w] = NoPid /\ state[w] = "RUNNING"
      /\ w \notin workers /\ state' = state
      /\ workers' = workers \cup {w}
  OBVIOUS
<1>1. CASE LaunchFails(w)
  <2>1. /\ Existing' = Existing /\ powner' = powner
        /\ pc' = "idle" /\ proc' = proc
        /\ reply' = [reply EXCEPT ![w] = "error"]
    BY <1>0, <1>1, SameExisting DEF LaunchFails, mainVars
  <2> QED
    BY <1>0, <2>1
    DEF ChildInv, Reaping, StoppedNoProc, NoLeakedChild, NullProcFailed
<1>2. ASSUME NEW p \in Pids, LaunchApplication(w, p) \/ LaunchAndRead(w, p)
      PROVE  ChildInv'
  <2>1. posix_start(w, p)
    BY <1>2 DEF LaunchApplication, LaunchAndRead
  <2>2. /\ p \notin Existing
        /\ Existing' = Existing \cup {p}
        /\ powner'[p] = w
        /\ \A q \in Pids \ {p} : powner'[q] = powner[q]
    BY <2>1, StartExisting
  <2>3. /\ proc' = [proc EXCEPT ![w] = p]
        /\ \E r \in {"ok", "pending"} : reply' = [reply EXCEPT ![w] = r]
        /\ pc' # "reaping"
    BY <1>0, <1>2 DEF LaunchApplication, LaunchAndRead, mainVars
  <2>4. NoLeakedChild'
    <3> SUFFICES ASSUME NEW q \in Existing'
                 PROVE  /\ powner'[q] \in Workers
                        /\ proc'[powner'[q]] = q
                        /\ powner'[q] \in workers'
      BY DEF NoLeakedChild
    <3>1. CASE q = p
      BY <1>0, <2>2, <2>3, <3>1
    <3>2. CASE q # p
      <4>1. q \in Existing /\ q \in Pids /\ powner'[q] = powner[q]
        BY <2>2, <3>2 DEF Existing
      <4>2. powner[q] \in workers /\ proc[powner[q]] = q
        BY <1>0, <4>1 DEF NoLeakedChild
      <4> QED BY <1>0, <2>3, <4>1, <4>2
    <3> QED BY <3>1, <3>2
  <2> QED
    BY <1>0, <2>3, <2>4
    DEF ChildInv, Reaping, StoppedNoProc, NullProcFailed
<1> QED BY <1>1, <1>2

\* Taking a worker out of the map: its child, if there is one, is killed
\* and becomes the one the destructor waits for.
LEMMA EraseInv ==
  ASSUME IInv, NEW w \in Workers, w \in workers, pc # "reaping",
         NEW next \in {"idle", "purging", "clearing"}, Erase(w, next)
  PROVE  ChildInv'
<1> USE DEF IInv, TypeOK
<1>1. /\ workers' = workers \ {w}
      /\ state' = state /\ proc' = proc /\ reply' = reply
  BY DEF Erase, WithoutWorker
<1>2. Existing' = Existing /\ powner' = powner
  BY SameExisting, TerminateExisting DEF Erase, Destroy, Existing
<1>3. proc[w] \in Existing => pc' = "reaping" /\ cur' = w
  BY DEF Erase, Destroy, Existing
<1>4. pc' = "reaping" => proc[w] \in Existing /\ cur' = w
  BY DEF Erase, Destroy
<1>5. NoLeakedChild'
  BY <1>1, <1>2, <1>3 DEF NoLeakedChild
<1> QED
  BY <1>1, <1>2, <1>4, <1>5
  DEF ChildInv, Reaping, Unborn, StoppedNoProc, NullProcFailed

\* The destructor's wait gives back the child of cur, and of no other
\* worker of the map.
LEMMA FinishInv ==
  ASSUME IInv, FinishDestroy
  PROVE  ChildInv'
<1> USE DEF IInv, TypeOK
<1>1. pc = "reaping" /\ cur \in Workers /\ cur \notin workers
      /\ proc[cur] \in Existing /\ proc[cur] \in Pids
  BY DEF FinishDestroy, Reaping, Existing
<1>2. /\ Existing' = Existing \ {proc[cur]}
      /\ \A q \in Pids \ {proc[cur]} : powner'[q] = powner[q]
  BY <1>1, ReapExisting DEF FinishDestroy
<1>3. /\ proc' = [proc EXCEPT ![cur] = NoPid]
      /\ workers' = workers /\ state' = state /\ reply' = reply
      /\ pc' # "reaping"
  BY DEF FinishDestroy
<1>4. NoLeakedChild'
  <2> SUFFICES ASSUME NEW q \in Existing'
               PROVE  /\ powner'[q] \in Workers
                      /\ proc'[powner'[q]] = q
                      /\ powner'[q] \in workers'
    BY DEF NoLeakedChild
  <2>1. q \in Existing /\ q # proc[cur] /\ powner'[q] = powner[q]
    BY <1>2 DEF Existing
  <2>2. /\ powner[q] \in Workers /\ proc[powner[q]] = q
        /\ powner[q] \in workers
    BY <1>1, <2>1 DEF NoLeakedChild
  <2> QED BY <1>1, <1>3, <2>1, <2>2
<1> QED
  BY <1>1, <1>3, <1>4
  DEF ChildInv, Reaping, Unborn, StoppedNoProc, NullProcFailed

\* The monitor gives up a child object only when its process is gone, and
\* reaps only while no destructor is waiting.
LEMMA SweepInv ==
  ASSUME IInv, NEW w \in Workers, SweepWorker(w)
  PROVE  ChildInv'
<1> USE DEF IInv, TypeOK
<1>1. /\ w \in workers /\ pc = "idle" /\ pc' = "idle"
      /\ workers' = workers /\ reply' = reply
  BY DEF SweepWorker, SweepValid, Locked, mainVars, PCs
<1>2. reply[w] # "unborn"
  BY <1>1 DEF Unborn
<1>3. CASE UNCHANGED <<procVars, state, proc>>
  BY <1>1, <1>3, SameExisting
  DEF ChildInv, Reaping, Unborn, StoppedNoProc, NoLeakedChild, NullProcFailed
<1>4. CASE /\ proc[w] # NoPid /\ Reap(proc[w])
           /\ UNCHANGED <<state, proc>>
  <2>1. /\ proc[w] \in Pids
        /\ Existing' \subseteq Existing
        /\ \A q \in Existing' : powner'[q] = powner[q]
    BY <1>4, ReapExisting DEF Existing
  <2> QED
    BY <1>1, <1>4, <2>1
    DEF ChildInv, Reaping, Unborn, StoppedNoProc, NoLeakedChild,
        NullProcFailed
<1>5. CASE /\ WaitFails(proc[w])
           /\ state' = MarkStopped(w)
           /\ proc' = [proc EXCEPT ![w] = NoPid]
           /\ UNCHANGED procVars
  <2>1. Existing' = Existing /\ powner' = powner /\ proc[w] \notin Existing
    BY <1>5, SameExisting DEF WaitFails
  <2>2. NoLeakedChild'
    BY <1>1, <1>5, <2>1 DEF NoLeakedChild
  <2>3. NullProcFailed' /\ StoppedNoProc' /\ Unborn' /\ Reaping'
    BY <1>1, <1>2, <1>5
    DEF MarkStopped, Reaping, Unborn, StoppedNoProc, NullProcFailed
  <2> QED BY <2>2, <2>3 DEF ChildInv
<1> QED BY <1>3, <1>4, <1>5 DEF SweepWorker, is_running

\* Steps that touch neither the map nor the children, and neither start nor
\* finish a wait.
LEMMA QuietInv ==
  ASSUME IInv, Existing' = Existing, powner' = powner,
         UNCHANGED <<workers, state, proc>>,
         \/ reply' = reply
         \/ cur \in workers /\ proc[cur] # NoPid /\ reply[cur] # "unborn"
            /\ \E r \in {"ok", "error"} : reply' = [reply EXCEPT ![cur] = r],
         \/ pc' = pc /\ cur' = cur
         \/ pc # "reaping" /\ pc' # "reaping"
  PROVE  ChildInv'
BY DEF IInv, TypeOK, ChildInv, Reaping, Unborn, StoppedNoProc,
       NoLeakedChild, NullProcFailed

\* The worker whose start is being read has a child object: it is answered
\* nothing yet, and without one it would have been answered an error.
LEMMA ReadInv ==
  ASSUME IInv, ReadReport
  PROVE  ChildInv'
<1>1. /\ cur \in workers /\ reply[cur] = "pending"
      /\ pc # "reaping" /\ pc' # "reaping"
  BY DEF IInv, Starting, ReadReport, Return
<1>2. CASE state[cur] = "RUNNING"
  <2>1. proc[cur] # NoPid
    BY <1>1, <1>2 DEF IInv, NullProcFailed
  <2>2. \E r \in {"ok", "error"} : reply' = [reply EXCEPT ![cur] = r]
    BY DEF ReadReport, ReplyTo
  <2>3. Existing' = Existing /\ powner' = powner
    BY SameExisting DEF ReadReport
  <2> QED BY <1>1, <2>1, <2>2, <2>3, QuietInv DEF ReadReport
<1>3. CASE state[cur] = "STOPPED"
  <2>1. /\ Existing' = Existing /\ powner' = powner
        /\ UNCHANGED <<workers, state, proc>>
        /\ \E r \in {"ok", "error"} : reply' = [reply EXCEPT ![cur] = r]
    BY SameExisting DEF ReadReport, ReplyTo
  <2> QED
    BY <1>1, <1>3, <2>1
    DEF IInv, TypeOK, ChildInv, Reaping, Unborn, StoppedNoProc,
        NoLeakedChild, NullProcFailed
<1> QED BY <1>1, <1>2, <1>3 DEF IInv, TypeOK

\* A clean exit leaves an empty map and nobody waiting, so no child.
LEMMA ExitInv ==
  ASSUME IInv, ClearDone
  PROVE  Existing = {}
BY DEF IInv, NoLeakedChild, ClearDone

LEMMA NextChildInv == IInv /\ [Next]_vars => ChildInv'
<1> SUFFICES ASSUME IInv, [Next]_vars PROVE ChildInv'
  OBVIOUS
<1>1. ASSUME NEW j \in Jobs, create_job(j) PROVE ChildInv'
  BY <1>1, QuietInv, SameExisting DEF create_job, mapVars, mainVars
<1>2. ASSUME NEW w \in Workers, NEW j \in Jobs, create_worker(w, j)
      PROVE ChildInv'
  BY <1>2, CreateInv
<1>3. ASSUME NEW w \in Workers, delete_worker(w) PROVE ChildInv'
  BY <1>3, EraseInv DEF delete_worker, MainIdle
<1>4. ASSUME NEW j \in Jobs, delete_job(j) PROVE ChildInv'
  BY <1>4, QuietInv, SameExisting DEF delete_job, MainIdle, mapVars
<1>5. CASE Signal
  BY <1>5, QuietInv, SameExisting DEF Signal, mapVars
<1>6. CASE stop
  BY <1>6, QuietInv, SameExisting DEF stop, MainIdle, mapVars
<1>7. CASE ReadReport
  BY <1>7, ReadInv
<1>8. CASE FinishDestroy
  BY <1>8, FinishInv
<1>9. ASSUME NEW w \in Workers, PurgeWorker(w) PROVE ChildInv'
  BY <1>9, EraseInv DEF PurgeWorker, Members
<1>10. ASSUME NEW w \in Workers, ClearWorker(w) PROVE ChildInv'
  BY <1>10, EraseInv DEF ClearWorker
<1>11. CASE PurgeDone
  BY <1>11, QuietInv, SameExisting DEF PurgeDone, Return, mapVars
<1>12. CASE ClearDone
  BY <1>12, QuietInv, SameExisting DEF ClearDone, mapVars, mainVars
<1>13. CASE SweepBegin
  BY <1>13, QuietInv, SameExisting DEF SweepBegin, mapVars, mainVars
<1>14. ASSUME NEW w \in Workers, SweepWorker(w) PROVE ChildInv'
  BY <1>14, SweepInv
<1>15. CASE SweepEnd
  BY <1>15, QuietInv, SameExisting DEF SweepEnd, mapVars, mainVars
<1>16. ASSUME NEW line \in {"running", "bad", "eof"}, WorkerReports(line)
       PROVE ChildInv'
  BY <1>16, QuietInv, SameExisting DEF WorkerReports, mapVars
<1>17. ASSUME NEW p \in Pids, WorkerExit(p) PROVE ChildInv'
  <2>1. Existing' = Existing /\ powner' = powner
    BY <1>17, ExitExisting DEF WorkerExit, IInv, TypeOK
  <2> QED BY <1>17, <2>1, QuietInv DEF WorkerExit, mapVars, mainVars
<1>18. CASE UNCHANGED vars
  BY <1>18, QuietInv, SameExisting DEF vars, mapVars, mainVars
<1>19. CASE connection_throws
  BY <1>19, QuietInv, SameExisting DEF connection_throws, mapVars, mainVars
<1> QED
  BY <1>1, <1>2, <1>3, <1>4, <1>5, <1>6, <1>7, <1>8, <1>9, <1>10, <1>11,
     <1>12, <1>13, <1>14, <1>15, <1>16, <1>17, <1>18, <1>19
  DEF Next, Request, Continue, Monitor, Report, Down

\* Who holds workers_mutex, and what the threads in it may assume.
ControlInv == Locked /\ SweepValid /\ Starting /\ StopReapsAll

LEMMA NextControlInv == IInv /\ [Next]_vars => ControlInv'
<1> SUFFICES ASSUME IInv, [Next]_vars PROVE ControlInv'
  OBVIOUS
<1> USE DEF IInv, TypeOK, PCs, ControlInv, Locked, SweepValid, Starting,
            StopReapsAll, Up
<1>1. ASSUME NEW j \in Jobs, create_job(j) PROVE ControlInv'
  BY <1>1, SameExisting DEF create_job, MainIdle, mapVars, mainVars, runVars
<1>2. ASSUME NEW w \in Workers, NEW j \in Jobs, create_worker(w, j)
      PROVE ControlInv'
  BY <1>2 DEF create_worker, MainIdle, WorkersMutexFree, LaunchFails,
              LaunchApplication, LaunchAndRead, mainVars, runVars
<1>3. ASSUME NEW w \in Workers, NEW next \in {"idle", "purging", "clearing"},
             Erase(w, next), Up, pc = next, pc = "idle" => mutex = "free"
      PROVE  ControlInv'
  BY <1>3 DEF Erase, Destroy, WithoutWorker, Abort
<1>4. ASSUME NEW j \in Jobs, delete_job(j) PROVE ControlInv'
  BY <1>4 DEF delete_job, MainIdle, WorkersMutexFree, mapVars, runVars
<1>5. CASE Signal
  BY <1>5 DEF Signal, Abort, mapVars
<1>6. CASE stop
  BY <1>6 DEF stop, MainIdle, WorkersMutexFree, mapVars, runVars
<1>7. CASE ReadReport
  BY <1>7 DEF ReadReport, Return, runVars
<1>8. CASE FinishDestroy
  BY <1>8 DEF FinishDestroy, runVars
<1>9. CASE PurgeDone
  BY <1>9 DEF PurgeDone, Return, mapVars, runVars
<1>10. CASE ClearDone
  BY <1>10, ExitInv, SameExisting DEF ClearDone, mapVars, mainVars
<1>11. CASE SweepBegin
  BY <1>11 DEF SweepBegin, mapVars, mainVars, runVars
<1>12. ASSUME NEW w \in Workers, SweepWorker(w) PROVE ControlInv'
  BY <1>12 DEF SweepWorker, is_running, Abort, mainVars
<1>13. CASE SweepEnd
  BY <1>13 DEF SweepEnd, mapVars, mainVars, runVars
<1>14. ASSUME NEW line \in {"running", "bad", "eof"}, WorkerReports(line)
       PROVE ControlInv'
  BY <1>14 DEF WorkerReports, mapVars, runVars
<1>15. ASSUME NEW p \in Pids, WorkerExit(p) PROVE ControlInv'
  BY <1>15 DEF WorkerExit, mapVars, mainVars, runVars
<1>16. CASE UNCHANGED vars
  BY <1>16, SameExisting DEF vars, mapVars, mainVars, runVars
<1>17. ASSUME NEW w \in Workers,
              delete_worker(w) \/ PurgeWorker(w) \/ ClearWorker(w)
       PROVE  ControlInv'
  BY <1>3, <1>17
  DEF delete_worker, PurgeWorker, ClearWorker, MainIdle, WorkersMutexFree
<1>18. CASE connection_throws
  BY <1>18 DEF connection_throws, Abort, mapVars, mainVars
<1> QED
  BY <1>1, <1>2, <1>4, <1>5, <1>6, <1>7, <1>8, <1>9, <1>10, <1>11, <1>12,
     <1>13, <1>14, <1>15, <1>16, <1>17, <1>18
  DEF Next, Request, Continue, Monitor, Report, Down

LEMMA NextInv == IInv /\ [Next]_vars => IInv'
BY NextType, NextChildInv, NextControlInv DEF IInv, ChildInv, ControlInv

LEMMA Invariance == Spec => []IInv
BY InitInv, NextInv, PTL DEF Spec

-----------------------------------------------------------------------------
(* What follows for the service *)

\* manager::run never follows an iterator that a request has invalidated.
THEOREM SweepIsValid == Spec => []SweepValid
BY Invariance, PTL DEF IInv

\* manager.C and process.C together never lose a child: each process that
\* exists is held by its own worker, in the map or being destroyed.
THEOREM NothingLeaks == Spec => []NoLeakedChild
BY Invariance, PTL DEF IInv

\* What process::describe reports as STOPPED has no process left.
THEOREM StoppedReportsAreTrue == Spec => []StoppedIsDead
<1>1. IInv => StoppedIsDead
  BY DEF IInv, TypeOK, StoppedNoProc, NoLeakedChild, StoppedIsDead, Existing
<1> QED BY <1>1, Invariance, PTL

\* process::is_running can meet a null child object only on a worker whose
\* create-worker request failed.
THEOREM OnlyFailedStartsThrow == Spec => []NullProcFailed
BY Invariance, PTL DEF IInv

\* manager::stop, when it comes to its end, leaves no process behind.
THEOREM CleanStop == Spec => []StopReapsAll
BY Invariance, PTL DEF IInv

\* manager::delete_job leaves no worker and no process of the job it
\* removes.
THEOREM PurgesAreComplete == Spec => PurgeComplete
<1> DEFINE Gone(j) == /\ \A w \in workers' : job[w] # j
                      /\ \A p \in Existing' : job'[powner'[p]] # j
<1>1. IInv /\ [Next]_vars => [\A j \in jobs \ jobs' : Gone(j)]_vars
  <2> SUFFICES ASSUME IInv, [Next]_vars, NEW j \in jobs \ jobs'
               PROVE  Gone(j)
    OBVIOUS
  <2>1. PurgeDone
    BY DEF Next, Request, Continue, Monitor, Report, Down, vars, jobVars,
           create_job, create_worker, delete_worker, delete_job, Signal, stop,
           ReadReport, FinishDestroy, PurgeWorker, ClearWorker, ClearDone,
           SweepBegin, SweepWorker, SweepEnd, WorkerReports, WorkerExit,
           connection_throws
  <2>2. \A w \in workers' : job[w] # j
    BY <2>1 DEF PurgeDone, Members, mapVars
  <2>3. /\ Existing' = Existing /\ powner' = powner /\ job' = job
        /\ workers' = workers /\ pc = "purging"
    BY <2>1, SameExisting DEF PurgeDone, mapVars
  <2>4. \A p \in Existing : powner[p] \in workers
    BY <2>3 DEF IInv, NoLeakedChild
  <2> QED BY <2>2, <2>3, <2>4
<1> QED BY <1>1, Invariance, PTL DEF Spec, PurgeComplete

-----------------------------------------------------------------------------
(* Who is sent SIGTERM *)

\* A child object names the process it was made for, or one that is over:
\* the kernel gives no pid to a second child that is not Reusable.
Named ==
  \A w \in Workers : proc[w] \in Pids \ Reusable =>
    /\ pstat[proc[w]] # "unused"
    /\ proc[w] \in Existing => powner[proc[w]] = w

KillInv == IInv /\ signalled \subseteq Existing /\ Named /\ OnlyRemovedKilled

LEMMA InitKill == Init => KillInv
BY InitInv
DEF Init, PInit, KillInv, Named, OnlyRemovedKilled, Existing, TypeOK

\* Steps that leave the children alone, make no child object and put no
\* worker in the map but one that never had a process.
LEMMA QuietKill ==
  ASSUME KillInv, UNCHANGED procVars,
         proc' \in [Workers -> Pids \cup {NoPid}],
         \A w \in Workers : proc'[w] \in {proc[w], NoPid},
         \A w \in workers' : w \in workers \/ reply[w] = "unborn"
  PROVE  signalled' \subseteq Existing' /\ Named' /\ OnlyRemovedKilled'
<1> USE DEF KillInv, IInv, TypeOK
<1>1. Existing' = Existing
  BY SameExisting
<1>2. OnlyRemovedKilled'
  <2> SUFFICES ASSUME NEW p \in signalled, p \notin Reusable,
                      powner[p] \in workers'
               PROVE  FALSE
    BY DEF OnlyRemovedKilled, procVars
  <2>1. proc[powner[p]] = p /\ powner[p] \in Workers /\ p \in Pids
    BY DEF NoLeakedChild, Existing
  <2>2. powner[p] \notin workers
    BY DEF OnlyRemovedKilled
  <2> QED BY <2>1, <2>2 DEF Unborn
<1>3. Named'
  BY <1>1 DEF Named, procVars
<1> QED BY <1>1, <1>2, <1>3 DEF procVars

\* A fork: the pid is new to every child object, or Reusable.
LEMMA StartKill ==
  ASSUME KillInv, NEW w \in Workers, NEW p \in Pids, posix_start(w, p),
         proc' = [proc EXCEPT ![w] = p], reply[w] = "unborn",
         workers' = workers \cup {w}
  PROVE  signalled' \subseteq Existing' /\ Named' /\ OnlyRemovedKilled'
<1> USE DEF KillInv, IInv, TypeOK
<1>1. /\ p \notin Existing /\ Existing' = Existing \cup {p}
      /\ powner'[p] = w
      /\ \A q \in Pids \ {p} : powner'[q] = powner[q]
  BY StartExisting
<1>2. signalled' = signalled /\ p \notin signalled
  BY <1>1 DEF posix_start
<1>3. Named'
  <2> SUFFICES ASSUME NEW v \in Workers, proc'[v] \in Pids \ Reusable
               PROVE  /\ pstat'[proc'[v]] # "unused"
                      /\ proc'[v] \in Existing' => powner'[proc'[v]] = v
    BY DEF Named
  <2>1. CASE v = w
    BY <1>1, <2>1 DEF posix_start, PTypeOK
  <2>2. CASE v # w
    <3>1. proc'[v] = proc[v] /\ pstat[proc[v]] # "unused"
      BY <2>2 DEF Named
    <3>2. proc[v] # p
      BY <3>1 DEF posix_start, Forkable
    <3> QED BY <1>1, <3>1, <3>2 DEF Named, posix_start, PTypeOK
  <2> QED BY <2>1, <2>2
<1>4. OnlyRemovedKilled'
  <2> SUFFICES ASSUME NEW q \in signalled, q \notin Reusable
               PROVE  powner'[q] \notin workers \cup {w}
    BY <1>2 DEF OnlyRemovedKilled
  <2>1. q # p /\ q \in Pids /\ proc[powner[q]] = q
    BY <1>2 DEF NoLeakedChild, Existing
  <2>2. powner'[q] = powner[q] /\ powner[q] \notin workers
    BY <1>1, <2>1 DEF OnlyRemovedKilled
  <2>3. proc[w] = NoPid
    BY DEF Unborn
  <2> QED BY <2>1, <2>2, <2>3
<1> QED BY <1>1, <1>2, <1>3, <1>4

\* A wait takes the signal with the child.
LEMMA ReapKill ==
  ASSUME KillInv, NEW p \in Pids, Reap(p), workers' = workers,
         proc' \in [Workers -> Pids \cup {NoPid}],
         \A w \in Workers : proc'[w] \in {proc[w], NoPid}
  PROVE  signalled' \subseteq Existing' /\ Named' /\ OnlyRemovedKilled'
<1> USE DEF KillInv, IInv, TypeOK
<1>1. /\ Existing' = Existing \ {p}
      /\ \A q \in Pids \ {p} : powner'[q] = powner[q]
      /\ signalled' = signalled \ {p}
      /\ pstat' = [pstat EXCEPT ![p] = "gone"]
  BY ReapExisting DEF Reap
<1>2. Named'
  BY <1>1 DEF Named, PTypeOK
<1>3. OnlyRemovedKilled'
  BY <1>1 DEF OnlyRemovedKilled, PTypeOK
<1> QED BY <1>1, <1>2, <1>3

\* A destructor signals the process of the worker that has just left.
LEMMA EraseKill ==
  ASSUME KillInv, NEW w \in Workers, w \in workers,
         NEW next \in {"idle", "purging", "clearing"}, Erase(w, next)
  PROVE  signalled' \subseteq Existing' /\ Named' /\ OnlyRemovedKilled'
<1> USE DEF KillInv, IInv, TypeOK
<1>1. workers' = workers \ {w} /\ proc' = proc
  BY DEF Erase, WithoutWorker
<1>2. CASE UNCHANGED procVars
  BY <1>1, <1>2, QuietKill
<1>3. CASE proc[w] \in Existing /\ terminate(proc[w])
  <2>1. /\ Existing' = Existing /\ powner' = powner /\ pstat' = pstat
        /\ signalled' = signalled \cup {proc[w]} /\ proc[w] \in Pids
    BY <1>3, TerminateExisting DEF terminate, Killed, Existing
  <2>2. proc[w] \notin Reusable => powner[proc[w]] = w
    BY <1>3, <2>1 DEF Named
  <2> QED BY <1>1, <1>3, <2>1, <2>2 DEF Named, OnlyRemovedKilled
<1> QED BY <1>2, <1>3 DEF Erase, Destroy

LEMMA NextKill == KillInv /\ [Next]_vars => KillInv'
<1> DEFINE Fine == signalled \subseteq Existing /\ Named /\ OnlyRemovedKilled
<1> SUFFICES ASSUME KillInv, [Next]_vars PROVE Fine'
  BY NextInv DEF KillInv
<1>0. TypeOK /\ TypeOK'
  BY NextType DEF KillInv, IInv
<1> HIDE DEF Fine
<1>1. CASE UNCHANGED <<procVars, workers, proc>>
  BY <1>0, <1>1, QuietKill DEF TypeOK, Fine
<1>2. ASSUME NEW w \in Workers, NEW j \in Jobs, create_worker(w, j)
      PROVE  Fine'
  <2>1. reply[w] = "unborn" /\ workers' = workers \cup {w}
    BY <1>2 DEF create_worker
  <2>2. CASE LaunchFails(w)
    BY <1>0, <2>1, <2>2, QuietKill DEF LaunchFails, TypeOK, Fine
  <2>3. ASSUME NEW p \in Pids, LaunchApplication(w, p) \/ LaunchAndRead(w, p)
        PROVE  Fine'
    BY <2>1, <2>3, StartKill DEF LaunchApplication, LaunchAndRead, Fine
  <2> QED BY <1>2, <2>2, <2>3 DEF create_worker
<1>3. ASSUME NEW w \in Workers,
             delete_worker(w) \/ PurgeWorker(w) \/ ClearWorker(w)
      PROVE  Fine'
  BY <1>3, EraseKill
  DEF delete_worker, PurgeWorker, Members, ClearWorker, Fine
<1>4. CASE FinishDestroy
  <2>1. proc[cur] \in Pids /\ cur \in Workers
    BY <1>4 DEF KillInv, IInv, Reaping, FinishDestroy, Existing
  <2> QED BY <1>0, <1>4, <2>1, ReapKill DEF FinishDestroy, TypeOK, Fine
<1>5. ASSUME NEW w \in Workers, SweepWorker(w) PROVE Fine'
  <2>1. workers' = workers /\ proc' \in [Workers -> Pids \cup {NoPid}]
    BY <1>0, <1>5 DEF SweepWorker, TypeOK
  <2>2. CASE UNCHANGED procVars
    BY <1>0, <1>5, <2>1, <2>2, QuietKill
    DEF SweepWorker, is_running, TypeOK, Fine
  <2>3. CASE Reap(proc[w]) /\ proc[w] # NoPid /\ proc' = proc
    BY <1>0, <2>1, <2>3, ReapKill DEF TypeOK, Fine
  <2> QED BY <1>5, <2>2, <2>3 DEF SweepWorker, is_running
<1>6. ASSUME NEW p \in Pids, WorkerExit(p) PROVE Fine'
  <2>1. Existing' = Existing /\ powner' = powner
    BY <1>0, <1>6, ExitExisting DEF WorkerExit, TypeOK
  <2>2. /\ signalled' = signalled /\ workers' = workers /\ proc' = proc
        /\ pstat' = [pstat EXCEPT ![p] = "zombie"]
    BY <1>6 DEF WorkerExit, Exit, mapVars
  <2> QED
    BY <1>0, <2>1, <2>2
    DEF KillInv, Named, OnlyRemovedKilled, TypeOK, PTypeOK, Fine
<1>7. ASSUME NEW j \in Jobs, create_job(j) \/ delete_job(j) PROVE Fine'
  BY <1>1, <1>7 DEF create_job, delete_job, mapVars
<1>8. CASE \/ Signal \/ stop \/ ReadReport \/ PurgeDone \/ ClearDone
           \/ SweepBegin \/ SweepEnd \/ Report \/ connection_throws
           \/ UNCHANGED vars
  BY <1>1, <1>8
  DEF Signal, stop, ReadReport, PurgeDone, ClearDone, SweepBegin, SweepEnd,
      Report, WorkerReports, connection_throws, mapVars, vars
<1> QED
  BY <1>2, <1>3, <1>4, <1>5, <1>6, <1>7, <1>8
  DEF Next, Request, Continue, Monitor, Down

\* No request and no handler kills the process of a worker that stays in
\* the map, as long as the kernel has not given its pid away meanwhile.
THEOREM OnlyTheRemovedAreKilled == Spec => []OnlyRemovedKilled
BY InitKill, NextKill, PTL DEF Spec, KillInv

-----------------------------------------------------------------------------
(***************************************************************************)
(* The manager implements the registry.  Each step of the manager is one   *)
(* of:                                                                     *)
(*   - a step of the registry (create_job, create_worker, delete_worker,   *)
(*     the start of delete_job and of stop, a worker marked STOPPED);      *)
(*   - the end of the service (exit, or an exception nobody catches);      *)
(*   - nothing at all for a client.                                        *)
(* Beyond IInv it needs to know where the target of delete-job stands, and *)
(* that every worker of the map has a job.                                 *)
(***************************************************************************)

Purging == pc = "purging" \/ (pc = "reaping" /\ after = "purging")

\* The job being removed is in the map until its workers are gone.
TargetInv ==
  Up => /\ Purging => target \in jobs
        /\ ~Purging => target = NoJob
        /\ pc # "reaping" => after = "idle"

\* An id has a job from the moment it is given out.
JobInv == \A w \in Workers : reply[w] = "unborn" <=> job[w] = NoJob

RInv == IInv /\ TargetInv /\ JobInv

LEMMA InitRInv == Init => RInv
<1> SUFFICES ASSUME Init PROVE RInv
  OBVIOUS
<1>1. TargetInv /\ JobInv
  BY DEF Init, TargetInv, JobInv, Purging
<1> QED BY <1>1, InitInv DEF RInv

LEMMA NextJobInv == RInv /\ [Next]_vars => JobInv'
<1> SUFFICES ASSUME RInv, [Next]_vars PROVE JobInv'
  OBVIOUS
<1> USE DEF RInv, IInv, TypeOK, JobInv
<1>1. CASE UNCHANGED <<job, reply>>
  BY <1>1
<1>2. ASSUME NEW w \in Workers, NEW j \in Jobs, create_worker(w, j)
      PROVE JobInv'
  <2>1. \E r \in {"ok", "pending", "error"} :
          reply' = [reply EXCEPT ![w] = r]
    BY <1>2 DEF create_worker, LaunchFails, LaunchApplication, LaunchAndRead
  <2> QED BY <1>2, <2>1, ManagerAssumption DEF create_worker
<1>3. CASE ReadReport
  BY <1>3 DEF ReadReport, ReplyTo, Starting
<1>4. UNCHANGED <<job, reply>>
      \/ (\E w \in Workers, j \in Jobs : create_worker(w, j))
      \/ ReadReport
  BY DEF Next, Request, Continue, Monitor, Report, Down, vars, mapVars, Erase,
         create_job, delete_worker, delete_job, Signal, stop, FinishDestroy,
         PurgeWorker, PurgeDone, ClearWorker, ClearDone, SweepBegin,
         SweepWorker, SweepEnd, WorkerReports, WorkerExit, connection_throws
<1> QED BY <1>1, <1>2, <1>3, <1>4

LEMMA NextTargetInv == RInv /\ [Next]_vars => TargetInv'
<1> SUFFICES ASSUME RInv, [Next]_vars PROVE TargetInv'
  OBVIOUS
<1> USE DEF RInv, IInv, TypeOK, PCs, TargetInv, Purging, Up
<1>1. CASE UNCHANGED <<pc, after, target, jobs>> /\ (Up' => Up)
  BY <1>1
<1>2. ASSUME NEW j \in Jobs, create_job(j) PROVE TargetInv'
  BY <1>2 DEF create_job, mainVars, MainIdle, runVars
<1>3. ASSUME NEW w \in Workers, NEW j \in Jobs, create_worker(w, j)
      PROVE TargetInv'
  BY <1>3 DEF create_worker, MainIdle, LaunchFails, LaunchApplication,
              LaunchAndRead, mainVars, jobVars
<1>4. ASSUME NEW w \in Workers, NEW next \in {"idle", "purging", "clearing"},
             Erase(w, next), Up, pc = next, jobs' = jobs
      PROVE  TargetInv'
  BY <1>4 DEF Erase, Destroy, Abort
<1>5. ASSUME NEW w \in Workers,
             delete_worker(w) \/ PurgeWorker(w) \/ ClearWorker(w)
      PROVE  TargetInv'
  BY <1>4, <1>5 DEF delete_worker, PurgeWorker, ClearWorker, MainIdle
<1>6. ASSUME NEW j \in Jobs, delete_job(j) PROVE TargetInv'
  BY <1>6 DEF delete_job, MainIdle, jobVars
<1>7. CASE stop
  BY <1>7 DEF stop, MainIdle, jobVars
<1>8. CASE ReadReport
  BY <1>8 DEF ReadReport, Return, jobVars
<1>9. CASE FinishDestroy
  BY <1>9 DEF FinishDestroy, jobVars
<1>10. CASE PurgeDone
  BY <1>10 DEF PurgeDone, Return
<1>11. CASE ClearDone
  BY <1>11 DEF ClearDone
<1>12. CASE Signal
  BY <1>12 DEF Signal, jobVars
<1>13. CASE Monitor
  BY <1>13 DEF Monitor, SweepBegin, SweepWorker, SweepEnd, mainVars, jobVars
<1>14. CASE Report \/ (\E p \in Pids : WorkerExit(p)) \/ UNCHANGED vars
  BY <1>1, <1>14 DEF Report, WorkerReports, WorkerExit, vars, mainVars,
                     jobVars, runVars
<1>15. CASE connection_throws
  BY <1>15 DEF connection_throws, Abort, mainVars, jobVars
<1> QED
  BY <1>2, <1>3, <1>5, <1>6, <1>7, <1>8, <1>9, <1>10, <1>11, <1>12, <1>13,
     <1>14, <1>15
  DEF Next, Request, Continue, Down

LEMMA NextRInv == RInv /\ [Next]_vars => RInv'
BY NextInv, NextJobInv, NextTargetInv DEF RInv

-----------------------------------------------------------------------------
(* The steps *)

LEMMA InitRefines == Init => R!RegInit
BY DEF Init, R!RegInit, Seen, Clearing, Up

\* Whatever step ends the service ends the registry.
LEMMA EndRefines ==
  ASSUME Up, ~Up', UNCHANGED <<job, state, issued>>
  PROVE  R!RegNext
BY DEF R!RegNext, R!GoDown, Seen

\* What a client cannot see.
LEMMA StutterRefines ==
  ASSUME UNCHANGED <<job, state, issued, jobs, svc, target>>,
         Clearing' = Clearing,
         Up /\ ~Clearing =>
           {w \in workers' : job[w] # target}
             = {w \in workers : job[w] # target}
  PROVE  UNCHANGED R!regVars
BY DEF R!regVars, Seen, Up

\* The workers of the map are all of a job.
LEMMA WorkersHaveJobs == RInv => \A w \in workers : job[w] # NoJob
BY DEF RInv, IInv, TypeOK, Unborn, JobInv

LEMMA CreateJobRefines ==
  ASSUME RInv, NEW j \in Jobs, create_job(j)
  PROVE  R!RegNext
<1>1. ~Clearing /\ ~Clearing' /\ Up /\ Up' /\ target = NoJob /\ target' = NoJob
  BY DEF RInv, TargetInv, create_job, MainIdle, mainVars, runVars, Clearing,
         Purging, Up
<1>2. R!NewJob(j)
  BY <1>1, ManagerAssumption
  DEF R!NewJob, create_job, mapVars, jobVars, Seen
<1> QED BY <1>1, <1>2 DEF R!RegNext

LEMMA CreateWorkerRefines ==
  ASSUME RInv, NEW w \in Workers, NEW j \in Jobs, create_worker(w, j)
  PROVE  R!RegNext
<1>1. /\ ~Clearing /\ ~Clearing' /\ Up /\ Up'
      /\ target = NoJob /\ target' = NoJob
  BY DEF RInv, TargetInv, create_worker, MainIdle, LaunchFails,
         LaunchApplication, LaunchAndRead, mainVars, runVars, Clearing,
         Purging, Up
<1>2. job[w] = NoJob /\ w \notin workers
  BY DEF create_worker, RInv, JobInv, IInv, Unborn
<1>3. Seen' = Seen \cup {w}
  BY <1>1, <1>2, ManagerAssumption
  DEF Seen, create_worker, RInv, IInv, TypeOK
<1>4. R!NewWorker(w, j)
  BY <1>1, <1>2, <1>3 DEF R!NewWorker, create_worker, jobVars
<1> QED BY <1>1, <1>4 DEF R!RegNext

LEMMA DeleteWorkerRefines ==
  ASSUME RInv, NEW w \in Workers, delete_worker(w)
  PROVE  R!RegNext
<1> USE DEF RInv, TargetInv, Up, Clearing, Purging
<1>1. /\ Up /\ ~Clearing /\ target = NoJob /\ target' = NoJob
      /\ UNCHANGED <<job, state, issued, jobs>>
      /\ workers' = workers \ {w} /\ w \in workers
  BY DEF delete_worker, MainIdle, Erase, WithoutWorker
<1>2. CASE ~Up'
  BY <1>1, <1>2, EndRefines
<1>3. CASE Up'
  <2>1. ~Clearing'
    BY <1>3 DEF delete_worker, MainIdle, Erase, Destroy, Abort
  <2>2. w \in Seen /\ Seen' = Seen \ {w}
    BY <1>1, <1>3, <2>1, WorkersHaveJobs DEF Seen
  <2>3. R!Remove(w)
    BY <1>1, <1>3, <2>1, <2>2 DEF R!Remove
  <2> QED BY <1>1, <2>3 DEF R!RegNext
<1> QED BY <1>2, <1>3

LEMMA DeleteJobRefines ==
  ASSUME RInv, NEW j \in Jobs, delete_job(j)
  PROVE  R!RegNext
<1>1. /\ Up /\ Up' /\ ~Clearing /\ ~Clearing'
      /\ target = NoJob /\ target' = j /\ j \in jobs
      /\ UNCHANGED <<job, state, issued, jobs, workers>>
  BY DEF RInv, TargetInv, Up, Clearing, Purging, delete_job, MainIdle,
         mapVars, jobVars, runVars
<1>2. R!CloseJob(j)
  <2>1. Seen' = {w \in Seen : job[w] # j}
    BY <1>1, WorkersHaveJobs DEF Seen
  <2>2. j \in jobs \ {target} /\ jobs' \ {target'} = (jobs \ {target}) \ {j}
    BY <1>1, ManagerAssumption DEF RInv, IInv, TypeOK
  <2> QED BY <1>1, <2>1, <2>2 DEF R!CloseJob
<1> QED BY <1>1, <1>2 DEF R!RegNext

LEMMA StopRefines ==
  ASSUME RInv, stop
  PROVE  R!RegNext
<1>1. /\ Up /\ Up' /\ ~Clearing /\ Clearing'
      /\ UNCHANGED <<job, state, issued, jobs, target>>
  BY DEF Up, Clearing, stop, MainIdle, mapVars, jobVars, runVars
<1>2. R!Stop
  BY <1>1 DEF R!Stop, Seen
<1> QED BY <1>1, <1>2 DEF R!RegNext

LEMMA SweepWorkerRefines ==
  ASSUME RInv, NEW w \in Workers, SweepWorker(w)
  PROVE  R!RegNext \/ UNCHANGED R!regVars
<1>1. /\ Up /\ w \in workers /\ ~Clearing /\ ~Clearing'
      /\ target = NoJob /\ target' = NoJob
      /\ UNCHANGED <<job, issued, jobs, workers>>
  BY DEF SweepWorker, RInv, IInv, SweepValid, Locked, TargetInv, Purging,
         Clearing, mainVars, jobVars, Up, TypeOK
<1>2. CASE ~Up'
  BY <1>1, <1>2, EndRefines DEF SweepWorker, is_running, Up
<1>3. CASE Up' /\ state' = state
  <2>1. UNCHANGED <<job, state, issued, jobs, svc, target>>
    BY <1>1, <1>3 DEF Up
  <2>2. Clearing' = Clearing /\ workers' = workers
    BY <1>1 DEF Clearing
  <2> QED BY <1>1, <2>1, <2>2, StutterRefines
<1>4. CASE Up' /\ state[w] = "RUNNING" /\ state' = MarkStopped(w)
  <2>1. w \in Seen /\ Seen' = Seen
    BY <1>1, <1>4, WorkersHaveJobs DEF Seen
  <2>2. R!ReportStopped(w)
    BY <1>1, <1>4, <2>1 DEF R!ReportStopped, MarkStopped
  <2> QED BY <1>1, <2>2 DEF R!RegNext
<1> QED BY <1>2, <1>3, <1>4 DEF SweepWorker, is_running

\* A worker of the job being removed, or of a service being stopped, has
\* left already for a client.
LEMMA EraseRefines ==
  ASSUME RInv, NEW w \in Workers, PurgeWorker(w) \/ ClearWorker(w)
  PROVE  R!RegNext \/ UNCHANGED R!regVars
<1> USE DEF PurgeWorker, ClearWorker, Erase, WithoutWorker, Destroy, Abort,
            Clearing, Up
<1>1. /\ Up /\ workers' = workers \ {w}
      /\ UNCHANGED <<job, state, issued, jobs, target>>
  OBVIOUS
<1>2. CASE ~Up'
  BY <1>1, <1>2, EndRefines
<1>3. CASE Up'
  <2>1. Clearing' = Clearing /\ svc' = svc
    BY <1>3
  <2>2. ~Clearing => job[w] = target
    BY DEF Members
  <2> QED BY <1>1, <2>1, <2>2, StutterRefines
<1> QED BY <1>2, <1>3

\* The end of delete-job: the last worker of the job is gone, then the job.
LEMMA PurgeDoneRefines ==
  ASSUME RInv, PurgeDone
  PROVE  UNCHANGED R!regVars
<1>1. /\ Up /\ Up' /\ ~Clearing /\ ~Clearing' /\ target' = NoJob
      /\ UNCHANGED <<workers, job, state, issued, svc>>
      /\ jobs' = jobs \ {target}
      /\ \A w \in workers : job[w] # target
  BY DEF PurgeDone, Return, Members, mapVars, runVars, Up, Clearing
<1>2. Seen' = Seen
  BY <1>1, WorkersHaveJobs DEF Seen
<1>3. jobs' \ {target'} = jobs \ {target}
  BY <1>1, ManagerAssumption DEF RInv, IInv, TypeOK
<1> QED BY <1>1, <1>2, <1>3 DEF R!regVars

LEMMA NextRefines == RInv /\ [Next]_vars => [R!RegNext]_R!regVars
<1> SUFFICES ASSUME RInv, [Next]_vars
             PROVE  R!RegNext \/ UNCHANGED R!regVars
  OBVIOUS
<1>1. CASE Request
  BY <1>1, CreateJobRefines, CreateWorkerRefines, DeleteWorkerRefines,
     DeleteJobRefines DEF Request
<1>2. CASE stop
  BY <1>2, StopRefines
<1>3. CASE Signal
  <2>1. UNCHANGED <<job, state, issued, jobs, target, workers, pc, after>>
    BY <1>3 DEF Signal, mapVars, jobVars
  <2>2. CASE svc' = svc
    BY <2>1, <2>2, StutterRefines DEF Clearing
  <2>3. CASE Abort
    BY <1>3, <2>1, <2>3, EndRefines DEF Abort, Signal, Up
  <2> QED BY <1>3, <2>2, <2>3 DEF Signal
<1>4. CASE ReadReport
  BY <1>4, StutterRefines
  DEF ReadReport, Return, jobVars, runVars, Clearing
<1>5. CASE FinishDestroy
  <2>1. Clearing' = Clearing
    BY <1>5 DEF FinishDestroy, Clearing, RInv, IInv, TypeOK
  <2> QED BY <1>5, <2>1, StutterRefines DEF FinishDestroy, jobVars, runVars
<1>6. ASSUME NEW w \in Workers, PurgeWorker(w) \/ ClearWorker(w)
      PROVE  R!RegNext \/ UNCHANGED R!regVars
  BY <1>6, EraseRefines
<1>7. CASE PurgeDone
  BY <1>7, PurgeDoneRefines
<1>8. CASE ClearDone
  BY <1>8, EndRefines DEF ClearDone, mapVars, jobVars, Up
<1>9. CASE SweepBegin \/ SweepEnd
  BY <1>9, StutterRefines
  DEF SweepBegin, SweepEnd, mapVars, jobVars, mainVars, runVars, Clearing
<1>10. ASSUME NEW w \in Workers, SweepWorker(w)
       PROVE  R!RegNext \/ UNCHANGED R!regVars
  BY <1>10, SweepWorkerRefines
<1>11. CASE Report \/ (\E p \in Pids : WorkerExit(p)) \/ UNCHANGED vars
  BY <1>11, StutterRefines
  DEF Report, WorkerReports, WorkerExit, vars, mapVars, jobVars, mainVars,
      runVars, Clearing
<1>12. CASE connection_throws
  BY <1>12, EndRefines
  DEF connection_throws, MainIdle, Abort, mapVars, jobVars, Up
<1> QED
  BY <1>1, <1>2, <1>3, <1>4, <1>5, <1>6, <1>7, <1>8, <1>9, <1>10, <1>11,
     <1>12
  DEF Next, Continue, Monitor, Down

\* The requests of manager::handle are those of an atomic registry, whatever
\* the monitor, the signals and the worker processes do meanwhile.
THEOREM Refinement == Spec => ImplementsRegistry
<1>1. Spec => []RInv
  BY InitRInv, NextRInv, PTL DEF Spec
<1> QED
  BY <1>1, InitRefines, NextRefines, PTL
  DEF Spec, ImplementsRegistry, R!RegSpec
=============================================================================
