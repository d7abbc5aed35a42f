------------------------------- MODULE Start -------------------------------
(***************************************************************************)
(* What starting a worker promises, seen from both ends of its control     *)
(* pipe: the worker announces its input addresses, then the start is       *)
(* decided, once: it says RUNNING, it says something else, or nobody is    *)
(* left to say anything.  The answer to create-worker follows the verdict, *)
(* and a positive one carries exactly what was announced before it.        *)
(*                                                                         *)
(* Manager uses this view of the pipe (WorkerReports, ReadReport).         *)
(***************************************************************************)
CONSTANTS Names, Addrs, NoAddr

VARIABLES
  announced,  \* [Names -> Addrs \cup {NoAddr}], before the verdict
  verdict,    \* "silent", "running", "bad" or "eof"
  answered,   \* "pending", "ok" or "error"
  shown       \* the inputs in the positive answer

startVars == <<announced, verdict, answered, shown>>

NoInputs == [n \in Names |-> NoAddr]

StartInit ==
  /\ announced = NoInputs
  /\ verdict = "silent"
  /\ answered = "pending"
  /\ shown = NoInputs

Announce(n, a) ==
  /\ verdict = "silent"
  /\ announced' = [announced EXCEPT ![n] = a]
  /\ UNCHANGED <<verdict, answered, shown>>

Decide(v) ==
  /\ verdict = "silent"
  /\ verdict' = v
  /\ UNCHANGED <<announced, answered, shown>>

Answer ==
  /\ verdict # "silent"
  /\ answered = "pending"
  /\ IF verdict = "running"
     THEN answered' = "ok" /\ shown' = announced
     ELSE answered' = "error" /\ UNCHANGED shown
  /\ UNCHANGED <<announced, verdict>>

StartNext ==
  \/ \E n \in Names, a \in Addrs : Announce(n, a)
  \/ \E v \in {"running", "bad", "eof"} : Decide(v)
  \/ Answer

StartSpec == StartInit /\ [][StartNext]_startVars
=============================================================================
