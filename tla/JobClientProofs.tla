--------------------------- MODULE JobClientProofs ---------------------------
(***************************************************************************)
(* What Job.implement builds, for any number of programs, any definitions  *)
(* and any number of attempts.                                             *)
(*                                                                         *)
(* The inductive invariant has a part for each client, Progress: the       *)
(* workers up to the one being implemented are built as they are defined,  *)
(* from the addresses of this attempt.  It survives what other clients do  *)
(* because a worker, once it is in the registry, keeps its job and what it *)
(* was told to write to (Extends).                                         *)
(***************************************************************************)
EXTENDS JobClient, SequenceTheorems, TLAPS

-----------------------------------------------------------------------------
(* The inductive invariant *)

\* The outputs of worker k, as its own attempt computed them.
OutputsOf(c, k) == UNION {inputs[c][t] : t \in Definition[c][k].to}

Shape ==
  /\ NoJob \notin given
  /\ open \subseteq given
  /\ memberOf \in [Workers -> given \cup {NoJob}]
  /\ live \subseteq Workers
  /\ wired \in [Workers -> SUBSET Workers]
  /\ pc \in [Clients -> {"idle", "implementing", "done", "failed"}]
  /\ id \in [Clients -> given \cup {NoJob}]
  /\ at \in [Clients -> Nat]
  /\ DOMAIN ids = Clients /\ DOMAIN inputs = Clients
  /\ \A c \in Clients : /\ ids[c] \in [1 .. Size(c) -> Seq(Workers)]
                        /\ inputs[c] \in [1 .. Size(c) -> SUBSET Workers]

\* Worker k of client c: its addresses are those of its instances, which are
\* all of the client's job and write to what the definition says.
Built(c, k) ==
  /\ inputs[c][k] = IF Definition[c][k].reports THEN Range(ids[c][k]) ELSE {}
  /\ \A w \in Range(ids[c][k]) :
       memberOf[w] = id[c] /\ wired[w] = OutputsOf(c, k)

Progress(c) ==
  pc[c] \in {"implementing", "done"} =>
    /\ id[c] \in given
    /\ at[c] \in 1 .. Size(c)
    /\ \A k \in 1 .. at[c] : Built(c, k)
    /\ \A k \in 1 .. at[c] : k < at[c] \/ pc[c] = "done" =>
         Len(ids[c][k]) = Definition[c][k].parallelism
    /\ pc[c] = "done" => at[c] = Size(c)

\* No worker writes to a worker of another job, and only the jobs that were
\* deleted too early can have workers again.
Jobwise ==
  /\ \A w \in Workers : \A x \in wired[w] : memberOf[x] = memberOf[w]
  /\ \A w \in Workers : memberOf[w] = NoJob => wired[w] = {}
  /\ \A w \in live : memberOf[w] \in open \cup early
  /\ Up => \A c \in Clients :
             pc[c] = "implementing" => id[c] \in open \cup early

IInv == Shape /\ (\A c \in Clients : Progress(c)) /\ Jobwise

USE DefinitionAssumption

LEMMA Defined ==
  ASSUME NEW c \in Clients
  PROVE  /\ Size(c) \in Nat \ {0}
         /\ \A k \in 1 .. Size(c) :
              /\ Definition[c][k].to \subseteq 1 .. (k - 1)
              /\ Definition[c][k].parallelism \in Nat \ {0}
<1> DEFINE R == [to : SUBSET Nat, parallelism : Nat \ {0}, reports : BOOLEAN]
           d == Definition[c]
<1>1. d \in Seq(R)
  OBVIOUS
<1>2. Len(d) > 0 /\ \A k \in 1 .. Len(d) : d[k].to \subseteq 1 .. (k - 1)
  BY DEF Size
<1>3. \A r \in R : r.parallelism \in Nat \ {0}
  OBVIOUS
<1> HIDE DEF d, R
<1>4. Len(d) \in Nat /\ \A k \in 1 .. Len(d) : d[k] \in R
  BY <1>1, LenProperties, ElementOfSeq
<1> QED BY <1>2, <1>3, <1>4 DEF Size, d

LEMMA InitIInv == Init => IInv
<1> SUFFICES ASSUME Init PROVE IInv
  OBVIOUS
<1>1. <<>> \in Seq(Workers)
  BY EmptySeq
<1>2. Shape
  BY <1>1 DEF Init, RegInit, Shape
<1>3. \A c \in Clients : Progress(c)
  BY DEF Init, Progress
<1>4. Jobwise
  BY DEF Init, RegInit, Jobwise
<1> QED BY <1>2, <1>3, <1>4 DEF IInv

-----------------------------------------------------------------------------
(* What a step leaves alone *)

\* A worker that was created keeps its job and its outputs.
Extends ==
  /\ given \subseteq given'
  /\ \A w \in Workers : memberOf[w] # NoJob =>
       memberOf'[w] = memberOf[w] /\ wired'[w] = wired[w]

\* The objects of client c, and where it is.
Same(c) == /\ pc'[c] = pc[c] /\ id'[c] = id[c] /\ at'[c] = at[c]
           /\ ids'[c] = ids[c] /\ inputs'[c] = inputs[c]

\* A worker that was built stays so, if its object and those it is connected
\* to stay.
LEMMA BuiltKept ==
  ASSUME Shape, Extends, NEW c \in Clients, NEW k \in 1 .. Size(c),
         Built(c, k), id[c] \in given,
         id'[c] = id[c], ids'[c][k] = ids[c][k], inputs'[c][k] = inputs[c][k],
         \A t \in 1 .. (k - 1) : inputs'[c][t] = inputs[c][t]
  PROVE  Built(c, k)'
<1>1. OutputsOf(c, k)' = OutputsOf(c, k)
  <2>1. \A t \in Definition[c][k].to : inputs'[c][t] = inputs[c][t]
    BY Defined
  <2> QED BY <2>1 DEF OutputsOf
<1>2. ASSUME NEW w \in Range(ids[c][k])
      PROVE  memberOf'[w] = id[c] /\ wired'[w] = OutputsOf(c, k)
  <2>1. memberOf[w] = id[c] /\ wired[w] = OutputsOf(c, k)
    BY <1>2 DEF Built
  <2>2. w \in Workers
    <3>1. ids[c][k] \in Seq(Workers)
      BY DEF Shape
    <3>2. PICK i \in DOMAIN ids[c][k] : w = ids[c][k][i]
      BY DEF Range
    <3> QED BY <3>1, <3>2, LenProperties, ElementOfSeq
  <2>3. memberOf[w] # NoJob
    BY <2>1 DEF Shape
  <2> QED BY <2>1, <2>2, <2>3 DEF Extends
<1> QED BY <1>1, <1>2 DEF Built

LEMMA ProgressKept ==
  ASSUME Shape, Extends, NEW c \in Clients, Progress(c), Same(c)
  PROVE  Progress(c)'
<1> SUFFICES ASSUME pc[c] \in {"implementing", "done"}
             PROVE  Progress(c)'
  BY DEF Progress, Same
<1>1. /\ id[c] \in given /\ at[c] \in 1 .. Size(c)
      /\ \A k \in 1 .. at[c] : Built(c, k)
  BY DEF Progress
<1>2. ASSUME NEW k \in 1 .. at[c] PROVE Built(c, k)'
  <2>1. k \in 1 .. Size(c)
    BY <1>1, Defined
  <2>2. /\ id'[c] = id[c] /\ ids'[c][k] = ids[c][k]
        /\ inputs'[c][k] = inputs[c][k]
        /\ \A t \in 1 .. (k - 1) : inputs'[c][t] = inputs[c][t]
    BY DEF Same
  <2> QED BY <1>1, <2>1, <2>2, BuiltKept
<1>3. id'[c] \in given'
  BY <1>1 DEF Extends, Same
<1> QED BY <1>2, <1>3 DEF Progress, Same

-----------------------------------------------------------------------------
(* The steps of the library *)

LEMMA RangeAppend ==
  ASSUME NEW s \in Seq(Workers), NEW w
  PROVE  Range(Append(s, w)) = Range(s) \cup {w}
<1>1. /\ Len(s) \in Nat /\ DOMAIN s = 1 .. Len(s)
      /\ DOMAIN Append(s, w) = 1 .. Len(s) + 1
      /\ \A i \in 1 .. Len(s) : Append(s, w)[i] = s[i]
      /\ Append(s, w)[Len(s) + 1] = w
  BY LenProperties
<1> DEFINE t == Append(s, w)
           n == Len(s)
<1>2. /\ n \in Nat /\ DOMAIN s = 1 .. n /\ DOMAIN t = 1 .. n + 1
      /\ \A i \in 1 .. n : t[i] = s[i]
      /\ t[n + 1] = w
  BY <1>1
<1> HIDE DEF t, n
<1>3. 1 .. n + 1 = 1 .. n \cup {n + 1}
  BY <1>2
<1>4. Range(t) = Range(s) \cup {w}
  BY <1>2, <1>3 DEF Range
<1> QED BY <1>4 DEF t

\* A worker that is begun has no instances and no addresses yet.
LEMMA BegunIsBuilt ==
  ASSUME NEW c, NEW k, ids'[c][k] = <<>>, inputs'[c][k] = {}
  PROVE  Built(c, k)'
<1>1. Range(<<>>) = {}
  BY DEF Range
<1> QED BY <1>1 DEF Built

\* A client whose call raises promises nothing.
LEMMA RaiseStep ==
  ASSUME Shape, NEW c \in Clients, Raise(c), UNCHANGED objects
  PROVE  /\ Progress(c)' /\ pc' \in [Clients -> {"idle", "implementing",
                                                 "done", "failed"}]
         /\ \A d \in Clients \ {c} : Same(d)
         /\ pc'[c] = "failed"
BY DEF Shape, Raise, Progress, Same, objects

\* The new worker of a client is only told of its own job's workers.
LEMMA OutputsOfTheJob ==
  ASSUME Shape, NEW c \in Clients, Progress(c), pc[c] = "implementing"
  PROVE  /\ Outputs(c) = OutputsOf(c, at[c])
         /\ \A x \in Outputs(c) : x \in Workers /\ memberOf[x] = id[c]
<1>1. Outputs(c) = OutputsOf(c, at[c])
  BY DEF Outputs, OutputsOf
<1>2. ASSUME NEW x \in Outputs(c) PROVE x \in Workers /\ memberOf[x] = id[c]
  <2>1. PICK t \in Definition[c][at[c]].to : x \in inputs[c][t]
    BY DEF Outputs
  <2>2. at[c] \in 1 .. Size(c) /\ at[c] \in Nat
    BY DEF Progress, Shape
  <2>3. t \in 1 .. (at[c] - 1) /\ Size(c) \in Nat
    BY <2>2, Defined
  <2>4. t \in 1 .. at[c] /\ t \in 1 .. Size(c)
    BY <2>2, <2>3
  <2>5. Built(c, t)
    BY <2>4 DEF Progress
  <2>6. x \in Range(ids[c][t]) /\ memberOf[x] = id[c]
    BY <2>1, <2>5 DEF Built
  <2>7. inputs[c][t] \subseteq Workers
    BY <2>4 DEF Shape
  <2> QED BY <2>1, <2>6, <2>7
<1> QED BY <1>1, <1>2

LEMMA CreateJobStep ==
  ASSUME IInv, NEW c \in Clients, create_job(c)
  PROVE  IInv'
<1> DEFINE f == FreshJob
<1>1. Shape /\ Jobwise /\ Progress(c)
  BY DEF IInv
<1>2. UNCHANGED <<wired, early>>
  BY DEF create_job
<1>3. CASE Raise(c) /\ UNCHANGED <<regVars, objects>>
  <2>1. Extends
    BY <1>2, <1>3 DEF Extends, regVars
  <2>2. Shape'
    BY <1>1, <1>2, <1>3, RaiseStep DEF Shape, regVars, objects
  <2>3. \A d \in Clients : Progress(d)'
    BY <1>1, <1>3, <2>1, RaiseStep, ProgressKept DEF IInv
  <2>4. Jobwise'
    BY <1>1, <1>2, <1>3, RaiseStep DEF Jobwise, Shape, regVars, objects, Up,
      Same
  <2> QED BY <2>2, <2>3, <2>4 DEF IInv
<1>4. ASSUME Up, JobsLeft, NewJob(f) PROVE
        /\ f \notin given /\ f # NoJob /\ f \in Jobs
        /\ open' = open \cup {f} /\ given' = given \cup {f}
        /\ UNCHANGED <<live, memberOf, health, phase>>
  <2>1. f \in Jobs /\ f \notin given /\ f # NoJob
    BY <1>4 DEF JobsLeft, FreshJob
  <2> HIDE DEF f
  <2> QED BY <1>4, <2>1 DEF NewJob
<1>5. CASE Up /\ JobsLeft /\ NewJob(f) /\ Raise(c) /\ UNCHANGED objects
  <2> HIDE DEF f
  <2>1. Extends
    BY <1>2, <1>4, <1>5 DEF Extends
  <2>2. Shape'
    BY <1>1, <1>2, <1>4, <1>5, RaiseStep DEF Shape, objects
  <2>3. \A d \in Clients : Progress(d)'
    BY <1>1, <1>5, <2>1, RaiseStep, ProgressKept DEF IInv
  <2>4. Jobwise'
    BY <1>1, <1>2, <1>4, <1>5, RaiseStep DEF Jobwise, Shape, Up, Same
  <2> QED BY <2>2, <2>3, <2>4 DEF IInv
<1>6. CASE /\ Up /\ JobsLeft /\ NewJob(f)
           /\ id' = [id EXCEPT ![c] = f]
           /\ pc' = [pc EXCEPT ![c] = "implementing"]
           /\ StartWorker(c, 1)
  <2> HIDE DEF f
  <2>1. /\ at' = [at EXCEPT ![c] = 1]
        /\ ids' = [ids EXCEPT ![c][1] = <<>>]
        /\ inputs' = [inputs EXCEPT ![c][1] = {}]
    BY <1>6 DEF StartWorker, NoInputs
  <2>2. Extends
    BY <1>2, <1>4, <1>6 DEF Extends
  <2>3. Size(c) \in Nat \ {0} /\ 1 \in 1 .. Size(c)
    BY Defined
  <2>4. <<>> \in Seq(Workers)
    BY EmptySeq
  <2>5. /\ DOMAIN ids' = Clients /\ DOMAIN inputs' = Clients
        /\ ids'[c] = [ids[c] EXCEPT ![1] = <<>>]
        /\ inputs'[c] = [inputs[c] EXCEPT ![1] = {}]
        /\ \A d \in Clients \ {c} : ids'[d] = ids[d] /\ inputs'[d] = inputs[d]
    BY <1>1, <2>1 DEF Shape
  <2>6. /\ ids'[c] \in [1 .. Size(c) -> Seq(Workers)] /\ ids'[c][1] = <<>>
        /\ inputs'[c] \in [1 .. Size(c) -> SUBSET Workers]
        /\ inputs'[c][1] = {}
    BY <1>1, <2>3, <2>4, <2>5 DEF Shape
  <2>7. /\ pc' \in [Clients -> {"idle", "implementing", "done", "failed"}]
        /\ id' \in [Clients -> given' \cup {NoJob}]
        /\ at' \in [Clients -> Nat]
        /\ pc'[c] = "implementing" /\ id'[c] = f /\ at'[c] = 1
        /\ \A d \in Clients \ {c} :
             pc'[d] = pc[d] /\ id'[d] = id[d] /\ at'[d] = at[d]
    BY <1>1, <1>4, <1>6, <2>1 DEF Shape
  <2>8. Shape'
    <3>1. \A d \in Clients : /\ ids'[d] \in [1 .. Size(d) -> Seq(Workers)]
                             /\ inputs'[d] \in [1 .. Size(d) -> SUBSET Workers]
      BY <1>1, <2>5, <2>6 DEF Shape
    <3>2. /\ NoJob \notin given' /\ open' \subseteq given'
          /\ memberOf' \in [Workers -> given' \cup {NoJob}]
          /\ live' \subseteq Workers
          /\ wired' \in [Workers -> SUBSET Workers]
      BY <1>1, <1>2, <1>4, <1>6 DEF Shape
    <3> QED BY <2>5, <2>7, <3>1, <3>2 DEF Shape
  <2>9. Progress(c)'
    <3>1. Built(c, 1)'
      BY <2>6, BegunIsBuilt
    <3>2. f \in given'
      BY <1>4, <1>6
    <3>3. \A k \in 1 .. 1 : k = 1
      OBVIOUS
    <3> QED BY <2>3, <2>7, <3>1, <3>2, <3>3 DEF Progress
  <2>10. \A d \in Clients : Progress(d)'
    BY <1>1, <2>2, <2>5, <2>7, <2>9, ProgressKept DEF IInv, Same
  <2>11. Jobwise'
    BY <1>1, <1>2, <1>4, <1>6, <2>7 DEF Jobwise, Up
  <2> QED BY <2>8, <2>10, <2>11 DEF IInv
<1> QED BY <1>3, <1>5, <1>6 DEF create_job

LEMMA CreateWorkerStep ==
  ASSUME IInv, NEW c \in Clients, create_worker(c)
  PROVE  IInv'
<1> DEFINE f == FreshWorker
<1>0. PICK n : n = at[c]
  OBVIOUS
<1>1. Shape /\ Jobwise /\ Progress(c)
  BY DEF IInv
<1>2. /\ pc[c] = "implementing" /\ UNCHANGED <<attempts, early>>
      /\ Len(ids[c][n]) < Definition[c][n].parallelism
  BY <1>0 DEF create_worker
<1>3. /\ id[c] \in given /\ n \in 1 .. Size(c) /\ n \in Nat /\ id[c] # NoJob
      /\ Size(c) \in Nat
      /\ \A k \in 1 .. n : Built(c, k)
      /\ \A k \in 1 .. n : k < n =>
           Len(ids[c][k]) = Definition[c][k].parallelism
  BY <1>0, <1>1, <1>2, Defined DEF Progress, Shape
<1>4. CASE Raise(c) /\ UNCHANGED <<regVars, wired, objects>>
  <2>1. Extends
    BY <1>4 DEF Extends, regVars
  <2>2. Shape'
    BY <1>1, <1>4, RaiseStep DEF Shape, regVars, objects
  <2>3. \A d \in Clients : Progress(d)'
    BY <1>1, <1>4, <2>1, RaiseStep, ProgressKept DEF IInv
  <2>4. Jobwise'
    BY <1>1, <1>2, <1>4, RaiseStep DEF Jobwise, Shape, regVars, objects, Up,
      Same
  <2> QED BY <2>2, <2>3, <2>4 DEF IInv
<1>5. ASSUME Up, WorkersLeft, NewWorker(f, JobId(c)),
             wired' = [wired EXCEPT ![f] = Outputs(c)]
      PROVE  /\ f \in Workers /\ memberOf[f] = NoJob
             /\ memberOf' = [memberOf EXCEPT ![f] = id[c]]
             /\ live' = live \cup {f}
             /\ UNCHANGED <<health, open, given, phase>>
             /\ Extends
             /\ memberOf' \in [Workers -> given' \cup {NoJob}]
             /\ live' \subseteq Workers
             /\ wired' \in [Workers -> SUBSET Workers]
             /\ memberOf'[f] = id[c] /\ wired'[f] = OutputsOf(c, n)
             /\ \A w \in Workers : \A x \in wired'[w] :
                  memberOf'[x] = memberOf'[w]
             /\ \A w \in Workers : memberOf'[w] = NoJob => wired'[w] = {}
             /\ \A w \in live' : memberOf'[w] \in open' \cup early'
             /\ id[c] \in open \cup early
  <2>1. f \in Workers /\ memberOf[f] = NoJob
    BY <1>5 DEF WorkersLeft, FreshWorker
  <2> HIDE DEF f
  <2>2. /\ memberOf' = [memberOf EXCEPT ![f] = id[c]]
        /\ live' = live \cup {f}
        /\ UNCHANGED <<health, open, given, phase>>
    BY <1>5 DEF NewWorker, JobId
  <2>3. /\ Outputs(c) = OutputsOf(c, n)
        /\ \A x \in Outputs(c) : x \in Workers /\ memberOf[x] = id[c]
    BY <1>0, <1>1, <1>2, OutputsOfTheJob
  <2>4. /\ memberOf \in [Workers -> given \cup {NoJob}]
        /\ live \subseteq Workers
        /\ wired \in [Workers -> SUBSET Workers]
    BY <1>1 DEF Shape
  <2>5. /\ memberOf'[f] = id[c] /\ wired'[f] = Outputs(c)
        /\ \A w \in Workers \ {f} :
             memberOf'[w] = memberOf[w] /\ wired'[w] = wired[w]
    BY <1>5, <2>1, <2>2, <2>4
  <2>6. /\ memberOf' \in [Workers -> given' \cup {NoJob}]
        /\ live' \subseteq Workers
        /\ wired' \in [Workers -> SUBSET Workers]
    BY <1>3, <1>5, <2>1, <2>2, <2>3, <2>4
  <2>7. Extends
    BY <2>1, <2>2, <2>5 DEF Extends
  <2>8. id[c] \in open \cup early
    BY <1>1, <1>2, <1>5 DEF Jobwise
  <2>9. ASSUME NEW w \in Workers, NEW x \in wired'[w]
        PROVE  memberOf'[x] = memberOf'[w]
    <3>1. CASE w = f
      <4>1. x \in Workers /\ memberOf[x] = id[c]
        BY <2>3, <2>5, <2>9, <3>1
      <4> QED BY <1>3, <2>1, <2>5, <3>1, <4>1
    <3>2. CASE w # f
      <4>1. x \in wired[w] /\ x \in Workers
        BY <2>4, <2>5, <2>9, <3>2
      <4>2. memberOf[w] # NoJob /\ memberOf[x] = memberOf[w]
        BY <1>1, <4>1 DEF Jobwise
      <4> QED BY <2>1, <2>5, <3>2, <4>1, <4>2
    <3> QED BY <3>1, <3>2
  <2>10. \A w \in Workers : memberOf'[w] = NoJob => wired'[w] = {}
    BY <1>1, <1>3, <2>5 DEF Jobwise
  <2>11. \A w \in live' : memberOf'[w] \in open' \cup early'
    BY <1>1, <1>2, <2>2, <2>4, <2>5, <2>8 DEF Jobwise
  <2> QED BY <2>1, <2>2, <2>3, <2>5, <2>6, <2>7, <2>8, <2>9, <2>10, <2>11
<1>6. CASE /\ Up /\ WorkersLeft /\ NewWorker(f, JobId(c))
           /\ wired' = [wired EXCEPT ![f] = Outputs(c)]
           /\ Raise(c) /\ UNCHANGED objects
  <2> HIDE DEF f
  <2>1. Shape'
    BY <1>1, <1>5, <1>6, RaiseStep DEF Shape, objects
  <2>2. \A d \in Clients : Progress(d)'
    BY <1>1, <1>5, <1>6, RaiseStep, ProgressKept DEF IInv
  <2>3. Jobwise'
    <3>1. \A d \in Clients : pc'[d] = "implementing" =>
            pc[d] = "implementing" /\ id'[d] = id[d]
      BY <1>1, <1>6, RaiseStep DEF Same
    <3> QED BY <1>1, <1>2, <1>5, <1>6, <3>1 DEF Jobwise, Up
  <2> QED BY <2>1, <2>2, <2>3 DEF IInv
<1>7. CASE /\ Up /\ WorkersLeft /\ NewWorker(f, JobId(c))
           /\ wired' = [wired EXCEPT ![f] = Outputs(c)]
           /\ ids' = [ids EXCEPT ![c][at[c]] = Append(@, f)]
           /\ inputs' = [inputs EXCEPT
                ![c][at[c]] = @ \cup IF Definition[c][at[c]].reports
                                     THEN {f} ELSE {}]
           /\ UNCHANGED <<pc, id, at>>
  <2> DEFINE new == IF Definition[c][n].reports THEN {f} ELSE {}
  <2> HIDE DEF f
  <2>1. /\ ids[c] \in [1 .. Size(c) -> Seq(Workers)]
        /\ inputs[c] \in [1 .. Size(c) -> SUBSET Workers]
        /\ DOMAIN ids = Clients /\ DOMAIN inputs = Clients
    BY <1>1 DEF Shape
  <2>2. /\ DOMAIN ids' = Clients /\ DOMAIN inputs' = Clients
        /\ ids'[c] = [ids[c] EXCEPT ![n] = Append(@, f)]
        /\ inputs'[c] = [inputs[c] EXCEPT ![n] = @ \cup new]
        /\ \A d \in Clients \ {c} : ids'[d] = ids[d] /\ inputs'[d] = inputs[d]
    BY <1>0, <1>7, <2>1
  <2>3. /\ ids[c][n] \in Seq(Workers) /\ f \in Workers
        /\ Append(ids[c][n], f) \in Seq(Workers)
        /\ Len(Append(ids[c][n], f)) = Len(ids[c][n]) + 1
    <3>1. ids[c][n] \in Seq(Workers) /\ f \in Workers
      BY <1>3, <1>5, <1>7, <2>1
    <3> QED BY <3>1, AppendProperties
  <2>4. /\ ids'[c] \in [1 .. Size(c) -> Seq(Workers)]
        /\ inputs'[c] \in [1 .. Size(c) -> SUBSET Workers]
        /\ ids'[c][n] = Append(ids[c][n], f)
        /\ inputs'[c][n] = inputs[c][n] \cup new
        /\ \A k \in 1 .. Size(c) : k # n =>
             ids'[c][k] = ids[c][k] /\ inputs'[c][k] = inputs[c][k]
    <3>1. new \subseteq Workers
      BY <2>3
    <3> HIDE DEF new
    <3>2. inputs[c][n] \cup new \in SUBSET Workers
      BY <1>3, <2>1, <3>1
    <3> QED BY <1>3, <2>1, <2>2, <2>3, <3>2
  <2>5. Shape'
    <3>1. \A d \in Clients : /\ ids'[d] \in [1 .. Size(d) -> Seq(Workers)]
                             /\ inputs'[d] \in [1 .. Size(d) -> SUBSET Workers]
      BY <1>1, <2>2, <2>4 DEF Shape
    <3> QED BY <1>1, <1>5, <1>7, <2>2, <3>1 DEF Shape
  <2>6. ASSUME NEW k \in 1 .. n, k # n PROVE Built(c, k)'
    <3>1. /\ k \in 1 .. Size(c)
          /\ \A t \in 1 .. (k - 1) : t \in 1 .. Size(c) /\ t # n
      BY <1>3, <2>6
    <3>2. /\ id'[c] = id[c] /\ ids'[c][k] = ids[c][k]
          /\ inputs'[c][k] = inputs[c][k]
          /\ \A t \in 1 .. (k - 1) : inputs'[c][t] = inputs[c][t]
      BY <1>7, <2>4, <2>6, <3>1
    <3> QED BY <1>1, <1>3, <1>5, <1>7, <3>1, <3>2, BuiltKept
  <2>7. Built(c, n)'
    <3>1. Range(ids'[c][n]) = Range(ids[c][n]) \cup {f}
      BY <2>3, <2>4, RangeAppend
    <3>2. Built(c, n) /\ n \in 1 .. n
      BY <1>3
    <3>3. OutputsOf(c, n)' = OutputsOf(c, n)
      <4>1. \A t \in Definition[c][n].to : t \in 1 .. Size(c) /\ t # n
        BY <1>3, Defined
      <4>2. \A t \in Definition[c][n].to : inputs'[c][t] = inputs[c][t]
        BY <2>4, <4>1
      <4> QED BY <4>2 DEF OutputsOf
    <3>4. inputs'[c][n] = IF Definition[c][n].reports
                          THEN Range(ids'[c][n]) ELSE {}
      BY <2>4, <3>1, <3>2 DEF Built
    <3>5. ASSUME NEW w \in Range(ids[c][n])
          PROVE  memberOf'[w] = id[c] /\ wired'[w] = OutputsOf(c, n)
      <4>1. memberOf[w] = id[c] /\ wired[w] = OutputsOf(c, n)
        BY <3>2 DEF Built
      <4>2. w \in Workers
        <5>1. PICK i \in DOMAIN ids[c][n] : w = ids[c][n][i]
          BY DEF Range
        <5> QED BY <2>3, <5>1, LenProperties, ElementOfSeq
      <4> QED BY <1>3, <1>5, <1>7, <4>1, <4>2 DEF Extends
    <3>6. memberOf'[f] = id[c] /\ wired'[f] = OutputsOf(c, n)
      BY <1>5, <1>7
    <3> QED BY <1>7, <3>1, <3>3, <3>4, <3>5, <3>6 DEF Built
  <2>8. Progress(c)'
    <3>1. \A k \in 1 .. n : Built(c, k)'
      BY <2>6, <2>7
    <3>2. \A k \in 1 .. n : k < n =>
            Len(ids'[c][k]) = Definition[c][k].parallelism
      <4>1. \A k \in 1 .. n : k < n => k \in 1 .. Size(c) /\ k # n
        BY <1>3
      <4> QED BY <1>3, <2>4, <4>1
    <3>3. id'[c] = id[c] /\ at'[c] = n /\ pc'[c] = "implementing"
      BY <1>0, <1>2, <1>7
    <3> QED BY <1>3, <1>5, <1>7, <3>1, <3>2, <3>3 DEF Progress
  <2>9. \A d \in Clients : Progress(d)'
    <3>1. \A d \in Clients \ {c} : Same(d)
      BY <1>7, <2>2 DEF Same
    <3> QED BY <1>1, <1>5, <1>7, <2>8, <3>1, ProgressKept DEF IInv
  <2>10. Jobwise'
    BY <1>1, <1>2, <1>5, <1>7 DEF Jobwise, Up
  <2> QED BY <2>5, <2>9, <2>10 DEF IInv
<1> QED BY <1>4, <1>6, <1>7 DEF create_worker

LEMMA NextWorkerStep ==
  ASSUME IInv, NEW c \in Clients, next_worker(c)
  PROVE  IInv'
<1>0. PICK n : n = at[c]
  OBVIOUS
<1>1. Shape /\ Jobwise /\ Progress(c)
  BY DEF IInv
<1>2. /\ pc[c] = "implementing"
      /\ UNCHANGED <<regVars, attempts, wired, early>>
      /\ Len(ids[c][n]) = Definition[c][n].parallelism
  BY <1>0 DEF next_worker
<1>3. /\ id[c] \in given /\ n \in 1 .. Size(c) /\ n \in Nat /\ Size(c) \in Nat
      /\ \A k \in 1 .. n : Built(c, k)
      /\ \A k \in 1 .. n : k < n =>
           Len(ids[c][k]) = Definition[c][k].parallelism
  BY <1>0, <1>1, <1>2, Defined DEF Progress, Shape
<1>4. \A k \in 1 .. n : Len(ids[c][k]) = Definition[c][k].parallelism
  <2>1. \A k \in 1 .. n : k = n \/ k < n
    BY <1>3
  <2> QED BY <1>2, <1>3, <2>1
<1>5. Extends
  BY <1>2 DEF Extends, regVars
<1>6. CASE /\ n < Size(c) /\ StartWorker(c, n + 1) /\ UNCHANGED <<pc, id>>
  <2>1. PICK m : m = n + 1
    OBVIOUS
  <2>2. /\ m \in 1 .. Size(c) /\ m \in Nat
        /\ 1 .. m = 1 .. n \cup {m} /\ m \notin 1 .. n
    BY <1>3, <1>6, <2>1
  <2>3. /\ at' = [at EXCEPT ![c] = m]
        /\ ids' = [ids EXCEPT ![c][m] = <<>>]
        /\ inputs' = [inputs EXCEPT ![c][m] = {}]
    BY <1>6, <2>1 DEF StartWorker, NoInputs
  <2>4. <<>> \in Seq(Workers)
    BY EmptySeq
  <2>5. /\ DOMAIN ids' = Clients /\ DOMAIN inputs' = Clients
        /\ ids'[c] = [ids[c] EXCEPT ![m] = <<>>]
        /\ inputs'[c] = [inputs[c] EXCEPT ![m] = {}]
        /\ \A d \in Clients \ {c} : ids'[d] = ids[d] /\ inputs'[d] = inputs[d]
    BY <1>1, <2>3 DEF Shape
  <2>6. /\ ids[c] \in [1 .. Size(c) -> Seq(Workers)]
        /\ inputs[c] \in [1 .. Size(c) -> SUBSET Workers]
    BY <1>1 DEF Shape
  <2>7. /\ ids'[c] \in [1 .. Size(c) -> Seq(Workers)] /\ ids'[c][m] = <<>>
        /\ inputs'[c] \in [1 .. Size(c) -> SUBSET Workers]
        /\ inputs'[c][m] = {}
        /\ \A k \in 1 .. Size(c) : k # m =>
             ids'[c][k] = ids[c][k] /\ inputs'[c][k] = inputs[c][k]
    BY <2>2, <2>4, <2>5, <2>6
  <2>8. /\ at' \in [Clients -> Nat] /\ at'[c] = m
        /\ \A d \in Clients \ {c} : at'[d] = at[d]
    BY <1>1, <2>2, <2>3 DEF Shape
  <2>9. Shape'
    <3>1. \A d \in Clients : /\ ids'[d] \in [1 .. Size(d) -> Seq(Workers)]
                             /\ inputs'[d] \in [1 .. Size(d) -> SUBSET Workers]
      BY <1>1, <2>5, <2>7 DEF Shape
    <3> QED BY <1>1, <1>2, <1>6, <2>5, <2>8, <3>1 DEF Shape, regVars
  <2>10. ASSUME NEW k \in 1 .. n PROVE Built(c, k)'
    <3>1. /\ k \in 1 .. Size(c) /\ k # m
          /\ \A t \in 1 .. (k - 1) : t \in 1 .. Size(c) /\ t # m
      BY <1>3, <2>1
    <3>2. /\ id'[c] = id[c] /\ ids'[c][k] = ids[c][k]
          /\ inputs'[c][k] = inputs[c][k]
          /\ \A t \in 1 .. (k - 1) : inputs'[c][t] = inputs[c][t]
      BY <1>6, <2>7, <3>1
    <3> QED BY <1>1, <1>3, <1>5, <3>1, <3>2, BuiltKept
  <2>11. Built(c, m)'
    BY <2>7, BegunIsBuilt
  <2>12. Progress(c)'
    <3>1. \A k \in 1 .. m : Built(c, k)'
      BY <2>2, <2>10, <2>11
    <3>2. \A k \in 1 .. m : k < m =>
            Len(ids'[c][k]) = Definition[c][k].parallelism
      <4>1. ASSUME NEW k \in 1 .. m, k < m
            PROVE  k \in 1 .. n /\ k \in 1 .. Size(c) /\ k # m
        <5>1. n \in Nat /\ n <= Size(c) /\ Size(c) \in Nat /\ m \in Nat
          BY <1>3, <2>2
        <5> QED BY <2>1, <4>1, <5>1
      <4> QED BY <1>4, <2>7, <4>1
    <3>3. id'[c] \in given' /\ pc'[c] = "implementing"
      BY <1>2, <1>3, <1>6 DEF regVars
    <3> QED BY <2>2, <2>8, <3>1, <3>2, <3>3 DEF Progress
  <2>13. \A d \in Clients : Progress(d)'
    <3>1. \A d \in Clients \ {c} : Same(d)
      BY <1>6, <2>5, <2>8 DEF Same
    <3> QED BY <1>1, <1>5, <2>12, <3>1, ProgressKept DEF IInv
  <2>14. Jobwise'
    BY <1>1, <1>2, <1>6 DEF Jobwise, regVars, Up
  <2> QED BY <2>9, <2>13, <2>14 DEF IInv
<1>7. CASE n = Size(c) /\ pc' = [pc EXCEPT ![c] = "done"] /\ UNCHANGED objects
  <2>1. /\ pc' \in [Clients -> {"idle", "implementing", "done", "failed"}]
        /\ pc'[c] = "done" /\ \A d \in Clients \ {c} : pc'[d] = pc[d]
    BY <1>1, <1>7 DEF Shape
  <2>2. Shape'
    BY <1>1, <1>2, <1>7, <2>1 DEF Shape, regVars, objects
  <2>3. Progress(c)'
    <3>1. \A k \in 1 .. n : Built(c, k)'
      <4>1. ASSUME NEW k \in 1 .. n PROVE Built(c, k)'
        <5>1. k \in 1 .. Size(c)
          BY <1>3
        <5>2. /\ id'[c] = id[c] /\ ids'[c][k] = ids[c][k]
              /\ inputs'[c][k] = inputs[c][k]
              /\ \A t \in 1 .. (k - 1) : inputs'[c][t] = inputs[c][t]
          BY <1>7 DEF objects
        <5> QED BY <1>1, <1>3, <1>5, <5>1, <5>2, BuiltKept
      <4> QED BY <4>1
    <3>2. /\ id'[c] \in given' /\ at'[c] = n
          /\ \A k \in 1 .. n : Len(ids'[c][k]) = Definition[c][k].parallelism
      BY <1>0, <1>2, <1>3, <1>4, <1>7 DEF regVars, objects
    <3> QED BY <1>3, <1>7, <2>1, <3>1, <3>2 DEF Progress
  <2>4. \A d \in Clients : Progress(d)'
    <3>1. \A d \in Clients \ {c} : Same(d)
      BY <1>7, <2>1 DEF Same, objects
    <3> QED BY <1>1, <1>5, <2>3, <3>1, ProgressKept DEF IInv
  <2>5. Jobwise'
    BY <1>1, <1>2, <1>7, <2>1 DEF Jobwise, regVars, objects, Up
  <2> QED BY <2>2, <2>4, <2>5 DEF IInv
<1> QED BY <1>0, <1>6, <1>7 DEF next_worker

-----------------------------------------------------------------------------
(* What else happens *)

\* Deletes take workers and jobs away, and change nothing of what is left.
LEMMA OthersStep ==
  ASSUME IInv, UNCHANGED <<clientVars, given, memberOf>>,
         live' \subseteq live, open' \subseteq open,
         \A w \in live' : memberOf[w] \in open' \cup early',
         Up' => Up /\ \A c \in Clients : pc[c] = "implementing" =>
                                           id[c] \in open' \cup early'
  PROVE  IInv'
<1>1. Shape /\ Jobwise
  BY DEF IInv
<1>2. Extends
  BY DEF Extends, clientVars
<1>3. Shape'
  BY <1>1 DEF Shape, clientVars, objects
<1>4. \A c \in Clients : Same(c)
  BY DEF Same, clientVars, objects
<1>5. \A c \in Clients : Progress(c)'
  BY <1>1, <1>2, <1>4, ProgressKept DEF IInv
<1>6. Jobwise'
  BY <1>1 DEF Jobwise, clientVars, objects
<1> QED BY <1>3, <1>5, <1>6 DEF IInv

LEMMA DeleteJobStep ==
  ASSUME IInv, NEW j \in Jobs, delete_job(j)
  PROVE  IInv'
<1>1. Jobwise /\ Up
  BY DEF IInv, delete_job
<1>2. /\ open' = open \ {j}
      /\ live' = {w \in live : memberOf[w] # j}
      /\ UNCHANGED <<clientVars, memberOf, given, phase>>
  BY DEF delete_job, CloseJob
<1>3. early' = IF \E c \in Clients : pc[c] = "implementing" /\ id[c] = j
               THEN early \cup {j} ELSE early
  BY DEF delete_job
<1>4. \A w \in live' : memberOf[w] \in open' \cup early'
  BY <1>1, <1>2, <1>3 DEF Jobwise
<1>5. \A c \in Clients : pc[c] = "implementing" => id[c] \in open' \cup early'
  BY <1>1, <1>2, <1>3 DEF Jobwise
<1> QED BY <1>1, <1>2, <1>4, <1>5, OthersStep

LEMMA DeleteWorkerStep ==
  ASSUME IInv, NEW w \in Workers, delete_worker(w)
  PROVE  IInv'
<1>1. Jobwise /\ Up
  BY DEF IInv, delete_worker
<1>2. /\ live' = live \ {w}
      /\ UNCHANGED <<clientVars, early, memberOf, open, given, phase>>
  BY DEF delete_worker, Remove
<1>3. /\ \A x \in live' : memberOf[x] \in open' \cup early'
      /\ \A c \in Clients :
           pc[c] = "implementing" => id[c] \in open' \cup early'
  BY <1>1, <1>2 DEF Jobwise
<1> QED BY <1>1, <1>2, <1>3, OthersStep

LEMMA ServiceGoesStep ==
  ASSUME IInv, ServiceGoes
  PROVE  IInv'
<1>1. /\ live' = {} /\ open' \subseteq open /\ phase' # "up"
      /\ UNCHANGED <<clientVars, early, memberOf, given>>
  BY DEF ServiceGoes, Stop, GoDown
<1> QED BY <1>1, OthersStep DEF Up

LEMMA NextIInv == IInv /\ [Next]_vars => IInv'
<1> SUFFICES ASSUME IInv, [Next]_vars PROVE IInv'
  OBVIOUS
<1>1. ASSUME NEW c \in Clients,
             create_job(c) \/ create_worker(c) \/ next_worker(c)
      PROVE  IInv'
  BY <1>1, CreateJobStep, CreateWorkerStep, NextWorkerStep
<1>2. CASE UNCHANGED vars
  BY <1>2, OthersStep DEF vars, clientVars, regVars, objects, Up, IInv, Jobwise
<1> QED BY <1>1, <1>2, DeleteJobStep, DeleteWorkerStep, ServiceGoesStep
  DEF Next

LEMMA Invariance == Spec => []IInv
BY InitIInv, NextIInv, PTL DEF Spec

-----------------------------------------------------------------------------
(* The theorems *)

LEMMA BuiltFollows == IInv => BuiltAsDefined
<1> SUFFICES ASSUME IInv, NEW c \in Clients, pc[c] = "done",
                    NEW k \in 1 .. Size(c)
             PROVE  /\ Len(ids[c][k]) = Definition[c][k].parallelism
                    /\ \A w \in Range(ids[c][k]) :
                         /\ memberOf[w] = id[c]
                         /\ wired[w] = UNION {Range(ids[c][t]) : t \in
                              {t \in Definition[c][k].to :
                                 Definition[c][t].reports}}
  BY DEF BuiltAsDefined
<1>1. Progress(c) /\ at[c] = Size(c)
  BY DEF IInv, Progress
<1>2. /\ Len(ids[c][k]) = Definition[c][k].parallelism
      /\ \A t \in 1 .. Size(c) : Built(c, t)
  BY <1>1 DEF Progress
<1>3. \A t \in Definition[c][k].to : Built(c, t)
  <2>1. \A t \in Definition[c][k].to : t \in 1 .. Size(c)
    BY Defined
  <2> QED BY <1>2, <2>1
<1> DEFINE T == {t \in Definition[c][k].to : Definition[c][t].reports}
           U == UNION {Range(ids[c][t]) : t \in T}
<1>4. OutputsOf(c, k) = U
  <2>1. ASSUME NEW x \in OutputsOf(c, k) PROVE x \in U
    <3>1. PICK t \in Definition[c][k].to : x \in inputs[c][t]
      BY DEF OutputsOf
    <3>2. Definition[c][t].reports /\ x \in Range(ids[c][t])
      BY <1>3, <3>1 DEF Built
    <3>3. t \in T
      BY <3>2
    <3> QED BY <3>2, <3>3
  <2>2. ASSUME NEW x \in U PROVE x \in OutputsOf(c, k)
    <3>1. PICK t \in T : x \in Range(ids[c][t])
      OBVIOUS
    <3>2. x \in inputs[c][t]
      BY <1>3, <3>1 DEF Built
    <3> QED BY <3>2 DEF OutputsOf
  <2> HIDE DEF U
  <2> QED BY <2>1, <2>2
<1>5. \A w \in Range(ids[c][k]) : memberOf[w] = id[c] /\ wired[w] = U
  BY <1>2, <1>4 DEF Built
<1> QED BY <1>2, <1>5

\* When Job.implement returns, every worker of the definition has all its
\* instances in the new job, each of them told to write to exactly the
\* instances, of this attempt, of the workers it is connected to: whatever
\* attempts failed before, and whatever other clients did meanwhile.
THEOREM JobIsBuiltAsDefined == Spec => []BuiltAsDefined
BY Invariance, BuiltFollows, PTL

\* No worker is told to write to a worker of another job, and no worker of a
\* deleted job is or comes back, unless the job was deleted while a client
\* was implementing it.
THEOREM JobsAreDeletedForGood == Spec => []DeletedForGood
<1>1. IInv => DeletedForGood
  BY DEF IInv, Jobwise, DeletedForGood
<1> QED BY <1>1, Invariance, PTL
=============================================================================
