---------------------------- MODULE MCJobClient ----------------------------
(* Two programs: a sink with a source of two instances, and a single        *)
(* worker; for TLC.                                                         *)
EXTENDS JobClient, TLC

W(to, parallelism, reports) ==
  [to |-> to, parallelism |-> parallelism, reports |-> reports]

MCWorkers == 1 .. 5
MCJobs == 1 .. 3
MCDefinition ==
  "a" :> <<W({}, 2, TRUE), W({1}, 1, FALSE)>> @@ "b" :> <<W({}, 1, TRUE)>>
=============================================================================
