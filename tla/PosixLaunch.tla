---------------------------- MODULE PosixLaunch ----------------------------
(***************************************************************************)
(* Launching child processes: the descriptor tables of the service and of  *)
(* its children around fork and execve (posix_launch, launch,              *)
(* launch_pipeline, posix_start), the handles that own descriptors         *)
(* (file_handle, pipe, stream_info), and waiting for children that read    *)
(* each other (wait_children).  A table maps descriptors to open files; a  *)
(* pipe is at its end when no table has its write end.                     *)
(*                                                                         *)
(* The service and its children go on one stream at a time, so that what   *)
(* fails, fails with some streams made and others not.                     *)
(***************************************************************************)
EXTENDS Naturals, FiniteSets, Sequences, Functions, FiniteSetsExt

CONSTANTS
  Fds,          \* descriptors: the numbers a process can have
  Tables,       \* tables the service may begin with
  Plans,        \* what may be launched: sequences of contexts
  MaxChildren   \* children forked in a behaviour (a bound)

Children == 1 .. MaxChildren
Service == 0

\* The streams by which child i of n is linked to its neighbours.
Links(i, n) == (IF i > 1 THEN {0} ELSE {}) \cup (IF i < n THEN {1} ELSE {})

\* What may be asked of child i of n: a pipeline links its children itself
\* (launch_pipeline); only outputs can be redirected (setup_input).
IsContext(ctx, i, n) ==
  /\ DOMAIN ctx \subseteq Fds \ Links(i, n)
  /\ \A d \in DOMAIN ctx :
       /\ ctx[d].type \in {"capture", "silence", "inherit", "redirect"}
       /\ ctx[d].side \in {"in", "out"}
       /\ ctx[d].type = "redirect" => ctx[d].side = "out"

ASSUME LaunchAssumption ==
  /\ Fds \subseteq Nat
  /\ MaxChildren \in Nat
  /\ \A p \in Plans : /\ p \in Seq(Range(p)) /\ p # <<>>
                      /\ \A i \in DOMAIN p : IsContext(p[i], i, Len(p))

VARIABLES
  original,   \* the table the service began with
  table,      \* descriptor tables: process -> descriptor -> file
  phase,      \* where the service is
  plan,       \* the contexts of the launch under way, or of the last one
  cs,         \* its children so far
  pipes,      \* the pipes between its children
  streams,    \* its info_maps, as one map: descriptor -> stream_info
  local,      \* descriptors that pipes and streams own
  owns,       \* child -> descriptors its child object owns in the service
  stage,      \* child -> unborn, forked, running, exited, reaped
  memory,     \* child -> the info_maps it has from the service
  left,       \* child -> the streams it has not set up
  want,       \* child -> the table its context asks for
  apart       \* children whose streams do not get in each other's way

launchVars == <<plan, cs, pipes, streams, local>>
childVars == <<stage, memory, left, want, apart>>
processVars == <<original, table, phase, launchVars, owns, childVars>>

LaunchInit ==
  /\ original \in Tables
  /\ table = [p \in {Service} \cup Children |->
                IF p = Service THEN original ELSE <<>>]
  /\ phase = "idle"
  /\ plan = <<>> /\ cs = <<>> /\ pipes = <<>> /\ streams = <<>> /\ local = {}
  /\ owns = [c \in Children |-> {}]
  /\ stage = [c \in Children |-> "unborn"]
  /\ memory = [c \in Children |-> <<>>]
  /\ left = [c \in Children |-> {}]
  /\ want = [c \in Children |-> <<>>]
  /\ apart = {}

-----------------------------------------------------------------------------
(* Descriptors *)

ReadEnd(pipe) == <<"read", pipe>>
WriteEnd(pipe) == <<"write", pipe>>

Device(side) == <<"device", side>>      \* /dev/zero and /dev/null

Free(t) == Fds \ DOMAIN t
Lowest(t) == Min(Free(t))

\* Table t with x at d.
Put(t, d, x) == [e \in DOMAIN t \cup {d} |-> IF e = d THEN x ELSE t[e]]

Open(t, file) == Put(t, Lowest(t), file)

\* pipe(2): the two lowest descriptors that are free, if there are two.
HasTwo(t) == \E d, e \in Free(t) : d # e
PipeEnds(t) == LET r == Lowest(t)
               IN [rend |-> r, wend |-> Min(Free(t) \ {r})]
Piped(t, pipe) ==
  Put(Put(t, PipeEnds(t).rend, ReadEnd(pipe)), PipeEnds(t).wend, WriteEnd(pipe))

Close(t, closed) == [d \in DOMAIN t \ closed |-> t[d]]
Dup2(t, from, to) == Put(t, to, t[from])

Holders(file) == {p \in DOMAIN table : file \in Range(table[p])}

-----------------------------------------------------------------------------
(* The streams of a child *)

NextChild == 1 + Cardinality({c \in Children : stage[c] # "unborn"})
Entry == Len(cs) + 1

\* The pipe of stream d of child c, and the pipe from child c to the next.
Captured(c, d) == <<c, {d}>>
Between(c) == <<c, {}>>

\* The ends of a captured stream, in the child and in the service.
Theirs(side, pipe) == IF side = "in" THEN ReadEnd(pipe) ELSE WriteEnd(pipe)
Ours(side, pipe) == IF side = "in" THEN WriteEnd(pipe) ELSE ReadEnd(pipe)

Side(m, side) == {d \in DOMAIN m : m[d].side = side}

\* d is the first of the streams S: a map of inputs and then a map of outputs
\* are gone through.
InTurn(m, S, d) ==
  /\ d \in S
  /\ \A e \in S : IF m[d].side = m[e].side THEN d <= e ELSE m[d].side = "in"

\* stream_info::stream_info for a stream with behavior b, given its pipe.
stream_info(b, ends) ==
  CASE b.type = "capture" ->
         [type |-> "use_pipe", side |-> b.side,
          theirs |-> IF b.side = "in" THEN ends.rend ELSE ends.wend,
          ours |-> IF b.side = "in" THEN ends.wend ELSE ends.rend]
    [] b.type = "silence" -> [type |-> "use_file", side |-> b.side]
    [] OTHER -> b

\* The streams that connect a child of a pipeline with its neighbours.
Handles(i) ==
  [d \in Links(i, Len(plan)) |->
     [type |-> "use_handle", side |-> IF d = 0 THEN "in" ELSE "out",
      theirs |-> IF d = 0 THEN pipes[i - 1].rend ELSE pipes[i].wend]]

WithHandles(infos, handles) ==
  [d \in DOMAIN infos \cup DOMAIN handles |->
     IF d \in DOMAIN infos THEN infos[d] ELSE handles[d]]

\* What child c is promised (stream_behavior.hpp): the streams of its context
\* and those that link it to its neighbours, if the service has the table t, in
\* which the launch made what is in made.
Promised(c, ctx, links, t, made) ==
  LET inherited == {d \in DOMAIN ctx : /\ ctx[d].type = "inherit"
                                       /\ d \in DOMAIN t \ made}
      given == {d \in DOMAIN ctx : ctx[d].type \in {"capture", "silence"}}
                 \cup inherited \cup links
      file(d) == CASE d \notin DOMAIN ctx ->
                        IF d = 0 THEN ReadEnd(Between(c - 1)) ELSE WriteEnd(Between(c))
                   [] d \in inherited -> t[d]
                   [] d \in DOMAIN ctx /\ ctx[d].type = "capture" ->
                        Theirs(ctx[d].side, Captured(c, d))
                   [] OTHER -> Device(ctx[d].side)
      redirected == {d \in DOMAIN ctx : /\ ctx[d].type = "redirect"
                                        /\ ctx[d].to \in given}
  IN [d \in given \cup redirected |->
        file(IF d \in redirected THEN ctx[d].to ELSE d)]

Taken(info) ==
  CASE info.type = "use_pipe" -> {info.ours, info.theirs}
    [] info.type = "use_handle" -> {info.theirs}
    [] OTHER -> {}

\* No stream is put on a descriptor that was made for another one, none is
\* inherited that was made for another child, and none is redirected to one
\* that its context does not connect.
Apart(infos, made) ==
  LET moved == {d \in DOMAIN infos :
                  infos[d].type \in {"use_pipe", "use_handle", "use_file"}}
  IN /\ \A d, e \in moved : d \in Taken(infos[e]) => d = e
     /\ \A d \in DOMAIN infos \cap made :
          infos[d].type = "inherit" => \E e \in moved : d \in Taken(infos[e])
     /\ \A d \in DOMAIN infos :
          infos[d].type = "redirect" =>
            infos[d].to \in {e \in DOMAIN infos : infos[e].type # "redirect"}

-----------------------------------------------------------------------------
(* The service *)

\* An exception leaves the launch: its pipes, streams and child objects are
\* destroyed; the children it has forked go on, unknown to anybody.
Throw ==
  /\ table' = [table EXCEPT
       ![Service] = Close(@, local \cup UNION {owns[c] : c \in Range(cs)})]
  /\ owns' = [c \in Children |-> IF c \in Range(cs) THEN {} ELSE owns[c]]
  /\ phase' = "idle"
  /\ plan' = <<>> /\ cs' = <<>> /\ pipes' = <<>> /\ streams' = <<>>
  /\ local' = {}
  /\ UNCHANGED <<original, childVars>>

\* launch or posix_launch, of one context, or launch_pipeline.
Launch(p) ==
  /\ phase = "idle"
  /\ NextChild + Len(p) - 1 <= MaxChildren
  /\ phase' = "streams"
  /\ plan' = p /\ cs' = <<>>
  /\ UNCHANGED <<original, table, pipes, streams, local, owns, childVars>>

\* pipe::pipe, which throws when there are too few descriptors.
MakePipe(pipe) ==
  /\ HasTwo(table[Service])
  /\ table' = [table EXCEPT ![Service] = Piped(@, pipe)]
  /\ LET ends == PipeEnds(table[Service])
     IN local' = local \cup {ends.rend, ends.wend}

\* launch_pipeline makes the pipes between its children first.
Linked == Len(pipes) = Len(plan) - 1
MakeLink ==
  /\ phase = "streams" /\ ~Linked
  /\ \/ /\ MakePipe(Between(NextChild + Len(pipes)))
        /\ pipes' = Append(pipes, PipeEnds(table[Service]))
        /\ UNCHANGED <<original, phase, plan, cs, streams, owns, childVars>>
     \/ ~HasTwo(table[Service]) /\ Throw

Unmade == DOMAIN plan[Entry] \ DOMAIN streams

MakeStream(d) ==
  /\ phase = "streams" /\ Linked
  /\ InTurn(plan[Entry], Unmade, d)
  /\ LET b == plan[Entry][d]
     IN \/ /\ \/ b.type = "capture" /\ MakePipe(Captured(NextChild, d))
              \/ b.type # "capture" /\ UNCHANGED <<table, local>>
           /\ streams' = Put(streams, d, stream_info(b, PipeEnds(table[Service])))
           /\ UNCHANGED <<original, phase, plan, cs, pipes, owns, childVars>>
        \/ b.type = "capture" /\ ~HasTwo(table[Service]) /\ Throw

Forks == phase = "streams" /\ Linked /\ Unmade = {}

ForkFails == Forks /\ Throw

\* posix_start: the child begins with the table and the maps of the service.
Fork ==
  /\ Forks
  /\ LET c == NextChild
         infos == WithHandles(streams, Handles(Entry))
     IN /\ stage' = [stage EXCEPT ![c] = "forked"]
        /\ table' = [table EXCEPT ![c] = table[Service]]
        /\ streams' = infos
        /\ memory' = [memory EXCEPT ![c] = infos]
        /\ left' = [left EXCEPT ![c] =
                      {d \in DOMAIN infos : infos[d].type # "inherit"}]
        /\ want' = [want EXCEPT ![c] = Promised(c, plan[Entry], Links(Entry, Len(plan)),
                                           table[Service], local)]
        /\ apart' = IF Apart(infos, local) THEN apart \cup {c} ELSE apart
        /\ cs' = Append(cs, c)
  /\ phase' = "forked"
  /\ UNCHANGED <<original, plan, pipes, local, owns>>

EndsOf(S, end) == {streams[d][end] : d \in S}
Pipes == {d \in DOMAIN streams : streams[d].type = "use_pipe"}
Given == {d \in DOMAIN streams : streams[d].type = "use_handle"}

\* The streams whose pipes become those of the child object: the first child
\* of a pipeline has an input, the last one has outputs.
Located ==
  {d \in Pipes : \/ Len(plan) = 1
                 \/ Len(cs) = 1 /\ d = 0
                 \/ Len(cs) = Len(plan) /\ d \in {1, 2}}

\* A bug form: the handle given to the child stays open.
ClosedByPipe == EndsOf(Pipes, "theirs") \cup EndsOf(Pipes \ Located, "ours")

\* What the service closes after a fork: the child's ends of the pipes in
\* posix_start; the handles of a pipeline, and pipes without an object, with
\* the maps that own them.
ClosedAfterFork == ClosedByPipe \cup EndsOf(Given, "theirs")

\* The rest of the launch of a child: its object gets the other ends
\* (posix_info_locate_pipe, posix_child), the maps are destroyed.
Return ==
  /\ phase = "forked"
  /\ table' = [table EXCEPT ![Service] = Close(@, ClosedAfterFork)]
  /\ owns' = [owns EXCEPT ![cs[Len(cs)]] = EndsOf(Located, "ours")]
  /\ local' = local \ (ClosedAfterFork \cup EndsOf(Located, "ours"))
  /\ streams' = <<>>
  /\ \/ /\ Len(cs) = Len(plan)
        /\ phase' = "idle" /\ pipes' = <<>>
     \/ /\ Len(cs) # Len(plan)
        /\ phase' = "streams" /\ UNCHANGED pipes
  /\ UNCHANGED <<original, plan, cs, childVars>>

\* The service closes descriptors its child objects own.
Disown(fds) ==
  /\ table' = [table EXCEPT ![Service] = Close(@, fds)]
  /\ owns' = [c \in Children |-> owns[c] \ fds]

OwnInputs == {d \in UNION {owns[c] : c \in Range(cs)} : table[Service][d][1] = "write"}
OwnOutputs == {d \in UNION {owns[c] : c \in Range(cs)} : table[Service][d][1] = "read"}

\* The service is done with the children of the last launch: it closes their
\* inputs, reads their outputs to the end, and waits for them in turn.
CloseInputs ==
  /\ phase = "idle" /\ cs # <<>>
  /\ Disown(OwnInputs)
  /\ phase' = "reading"
  /\ UNCHANGED <<original, launchVars, childVars>>

ReadToTheEnd ==
  /\ phase = "reading"
  /\ \A d \in OwnOutputs : Holders(WriteEnd(table[Service][d][2])) = {}
  /\ Disown(OwnOutputs)
  /\ phase' = "waiting"
  /\ UNCHANGED <<original, launchVars, childVars>>

\* wait_children: one child after the other; what their status is makes no
\* difference to the service.
wait_children ==
  /\ phase = "waiting"
  /\ \/ /\ cs # <<>> /\ stage[Head(cs)] = "exited"
        /\ stage' = [stage EXCEPT ![Head(cs)] = "reaped"]
        /\ cs' = Tail(cs)
        /\ UNCHANGED <<phase, plan>>
     \/ /\ cs = <<>>
        /\ phase' = "idle" /\ plan' = <<>>
        /\ UNCHANGED <<stage, cs>>
  /\ UNCHANGED <<original, table, pipes, streams, local, owns, memory, left, want,
                 apart>>

-----------------------------------------------------------------------------
(* A child *)

\* file_handle::posix_remap, if it is called.
posix_remap(t, from, to) ==
  IF from = to THEN t ELSE Close(Dup2(t, from, to), {from})

\* One stream in setup_input or setup_output; redirect in its last loop.
SetupStream(t, d, info) ==
  CASE info.type = "use_file" -> posix_remap(Open(t, Device(info.side)), Lowest(t), d)
    [] info.type = "use_handle" -> posix_remap(t, info.theirs, d)
    [] info.type = "use_pipe" -> posix_remap(Close(t, {info.ours}), info.theirs, d)
    [] info.type = "redirect" -> Dup2(t, info.to, d)

\* open(2) fails without a free descriptor, dup2(2) on one that is closed.
SetupFails(t, d, info) ==
  CASE info.type = "use_file" -> Free(t) = {}
    [] info.type \in {"use_handle", "use_pipe"} ->
         info.theirs # d /\ info.theirs \notin DOMAIN t
    [] info.type = "redirect" -> info.to \notin DOMAIN t

\* A bug form: a stream is redirected in its turn.
RedirectInTurn(m, S) == S

\* Streams are redirected when the others are in their places.
SetupFirst(m, S) ==
  LET others == {d \in S : m[d].type # "redirect"}
  IN IF others # {} THEN others ELSE S

\* A bug form: the other descriptors stay open.
KeepOthers(t, infos) == t

\* What is not in a map is closed, whatever it is.
CloseOthers(t, infos) == Close(t, DOMAIN t \ DOMAIN infos)

\* A child that cannot set up its streams exits; so does one that is killed
\* or whose work directory or program does not exist.
End(c) ==
  /\ stage' = [stage EXCEPT ![c] = "exited"]
  /\ table' = [table EXCEPT ![c] = <<>>]
  /\ left' = [left EXCEPT ![c] = {}]
  /\ UNCHANGED <<original, phase, launchVars, owns, memory, want, apart>>

Setup(c, d) ==
  /\ stage[c] = "forked"
  /\ InTurn(memory[c], SetupFirst(memory[c], left[c]), d)
  /\ LET info == memory[c][d]
     IN \/ /\ ~SetupFails(table[c], d, info)
           /\ table' = [table EXCEPT ![c] = SetupStream(@, d, info)]
           /\ left' = [left EXCEPT ![c] = @ \ {d}]
           /\ UNCHANGED <<original, phase, launchVars, owns, stage, memory, want,
                          apart>>
        \/ SetupFails(table[c], d, info) /\ End(c)

Execve(c) ==
  /\ stage[c] = "forked" /\ left[c] = {}
  /\ stage' = [stage EXCEPT ![c] = "running"]
  /\ table' = [table EXCEPT ![c] = CloseOthers(@, memory[c])]
  /\ UNCHANGED <<original, phase, launchVars, owns, memory, left, want, apart>>

Exit(c) == stage[c] \in {"forked", "running"} /\ End(c)

\* A program ends when its input does, or when nobody reads its output.
Finish(c) ==
  /\ stage[c] = "running"
  /\ \/ \A d \in Side(memory[c], "in") \cap DOMAIN table[c] :
          table[c][d][1] = "read" => Holders(WriteEnd(table[c][d][2])) = {}
     \/ \E d \in Side(memory[c], "out") \cap DOMAIN table[c] :
          table[c][d][1] = "write" /\ Holders(ReadEnd(table[c][d][2])) = {}
  /\ End(c)

LaunchNext ==
  \/ \E p \in Plans : Launch(p)
  \/ MakeLink \/ \E d \in Fds : MakeStream(d)
  \/ Fork \/ ForkFails \/ Return
  \/ CloseInputs \/ ReadToTheEnd \/ wait_children
  \/ \E c \in Children : \/ \E d \in Fds : Setup(c, d)
                         \/ Execve(c) \/ Exit(c) \/ Finish(c)

\* A child gets to its execve, or exits.
Begin(c) ==
  /\ stage[c] = "forked"
  /\ \E s \in {"running", "exited"} : stage' = [stage EXCEPT ![c] = s]

\* The service runs, and so do the children it waits for; the others may
\* stay as they are once they have begun.
LaunchFairness ==
  /\ WF_processVars(ReadToTheEnd) /\ WF_processVars(wait_children)
  /\ \A c \in Children : WF_stage(Begin(c))
  /\ \A c \in Children : WF_processVars(c \in Range(cs) /\ Finish(c))

LaunchSpec == LaunchInit /\ [][LaunchNext]_processVars /\ LaunchFairness

-----------------------------------------------------------------------------
\* A program begins with the streams its context asks for, each connected as
\* stream_behavior.hpp says, and with no other descriptor of the service:
\* unless several streams were to be put on each other's descriptors, which
\* setup_input and setup_output do not guard against.
GetsWhatWasAsked ==
  \A c \in apart : stage[c] = "running" => table[c] = want[c]

\* Whatever fails, the service has the descriptors it began with and those
\* that an object of it owns, one for each captured stream of a child: no
\* launch leaks one or closes one that is not its own (file_handle, pipe).
NoneLeaks ==
  LET owned == local \cup UNION {owns[c] : c \in Children}
      t == table[Service]
  IN /\ DOMAIN t = DOMAIN original \cup owned
     /\ \A d \in DOMAIN original : t[d] = original[d]
     /\ \A c \in Children : \A d \in owns[c] : t[d][2][1] = c
     /\ phase = "idle" => local = {}

\* The outputs of children reach their end, and waiting for children that
\* read each other ends, whoever was forked meanwhile: no end of a pipe is
\* left where nobody uses it (posix_start, launch_pipeline, wait_children).
WaitReturns == phase = "reading" ~> phase = "idle"
=============================================================================
