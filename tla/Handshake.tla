----------------------------- MODULE Handshake -----------------------------
(***************************************************************************)
(* The start of one worker over its control pipe, file descriptor 3:       *)
(* process::run_process (src/src/process.C) reads lines through a          *)
(* systembuf (src/process/boost/process/detail/systembuf.hpp) while the    *)
(* worker, and any process that inherited the descriptor from it, writes   *)
(* them (src/python/wye/func.py, src/examples).                            *)
(*                                                                         *)
(* A line is what a write adds to the pipe; a line cut short by the death  *)
(* of the last writer ends in eof() whatever it says, so it is the end of  *)
(* file here.                                                              *)
(***************************************************************************)
EXTENDS Naturals, Sequences

CONSTANTS
  Names,      \* names of a worker's inputs
  Addrs,      \* their addresses
  NoAddr,
  Worker,     \* the process that was forked
  Helpers,    \* processes it may start, which inherit descriptor 3
  Capacity,   \* lines the pipe holds
  MaxLines    \* bound: lines written in one behaviour

ASSUME HandshakeAssumption ==
  /\ NoAddr \notin Addrs
  /\ Worker \notin Helpers
  /\ Capacity \in Nat \ {0}
  /\ MaxLines \in Nat

VARIABLES
  writers,    \* processes that hold the write end
  started,    \* processes that ever did
  pipe,       \* lines in the kernel's buffer
  buf,        \* lines in read_buf_, not read by getline yet
  said,       \* every line written so far
  inputs,     \* worker::inputs
  cut,        \* a signal ended a read: the stream is at eof
  answer      \* how run_process ended

pipeVars == <<writers, started, pipe, said>>
readVars == <<buf, inputs, cut, answer>>
vars == <<pipeVars, readVars>>

Said(k) == [kind |-> k]
Input(n, a) == [kind |-> "INPUT", name |-> n, addr |-> a]

Inputs == {Input(n, a) : n \in Names, a \in Addrs}
Bad == {Said("ERROR"), Said("INPUT without colon"), Said("other")}
Lines == {Said("INIT"), Said("NOTICE"), Said("RUNNING")} \cup Bad \cup Inputs

TypeOK ==
  /\ writers \subseteq started
  /\ started \subseteq {Worker} \cup Helpers
  /\ pipe \in Seq(Lines)
  /\ buf \in Seq(Lines)
  /\ said \in Seq(Lines)
  /\ inputs \in [Names -> Addrs \cup {NoAddr}]
  /\ cut \in BOOLEAN
  /\ answer \in {"pending", "ok", "error"}

Init ==
  /\ writers = {Worker} /\ started = {Worker}
  /\ pipe = <<>> /\ buf = <<>> /\ said = <<>>
  /\ inputs = [n \in Names |-> NoAddr]
  /\ cut = FALSE
  /\ answer = "pending"

-----------------------------------------------------------------------------
(* The worker and its helpers *)

\* A write blocks while the pipe is full, also after the handshake, when
\* nobody reads it any more.
Write(p, line) ==
  /\ p \in writers
  /\ Len(pipe) < Capacity
  /\ Len(said) < MaxLines
  /\ pipe' = Append(pipe, line)
  /\ said' = Append(said, line)
  /\ UNCHANGED <<writers, started, readVars>>

Inherit(p, q) ==
  /\ p \in writers
  /\ q \in Helpers \ started
  /\ writers' = writers \cup {q}
  /\ started' = started \cup {q}
  /\ UNCHANGED <<pipe, said, readVars>>

CloseEnd(p) ==
  /\ p \in writers
  /\ writers' = writers \ {p}
  /\ UNCHANGED <<started, pipe, said, readVars>>

-----------------------------------------------------------------------------
(* run_process *)

Reading == answer = "pending" /\ ~cut

\* A bug form: the buffer is filled again before it is used up.
AnyTime == TRUE

BufferUsedUp == buf = <<>>

\* systembuf::underflow: one read(2) takes part of what the pipe holds.
underflow(n) ==
  /\ Reading
  /\ BufferUsedUp
  /\ n \in 1 .. Len(pipe)
  /\ buf' = SubSeq(pipe, 1, n)
  /\ pipe' = SubSeq(pipe, n + 1, Len(pipe))
  /\ UNCHANGED <<writers, started, said, inputs, cut, answer>>

\* A signal without SA_RESTART makes a blocked read(2) fail, and underflow
\* takes -1 for the end of the file.
Interrupted ==
  /\ Reading
  /\ buf = <<>> /\ pipe = <<>> /\ writers # {}
  /\ cut' = TRUE
  /\ UNCHANGED <<pipeVars, buf, inputs, answer>>

\* A bug form: the address is not split from the name.
NotSplit(line) == [inputs EXCEPT ![line.name] = line]

\* A bug form: the first address announced for an input is kept.
KeepFirst(line) ==
  IF inputs[line.name] = NoAddr
  THEN [inputs EXCEPT ![line.name] = line.addr] ELSE inputs

Record(line) == [inputs EXCEPT ![line.name] = line.addr]

\* One iteration of the getline loop.
getline ==
  /\ Reading
  /\ buf # <<>>
  /\ buf' = Tail(buf)
  /\ LET line == Head(buf)
     IN \/ line.kind \in {"INIT", "NOTICE"} /\ UNCHANGED <<inputs, answer>>
        \/ /\ line \in Inputs
           /\ inputs' = Record(line)
           /\ UNCHANGED answer
        \/ line \in Bad /\ answer' = "error" /\ UNCHANGED inputs
        \/ line.kind = "RUNNING" /\ answer' = "ok" /\ UNCHANGED inputs
  /\ UNCHANGED <<pipeVars, cut>>

\* A bug form: the end of the file is waited for until the worker is gone,
\* not until the pipe is.
WorkerGone == Worker \notin writers

\* A bug form: the service keeps its own copy of the write end open.
OwnEndOpen == FALSE

NobodyWrites == writers = {}

\* The loop ends at eof(): "Process didn't send RUNNING".
AtEof ==
  /\ answer = "pending"
  /\ cut \/ (buf = <<>> /\ pipe = <<>> /\ NobodyWrites)
  /\ answer' = "error"
  /\ UNCHANGED <<pipeVars, buf, inputs, cut>>

-----------------------------------------------------------------------------
\* The handshake is over, and nobody can write a line any more.
Over == answer # "pending" /\ UNCHANGED vars

Reader == (\E n \in 1 .. Capacity : underflow(n)) \/ getline \/ AtEof

Next ==
  \/ \E p \in {Worker} \cup Helpers :
       \/ \E line \in Lines : Write(p, line)
       \/ \E q \in Helpers : Inherit(p, q)
       \/ CloseEnd(p)
  \/ Reader
  \/ Interrupted
  \/ Over

Spec == Init /\ [][Next]_vars

\* The service's main thread runs; the workers may do as they like.
FairSpec == Spec /\ WF_vars(Reader)

-----------------------------------------------------------------------------
Decisive(line) == line \in Bad \/ line.kind = "RUNNING"

\* The lines before the one that decides, all of them if none does.
BeforeVerdict ==
  {i \in 1 .. Len(said) : \A k \in 1 .. i : ~Decisive(said[k])}

\* The last address announced for n by one of the lines.
LastAddr(n, lines) ==
  LET for_n == {i \in lines : said[i] \in Inputs /\ said[i].name = n}
  IN IF for_n = {} THEN NoAddr
     ELSE said[CHOOSE i \in for_n : \A k \in for_n : k <= i].addr

\* Nothing is lost, repeated or reordered between the worker and the getline
\* loop of run_process, although the kernel's pipe and the systembuf both
\* buffer and a read takes any lines of what is there: what is buffered is
\* the end of what was said, and worker::inputs comes from the lines before.
\* A line is one record: cuts inside are not watched.
InOrder ==
  LET rest == buf \o pipe
      read == Len(said) - Len(rest)
  IN /\ read >= 0
     /\ rest = SubSeq(said, read + 1, Len(said))
     /\ inputs = [n \in Names |-> LastAddr(n, BeforeVerdict \cap 1 .. read)]
     /\ answer = "pending" => 1 .. read \subseteq BeforeVerdict

\* run_process cannot hang once the worker has said RUNNING or something it
\* does not understand, or once the last write end is closed.
DecidedIsAnswered ==
  (BeforeVerdict # 1 .. Len(said) \/ writers = {}) ~> answer # "pending"

-----------------------------------------------------------------------------
(* The promise of Start *)

\* Once a read was cut short nothing that is said counts any more.
Announced ==
  IF cut THEN inputs ELSE [n \in Names |-> LastAddr(n, BeforeVerdict)]

Verdict ==
  IF cut THEN "eof"
  ELSE IF BeforeVerdict # 1 .. Len(said)
       THEN LET first == said[CHOOSE i \in 1 .. Len(said) :
                    /\ i \notin BeforeVerdict
                    /\ \A k \in 1 .. i - 1 : k \in BeforeVerdict]
            IN IF first.kind = "RUNNING" THEN "running" ELSE "bad"
  ELSE IF writers = {} THEN "eof" ELSE "silent"

S == INSTANCE Start WITH
  announced <- Announced,
  verdict <- Verdict,
  answered <- answer,
  shown <- IF answer = "ok" THEN inputs ELSE [n \in Names |-> NoAddr]

\* The reply to create-worker follows the first decisive line the worker
\* wrote, and its "inputs" are the last addresses announced before it,
\* whatever the buffering, the helpers and the signals.
ImplementsStart == S!StartSpec
=============================================================================
