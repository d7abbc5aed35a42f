-------------------------- MODULE FileServerProofs --------------------------
(***************************************************************************)
(* What the handler of the file server is told, for any requests, any      *)
(* directory, files of any length and buffers of any size.                 *)
(*                                                                         *)
(* TellsTheTruth is not inductive: it says nothing before the handler is   *)
(* called.  Told says for each place of the call whether an answer has     *)
(* been begun: from the status line on an error can no more be one that    *)
(* means that nothing was sent, and until then it must be.                 *)
(***************************************************************************)
EXTENDS FileServer, TLAPS

\* Errors of the file or of the request, found before the socket is used.
Refusals == {"file_not_found", "file_type_not_supported", "filter_set",
             "write_state_not_supported", "filesystem_error", "io_error"}

\* The operations of the socket.
Operations == {"response", "single", "multi", "last", "end"}

\* Nothing is begun, something is under way, or the handler was called.
Told ==
  /\ pc = "thrown" => ~req.dir
  /\ pc \in {"call", "file", "send", "posted", "thrown"} =>
       status = 0 /\ wire = <<>> /\ results = <<>> /\ ~whole
  /\ pc \in {"issued", "single", "multi"} =>
       status # 0 /\ results = <<>> /\ ~whole
  /\ pc = "issued" => op \in Operations
  /\ pc = "posted" => op \in Refusals
  /\ pc = "done" =>
       \E r \in {"ok", "irrecoverable_io_error", "socket_error"}
               \cup Refusals :
         /\ results = <<r>>
         /\ r = "ok" <=> whole
         /\ r \in {"irrecoverable_io_error", "socket_error"} => status # 0
         /\ r \in Refusals => status = 0 /\ wire = <<>>

IInv ==
  /\ pc \in {"call", "file", "send", "issued", "single", "multi", "posted",
             "done", "thrown"}
  /\ whole \in BOOLEAN
  /\ Told

LEMMA InitIInv == Init => IInv
BY DEF Init, IInv, Told

-----------------------------------------------------------------------------
(* What the ways to answer do *)

LEMMA PostStep ==
  ASSUME IInv, pc \in {"call", "file", "send"}, NEW err \in Refusals, Post(err)
  PROVE  IInv'
BY DEF IInv, Told, Post, Refusals

LEMMA ThrowStep ==
  ASSUME IInv, pc \in {"call", "file"}, ~req.dir, Throw
  PROVE  IInv'
BY DEF IInv, Told, Throw

\* An answer is begun only with a status line.
LEMMA RespondStep ==
  ASSUME IInv, pc \in {"call", "file", "send"}, NEW code, code # 0,
         NEW contents, Respond(code, contents)
  PROVE  IInv'
BY DEF IInv, Told, Respond, Issue, Operations

LEMMA StreamStep ==
  ASSUME IInv, pc = "send", NEW code, code # 0,
         NEW loop \in {"single", "multi"},
         NEW first, NEW n, Stream(code, loop, first, n)
  PROVE  IInv'
BY DEF IInv, Told, Stream, Issue, Operations

\* The handler is called for the first time, with what is true.
LEMMA HandleStep ==
  ASSUME IInv, pc \in {"posted", "issued", "single", "multi"},
         NEW r, Handle(r), UNCHANGED status, whole' \in BOOLEAN,
         \/ r \in {"ok", "irrecoverable_io_error", "socket_error"}
            /\ status # 0 /\ (whole' <=> r = "ok")
         \/ r \in Refusals /\ status = 0 /\ wire' = <<>> /\ ~whole'
  PROVE  IInv'
<1>1. results = <<>> /\ pc' = "done"
  BY DEF IInv, Told, Handle
<1>2. results' = <<r>>
  BY <1>1 DEF Handle
<1>3. \E e \in {"ok", "irrecoverable_io_error", "socket_error"} \cup Refusals :
        /\ results' = <<e>>
        /\ e = "ok" <=> whole'
        /\ e \in {"irrecoverable_io_error", "socket_error"} => status' # 0
        /\ e \in Refusals => status' = 0 /\ wire' = <<>>
  <2>1. r \in {"ok", "irrecoverable_io_error", "socket_error"} \cup Refusals
    OBVIOUS
  <2>2. /\ r = "ok" <=> whole'
        /\ r \in {"irrecoverable_io_error", "socket_error"} => status' # 0
        /\ r \in Refusals => status' = 0 /\ wire' = <<>>
    BY DEF Refusals
  <2> QED BY <1>2, <2>1, <2>2
<1> QED BY <1>1, <1>3 DEF IInv, Told

-----------------------------------------------------------------------------
(* The steps *)

LEMMA TransmitDirStep ==
  ASSUME IInv, transmit_dir
  PROVE  IInv'
<1>1. pc = "call"
  BY DEF transmit_dir
<1>2. \/ Respond(405, <<>>)
      \/ \E err \in Refusals : Post(err)
      \/ pc' = "file" /\ UNCHANGED <<op, status, wire, whole, results>>
  BY DEF transmit_dir, Refusals
<1>3. CASE pc' = "file" /\ UNCHANGED <<op, status, wire, whole, results>>
  BY <1>1, <1>3 DEF IInv, Told
<1> QED BY <1>1, <1>2, <1>3, RespondStep, PostStep

LEMMA TransmitFileStep ==
  ASSUME IInv, transmit_file
  PROVE  IInv'
<1>1. pc \in {"call", "file"}
  BY DEF transmit_file
<1>2. \/ \E err \in Refusals : Post(err)
      \/ ~req.dir /\ Throw
      \/ Respond(200, <<>>)
      \/ Conditions # 0 /\ Respond(Conditions, <<>>)
      \/ pc' = "send" /\ UNCHANGED <<op, status, wire, whole, results>>
  BY DEF transmit_file, Refusals
<1>3. CASE pc' = "send" /\ UNCHANGED <<op, status, wire, whole, results>>
  BY <1>1, <1>3 DEF IInv, Told
<1> QED BY <1>1, <1>2, <1>3, RespondStep, PostStep, ThrowStep

\* A file that cannot be read is refused; otherwise its answer is begun.
LEMMA SendFileStep ==
  ASSUME IInv, send_file
  PROVE  IInv'
<1>1. pc = "send" /\ "io_error" \in Refusals
  BY DEF send_file, Refusals
<1>2. CASE Post("io_error")
  BY <1>1, <1>2, PostStep
<1>3. ASSUME NEW code \in {200, 206, 416}, NEW contents,
             Respond(code, contents)
      PROVE  IInv'
  BY <1>1, <1>3, RespondStep
<1>4. ASSUME NEW code \in {200, 206}, NEW loop \in {"single", "multi"},
             NEW first, NEW n, Stream(code, loop, first, n)
      PROVE  IInv'
  BY <1>1, <1>4, StreamStep
<1>5. CASE \E range : Send(206, range.first + range.second,
                           Bytes(file, range.first, range.second),
                           Stream(206, "single", range.first, range.second))
  BY <1>2, <1>3, <1>4, <1>5 DEF Send
<1>6. CASE \E end : Send(206, end, Multipart(size),
                         Stream(206, "multi", 0, Len(boundary_line)))
  BY <1>2, <1>3, <1>4, <1>6 DEF Send
<1>7. CASE Send(200, size, Bytes(file, 0, size),
                Stream(200, "single", 0, size))
  BY <1>2, <1>3, <1>4, <1>7 DEF Send
<1>8. CASE Respond(200, <<>>) \/ Respond(416, <<>>)
  BY <1>3, <1>8
<1> QED BY <1>5, <1>6, <1>7, <1>8 DEF send_file

LEMMA ProcessStep ==
  ASSUME IInv, process \/ process_multi
  PROVE  IInv'
<1>1. /\ pc \in {"single", "multi"} /\ UNCHANGED <<status, wire, whole>>
      /\ \/ /\ pc' = "issued" /\ op' \in {"end", "single", "multi", "last"}
            /\ UNCHANGED results
         \/ UNCHANGED <<pc, op, results>>
         \/ Handle("irrecoverable_io_error")
  <2>1. CASE process
    BY <2>1 DEF process, Issue, settled, ReadFails
  <2>2. CASE process_multi
    BY <2>2 DEF process_multi, settled, ReadFails
  <2> QED BY <2>1, <2>2
<1>2. CASE Handle("irrecoverable_io_error")
  <2>1. status # 0 /\ ~whole' /\ whole' \in BOOLEAN
    BY <1>1 DEF IInv, Told
  <2> QED BY <1>1, <1>2, <2>1, HandleStep
<1>3. CASE UNCHANGED <<pc, op, results>>
  BY <1>1, <1>3 DEF IInv, Told
<1>4. CASE /\ pc' = "issued" /\ op' \in {"end", "single", "multi", "last"}
           /\ UNCHANGED results
  BY <1>1, <1>4 DEF IInv, Told, Operations
<1> QED BY <1>1, <1>2, <1>3, <1>4

LEMMA CompletedStep ==
  ASSUME IInv, Completed
  PROVE  IInv'
<1>1. /\ pc = "issued" /\ op \in Operations /\ status # 0 /\ results = <<>>
      /\ status' = status /\ whole' = (op \in {"response", "end"})
      /\ whole' \in BOOLEAN
  BY DEF IInv, Told, Completed
<1>2. CASE op \in {"response", "end"}
  <2>1. Handle("ok")
    BY <1>2 DEF Completed
  <2> QED BY <1>1, <1>2, <2>1, HandleStep
<1>3. CASE op \in {"single", "multi"}
  <2>1. pc' = op /\ UNCHANGED <<op, results>>
    BY <1>3 DEF Completed
  <2> QED BY <1>1, <1>3, <2>1 DEF IInv, Told
<1>4. CASE op = "last"
  <2>1. op' = "end" /\ UNCHANGED <<pc, results>>
    BY <1>4 DEF Completed
  <2> QED BY <1>1, <1>4, <2>1 DEF IInv, Told, Operations
<1> QED BY <1>1, <1>2, <1>3, <1>4 DEF Operations

LEMMA FailsStep ==
  ASSUME IInv, Fails \/ Posted \/ Resize \/ UNCHANGED vars
  PROVE  IInv'
<1>1. CASE Fails
  BY <1>1, HandleStep DEF Fails, IInv, Told
<1>2. CASE Posted
  BY <1>2, HandleStep DEF Posted, IInv, Told
<1>3. CASE UNCHANGED <<req, pc, op, status, wire, whole, results>>
  BY <1>3 DEF IInv, Told
<1> QED BY <1>1, <1>2, <1>3 DEF Resize, vars

LEMMA NextIInv == IInv /\ [Next]_vars => IInv'
BY TransmitDirStep, TransmitFileStep, SendFileStep, ProcessStep,
   CompletedStep, FailsStep DEF Next

\* The handler of async_response_transmit_file and _dir is called at most
\* once, and what it is told is what the client can have got: after ok the
\* whole answer, after irrecoverable_io_error or an error of the socket one
\* that was begun and not ended, after any other error nothing; and a call that
\* ends with an exception, which only one for a given file does, has sent
\* nothing and calls no handler.
THEOREM HandlerIsToldTheTruth == Spec => []TellsTheTruth
<1>1. Spec => []IInv
  BY InitIInv, NextIInv, PTL DEF Spec
<1>2. IInv => TellsTheTruth
  <2> SUFFICES ASSUME IInv PROVE TellsTheTruth
    OBVIOUS
  <2>1. ToSet(<<>>) = {}
    BY DEF ToSet
  <2>2. \A r : ToSet(<<r>>) = {r}
    BY DEF ToSet
  <2>3. CASE pc = "done"
    BY <2>2, <2>3 DEF IInv, Told, TellsTheTruth, Refusals
  <2>4. CASE pc # "done"
    BY <2>1, <2>4 DEF IInv, Told, TellsTheTruth
  <2> QED BY <2>3, <2>4
<1> QED BY <1>1, <1>2, PTL
=============================================================================
