----------------------------- MODULE Connection -----------------------------
(***************************************************************************)
(* The connections of wye-service: one coroutine each (src/src/connection.C*)
(* and the acceptor of main.C) over the server half of basic_socket        *)
(* (src/http/include/boost/http/socket-inl.hpp), all in one event loop.    *)
(*                                                                         *)
(* What a client sends is a stream of the parser's tokens, cut into reads  *)
(* at any place; bytes that complete no token make no difference.  A head  *)
(* or a chunk stands for all its tokens; "bad" for anything the parser     *)
(* refuses or the buffer cannot hold.  The part of the code between two    *)
(* awaits is one step; the manager is seen through how handle ends.        *)
(***************************************************************************)
EXTENDS Naturals, Sequences, FiniteSets

CONSTANTS
  Conns,      \* connections
  MaxTokens   \* bound: tokens that each client sends

ASSUME ConnectionAssumption == MaxTokens \in [Conns -> Nat]

VARIABLES
  sent,       \* the tokens the client has sent
  gone,       \* "no", or how the client left: "closed" or "reset"
  read,       \* how many of them the parser has consumed
  istate,     \* basic_socket::istate
  wstate,     \* basic_socket::writer_helper
  got,        \* chunks in message.body()
  expect,     \* message has one Expect: 100-continue
  pc,         \* where the coroutine is
  target,     \* what the pending read is for
  status,     \* the status of the reply, 0 before there is one
  handled,    \* connections whose request reached manager::handle
  err,        \* what ended the coroutine, if an error did
  svc         \* the service: "up", "aborted" by a connection, or "ended"

clientVars == <<sent, gone>>
sockVars == <<read, istate, wstate, got, expect>>
coVars == <<pc, target, status, handled, err, svc>>
vars == <<clientVars, sockVars, coVars>>

Tokens == {"head", "expecting head", "chunk", "eob", "eom", "bad"}
Heads == {"head", "expecting head"}

TypeOK ==
  /\ sent \in [Conns -> Seq(Tokens)]
  /\ gone \in [Conns -> {"no", "closed", "reset"}]
  /\ \A c \in Conns : read[c] \in 0 .. Len(sent[c])
  /\ istate \in [Conns -> {"empty", "message_ready", "body_ready"}]
  /\ wstate \in [Conns -> {"empty", "continue_issued", "finished"}]
  /\ \A c \in Conns : got[c] \in 0 .. MaxTokens[c]
  /\ expect \in [Conns -> BOOLEAN]
  /\ pc \in [Conns -> {"new", "reading", "continuing", "replying", "over"}]
  /\ target \in [Conns -> {"READY", "DATA", "END"}]
  /\ status \in [Conns -> {0, 200, 400, 500}]
  /\ handled \subseteq Conns
  /\ err \in [Conns -> {"none", "eof", "peer", "parsing_error",
                        "out_of_order"}]
  /\ svc \in {"up", "aborted", "ended"}

Init ==
  /\ sent = [c \in Conns |-> <<>>]
  /\ gone = [c \in Conns |-> "no"]
  /\ read = [c \in Conns |-> 0]
  /\ istate = [c \in Conns |-> "empty"]
  /\ wstate = [c \in Conns |-> "empty"]
  /\ got = [c \in Conns |-> 0]
  /\ expect = [c \in Conns |-> FALSE]
  /\ pc = [c \in Conns |-> "new"]
  /\ target = [c \in Conns |-> "READY"]
  /\ status = [c \in Conns |-> 0]
  /\ handled = {}
  /\ err = [c \in Conns |-> "none"]
  /\ svc = "up"

Up == svc = "up"

Count(kind, s) == Cardinality({i \in DOMAIN s : s[i] = kind})
Has(kinds, s) == \E i \in DOMAIN s : s[i] \in kinds

-----------------------------------------------------------------------------
(* The clients *)

\* What may come next in a stream: one request, and the head of another.
Follows(s) ==
  IF s = <<>> THEN Heads \cup {"bad"}
  ELSE LET last == s[Len(s)]
       IN CASE last \in Heads \cup {"chunk"} /\ ~Has({"eom"}, s) ->
                 {"chunk", "eob", "bad"}
            [] last = "eob" -> {"eom", "bad"}
            [] last = "eom" -> {"head"}
            [] OTHER -> {}

\* A client whose connection the service has closed is not followed.
Connected(c) == Up /\ gone[c] = "no" /\ pc[c] # "over"

Send(c, token) ==
  /\ Connected(c)
  /\ token \in Follows(sent[c])
  /\ Len(sent[c]) < MaxTokens[c]
  /\ sent' = [sent EXCEPT ![c] = Append(@, token)]
  /\ UNCHANGED <<gone, sockVars, coVars>>

\* The client shuts its side down, or its connection breaks.
Leave(c, how) ==
  /\ Connected(c)
  /\ gone' = [gone EXCEPT ![c] = how]
  /\ UNCHANGED <<sent, sockVars, coVars>>

-----------------------------------------------------------------------------
(* The coroutine, between two awaits *)

\* A bug form: the end of the file is thrown like any other error.
NeverSilent(e) == FALSE

\* connection.C returns quietly on this error and rethrows any other.
Silent(e) == e = "eof"

\* An exception that leaves the coroutine leaves ios.run() and main.
Throw(c, e) ==
  /\ err' = [err EXCEPT ![c] = e]
  /\ pc' = [pc EXCEPT ![c] = "over"]
  /\ svc' = IF Silent(e) THEN svc ELSE "aborted"

Read(c, t) ==
  /\ pc' = [pc EXCEPT ![c] = "reading"]
  /\ target' = [target EXCEPT ![c] = t]

\* async_write_response, called with the writer in state w.
Reply(c, code, w) ==
  /\ status' = [status EXCEPT ![c] = code]
  /\ wstate' = [wstate EXCEPT ![c] = "finished"]
  /\ \/ /\ w \in {"empty", "continue_issued"}
        /\ pc' = [pc EXCEPT ![c] = "replying"]
        /\ UNCHANGED <<err, svc>>
     \/ w = "finished" /\ Throw(c, "out_of_order")

\* read_json, manager::handle and the reply; handle may end the service.
HandleRequest(c, w) ==
  \/ Reply(c, 400, w) /\ UNCHANGED <<target, handled>>
  \/ /\ handled' = handled \cup {c}
     /\ \E code \in {200, 400, 500} : Reply(c, code, w)
     /\ UNCHANGED target
  \/ /\ handled' = handled \cup {c}
     /\ svc' = "ended"
     /\ wstate' = [wstate EXCEPT ![c] = w]
     /\ UNCHANGED <<pc, target, status, err>>

\* The loop over read_state(), with the read state i and the writer in w.
Loop(c, i, w) ==
  \/ /\ i \in {"message_ready", "body_ready"}
     /\ Read(c, IF i = "message_ready" THEN "DATA" ELSE "END")
     /\ wstate' = [wstate EXCEPT ![c] = w]
     /\ UNCHANGED <<status, handled, err, svc>>
  \/ i = "empty" /\ HandleRequest(c, w)

\* After async_read_request: 100-continue, or the loop.
AfterHead(c, i, w, expecting) ==
  \/ /\ expecting
     /\ \/ /\ w = "empty"
           /\ wstate' = [wstate EXCEPT ![c] = "continue_issued"]
           /\ pc' = [pc EXCEPT ![c] = "continuing"]
           /\ UNCHANGED <<err, svc>>
        \/ w # "empty" /\ Throw(c, "out_of_order") /\ UNCHANGED wstate
     /\ UNCHANGED <<target, status, handled>>
  \/ ~expecting /\ Loop(c, i, w)

-----------------------------------------------------------------------------
(* The socket *)

\* The acceptor hands over a connection; async_read_request is called.
accept(c) ==
  /\ Up
  /\ pc[c] = "new"
  /\ Read(c, "READY")
  /\ wstate' = [wstate EXCEPT ![c] = "finished"]
  /\ UNCHANGED <<clientVars, read, istate, got, expect, status, handled, err,
                 svc>>

\* A read brings the next n tokens; the parser stops after a message.
Batch(c, n) ==
  /\ n \in 1 .. Len(sent[c]) - read[c]
  /\ \A i \in read[c] + 1 .. read[c] + n - 1 : sent[c][i] \notin {"eom", "bad"}

Parsed(c, n) == SubSeq(sent[c], read[c] + 1, read[c] + n)

\* A bug form: the end of the body is taken for the end of the message.
EndsEarly(i, b) ==
  IF Has({"eom", "eob"}, b) THEN "empty"
  ELSE IF Has(Heads, b) THEN "message_ready" ELSE i

ReadState(i, b) ==
  IF Has({"eom"}, b) THEN "empty"
  ELSE IF Has({"eob"}, b) THEN "body_ready"
  ELSE IF Has(Heads, b) THEN "message_ready" ELSE i

\* A bug form: the end of the headers does not open the writer.
WriterKept(w, b) == w

WriterState(w, b) == IF Has(Heads, b) THEN "empty" ELSE w

\* A bug form: the body of the last read is appended again.
Appended(n, b) == n + 2 * Count("chunk", b)

Body(n, b) == n + Count("chunk", b)

\* A bug form: a read of body data is not told that the message ended.
OnlyData(t, b) ==
  CASE t = "READY" -> Has(Heads, b)
    [] t = "DATA" -> Has({"chunk"}, b)
    [] t = "END" -> Has({"eom"}, b)

Reached(t, b) ==
  CASE t = "READY" -> Has(Heads, b)
    [] t = "DATA" -> Has({"chunk", "eom"}, b)
    [] t = "END" -> Has({"eom"}, b)

\* on_async_read_message: every token of the batch is used; the coroutine
\* goes on if the batch holds what its read was for, and reads on otherwise.
on_async_read_message(c, n) ==
  LET b == Parsed(c, n)
      i == ReadState(istate[c], b)
      w == WriterState(wstate[c], b)
      expecting == expect[c] \/ Has({"expecting head"}, b)
  IN /\ Up
     /\ pc[c] = "reading"
     /\ Batch(c, n)
     /\ ~Has({"bad"}, b)
     /\ read' = [read EXCEPT ![c] = @ + n]
     /\ istate' = [istate EXCEPT ![c] = i]
     /\ got' = [got EXCEPT ![c] = Body(@, b)]
     /\ expect' = [expect EXCEPT ![c] = expecting]
     /\ \/ /\ ~Reached(target[c], b)
           /\ wstate' = [wstate EXCEPT ![c] = w]
           /\ UNCHANGED coVars
        \/ /\ Reached(target[c], b)
           /\ target[c] = "READY"
           /\ AfterHead(c, i, w, expecting)
        \/ /\ Reached(target[c], b)
           /\ target[c] # "READY"
           /\ Loop(c, i, w)
     /\ UNCHANGED clientVars

\* clear_buffer, and an error for the coroutine.
ReadFails(c, e) ==
  /\ Throw(c, e)
  /\ istate' = [istate EXCEPT ![c] = "empty"]
  /\ wstate' = [wstate EXCEPT ![c] = "empty"]
  /\ UNCHANGED <<clientVars, got, expect, target, status, handled>>

parsing_error(c, n) ==
  /\ Up
  /\ pc[c] = "reading"
  /\ Batch(c, n)
  /\ Has({"bad"}, Parsed(c, n))
  /\ read' = [read EXCEPT ![c] = @ + n]
  /\ ReadFails(c, "parsing_error")

\* The end of the stream comes after all that was sent, a reset at once.
read_error(c) ==
  /\ Up
  /\ pc[c] = "reading"
  /\ \/ gone[c] = "closed" /\ read[c] = Len(sent[c]) /\ ReadFails(c, "eof")
     \/ gone[c] = "reset" /\ ReadFails(c, "peer")
  /\ UNCHANGED read

\* A write ends.  After a 100-continue comes the loop, after a reply the
\* coroutine returns and the connection is closed.
written(c) ==
  /\ Up
  /\ \/ pc[c] = "continuing" /\ Loop(c, istate[c], wstate[c])
     \/ /\ pc[c] = "replying"
        /\ pc' = [pc EXCEPT ![c] = "over"]
        /\ UNCHANGED <<wstate, target, status, handled, err, svc>>
  /\ UNCHANGED <<clientVars, read, istate, got, expect>>

\* A write to a client that has left may fail.
write_error(c) ==
  /\ Up
  /\ pc[c] \in {"continuing", "replying"}
  /\ gone[c] # "no"
  /\ Throw(c, "peer")
  /\ UNCHANGED <<clientVars, sockVars, target, status, handled>>

\* A signal, the monitor thread or a failing acceptor ends the service.
Ends ==
  /\ Up
  /\ svc' = "ended"
  /\ UNCHANGED <<clientVars, sockVars, pc, target, status, handled, err>>

Down == ~Up /\ UNCHANGED vars

-----------------------------------------------------------------------------
Client(c) ==
  \/ \E token \in Tokens : Send(c, token)
  \/ \E how \in {"closed", "reset"} : Leave(c, how)

\* One completion of the event loop.
Complete(c) ==
  \/ accept(c)
  \/ \E n \in 1 .. MaxTokens[c] :
       on_async_read_message(c, n) \/ parsing_error(c, n)
  \/ read_error(c)
  \/ written(c)
  \/ write_error(c)

Next ==
  \/ \E c \in Conns : Client(c) \/ Complete(c)
  \/ Ends
  \/ Down

Spec == Init /\ [][Next]_vars

\* The event loop serves every completion; clients may stop at any point.
FairSpec == Spec /\ \A c \in Conns : WF_vars(Complete(c))

-----------------------------------------------------------------------------
\* The coroutine never calls the socket out of order (http_errc::
\* out_of_order), however the client cuts its request into segments and
\* whether or not it asked for a 100-continue: the error would end the
\* service.
NeverOutOfOrder == \A c \in Conns : err[c] # "out_of_order"

\* manager::handle is called only with a whole message: all chunks of the
\* body are there, and the end of the message was seen.
WholeBody ==
  \A c \in handled :
    /\ Has({"eom"}, SubSeq(sent[c], 1, read[c]))
    /\ got[c] = Count("chunk", sent[c])

Asked(c) == Has({"eom"}, sent[c])

\* What a client must do to end the service: send what the parser refuses,
\* reset its connection, or leave before it has the reply it asked for.
Broke(c) ==
  \/ Has({"bad"}, sent[c])
  \/ gone[c] = "reset"
  \/ gone[c] = "closed" /\ (Asked(c) \/ Has({"expecting head"}, sent[c]))

\* No exception leaves a coroutine but through a client that broke its
\* exchange: clients that behave, and those that go away before they asked
\* anything, cannot end the service.
OnlyBrokenPeers == svc = "aborted" => \E c \in Conns : Broke(c)

\* A whole request from a client that stays is answered, whatever the other
\* connections do, unless the service ends.
AskedIsAnswered ==
  \A c \in Conns :
    Asked(c) ~> (pc[c] = "over" /\ status[c] # 0) \/ gone[c] # "no" \/ ~Up
=============================================================================
