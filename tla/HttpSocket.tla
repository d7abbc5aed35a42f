----------------------------- MODULE HttpSocket -----------------------------
(***************************************************************************)
(* The server socket of the HTTP library, basic_socket of socket.hpp and   *)
(* socket-inl.hpp: a parser that reads from a fixed buffer, the messages   *)
(* it fills in for the application, and the replies it writes.             *)
(*                                                                         *)
(* A completion handler runs by itself up to its end; here one token of    *)
(* its loop is one step.  The application calls the socket as the library  *)
(* documents it: one operation at a time, a new request once the last one  *)
(* has been answered.                                                      *)
(***************************************************************************)
EXTENDS RequestReader, Requests

CONSTANTS
  BufferSizes,  \* the sizes of the buffer
  Cut,          \* sequences of requests that arrive in pieces of any size
  Uncut,        \* sequences of requests, answered in any way there is
  MaxWire       \* bound: no further chunk is written after so many items

\* A buffer is not empty (the constructor checks), and what arrives are bytes.
ASSUME SocketAssumption ==
  /\ BufferSizes \subseteq Nat \ {0}
  /\ \A s \in Cut \cup Uncut : StreamBytes(s, MaxSize) \in Seq(Symbols)

VARIABLES
  size, buffer,         \* the buffer: its size, and the used_size bytes in it
  nparsed, field_name_begin, field_name_size, expecting_field,
  use_trailers, modern_http, keep_alive,
  flags, target,        \* of the handler that runs or waits
  istate, wstate,       \* read_state() and write_state()
  msg,                  \* the method, path and message of the application
  pc,                   \* what the socket is doing
  result,               \* what the last operation ended with
  is_open,
  wire,                 \* what has been written
  stream, cut, coming,  \* what the client sends, and what has not arrived
  heads, whole          \* how many heads, and whole requests, were read

fieldVars == <<field_name_begin, field_name_size, expecting_field,
               use_trailers>>
readVars == <<buffer, nparsed, fieldVars, modern_http, keep_alive, flags,
              target, istate, msg, heads, whole>>
fixed == <<size, stream, cut>>
vars == <<parserVars, fixed, readVars, wstate, pc, result, is_open, wire,
          coming>>

EmptyMessage == [method |-> <<>>, path |-> <<>>, headers |-> <<>>,
                 body |-> <<>>, trailers |-> <<>>]

Targets == {"READY", "DATA", "END"}
Fields == [name : Seq(tchar), value : Seq(field_value_char)]

TypeOK ==
  /\ ParserTypeOK
  /\ Len(buffer) <= size
  /\ pc \in {"parsing", "ended", "parsed"} => nparsed <= Len(buffer)
  /\ field_name_begin + field_name_size <= size
  /\ {expecting_field, use_trailers, modern_http, is_open} \subseteq BOOLEAN
  /\ keep_alive \in {"UNKNOWN", "CLOSE_READ", "KEEP_ALIVE_READ"}
  /\ flags \subseteq Targets
  /\ target \in Targets
  /\ istate \in {"empty", "message_ready", "body_ready"}
  /\ wstate \in {"empty", "continue_issued", "metadata_issued", "finished"}
  /\ msg.headers \in Seq(Fields) /\ msg.trailers \in Seq(Fields)
  /\ pc \in {"idle", "reading", "parsing", "ended", "parsed", "over"}
  /\ result \in {"ok", "eof", "parsing_error", "buffer_exhausted",
                 "out_of_order", "native_stream_unsupported"}

Init ==
  /\ ParserInit
  /\ size \in BufferSizes
  /\ stream \in Cut \cup Uncut
  /\ cut = (stream \in Cut)
  /\ coming = StreamBytes(stream, MaxSize)
  /\ buffer = <<>>
  /\ nparsed = 0 /\ field_name_begin = 0 /\ field_name_size = 0
  /\ expecting_field = FALSE /\ use_trailers = FALSE
  /\ modern_http = FALSE /\ keep_alive = "UNKNOWN"    \* unset in the code
  /\ flags = {} /\ target = "READY"
  /\ istate = "empty" /\ wstate = "empty"
  /\ msg = EmptyMessage
  /\ pc = "idle" /\ result = "ok"
  /\ is_open = TRUE
  /\ wire = <<>>
  /\ heads = 0 /\ whole = 0

Drop(s, n) == SubSeq(s, n + 1, Len(s))

-----------------------------------------------------------------------------
(* Reading *)

Calls == pc = "idle" /\ is_open

\* The head of on_async_read_message, the buffer being b by then.
OnRead(b) ==
  /\ buffer' = b
  /\ set_buffer(IF expecting_field THEN Drop(b, field_name_size) ELSE b)
  /\ nparsed' = IF expecting_field THEN field_name_size ELSE 0
  /\ field_name_begin' = 0
  /\ flags' = {}
  /\ pc' = "parsing"
  /\ UNCHANGED <<version, field_name_size, expecting_field, use_trailers>>

\* schedule_on_async_read_message: what is cached is parsed at once.
Schedule(t) ==
  /\ target' = t
  /\ \/ buffer # <<>> /\ OnRead(buffer)
     \/ /\ buffer = <<>>
        /\ pc' = "reading"
        /\ UNCHANGED <<parserVars, buffer, nparsed, fieldVars, flags>>

\* Requests are read when the last one is whole and answered; what a
\* misplaced call does is seen in the other two operations.
async_read_request ==
  /\ Calls
  /\ istate = "empty" /\ (heads = 0 \/ wstate = "finished")
  /\ msg' = EmptyMessage
  /\ wstate' = "finished"
  /\ Schedule("READY")
  /\ result' = "ok"
  /\ UNCHANGED <<fixed, modern_http, keep_alive, istate, heads, whole,
                 is_open, wire, coming>>

ReadMore(state_needed, t) ==
  /\ Calls
  /\ istate = state_needed
  /\ Schedule(t)
  /\ result' = "ok"
  /\ UNCHANGED <<fixed, modern_http, keep_alive, istate, msg, heads, whole,
                 wstate, is_open, wire, coming>>

async_read_some == ReadMore("message_ready", "DATA")
async_read_trailers == ReadMore("body_ready", "END")

\* A bug form: the bytes that are kept are not counted.
WholeBuffer == size

\* buffer + used_size: what is free.
Space == size - Len(buffer)

\* The channel's async_read_some brings the next n bytes.
Arrive(n) ==
  /\ pc = "reading"
  /\ n <= Space
  /\ coming' = Drop(coming, n)
  /\ OnRead(buffer \o SubSeq(coming, 1, n))
  /\ UNCHANGED <<fixed, modern_http, keep_alive, target, istate, msg, heads,
                 whole, wstate, result, is_open, wire>>

clear_buffer ==
  /\ istate' = "empty"
  /\ wstate' = "empty"
  /\ buffer' = <<>>
  /\ reset
  /\ expecting_field' = FALSE

\* A read that fails; the application gives up.
ReadFails(error) ==
  /\ clear_buffer
  /\ result' = error
  /\ pc' = "over"
  /\ UNCHANGED <<fixed, nparsed, field_name_begin, field_name_size,
                 use_trailers, modern_http, keep_alive, flags, target, msg,
                 heads, whole, is_open, wire, coming>>

\* The client leaves, or the connection breaks.
Disconnect == pc = "reading" /\ ReadFails("eof")

-----------------------------------------------------------------------------
(* The tokens of a read *)

KeepFields == UNCHANGED <<field_name_begin, field_name_size, expecting_field>>

RequestLineToken ==
  /\ code' \in {"method", "request_target", "version"}
  /\ msg' = [msg EXCEPT !.method = IF code' = "method" THEN value' ELSE @,
                        !.path = IF code' = "request_target" THEN value' ELSE @]
  /\ use_trailers' = (use_trailers /\ code' # "method")
  /\ modern_http' = IF code' = "version" THEN value' # <<"0">> ELSE modern_http
  /\ keep_alive' = IF code' = "version" THEN "UNKNOWN" ELSE keep_alive
  /\ KeepFields
  /\ UNCHANGED <<flags, istate, wstate, heads, whole>>

FieldNameToken ==
  /\ code' = "field_name"
  /\ field_name_begin' = nparsed
  /\ field_name_size' = token_size'
  /\ expecting_field' = TRUE
  /\ UNCHANGED <<use_trailers, modern_http, keep_alive, flags, istate, wstate,
                 msg, heads, whole>>

\* The name is where it was left in the buffer.
FieldName == SubSeq(buffer, field_name_begin + 1,
                    field_name_begin + field_name_size)

\* A bug form: a later keep-alive takes back a close.
LastWord(options) ==
  CASE <<"close">> \in options -> "CLOSE_READ"
    [] <<"close">> \notin options /\ <<"keep-alive">> \in options ->
         "KEEP_ALIVE_READ"
    [] OTHER -> keep_alive

\* What a Connection field asks for; close cannot be taken back.
Asked(options) ==
  CASE <<"close">> \in options \/ keep_alive = "CLOSE_READ" -> "CLOSE_READ"
    [] <<"close">> \notin options /\ <<"keep-alive">> \in options
       /\ keep_alive # "CLOSE_READ" -> "KEEP_ALIVE_READ"
    [] OTHER -> keep_alive

FieldValueToken ==
  /\ code' = "field_value"
  /\ LET field == [name |-> FieldName, value |-> value']
     IN \/ /\ modern_http \/ FieldName \notin {<<"Expect">>, <<"Upgrade">>}
           /\ msg' = IF use_trailers
                     THEN [msg EXCEPT !.trailers = Append(@, field)]
                     ELSE [msg EXCEPT !.headers = Append(@, field)]
           /\ keep_alive' = IF FieldName = <<"Connection">>
                            THEN Asked(ToSet(Elements(value')))
                            ELSE keep_alive
        \/ /\ ~modern_http /\ FieldName \in {<<"Expect">>, <<"Upgrade">>}
           /\ UNCHANGED <<msg, keep_alive>>
  /\ expecting_field' = FALSE
  /\ UNCHANGED <<field_name_begin, field_name_size, use_trailers, modern_http,
                 flags, istate, wstate, heads, whole>>

Expects(fields) == SelectSeq(fields, LAMBDA f : f.name = <<"Expect">>)

\* kept[i] is what is kept of the first i fields.
Others(fields) ==
  LET kept[i \in 0 .. Len(fields)] ==
        IF i = 0 THEN <<>>
        ELSE IF fields[i].name = <<"Expect">> THEN kept[i - 1]
        ELSE Append(kept[i - 1], fields[i])
  IN kept[Len(fields)]

\* More than one Expect is none.
EndOfHeaders ==
  /\ code' = "end_of_headers"
  /\ istate' = "message_ready"
  /\ wstate' = "empty"
  /\ flags' = flags \cup {"READY"}
  /\ msg' = IF Len(Expects(msg.headers)) > 1
            THEN [msg EXCEPT !.headers = Others(@)] ELSE msg
  /\ keep_alive' = CASE keep_alive # "UNKNOWN" -> keep_alive
                     [] keep_alive = "UNKNOWN" /\ modern_http ->
                          "KEEP_ALIVE_READ"
                     [] OTHER -> "CLOSE_READ"
  /\ heads' = heads + 1
  /\ UNCHANGED <<fieldVars, modern_http, whole>>

BodyToken ==
  /\ code' \in {"body_chunk", "end_of_body"}
  /\ \/ /\ code' = "body_chunk"
        /\ msg' = [msg EXCEPT !.body = @ \o value']
        /\ flags' = flags \cup {"DATA"}
        /\ UNCHANGED <<istate, use_trailers>>
     \/ /\ code' = "end_of_body"
        /\ istate' = "body_ready"
        /\ use_trailers' = TRUE
        /\ UNCHANGED <<msg, flags>>
  /\ KeepFields
  /\ UNCHANGED <<modern_http, keep_alive, wstate, heads, whole>>

EndOfMessage ==
  /\ code' = "end_of_message"
  /\ istate' = "empty"
  /\ flags' = flags \cup {"END"}
  /\ whole' = whole + 1
  /\ UNCHANGED <<fieldVars, modern_http, keep_alive, wstate, msg, heads>>

KeepReading == UNCHANGED <<fieldVars, modern_http, keep_alive, flags, istate,
                           wstate, msg, heads, whole>>

NextToken ==
  /\ pc = "parsing"
  /\ next
  /\ \/ code' \in {More, "skip"} \cup Errors /\ KeepReading
     \/ RequestLineToken \/ FieldNameToken \/ FieldValueToken
     \/ EndOfHeaders \/ BodyToken \/ EndOfMessage
  /\ nparsed' = IF code' \in {More} \cup Errors THEN nparsed
                ELSE nparsed + token_size'
  /\ pc' = CASE code' \in {More} \cup Errors -> "parsed"
             [] code' = "end_of_message" -> "ended"
             [] OTHER -> "parsing"
  /\ UNCHANGED <<fixed, buffer, target, result, is_open, wire, coming>>

\* After a message the parser is left with its last token only, so that the
\* loop ends there.
StopAtTheEnd ==
  /\ pc = "ended"
  /\ set_buffer(SubSeq(buffer, nparsed - token_size + 1, nparsed))
  /\ pc' = "parsing"
  /\ UNCHANGED <<version, fixed, readVars, wstate, result, is_open, wire,
                 coming>>

-----------------------------------------------------------------------------
(* The end of a read *)

\* A bug form: the name stays where it is.
OnlyTheRest == Drop(buffer, nparsed)

\* What is kept: a field name that waits for its value, then what has not
\* been parsed.
Compacted ==
  IF expecting_field THEN FieldName \o Drop(buffer, nparsed)
  ELSE Drop(buffer, nparsed)

\* A bug form: the end of the message does not wake a read of data.
OnlyByData == target \in flags

\* Whether the operation is complete.
Complete ==
  \/ target \in flags
  \/ target = "DATA" /\ "END" \in flags

EndOfRead ==
  /\ pc = "parsed" /\ code = More
  /\ buffer' = Compacted
  /\ nparsed' = 0
  /\ \/ Complete /\ pc' = "idle" /\ UNCHANGED result
     \/ /\ ~Complete /\ Len(Compacted) = size
        /\ pc' = "over" /\ result' = "buffer_exhausted"
     \/ /\ ~Complete /\ Len(Compacted) < size
        /\ pc' = "reading" /\ UNCHANGED result
  /\ UNCHANGED <<parserVars, fixed, fieldVars, modern_http, keep_alive, flags,
                 target, istate, msg, heads, whole, wstate, is_open, wire,
                 coming>>

ParsingError == pc = "parsed" /\ code \in Errors /\ ReadFails("parsing_error")

-----------------------------------------------------------------------------
(* Replies *)

\* What is answered in any way is answered when its head is there, or later;
\* the rest plainly, when the request is whole.
Replies == Calls /\ heads > 0 /\ (cut => istate = "empty")

Rejected(error) ==
  /\ result' = error
  /\ UNCHANGED <<parserVars, fixed, readVars, wstate, pc, is_open, wire,
                 coming>>

\* A write in one of these states; in any other it is out of order.
InOrder(states) == Replies /\ wstate \in states
OutOfOrder(states) == Replies /\ ~cut /\ wstate \notin states
                      /\ Rejected("out_of_order")

Written(items, w) ==
  /\ wire' = wire \o items
  /\ wstate' = w
  /\ result' = "ok"
  /\ UNCHANGED <<parserVars, fixed, buffer, nparsed, fieldVars, modern_http,
                 flags, target, istate, msg, heads, whole, pc, coming>>

\* When a reply is complete the connection is left open, or closed.
Finish(items) ==
  /\ Written(items, "finished")
  /\ is_open' = (keep_alive' = "KEEP_ALIVE_READ")

\* A header of the reply may ask for the end of the connection.
Agree(close) == keep_alive' = IF close THEN "CLOSE_READ" ELSE keep_alive

Closing(close) == IF close THEN <<"close">> ELSE <<>>

async_write_response(close) ==
  \/ /\ InOrder({"empty", "continue_issued"})
     /\ Agree(close)
     /\ Finish(<<"response">> \o Closing(close))
  \/ OutOfOrder({"empty", "continue_issued"})

async_write_response_continue ==
  \/ /\ InOrder({"empty"})
     /\ Written(<<"continue">>, "continue_issued")
     /\ UNCHANGED <<keep_alive, is_open>>
  \/ OutOfOrder({"empty"})

\* Chunks are for modern clients; the writer's state is put back.
async_write_response_metadata(close) ==
  \/ /\ InOrder({"empty", "continue_issued"})
     /\ \/ /\ modern_http
           /\ Agree(close)
           /\ Written(<<"metadata">> \o Closing(close), "metadata_issued")
           /\ UNCHANGED is_open
        \/ ~modern_http /\ Rejected("native_stream_unsupported")
  \/ OutOfOrder({"empty", "continue_issued"})

\* A bug form: an empty chunk is written, which ends the body.
EveryChunk(n) == IF n = 0 THEN <<"last chunk">> ELSE <<"chunk">>

\* A chunk without data is not written.
Chunk(n) == IF n = 0 THEN <<>> ELSE <<"chunk">>

async_write(n) ==
  \/ /\ InOrder({"metadata_issued"})
     /\ n > 0 => Len(wire) < MaxWire
     /\ Written(Chunk(n), wstate)
     /\ UNCHANGED <<keep_alive, is_open>>
  \/ OutOfOrder({"metadata_issued"})

\* async_write_trailers and async_write_end_of_message.
async_write_end(trailers) ==
  \/ /\ InOrder({"metadata_issued"})
     /\ UNCHANGED keep_alive
     /\ Finish(<<"last chunk">> \o trailers)
  \/ OutOfOrder({"metadata_issued"})

Read ==
  \/ async_read_request \/ async_read_some \/ async_read_trailers
  \/ Disconnect
  \/ \E n \in 1 .. Len(coming) : Arrive(n)
  \/ NextToken \/ StopAtTheEnd \/ EndOfRead \/ ParsingError

Write ==
  \/ \E close \in BOOLEAN : (cut => ~close) /\ async_write_response(close)
  \/ /\ ~cut
     /\ \/ async_write_response_continue
        \/ \E close \in BOOLEAN : async_write_response_metadata(close)
        \/ \E n \in 0 .. 1 : async_write(n)
        \/ \E trailers \in {<<>>, <<"trailers">>} : async_write_end(trailers)

Next == Read \/ Write

Spec == Init /\ [][Next]_vars

-----------------------------------------------------------------------------
(* Correctness *)

current == stream[heads]

Payload ==
  CASE Framing(current) = "chunked" -> FlattenSeq(current.chunks)
    [] Framing(current) = "counted" -> Counted(current, MaxSize)
    [] OTHER -> <<>>

\* What is meant for the application: nothing that HTTP/1.0 does not know.
Known(fields) ==
  SelectSeq(fields, LAMBDA f : current.version # "0"
                               \/ f.name \notin {<<"Expect">>, <<"Upgrade">>})

Headers == IF Len(Expects(Known(current.fields))) > 1 THEN Others(Known(current.fields))
           ELSE Known(current.fields)

\* When an operation is over, what the application holds is what the client
\* meant: the head with every field under its own name, as much of the body
\* as read_state() promises, and the trailers once the request is whole -
\* whatever pieces the bytes came in, wherever the buffer was compacted
\* between a name and its value (on_async_read_message).
MessageDelivered ==
  pc = "idle" /\ heads > 0 =>
    /\ msg.method = Method /\ msg.path = Target
    /\ msg.headers = Headers
    /\ IsPrefix(msg.body, Payload)
    /\ istate # "message_ready" => msg.body = Payload
    /\ istate = "empty" <=> whole = heads
    /\ istate = "empty" => msg.trailers = Known(current.trailers)

\* The most symbols of a message that must be in the buffer at once: a token
\* with the symbol after it, a value with its name before it.
Room(f, pad) == Len(f.name) + Len(f.value) + pad + 1
LongestOf(req) ==
  LET pad == IF req.pad THEN 1 ELSE 0
      fields == ToSet(req.fields) \cup ToSet(req.trailers)
  IN Max({Len(Method) + 1, Len(Target) + 1, Len(CRLF)}
           \cup {Room(f, pad) : f \in fields}
           \cup (IF req.pad THEN {3} ELSE {}))

\* A read that waits has room for what it waits for, and does not wait for
\* data or for the end of a message that has ended, nor for the next message
\* before that (the end of on_async_read_message).
WaitsWithRoom ==
  pc = "reading" => /\ Len(buffer) < size
                    /\ target = "READY" <=> istate = "empty"

\* A read never waits for what is there, nor for bytes that have come
\* already, and only a request with a token or field that does not fit
\* exhausts the buffer (schedule_on_async_read_message).
ReadsToTheEnd ==
  /\ WaitsWithRoom
  /\ pc = "reading" /\ coming = <<>> => whole = Len(stream)
  /\ result = "buffer_exhausted" =>
       \E k \in {heads, heads + 1} \cap DOMAIN stream :
         LongestOf(stream[k]) > size

Opens == {"response", "metadata"}
Count(items) == Cardinality({i \in DOMAIN wire : wire[i] \in items})

\* What is written is one reply after the other, none before its request is
\* read, each of them whole before the next begins: chunks only in a chunked
\* reply, which ends once, 100 (Continue) only before a reply (writer_helper).
AnswersInTurn ==
  /\ Count(Opens) <= heads
  /\ Count({"last chunk"}) <= Count({"metadata"})
  /\ \A i \in DOMAIN wire :
       LET before == IF i = 1 THEN "none" ELSE wire[i - 1]
       IN CASE wire[i] = "continue" ->
                 before \in {"none", "response", "last chunk", "trailers"}
            [] wire[i] \in Opens ->
                 before \in {"none", "response", "last chunk", "trailers",
                             "continue"}
            [] wire[i] \in {"chunk", "last chunk"} ->
                 \/ before \in {"metadata", "chunk"}
                 \/ before = "close" /\ wire[i - 2] = "metadata"
            [] wire[i] = "trailers" -> before = "last chunk"
            [] wire[i] = "close" -> before \in Opens
  /\ ~is_open => wstate = "finished"

Options(name) ==
  UNION {ToSet(Elements(current.fields[i].value)) : i \in Named(current, name)}

\* Once a reply is complete the connection is open exactly when both sides
\* want that: no close from either, and HTTP/1.1 or a keep-alive.
KeptOpenAsAgreed ==
  pc = "idle" /\ heads > 0 /\ wstate = "finished" =>
    (is_open <=> /\ "close" \notin ToSet(wire)
                 /\ <<"close">> \notin Options("Connection")
                 /\ \/ current.version # "0"
                    \/ <<"keep-alive">> \in Options("Connection"))
=============================================================================
