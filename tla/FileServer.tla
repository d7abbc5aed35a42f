----------------------------- MODULE FileServer -----------------------------
(***************************************************************************)
(* The HTTP file server (file_server.hpp): one call of                     *)
(* async_response_transmit_dir, or of async_response_transmit_file, from   *)
(* the request to the call of its handler, or to an exception at its       *)
(* caller.  The socket performs one operation at a time, which may fail;   *)
(* the file may shrink, grow or go at any time.                            *)
(*                                                                         *)
(* A buffer never is too small for the address space, nor a file too big   *)
(* for it: the checks of max_size and safe_add are left out.               *)
(***************************************************************************)
EXTENDS HttpHeaders, TLC

CONSTANTS
  Requests,   \* what may be asked for, and of what socket
  Tree,       \* the root directory: path -> "file" or "directory"
  MaxLen,     \* the greatest length of a file (a bound)
  Now         \* the time

Gone == MaxLen + 1

VARIABLES
  req,        \* the request, the socket and the message for the answer
  len,        \* the length of the file, or Gone
  pc,         \* call, file, send, issued, single, multi, posted, done, thrown
  op,         \* the socket operation under way, or the last one
  file,       \* the file to send
  size,       \* its length when it was asked for
  status,     \* the status line that was issued, or 0
  ranges,     \* range_set
  index, state, remaining, pos,   \* the loops that send it
  body,       \* omessage.body(): what is in the buffer
  wire,       \* the body as the client has it
  whole,      \* the answer has been sent to its end
  resumed,    \* a part was continued in a second buffer
  results     \* what the handler was called with

loopVars == <<index, state, remaining, pos>>
vars == <<req, len, pc, op, file, size, status, ranges, loopVars, body, wire,
          whole, resumed, results>>

Init ==
  /\ req \in Requests
  /\ len \in 0 .. MaxLen
  /\ pc = "call" /\ op = "none" /\ file = <<>>
  /\ size = 0 /\ status = 0 /\ ranges = <<>>
  /\ index = 1 /\ state = "BOUNDARY_LINE" /\ remaining = 0 /\ pos = 0
  /\ body = <<>> /\ wire = <<>> /\ whole = FALSE /\ resumed = FALSE
  /\ results = <<>>

-----------------------------------------------------------------------------
(* Contents: texts, numbers and bytes of files *)

Text(w) == <<"text", w>>
Number(n) == <<"number", n>>
Bytes(f, first, n) == [i \in 1 .. n |-> <<"byte", <<f, first + i - 1>>>>]

boundary_line == <<Text("crlf--"), Text("crlf")>>
final_boundary == <<Text("crlf--"), Text("--"), Text("crlf")>>
crlf == <<Text("crlf")>>

\* The texts of the states of the multipart loop, given what is in them.
Texts(ctype, range, total) ==
  [BOUNDARY_LINE |-> boundary_line,
   CONTENT_TYPE_KEY |-> <<Text("content-type:")>>,
   CONTENT_TYPE_VALUE |-> <<Text(ctype), Text("subtype")>>,
   CONTENT_TYPE_CRLF |-> crlf,
   CONTENT_RANGE_KEY |-> <<Text("content-range:"), Text("bytes")>>,
   CONTENT_RANGE_VALUE_FIRST |-> <<Number(range.first)>>,
   CONTENT_RANGE_VALUE_DASH |-> <<Text("dash")>>,
   CONTENT_RANGE_VALUE_SECOND |-> <<Number(range.second)>>,
   CONTENT_RANGE_VALUE_SLASH |-> <<Text("slash")>>,
   CONTENT_RANGE_VALUE_SIZE |-> <<Number(total)>>,
   CONTENT_RANGE_CRLF |-> crlf \o crlf,
   FINAL_BOUNDARY |-> final_boundary]

States ==
  <<"BOUNDARY_LINE", "CONTENT_TYPE_KEY", "CONTENT_TYPE_VALUE",
    "CONTENT_TYPE_CRLF", "CONTENT_RANGE_KEY", "CONTENT_RANGE_VALUE_FIRST",
    "CONTENT_RANGE_VALUE_DASH", "CONTENT_RANGE_VALUE_SECOND",
    "CONTENT_RANGE_VALUE_SLASH", "CONTENT_RANGE_VALUE_SIZE",
    "CONTENT_RANGE_CRLF", "BODY", "FINAL_BOUNDARY">>

\* to_cpp_range: the second number becomes a count.
to_cpp_range(range) == [range EXCEPT !.second = @ - range.first + 1]

-----------------------------------------------------------------------------
(* Answering *)

\* The handler is called.
Handle(result) ==
  /\ results' = Append(results, result)
  /\ pc' = "done"

\* An error found before the socket is used is posted for the handler.
Post(err) ==
  /\ pc' = "posted" /\ op' = err
  /\ UNCHANGED <<req, len, status, loopVars, body, wire, whole, resumed, results>>

\* The call leaves with an exception, and the handler is never called.
Throw ==
  /\ pc' = "thrown"
  /\ UNCHANGED <<req, len, op, status, loopVars, body, wire, whole, resumed, results>>

Issue(operation, contents) ==
  /\ pc' = "issued" /\ op' = operation
  /\ body' = contents

\* async_write_response: the whole answer.
Respond(code, contents) ==
  /\ Issue("response", contents)
  /\ status' = code
  /\ UNCHANGED <<req, len, loopVars, wire, whole, resumed, results>>

\* async_write_response_metadata, and the loop that sends the body.
Stream(code, loop, first, n) ==
  /\ Issue(loop, <<>>)
  /\ status' = code
  /\ pos' = first /\ remaining' = n
  /\ UNCHANGED <<req, len, index, state, wire, whole, resumed, results>>

-----------------------------------------------------------------------------
(* The path *)

\* resolve_dots_or_throw_not_found: ~ok is the exception.
resolve_dots(path) ==
  FoldLeft(LAMBDA ret, e :
             CASE ~ret.ok \/ e \in {"", "."} -> ret
               [] ret.ok /\ e = ".." /\ ret.path # <<>> -> [ret EXCEPT !.path = Front(@)]
               [] ret.ok /\ e = ".." /\ ret.path = <<>> -> [ret EXCEPT !.ok = FALSE]
               [] OTHER -> [ret EXCEPT !.path = Append(@, e)],
           [ok |-> TRUE, path |-> <<>>], path)

\* async_response_transmit_dir.
transmit_dir ==
  /\ pc = "call" /\ req.dir
  /\ LET found == resolve_dots(req.path)
         kind == IF found.ok /\ found.path \in DOMAIN Tree
                    /\ ~(Tree[found.path] = "file" /\ len = Gone)
                 THEN Tree[found.path] ELSE "none"
     IN \/ /\ req.method \notin {"GET", "HEAD"}
           /\ Respond(405, <<>>)
           /\ UNCHANGED <<file, size, ranges>>
        \/ /\ req.method \in {"GET", "HEAD"}
           /\ \/ kind = "none" /\ Post("file_not_found")
              \/ kind = "directory" /\ Post("file_type_not_supported")
              \/ kind = "file" /\ Post("filter_set")
           /\ UNCHANGED <<file, size, ranges>>
        \/ /\ req.method \in {"GET", "HEAD"} /\ kind = "file"
           /\ pc' = "file" /\ file' = found.path
           /\ UNCHANGED <<req, len, op, size, status, ranges, loopVars, body,
                          wire, whole, resumed, results>>

-----------------------------------------------------------------------------
(* Preconditions *)

Once(header) == Len(header) = 1
DateIn(header) == IF Once(header) THEN header_to_ptime(header[1]) ELSE NotADate

\* "last-modified" is never after "date".
last_modified == Min({req.modified, Now})

\* The entity tags in the headers of a name.
Tags(header) == UNION {ToSet(Elements(v)) : v \in ToSet(header)}

Star == <<"star">>

IfMatchFails ==
  LET current == Opaque(req.etag)
  IN \/ current.value = <<>> \/ ~current.strong
     \/ \A e \in Tags(req.if_match) : e # Star /\ ~etag_match_strong(current.value, e)

IfNoneMatchFails ==
  LET current == Opaque(req.etag)
  IN /\ current.value # <<>>
     /\ \E e \in Tags(req.if_none_match) : e = Star \/ etag_match_weak(current.value, e)

UnmodifiedSinceFails ==
  DateIn(req.if_unmodified_since) # NotADate
    /\ last_modified > DateIn(req.if_unmodified_since)

ModifiedSinceFails ==
  DateIn(req.if_modified_since) # NotADate
    /\ last_modified <= DateIn(req.if_modified_since)

\* The answer the conditions of the request ask for, or 0; where there are
\* entity tags, dates are not looked at.
Conditions ==
  LET refused == IF req.if_match # <<>> THEN IfMatchFails ELSE UnmodifiedSinceFails
      known == IF req.if_none_match # <<>> THEN IfNoneMatchFails ELSE ModifiedSinceFails
  IN CASE refused -> 412
       [] ~refused /\ known -> 304
       [] OTHER -> 0

IsHead == req.method = "HEAD"

\* The "range" header counts unless the file is another than that of "if-range".
ProcessRange ==
  /\ ~IsHead /\ Once(req.range)
  /\ DateIn(req.if_range) \in {NotADate, last_modified}

-----------------------------------------------------------------------------
(* async_response_transmit_file *)

\* What comes before the bytes of a part.
PartHead(range, total) ==
  LET text == Texts(req.content_type, range, total)
      of(names) == FlattenSeq([i \in DOMAIN names |-> text[names[i]]])
  IN text.BOUNDARY_LINE
     \o (IF req.content_type = "" THEN <<>> ELSE of(SubSeq(States, 2, 4)))
     \o of(SubSeq(States, 5, 11))

\* A body of several parts that is made at once.
Multipart(total) ==
  FlattenSeq([i \in DOMAIN ranges |->
                PartHead(ranges[i], total)
                  \o Bytes(file, ranges[i].first, to_cpp_range(ranges[i]).second)])
    \o final_boundary

\* The file system is asked for the file.  What it throws when the file is gone
\* is no ios_base::failure: it leaves the function, for async_response_transmit_dir,
\* which posts it, or for the application, if that made the call.
transmit_file ==
  /\ pc = "file" \/ (pc = "call" /\ ~req.dir)
  /\ file' = IF req.dir THEN file ELSE req.path
  /\ \/ /\ req.write_state \notin {"empty", "continue_issued"}
        /\ Post("write_state_not_supported")
        /\ UNCHANGED <<size, ranges>>
     \/ /\ req.write_state \in {"empty", "continue_issued"} /\ len = Gone
        /\ IF req.dir THEN Post("filesystem_error") ELSE Throw
        /\ UNCHANGED <<size, ranges>>
     \/ /\ req.write_state \in {"empty", "continue_issued"} /\ len # Gone
        /\ size' = len
        /\ IF len = 0 THEN Respond(200, <<>>) /\ UNCHANGED ranges
           ELSE IF Conditions # 0 THEN Respond(Conditions, <<>>) /\ UNCHANGED ranges
           ELSE /\ pc' = "send"
                /\ ranges' = IF ProcessRange THEN is_valid_range(req.range[1], len)
                             ELSE <<>>
                /\ UNCHANGED <<req, len, op, status, loopVars, body, wire, whole,
                               resumed, results>>

\* An answer with bytes of the file up to one position: it is opened, and read
\* at once unless the socket takes a body in parts.
Send(code, end, contents, streamed) ==
  LET fails == len = Gone \/ (~req.native /\ end > len)
  IN IF fails THEN Post("io_error")
     ELSE IF req.native THEN streamed
     ELSE Respond(code, contents)

\* The rest of it, which reads the file.
send_file ==
  /\ pc = "send"
  /\ \/ /\ ProcessRange /\ ranges = <<>>
        /\ Respond(416, <<>>)
     \/ /\ ProcessRange /\ Len(ranges) = 1
        /\ LET range == to_cpp_range(ranges[1])
           IN Send(206, range.first + range.second,
                   Bytes(file, range.first, range.second),
                   Stream(206, "single", range.first, range.second))
     \/ /\ ProcessRange /\ Len(ranges) > 1
        /\ Send(206, Max({r.second + 1 : r \in ToSet(ranges)}), Multipart(size),
                Stream(206, "multi", 0, Len(boundary_line)))
     \/ ~ProcessRange /\ IsHead /\ Respond(200, <<>>)
     \/ /\ ~ProcessRange /\ ~IsHead
        /\ Send(200, size, Bytes(file, 0, size), Stream(200, "single", 0, size))
  /\ UNCHANGED <<file, size, ranges>>

-----------------------------------------------------------------------------
(* The loops: on_async_response_transmit_file and its multipart form *)

settled == <<req, len, file, size, status, wire, whole>>

\* Bug forms: the handler is told that nothing happened, or not called.
SaysNothingSent == Handle("io_error")
Swallowed == pc' = "caught" /\ UNCHANGED results

ReadFails == Handle("irrecoverable_io_error")

\* A read up to position end of an open file may fail if the file is shorter;
\* it may not, if the stream has these bytes in its own buffer or the file
\* is only gone from its directory.
MayFail(end) == len = Gone \/ end > len

process ==
  /\ pc = "single"
  /\ IF remaining = 0
     THEN /\ Issue("end", <<>>)
          /\ UNCHANGED <<pos, remaining, results>>
     ELSE LET next_read == Min({remaining, req.capacity})
          IN \/ /\ MayFail(pos + next_read) /\ ReadFails
                /\ UNCHANGED <<op, body, pos, remaining>>
             \/ /\ Issue("single", Bytes(file, pos, next_read))
                /\ pos' = pos + next_read
                /\ remaining' = remaining - next_read
                /\ UNCHANGED results
  /\ UNCHANGED <<settled, ranges, index, state, resumed>>

\* The state after the one that has been copied, and the range and its number
\* then.
Advance ==
  CASE state = "BOUNDARY_LINE" /\ req.content_type = "" -> "CONTENT_RANGE_KEY"
    [] state = "BODY" /\ index < Len(ranges) -> "BOUNDARY_LINE"
    [] OTHER -> States[SelectInSeq(States, LAMBDA s : s = state) + 1]

\* One state of the loop, or the part of it that fits in the buffer.  The
\* bytes of a range are looked up from its first in every buffer.
process_multi ==
  /\ pc = "multi"
  /\ LET range == ranges[index]
         text == Texts(req.content_type, range, size)
         next_read == Min({remaining, req.capacity - Len(body)})
         from == Len(text[state]) - remaining
         copied == IF state = "BODY" THEN Bytes(file, range.first, next_read)
                   ELSE SubSeq(text[state], from + 1, from + next_read)
         full == Len(body) + next_read = req.capacity
     IN \/ /\ state = "BODY" /\ MayFail(range.first + next_read) /\ ReadFails
           /\ UNCHANGED <<op, body, ranges, loopVars, resumed>>
        \/ /\ body' = body \o copied
           /\ IF next_read < remaining
              THEN /\ remaining' = remaining - next_read
                   /\ resumed' = (resumed \/ state = "BODY")
                   /\ pc' = "issued" /\ op' = "multi"
                   /\ UNCHANGED <<ranges, index, state, pos>>
              ELSE IF state = "FINAL_BOUNDARY"
              THEN /\ pc' = "issued" /\ op' = "last"
                   /\ remaining' = 0
                   /\ UNCHANGED <<ranges, index, state, pos, resumed>>
              ELSE /\ state' = Advance
                   /\ index' = IF Advance = "BOUNDARY_LINE" THEN index + 1 ELSE index
                   /\ ranges' = IF state = "CONTENT_RANGE_VALUE_SECOND"
                                THEN [ranges EXCEPT ![index] = to_cpp_range(@)]
                                ELSE ranges
                   /\ remaining' = IF Advance = "BODY" THEN range.second
                                   ELSE Len(text[Advance])
                   /\ IF full THEN pc' = "issued" /\ op' = "multi"
                      ELSE UNCHANGED <<pc, op>>
                   /\ UNCHANGED <<pos, resumed>>
           /\ UNCHANGED results
  /\ UNCHANGED settled

-----------------------------------------------------------------------------
(* The socket, the event loop, the file system *)

\* The operation under way completes, or fails.
Completed ==
  /\ pc = "issued"
  /\ wire' = wire \o body /\ body' = <<>>
  /\ whole' = (op \in {"response", "end"})
  /\ CASE op \in {"response", "end"} -> Handle("ok") /\ UNCHANGED op
       [] op \in {"single", "multi"} -> pc' = op /\ UNCHANGED <<op, results>>
       [] op = "last" -> op' = "end" /\ UNCHANGED <<pc, results>>
  /\ UNCHANGED <<req, len, file, size, status, ranges, loopVars, resumed>>

Fails ==
  /\ pc = "issued"
  /\ Handle("socket_error")
  /\ UNCHANGED <<req, len, op, file, size, status, ranges, loopVars, body, wire,
                 whole, resumed>>

Posted ==
  /\ pc = "posted"
  /\ Handle(op)
  /\ UNCHANGED <<req, len, op, file, size, status, ranges, loopVars, body, wire,
                 whole, resumed>>

\* What the file holds at a position stays the same.
Resize ==
  /\ pc \notin {"done", "thrown"} /\ len # Gone
  /\ len' \in (0 .. Gone) \ {len}
  /\ UNCHANGED <<req, pc, op, file, size, status, ranges, loopVars, body, wire,
                 whole, resumed, results>>

Next ==
  \/ transmit_dir \/ transmit_file \/ send_file
  \/ process \/ process_multi
  \/ Completed \/ Fails \/ Posted
  \/ Resize

\* What transmit_file and send_file do to pc, wherever they are reached.
LooksAt ==
  /\ pc = "file" \/ (pc = "call" /\ ~req.dir)
  /\ pc' \in {"send", "issued", "posted", "thrown"}
Sends == pc = "send" /\ pc' \in {"issued", "posted"}

\* The call goes on by itself, the event loop runs what is posted, and an
\* operation of the socket completes or fails.
Fairness ==
  /\ WF_vars(transmit_dir) /\ WF_pc(LooksAt) /\ WF_pc(Sends)
  /\ WF_vars(process) /\ WF_vars(process_multi)
  /\ WF_vars(Completed \/ Fails) /\ WF_vars(Posted)

Spec == Init /\ [][Next]_vars /\ Fairness

-----------------------------------------------------------------------------
(* What is asked for *)

Value(digits) == FoldLeft(LAMBDA n, d : 10 * n + DigitValue[d], 0, digits)

\* The positions an element of a "range" header stands for (RFC 7233), with
\* numbers of any length.
Meant(spec) ==
  LET f == Fields(spec)
  IN [first |-> IF f.first = <<>> THEN size - Min({Value(f.last), size})
                ELSE Value(f.first),
      second |-> IF f.first = <<>> \/ f.last = <<>> THEN size - 1
                 ELSE Min({Value(f.last), size - 1})]

\* The ranges that are not empty, if all are well formed.
Asked ==
  LET value == req.range[1]
      specs == Elements(Tail(value))
  IN IF Len(value) > 1 /\ value[1] = "bytes=" /\ \A e \in ToSet(specs) : IsSpec(e)
     THEN SelectSeq([i \in DOMAIN specs |-> Meant(specs[i])],
                    LAMBDA r : r.first <= r.second)
     ELSE <<>>

Positions(r) == Bytes(file, r.first, r.second - r.first + 1)

RightBody ==
  CASE status = 200 -> IF IsHead THEN <<>> ELSE Bytes(file, 0, size)
    [] status = 206 /\ Len(Asked) = 1 -> Positions(Asked[1])
    [] status = 206 /\ Len(Asked) > 1 ->
         FlattenSeq([i \in DOMAIN Asked |-> PartHead(Asked[i], size)
                                              \o Positions(Asked[i])])
           \o final_boundary
    [] OTHER -> <<>>

\* The same but for which bytes of the file they have.
Alike(s, t) ==
  /\ Len(s) = Len(t)
  /\ \A i \in DOMAIN s : s[i] = t[i] \/ (s[i][1] = "byte" /\ t[i][1] = "byte")

Climbs(path) ==
  \E n \in DOMAIN path :
    Cardinality({i \in 1 .. n : path[i] = ".."})
      > Cardinality({i \in 1 .. n : path[i] \notin {"", ".", ".."}})

-----------------------------------------------------------------------------
\* An answer that was sent without an error has the body its status line and
\* its "content-range" promise, whatever the file did meanwhile, whether it was
\* sent at once or in buffers of any size: the whole file, or the bytes that
\* the request means, those of numbers too long for uintmax_t included.  A part
\* of a multipart body that is continued in a second buffer begins again there
\* (seekg, file_server.hpp): of such an answer all texts are right and in their
\* places, and every part has as many bytes as it should, but not which ones.
SendsWhatIsAsked ==
  results = <<"ok">> =>
    /\ IF resumed THEN Alike(wire, RightBody) ELSE wire = RightBody
    /\ status = 206 => ~IsHead /\ Len(Asked) > 0
    /\ status = 416 => Asked = <<>>
    /\ status = 200 /\ ~IsHead /\ size > 0 /\ Once(req.range) =>
         DateIn(req.if_range) \notin {NotADate, last_modified}
    /\ req.dir /\ file # <<>> => ~Climbs(req.path) /\ Tree[file] = "file"

\* The handler is called once, and says what the client can have got: after ok
\* the whole answer, after irrecoverable_io_error one that was begun and never
\* ended, after any other error of the file or the request nothing
\* (file_server_errc.adoc).  A call that left with an exception has sent nothing
\* and never calls it.
TellsTheTruth ==
  /\ Len(results) <= 1 /\ (whole => results = <<"ok">>)
  /\ pc = "thrown" => ~req.dir /\ results = <<>> /\ status = 0 /\ wire = <<>>
  /\ \A r \in ToSet(results) :
       CASE r = "ok" -> whole
         [] r \in {"irrecoverable_io_error", "socket_error"} -> status # 0 /\ ~whole
         [] OTHER -> status = 0 /\ wire = <<>>

\* Every call ends.  Once its operations complete the handler is called, except
\* by async_response_transmit_file for a file that is gone when it is looked at:
\* what last_write_time or file_size throw then leaves the call for its caller,
\* although async_response_transmit_file.adoc:247 says "The extracted handler is
\* called when the operation completes."
AlwaysAnswered == <>(results # <<>> \/ (pc = "thrown" /\ ~req.dir))
=============================================================================
