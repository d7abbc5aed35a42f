--------------------------- MODULE RequestStream ---------------------------
(***************************************************************************)
(* A reader::request fed with a stream of requests that arrives in pieces  *)
(* of any size.  parsed is what the caller has learned from it.            *)
(***************************************************************************)
EXTENDS RequestReader, Requests

CONSTANTS
  Cut,        \* sequences of requests that arrive in pieces of any size
  Uncut       \* sequences of requests that arrive at once

VARIABLES
  meant,      \* what the client means by all it sends, and
  cut,        \* whether it comes in pieces (neither ever changes)
  coming,     \* the bytes of it that have not arrived
  parsed,     \* the events the reader has reported
  waiting     \* the caller has had an error, or has to read more

vars == <<parserVars, meant, cut, coming, parsed, waiting>>

TypeOK ==
  /\ ParserTypeOK
  /\ cut \in BOOLEAN
  /\ coming \in Seq(Symbols)
  /\ waiting \in BOOLEAN
  /\ \A i \in DOMAIN parsed :
       parsed[i].kind \in (TokenKinds \ {"skip"}) \cup Errors

Init ==
  /\ ParserInit
  /\ \E stream \in Cut \cup Uncut :
       /\ cut = (stream \in Cut)
       /\ coming = StreamBytes(stream, MaxSize)
       /\ meant = StreamMeaning(stream, MaxSize)
  /\ parsed = <<>>
  /\ waiting = FALSE

\* The events in a call of next(); body data counts symbol by symbol, as it
\* is cut where the pieces are.
Events ==
  CASE code' \in {"skip", More} -> <<>>
    [] code' = "body_chunk" ->
         [i \in 1 .. token_size' |-> Event("body_chunk", <<value'[i]>>)]
    [] code' \in {"method", "request_target", "version", "field_name",
                  "field_value"} -> <<Event(code', value')>>
    [] OTHER -> <<Mark(code')>>

\* The caller's loop: next() until it asks for more or fails.
Parse ==
  /\ ~waiting
  /\ next
  /\ waiting' = (code' \in Errors \cup {More})
  /\ parsed' = parsed \o Events
  /\ UNCHANGED <<meant, cut, coming>>

\* set_buffer: unread bytes are those from the current token on.
Unread == SubSeq(ibuffer, idx + 1, Len(ibuffer))

Arrive(n) ==
  /\ set_buffer(Unread \o SubSeq(coming, 1, n))
  /\ coming' = SubSeq(coming, n + 1, Len(coming))
  /\ waiting' = (code \in Errors)
  /\ UNCHANGED <<version, meant, cut, parsed>>

Next ==
  \/ Parse
  \/ \E n \in 1 .. Len(coming) : (cut \/ n = Len(coming)) /\ Arrive(n)

Spec == Init /\ [][Next]_vars

-----------------------------------------------------------------------------
\* The token the reader reports lies in the buffer it was given last.
TokenInBuffer == idx + token_size <= Len(ibuffer)

\* Wherever the stream is cut, the reader reports what the requests mean and
\* nothing else: no byte of a body is taken for framing, no error comes for
\* an incomplete token, a request that follows begins where its predecessor
\* ends.
ReportsTheMeaning == IsPrefix(parsed, meant)

\* ... and all of it, once all has arrived: no piece of a token is forgotten
\* between two calls, and next() asks for more only when it needs more.
AllIsReported == waiting /\ coming = <<>> => parsed = meant
=============================================================================
