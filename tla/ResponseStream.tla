--------------------------- MODULE ResponseStream ---------------------------
(***************************************************************************)
(* A reader::response fed with a stream of responses that arrives in       *)
(* pieces of any size and that the peer may close anywhere.  parsed is     *)
(* what the caller has learned from it.                                    *)
(***************************************************************************)
EXTENDS ResponseReader, Responses

CONSTANTS
  Cut,        \* sequences of responses that arrive in pieces of any size
  Uncut       \* sequences of responses that arrive at once

VARIABLES
  sent,       \* the responses of the stream,
  meant,      \* what they mean, and
  cut,        \* whether it comes in pieces (none ever changes)
  coming,     \* the bytes of it that have not arrived
  parsed,     \* the events the reader has reported
  waiting,    \* the caller has had an error, or has to read more
  lost        \* the peer closed before it sent all

vars == <<parserVars, sent, meant, cut, coming, parsed, waiting, lost>>

TypeOK ==
  /\ ParserTypeOK
  /\ cut \in BOOLEAN
  /\ coming \in Seq(Symbols)
  /\ waiting \in BOOLEAN
  /\ lost \in BOOLEAN
  /\ \A i \in DOMAIN parsed :
       parsed[i].kind \in (TokenKinds \ {"skip"}) \cup Errors

Init ==
  /\ ParserInit
  /\ sent \in Cut \cup Uncut
  /\ cut = (sent \in Cut)
  /\ meant = StreamMeaning(sent, MaxSize)
  /\ coming = StreamBytes(sent, MaxSize)
  /\ parsed = <<>>
  /\ waiting = FALSE
  /\ lost = FALSE

\* The method of the request whose response is being read.
Current ==
  sent[Len(SelectSeq(parsed, LAMBDA e : e.kind = "status_code"))].method

Unnamed ==
  /\ code = "status_code"
  /\ body_type = "UNKNOWN_BODY"
  /\ Current # "none"

SetMethod ==
  /\ Unnamed
  /\ set_method(Current)
  /\ UNCHANGED <<sent, meant, cut, coming, parsed, waiting, lost>>

Events ==
  CASE code' \in {"skip", More} -> <<>>
    [] code' = "body_chunk" ->
         [i \in 1 .. token_size' |-> Event("body_chunk", <<value'[i]>>)]
    [] code' \in {"version", "status_code", "reason_phrase", "field_name",
                  "field_value"} -> <<Event(code', value')>>
    [] OTHER -> <<Mark(code')>>

\* The caller's loop: next() until it asks for more or fails.
Parse ==
  /\ ~waiting /\ ~Unnamed
  /\ next
  /\ waiting' = (code' \in Errors \cup {More})
  /\ parsed' = parsed \o Events
  /\ UNCHANGED <<sent, meant, cut, coming, lost>>

\* set_buffer: unread bytes are those from the current token on.
Arrive(n) ==
  /\ ~eof
  /\ set_buffer(SubSeq(ibuffer, idx + 1, Len(ibuffer))
                  \o SubSeq(coming, 1, n))
  /\ coming' = SubSeq(coming, n + 1, Len(coming))
  /\ waiting' = (code \in Errors)
  /\ UNCHANGED <<eof, sent, meant, cut, parsed, lost>>

\* The peer closes, in the middle of a response or after the last.
Close ==
  /\ ~eof
  /\ puteof
  /\ lost' = (coming # <<>>)
  /\ coming' = <<>>
  /\ waiting' = (code \in Errors)
  /\ UNCHANGED <<sent, meant, cut, parsed>>

Next ==
  \/ SetMethod \/ Parse \/ Close
  \/ \E n \in 1 .. Len(coming) : (cut \/ n = Len(coming)) /\ Arrive(n)

Spec == Init /\ [][Next]_vars

-----------------------------------------------------------------------------
\* The token the reader reports lies in the buffer it was given last.
TokenInBuffer == idx + token_size <= Len(ibuffer)

Failed(events) == events # <<>> /\ Last(events).kind \in Errors

\* What the end of the stream adds to the first n events of the stream: it
\* completes a body that it alone could end, once the head is there.
Ending(n) ==
  LET heads(s) ==
        Cardinality({i \in DOMAIN s : s[i].kind = "end_of_headers"})
      all == heads(SubSeq(meant, 1, n))
  IN IF all > 0 /\ Delimited(sent[all]) THEN
       End \o <<Mark("error_use_another_connection")>>
     ELSE <<Mark("error_use_another_connection")>>

\* Wherever the stream is cut into pieces and wherever the peer closes it,
\* the reader reports what the responses mean and nothing else: a response
\* that was cut short is never reported complete (response.ipp, next: only
\* EXPECT_UNSAFE_BODY may end at the end of the stream), the bytes after a
\* tunnel is opened or after a body up to the close are not read as a
\* response, and header fields do not give a body to one that has none.
ReportsTheMeaning ==
  \E n \in 0 .. Len(parsed) :
    /\ IsPrefix(SubSeq(parsed, 1, n), meant)
    /\ \/ n = Len(parsed)
       \/ /\ eof /\ ~Failed(SubSeq(parsed, 1, n))
          /\ IsPrefix(SubSeq(parsed, n + 1, Len(parsed)), Ending(n))

\* ... and all of it, once all has arrived, the end of the stream included.
AllIsReported ==
  waiting /\ coming = <<>> /\ ~lost =>
    parsed = meant \o (IF eof /\ ~Failed(meant) THEN Ending(Len(meant))
                       ELSE <<>>)
=============================================================================
