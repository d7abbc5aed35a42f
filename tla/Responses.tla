----------------------------- MODULE Responses -----------------------------
(* Responses as a server means them, to a client that knows the method. *)
EXTENDS Messages

\* method is that of the request; "none" when the caller does not tell it.
Response(status, method, fs, cs, ts) ==
  [status |-> status, method |-> method, fields |-> fs, chunks |-> cs,
   trailers |-> ts, eol |-> CRLF, chunkEol |-> CRLF, pad |-> FALSE]

Version == <<"1">>
Reason == <<"x", "sp", "x">>

\* Section 3.3.3 of RFC 7230, rules 1 and 2.
WithoutBody(m) ==
  \/ m.method = "HEAD"
  \/ m.status[1] = "1"
  \/ m.status \in {<<"2", "0", "4">>, <<"3", "0", "4">>}

\* A 204 answer to CONNECT counts as the former (RFC 7230 makes any 2xx open
\* a tunnel).
Tunnel(m) == m.method = "CONNECT" /\ m.status[1] = "2" /\ ~WithoutBody(m)

Bodyless(m) == WithoutBody(m) \/ Tunnel(m)

ResponseRefusal(m, max) ==
  [i \in DOMAIN m.fields |->
     IF Bodyless(m) THEN Welcome ELSE FramingRefusal(m, i, max)]

Accepted(m, max) ==
  \A i \in DOMAIN m.fields : ResponseRefusal(m, max)[i] = Welcome

\* The body ends where the stream does.
Delimited(m) == ~Bodyless(m) /\ Framing(m) = "none"

Payload(m, max) ==
  CASE Bodyless(m) \/ ~Accepted(m, max) -> <<>>
    [] Delimited(m) -> FlattenSeq(m.chunks)
    [] Framing(m) = "counted" -> Counted(m, max)
    [] OTHER -> ChunkedBytes(m)

Bytes(m, max) ==
  <<"HTTP/1.">> \o Version \o <<"sp">> \o m.status \o <<"sp">> \o Reason
    \o m.eol \o FieldLines(m) \o m.eol \o Payload(m, max)

BodyMeaning(m, max) ==
  CASE Bodyless(m) -> End \o (IF Tunnel(m)
                              THEN <<Mark("error_use_another_connection")>>
                              ELSE <<>>)
    [] Delimited(m) -> DataEvents(FlattenSeq(m.chunks))
    [] ~Bodyless(m) /\ Framing(m) = "counted" ->
         DataEvents(Counted(m, max)) \o End
    [] ~Bodyless(m) /\ Framing(m) = "chunked" -> ChunkedMeaning(m)

HeadMeaning(m, max) ==
  <<Event("version", Version), Event("status_code", m.status)>> \o
    CASE m.method = "none" -> <<Mark("error_set_method")>>
      [] m.method # "none" /\ m.eol \notin LineEnds ->
           <<Event("reason_phrase", Reason), Mark("error_invalid_data")>>
      [] OTHER ->
           <<Event("reason_phrase", Reason)>>
             \o FieldsMeaning(m, ResponseRefusal(m, max))

Understood(m, max) ==
  m.method # "none" /\ m.eol \in LineEnds /\ Accepted(m, max)

Meaning(m, max) ==
  HeadMeaning(m, max) \o
    IF Understood(m, max)
    THEN <<Mark("end_of_headers")>> \o BodyMeaning(m, max) ELSE <<>>

\* Nothing is understood after these.
IsLast(m, max) ==
  \/ ~Understood(m, max) \/ Tunnel(m) \/ Delimited(m)
  \/ ~Bodyless(m) /\ Framing(m) = "chunked" /\ m.chunkEol # CRLF

StreamBytes(ms, max) == FlattenSeq(MapSeq(ms, LAMBDA m : Bytes(m, max)))

\* What follows a response that the end of the stream ends is part of it.
Swallowed(ms, max) ==
  LET last == {i \in DOMAIN ms : IsLast(ms[i], max)}
      first == CHOOSE i \in last : \A j \in last : i <= j
  IN IF last # {} /\ Understood(ms[first], max) /\ Delimited(ms[first])
     THEN DataEvents(StreamBytes(SubSeq(ms, first + 1, Len(ms)), max))
     ELSE <<>>

StreamMeaning(ms, max) ==
  FlattenUpTo(ms, LAMBDA m : Meaning(m, max), LAMBDA m : IsLast(m, max))
    \o Swallowed(ms, max)
=============================================================================
