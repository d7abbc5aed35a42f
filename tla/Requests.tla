------------------------------ MODULE Requests ------------------------------
(* Requests as a client means them. *)
EXTENDS Messages

Request(ver, fs, cs, ts) ==
  [version |-> ver, fields |-> fs, chunks |-> cs, trailers |-> ts,
   eol |-> CRLF, chunkEol |-> CRLF, pad |-> FALSE]

Method == <<"G", "x">>
Target == <<"slash", "x">>

\* A request of version 1.1 has one Host.
HostRefusal(m, i) ==
  IF m.fields[i].name = <<"Host">> /\ m.version # "0" /\ Before(m, "Host", i) # {}
  THEN Refusal("name", "error_no_host") ELSE Welcome

RequestRefusal(m, max) ==
  [i \in DOMAIN m.fields |->
     IF HostRefusal(m, i) # Welcome THEN HostRefusal(m, i)
     ELSE FramingRefusal(m, i, max)]

\* A head without bad fields may still be refused as a whole.
HeadError(m) ==
  CASE m.version # "0" /\ Named(m, "Host") = {} -> "error_no_host"
    [] LastCoding(m) = "CHUNKED_NOT_FOUND" -> "error_invalid_transfer_encoding"
    [] OTHER -> "none"

Accepted(m, max) ==
  /\ \A i \in DOMAIN m.fields : RequestRefusal(m, max)[i] = Welcome
  /\ HeadError(m) = "none"

Bytes(m, max) ==
  Method \o <<"sp">> \o Target \o <<"sp", "HTTP/1.", m.version>> \o m.eol
    \o FieldLines(m) \o m.eol
    \o CASE Accepted(m, max) /\ Framing(m) = "chunked" -> ChunkedBytes(m)
         [] Accepted(m, max) /\ Framing(m) = "counted" -> Counted(m, max)
         [] OTHER -> <<>>

BodyMeaning(m, max) ==
  CASE Framing(m) = "chunked" -> ChunkedMeaning(m)
    [] Framing(m) = "counted" -> DataEvents(Counted(m, max)) \o End
    [] Framing(m) = "none" -> End

Meaning(m, max) ==
  <<Event("method", Method), Event("request_target", Target),
    Event("version", <<m.version>>)>> \o
    CASE m.eol \notin LineEnds -> <<Mark("error_invalid_data")>>
      [] m.eol \in LineEnds /\ Accepted(m, max) ->
           FieldsMeaning(m, RequestRefusal(m, max))
             \o <<Mark("end_of_headers")>> \o BodyMeaning(m, max)
      [] OTHER ->
           FieldsMeaning(m, RequestRefusal(m, max))
             \o (IF \E i \in DOMAIN m.fields :
                      RequestRefusal(m, max)[i] # Welcome
                 THEN <<>> ELSE <<Mark(HeadError(m))>>)

Refused(m, max) ==
  \/ ~Accepted(m, max)
  \/ m.eol \notin LineEnds
  \/ Framing(m) = "chunked" /\ m.chunkEol # CRLF

StreamBytes(ms, max) == FlattenSeq(MapSeq(ms, LAMBDA m : Bytes(m, max)))

StreamMeaning(ms, max) ==
  FlattenUpTo(ms, LAMBDA m : Meaning(m, max), LAMBDA m : Refused(m, max))
=============================================================================
