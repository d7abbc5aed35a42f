------------------------------ MODULE Messages ------------------------------
(***************************************************************************)
(* Messages as their sender means them: what bytes one is sent as, and     *)
(* what its receiver has to understand, by the rules of RFC 7230 that the  *)
(* comments of request.ipp and response.ipp quote.  Nothing here knows     *)
(* about buffers or parser states.                                         *)
(*                                                                         *)
(* A message m has fields, a payload in chunks and trailers; m.eol and     *)
(* m.chunkEol are the line ends of its head and of its chunks, and m.pad   *)
(* says whether its values are padded.                                     *)
(***************************************************************************)
EXTENDS HttpSyntax

Field(n, v) == [name |-> n, value |-> v]
MapSeq(s, Op(_)) == [i \in DOMAIN s |-> Op(s[i])]

-----------------------------------------------------------------------------
(* What the head says about the body *)

Named(m, word) == {i \in DOMAIN m.fields : m.fields[i].name = <<word>>}
Before(m, word, i) == {j \in Named(m, word) : j < i}
Coding(m, i) == decode_transfer_encoding(m.fields[i].value)
Length(m, i, max) == ContentLength(m.fields[i].value, max)

\* A field is refused for its name, for its value, or not.
Refusal(at, why) == [at |-> at, why |-> why]
Welcome == Refusal("nowhere", "none")

LengthRefusal(m, i, max) ==
  CASE Before(m, "Content-Length", i) # {} ->
         Refusal("name", "error_invalid_content_length")
    [] Length(m, i, max).res = "invalid" ->
         Refusal("value", "error_invalid_content_length")
    [] Length(m, i, max).res = "overflow" ->
         Refusal("value", "error_content_length_overflow")
    [] OTHER -> Welcome

\* A second Content-Length or one that is no number, unless a transfer
\* coding makes it void; a coding after chunked.
FramingRefusal(m, i, max) ==
  LET name == m.fields[i].name
  IN CASE /\ name = <<"Transfer-Encoding">>
          /\ \E j \in Before(m, "Transfer-Encoding", i) :
               Coding(m, j) = "CHUNKED_AT_END" ->
            Refusal("name", "error_invalid_transfer_encoding")
       [] /\ name = <<"Transfer-Encoding">>
          /\ \A j \in Before(m, "Transfer-Encoding", i) :
               Coding(m, j) # "CHUNKED_AT_END"
          /\ Coding(m, i) = "CHUNKED_INVALID" ->
            Refusal("value", "error_invalid_transfer_encoding")
       [] /\ name = <<"Content-Length">>
          /\ Before(m, "Transfer-Encoding", i) = {} -> LengthRefusal(m, i, max)
       [] OTHER -> Welcome

LastCoding(m) ==
  LET te == Named(m, "Transfer-Encoding")
  IN IF te = {} THEN "none"
     ELSE Coding(m, CHOOSE i \in te : \A j \in te : i >= j)

\* A Content-Length counts symbols unless a Transfer-Encoding overrides it.
Framing(m) ==
  CASE LastCoding(m) = "CHUNKED_AT_END" -> "chunked"
    [] LastCoding(m) = "none" /\ Named(m, "Content-Length") # {} -> "counted"
    [] OTHER -> "none"

Counted(m, max) ==
  LET n == Length(m, CHOOSE i \in Named(m, "Content-Length") : TRUE, max).out
  IN SubSeq(FlattenSeq(m.chunks), 1, n)

-----------------------------------------------------------------------------
(* Bytes *)

Pad(m) == IF m.pad THEN <<"sp">> ELSE <<>>

FieldLine(f, pad, eol) ==
  f.name \o <<"colon">> \o pad \o f.value \o pad \o eol

FieldLines(m) ==
  FlattenSeq(MapSeq(m.fields, LAMBDA f : FieldLine(f, Pad(m), m.eol)))

\* Sizes of chunks are single digits here.
SizeDigit(n) == CASE n = 0 -> "0" [] n = 1 -> "1" [] n = 2 -> "2"

ChunkBytes(c, m) ==
  <<SizeDigit(Len(c))>> \o (IF m.pad THEN <<"semi", "x">> ELSE <<>>)
    \o m.chunkEol \o c \o m.chunkEol

ChunkedBytes(m) ==
  FlattenSeq(MapSeq(m.chunks, LAMBDA c : ChunkBytes(c, m)))
    \o <<"0">> \o m.chunkEol
    \o FlattenSeq(MapSeq(m.trailers, LAMBDA f : FieldLine(f, Pad(m), CRLF)))
    \o CRLF

-----------------------------------------------------------------------------
(* Meaning, as a sequence of events *)

Event(k, v) == [kind |-> k, value |-> v]
Mark(k) == Event(k, <<>>)
NameEvent(f) == Event("field_name", f.name)
FieldEvents(f) == <<NameEvent(f), Event("field_value", f.value)>>

\* All fields, or those up to the first that is refused, and why.
FieldsMeaning(m, refusal) ==
  LET bad == {i \in DOMAIN m.fields : refusal[i] # Welcome}
      upto == IF bad = {} THEN Len(m.fields)
              ELSE CHOOSE i \in bad : \A j \in bad : i <= j
      Meant(i) ==
        CASE refusal[i].at = "name" -> <<Mark(refusal[i].why)>>
          [] refusal[i].at = "value" ->
               <<NameEvent(m.fields[i]), Mark(refusal[i].why)>>
          [] OTHER -> FieldEvents(m.fields[i])
  IN FlattenSeq([i \in 1 .. upto |-> Meant(i)])

DataEvents(symbols) == MapSeq(symbols, LAMBDA s : Event("body_chunk", <<s>>))
End == <<Mark("end_of_body"), Mark("end_of_message")>>

\* The line ends of chunks are strict.
ChunkedMeaning(m) ==
  IF m.chunkEol # CRLF THEN <<Mark("error_invalid_data")>>
  ELSE DataEvents(FlattenSeq(m.chunks)) \o <<Mark("end_of_body")>>
         \o FlattenSeq(MapSeq(m.trailers, FieldEvents))
         \o <<Mark("end_of_message")>>

LineEnds == {CRLF, <<"lf">>}

\* Messages one after the other: nothing is understood after an error, or
\* after one that says it is the last.
FlattenUpTo(ms, Op(_), last(_)) ==
  LET ends == {i \in DOMAIN ms : last(ms[i])}
      upto == IF ends = {} THEN Len(ms)
              ELSE CHOOSE i \in ends : \A j \in ends : i <= j
  IN FlattenSeq([i \in 1 .. upto |-> Op(ms[i])])
=============================================================================
