------------------------------ MODULE Readers ------------------------------
(***************************************************************************)
(* The two parsers of the HTTP library, each fed with its own streams, and *)
(* the decoders they use: a behaviour is that of one reader, or a single   *)
(* text to be decoded.                                                     *)
(***************************************************************************)
EXTENDS RequestReader

CONSTANTS
  CutRequests, UncutRequests,     \* streams of requests
  CutResponses, UncutResponses,   \* streams of responses
  Texts                           \* texts for the decoders

VARIABLES side, text, eof, sent, meant, cut, coming, parsed, waiting, lost

Rq == INSTANCE RequestStream WITH Cut <- CutRequests, Uncut <- UncutRequests
Rs == INSTANCE ResponseStream WITH Cut <- CutResponses, Uncut <- UncutResponses

\* What is sent are symbols.
ASSUME StreamsAssumption ==
  /\ \A s \in CutRequests \cup UncutRequests :
       Rq!StreamBytes(s, MaxSize) \in Seq(Symbols)
  /\ \A s \in CutResponses \cup UncutResponses :
       Rs!StreamBytes(s, MaxSize) \in Seq(Symbols)

vars == <<side, text, version, eof, sent, meant, cut, coming, parsed, waiting, lost,
          state, body_type, body_size, tokenVars>>

Init ==
  \/ /\ side = "text" /\ text \in Texts
     /\ TokenInit /\ state = "METHOD" /\ body_type = "NO_BODY"
     /\ version = "HTTP_1_0" /\ eof = FALSE /\ sent = <<>> /\ lost = FALSE
     /\ meant = <<>> /\ cut = FALSE /\ coming = <<>> /\ parsed = <<>>
     /\ waiting = FALSE
  \/ /\ side = "request" /\ Rq!Init
     /\ text = <<>> /\ eof = FALSE /\ sent = <<>> /\ lost = FALSE
  \/ /\ side = "response" /\ Rs!Init
     /\ text = <<>> /\ version = "HTTP_1_0"

Next ==
  /\ \/ side = "request" /\ Rq!Next /\ UNCHANGED <<eof, sent, lost>>
     \/ side = "response" /\ Rs!Next /\ UNCHANGED version
  /\ UNCHANGED <<side, text>>

Spec == Init /\ [][Next]_vars

-----------------------------------------------------------------------------
\* Every state of the parser in use is one of its own.
TypeOK ==
  /\ side = "request" => Rq!TypeOK
  /\ side = "response" => Rs!TypeOK

\* The symbol at which decode_field_value stops looking back from an empty value.
StopsAt == ibuffer[idx - ending_ows(ibuffer, idx, 0)]

\* The token a parser reports lies in the buffer it was given last, although
\* buffers come and go between two calls (set_buffer of both readers).  The
\* decoder of values looks back from an empty one, as its counter wraps
\* (decode_field_value): over white space to the colon of the same field,
\* never into what came before it; and out of the buffer, but only when
\* nothing of the field but white space is left in it.
TokenInBuffer ==
  /\ idx + token_size <= Len(ibuffer)
  /\ code = "field_value" /\ token_size = 0 =>
       LeavesBuffer(ibuffer, idx, 0) \/ StopsAt = "colon"

\* Wherever the stream is cut and closed, a reader reports what its messages
\* mean and nothing else (RequestStream, ResponseStream).
ReportsTheMeaning ==
  /\ side = "request" => Rq!ReportsTheMeaning
  /\ side = "response" => Rs!ReportsTheMeaning

\* ... and all of it, once all has arrived.
AllIsReported ==
  /\ side = "request" => Rq!AllIsReported
  /\ side = "response" => Rs!AllIsReported

\* The number a text of digits stands for.
Number(s, base) == FoldLeft(LAMBDA n, d : n * base + DigitValue[d], 0, s)
Targets == {1, 9, 12, 21, 31, 255}

\* The decoded value is the number when it fits the target; a number that
\* does not fit is an overflow; anything else is refused (content_length.ipp
\* and chunk_size.ipp, which test for overflow digit by digit, from the
\* right, with a weight that must not overflow either).
DecodesTheNumber ==
  \A max \in Targets, charset \in {Digits, HexDigits} :
    LET base == IF charset = Digits THEN 10 ELSE 16
        d == Decode(text, charset, base, max)
        isNumber == text # <<>> /\ ToSet(text) \subseteq charset
    IN /\ d.res = "ok" <=> isNumber /\ Number(text, base) <= max
       /\ d.res = "ok" => d.out = Number(text, base)
       /\ isNumber /\ d.res # "ok" => d.res = "overflow"

\* A list of transfer codings is chunked exactly when chunked comes once and
\* last, and is refused exactly when it comes but not so (section 3.3.1 of
\* RFC 7230, quoted in transfer_encoding.hpp), whatever commas and spaces
\* are around: its elements are the texts between commas, trimmed.
ChunkedOnceAndLast ==
  LET e == Elements(text)
      at == {i \in DOMAIN e : e[i] = <<"chunked">>}
      word(s) == SelectSeq(s, LAMBDA c : c \notin {"comma", "sp"})
  IN /\ decode_transfer_encoding(text) =
          CASE at = {} -> "CHUNKED_NOT_FOUND"
            [] at = {Len(e)} -> "CHUNKED_AT_END"
            [] OTHER -> "CHUNKED_INVALID"
     /\ \A i \in DOMAIN e :
          e[i] # <<>> /\ {e[i][1], Last(e[i])} \cap {"sp", "comma"} = {}
     /\ word(FlattenSeq(e)) = word(text)
=============================================================================
