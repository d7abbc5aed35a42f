--------------------------- MODULE RequestReader ---------------------------
(***************************************************************************)
(* The incremental parser of requests: class reader::request of            *)
(* src/http/include/boost/http/reader/request.{hpp,ipp}.                   *)
(***************************************************************************)
EXTENDS TokenReader

VARIABLE version

parserVars == <<state, body_type, body_size, version, tokenVars>>

States == {"ERRORED", "METHOD", "SP_AFTER_METHOD", "REQUEST_TARGET",
  "STATIC_STR_AFTER_TARGET", "VERSION", "CRLF_AFTER_VERSION", "FIELD_NAME",
  "COLON", "OWS_AFTER_COLON", "FIELD_VALUE", "CRLF_AFTER_FIELD_VALUE",
  "CRLF_AFTER_HEADERS", "BODY", "END_OF_BODY", "END_OF_MESSAGE",
  "CHUNK_SIZE", "CHUNK_EXT", "CRLF_AFTER_CHUNK_EXT", "CHUNK_DATA",
  "CRLF_AFTER_CHUNK_DATA", "TRAILER_NAME", "TRAILER_COLON",
  "OWS_AFTER_TRAILER_COLON", "TRAILER_VALUE", "CRLF_AFTER_TRAILER_VALUE",
  "CRLF_AFTER_TRAILERS"}

BodyTypes == {"NO_BODY", "CONTENT_LENGTH_READ", "CHUNKED_ENCODING_READ",
  "RANDOM_ENCODING_READ", "READING_CONTENT_LENGTH", "READING_ENCODING"}

ParserTypeOK ==
  /\ TokenTypeOK
  /\ state \in States
  /\ body_type \in BodyTypes
  /\ version \in {"HTTP_1_0", "HOST_NOT_READ", "HOST_READ"}

ParserInit ==
  /\ TokenInit
  /\ state = "METHOD"
  /\ body_type = "NO_BODY"
  /\ version = "HTTP_1_0"     \* unset in the code: VERSION comes first

KeepAll == KeepBody /\ UNCHANGED version

\* reset(): body_size and version are left, the next message sets them.
reset ==
  /\ state' = "METHOD"
  /\ body_type' = "NO_BODY"
  /\ code' = More
  /\ idx' = 0
  /\ token_size' = 0
  /\ ibuffer' = <<>>
  /\ UNCHANGED <<body_size, version>>

\* No symbol is left: next() returns error_insufficient_data.
Starved ==
  /\ state \notin Sooner
  /\ rest = <<>>
  /\ Await(partial, state)
  /\ KeepAll

-----------------------------------------------------------------------------
(* The request line *)

ExpectMethod ==
  /\ At("METHOD")
  /\ LET n == Match(tchar, rest)
     IN \/ n = Len(rest) /\ Await(n, state)
        \/ n = 0 /\ Fail("error_invalid_data", partial)
        \/ n \in 1 .. Len(rest) - 1 /\ Found("method", n, "SP_AFTER_METHOD")
  /\ KeepAll

ExpectSpAfterMethod ==
  /\ Single("SP_AFTER_METHOD", {"sp"}, "skip", "REQUEST_TARGET")
  /\ KeepAll

ExpectRequestTarget ==
  /\ At("REQUEST_TARGET")
  /\ LET n == Match(request_target_char, rest)
     IN \/ n = Len(rest) /\ Await(n, state)
        \/ n = 0 /\ Fail("error_invalid_data", partial)
        \/ /\ n \in 1 .. Len(rest) - 1
           /\ Found("request_target", n, "STATIC_STR_AFTER_TARGET")
  /\ KeepAll

ExpectStaticStr ==
  /\ StaticStr("STATIC_STR_AFTER_TARGET", <<"sp", "HTTP/1.">>, "VERSION")
  /\ KeepAll

ExpectVersion ==
  /\ Single("VERSION", Digits, "version", "CRLF_AFTER_VERSION")
  /\ version' = CASE code' # "version" -> version
                  [] code' = "version" /\ value' = <<"0">> -> "HTTP_1_0"
                  [] OTHER -> "HOST_NOT_READ"
  /\ KeepBody

ExpectCrlfAfterVersion == LineEnd("CRLF_AFTER_VERSION") /\ KeepAll

-----------------------------------------------------------------------------
(* The header fields *)

\* Only one Host field, unless the version is 1.0.
HostName(n) ==
  /\ IF version = "HOST_READ" THEN Fail("error_no_host", n)
                              ELSE Found("field_name", n, "COLON")
  /\ version' = IF version = "HOST_NOT_READ" THEN "HOST_READ" ELSE version
  /\ KeepBody

\* A bug form: a Content-Length is not overridden.
KeepsLength(n) ==
  /\ IF body_type = "CHUNKED_ENCODING_READ"
     THEN /\ Fail("error_invalid_transfer_encoding", n)
          /\ UNCHANGED body_type
     ELSE /\ Found("field_name", n, "COLON")
          /\ body_type' = IF body_type = "CONTENT_LENGTH_READ" THEN body_type
                          ELSE "READING_ENCODING"
  /\ UNCHANGED <<version, body_size>>

\* Transfer-Encoding overrides Content-Length; none may follow chunked.
TransferEncodingName(n) ==
  /\ IF body_type = "CHUNKED_ENCODING_READ"
     THEN /\ Fail("error_invalid_transfer_encoding", n)
          /\ UNCHANGED body_type
     ELSE /\ Found("field_name", n, "COLON")
          /\ body_type' = "READING_ENCODING"
  /\ UNCHANGED <<version, body_size>>

\* Only one Content-Length, ignored after a Transfer-Encoding.
ContentLengthName(n) ==
  /\ IF body_type = "CONTENT_LENGTH_READ"
     THEN Fail("error_invalid_content_length", n)
     ELSE Found("field_name", n, "COLON")
  /\ body_type' = IF body_type = "NO_BODY" THEN "READING_CONTENT_LENGTH"
                  ELSE body_type
  /\ UNCHANGED <<version, body_size>>

ExpectFieldName ==
  /\ At("FIELD_NAME")
  /\ LET n == Match(tchar, rest)
         name == SubSeq(rest, 1, n)
     IN \/ n = Len(rest) /\ Await(partial, state) /\ KeepAll
        \/ /\ n \in 1 .. Len(rest) - 1
           /\ CASE name = <<"Host">> -> HostName(n)
                [] name = <<"Transfer-Encoding">> -> TransferEncodingName(n)
                [] name = <<"Content-Length">> -> ContentLengthName(n)
                [] OTHER -> Found("field_name", n, "COLON") /\ KeepAll

ExpectColon == Colon("COLON", "OWS_AFTER_COLON", "FIELD_VALUE") /\ KeepAll

ExpectOwsAfterColon == MoreOws("OWS_AFTER_COLON") /\ KeepAll

ExpectFieldValue ==
  /\ BeginsAt("FIELD_VALUE", "OWS_AFTER_COLON")
  /\ LET n == Match(field_value_char, rest)
         field == decode_field_value(ibuffer, start, n)
     IN \/ n = Len(rest) /\ Await(partial, "FIELD_VALUE") /\ KeepBody
        \/ /\ n < Len(rest)
           /\ CASE body_type = "READING_CONTENT_LENGTH" -> LengthValue(n, field)
                [] body_type = "READING_ENCODING" -> EncodingValue(n, field)
                [] OTHER -> /\ Found("field_value", n, "CRLF_AFTER_FIELD_VALUE")
                            /\ KeepBody
  /\ UNCHANGED version

ExpectCrlfAfterFieldValue == LineEnd("CRLF_AFTER_FIELD_VALUE") /\ KeepAll

\* What follows the head.
AfterHeaders ==
  CASE body_type = "CHUNKED_ENCODING_READ" -> "CHUNK_SIZE"
    [] body_type = "CONTENT_LENGTH_READ" /\ body_size > 0 -> "BODY"
    [] OTHER -> "END_OF_BODY"

\* A head without Host, or with a coding that is not chunked, is refused.
HeadRefusal ==
  CASE version = "HOST_NOT_READ" -> "error_no_host"
    [] version # "HOST_NOT_READ" /\ body_type = "RANDOM_ENCODING_READ" ->
         "error_invalid_transfer_encoding"
    [] OTHER -> "none"

ExpectCrlfAfterHeaders ==
  /\ IF HeadRefusal = "none"
     THEN EmptyLine("CRLF_AFTER_HEADERS", "FIELD_NAME", "end_of_headers",
                    AfterHeaders)
     ELSE EmptyLine("CRLF_AFTER_HEADERS", "FIELD_NAME", HeadRefusal, "ERRORED")
  /\ KeepAll

-----------------------------------------------------------------------------
(* The body *)

ExpectBody == Data("BODY", "END_OF_BODY") /\ UNCHANGED version

\* Tokens without symbols, handled before any other.
ExpectEndOfBody ==
  /\ state = "END_OF_BODY"
  /\ Found("end_of_body", 0, "END_OF_MESSAGE")
  /\ KeepAll

ExpectEndOfMessage ==
  /\ state = "END_OF_MESSAGE"
  /\ Found("end_of_message", 0, "METHOD")
  /\ body_type' = "NO_BODY"
  /\ UNCHANGED <<version, body_size>>

ExpectChunkSize ==
  /\ At("CHUNK_SIZE")
  /\ LET n == Match(HexDigits, rest)
         d == ChunkSize(SubSeq(rest, 1, n), MaxSize)
     IN \/ n = 0 /\ Fail("error_invalid_data", partial) /\ UNCHANGED body_size
        \/ /\ n > 0 /\ n = Len(rest)
           /\ Await(partial, state) /\ UNCHANGED body_size
        \/ /\ n \in 1 .. Len(rest) - 1
           /\ body_size' = d.out
           /\ IF d.res = "ok" THEN Found("skip", n, "CHUNK_EXT")
              ELSE Fail("error_chunk_size_overflow", partial)
  /\ UNCHANGED <<body_type, version>>

ExpectChunkExt ==
  /\ At("CHUNK_EXT")
  /\ LET n == Match(chunk_ext_char, rest)
     IN \/ n = Len(rest) /\ Await(n, state)
        \/ /\ n < Len(rest) /\ rest[n + 1] # "cr"
           /\ Fail("error_invalid_data", partial)
        \/ /\ n \in 1 .. Len(rest) - 1 /\ rest[n + 1] = "cr"
           /\ Found("skip", n, "CRLF_AFTER_CHUNK_EXT")
  /\ KeepAll

ExpectCrlfAfterChunkExt ==
  /\ \/ At("CRLF_AFTER_CHUNK_EXT")
     \/ At("CHUNK_EXT") /\ rest[1] = "cr"
  /\ StrictEnd("CRLF_AFTER_CHUNK_EXT",
               IF body_size # 0 THEN "skip" ELSE "end_of_body",
               IF body_size # 0 THEN "CHUNK_DATA" ELSE "TRAILER_NAME")
  /\ KeepAll

ExpectChunkData ==
  Data("CHUNK_DATA", "CRLF_AFTER_CHUNK_DATA") /\ UNCHANGED version

ExpectCrlfAfterChunkData ==
  /\ At("CRLF_AFTER_CHUNK_DATA")
  /\ StrictEnd(state, "skip", "CHUNK_SIZE")
  /\ KeepAll

-----------------------------------------------------------------------------
(* The trailers *)

ExpectTrailerName ==
  /\ At("TRAILER_NAME")
  /\ LET n == Match(tchar, rest)
     IN \/ n = Len(rest) /\ Await(partial, state)
        \/ /\ n \in 1 .. Len(rest) - 1
           /\ Found("field_name", n, "TRAILER_COLON")
  /\ KeepAll

ExpectTrailerColon ==
  /\ Colon("TRAILER_COLON", "OWS_AFTER_TRAILER_COLON", "TRAILER_VALUE")
  /\ KeepAll

ExpectOwsAfterTrailerColon == MoreOws("OWS_AFTER_TRAILER_COLON") /\ KeepAll

ExpectTrailerValue ==
  /\ BeginsAt("TRAILER_VALUE", "OWS_AFTER_TRAILER_COLON")
  /\ LET n == Match(field_value_char, rest)
     IN IF n = Len(rest) THEN Await(partial, "TRAILER_VALUE")
        ELSE Found("field_value", n, "CRLF_AFTER_TRAILER_VALUE")
  /\ KeepAll

ExpectCrlfAfterTrailerValue ==
  /\ At("CRLF_AFTER_TRAILER_VALUE")
  /\ StrictEnd(state, "skip", "TRAILER_NAME")
  /\ KeepAll

ExpectCrlfAfterTrailers ==
  /\ \/ At("CRLF_AFTER_TRAILERS")
     \/ At("TRAILER_NAME") /\ Match(tchar, rest) = 0
  /\ StrictEnd("CRLF_AFTER_TRAILERS",
               "end_of_message", "METHOD")
  /\ body_type' = IF code' = "end_of_message" THEN "NO_BODY" ELSE body_type
  /\ UNCHANGED <<version, body_size>>

-----------------------------------------------------------------------------
RequestLine ==
  \/ ExpectMethod \/ ExpectSpAfterMethod \/ ExpectRequestTarget
  \/ ExpectStaticStr \/ ExpectVersion \/ ExpectCrlfAfterVersion

HeaderFields ==
  \/ ExpectFieldName \/ ExpectColon \/ ExpectOwsAfterColon
  \/ ExpectFieldValue \/ ExpectCrlfAfterFieldValue \/ ExpectCrlfAfterHeaders

Body ==
  \/ ExpectBody \/ ExpectEndOfBody \/ ExpectEndOfMessage
  \/ ExpectChunkSize \/ ExpectChunkExt \/ ExpectCrlfAfterChunkExt
  \/ ExpectChunkData \/ ExpectCrlfAfterChunkData

Trailers ==
  \/ ExpectTrailerName \/ ExpectTrailerColon \/ ExpectOwsAfterTrailerColon
  \/ ExpectTrailerValue \/ ExpectCrlfAfterTrailerValue
  \/ ExpectCrlfAfterTrailers

\* In the state ERRORED next() returns at once.
next == Starved \/ RequestLine \/ HeaderFields \/ Body \/ Trailers
=============================================================================
