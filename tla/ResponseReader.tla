--------------------------- MODULE ResponseReader ---------------------------
(***************************************************************************)
(* The incremental parser of responses: class reader::response of          *)
(* src/http/include/boost/http/reader/response.{hpp,ipp}.                  *)
(***************************************************************************)
EXTENDS TokenReader

VARIABLE eof    \* puteof was called

parserVars == <<state, body_type, body_size, eof, tokenVars>>

States == {"ERRORED", "VERSION_STATIC_STR", "VERSION", "SP_AFTER_VERSION",
  "STATUS_CODE", "SP_AFTER_STATUS_CODE", "REASON_PHRASE",
  "CRLF_AFTER_REASON_PHRASE", "FIELD_NAME", "COLON", "OWS_AFTER_COLON",
  "FIELD_VALUE", "CRLF_AFTER_FIELD_VALUE", "CRLF_AFTER_HEADERS", "BODY",
  "UNSAFE_BODY", "END_OF_BODY", "END_OF_MESSAGE", "END_OF_CONNECTION_ERROR",
  "CHUNK_SIZE", "CHUNK_EXT", "CRLF_AFTER_CHUNK_EXT", "CHUNK_DATA",
  "CRLF_AFTER_CHUNK_DATA", "TRAILER_NAME", "TRAILER_COLON",
  "OWS_AFTER_TRAILER_COLON", "TRAILER_VALUE", "CRLF_AFTER_TRAILER_VALUE",
  "CRLF_AFTER_TRAILERS"}

BodyTypes == {"UNKNOWN_BODY", "CONNECTION_DELIMITED", "FORCE_NO_BODY",
  "FORCE_NO_BODY_AND_STOP", "CONTENT_LENGTH_READ", "CHUNKED_ENCODING_READ",
  "RANDOM_ENCODING_READ", "READING_CONTENT_LENGTH", "READING_ENCODING"}

ParserTypeOK ==
  /\ TokenTypeOK
  /\ state \in States
  /\ body_type \in BodyTypes
  /\ eof \in BOOLEAN

ParserInit ==
  /\ TokenInit
  /\ state = "VERSION_STATIC_STR"
  /\ body_type = "UNKNOWN_BODY"
  /\ eof = FALSE

\* Responses without a body, whatever their header fields say.
NoBody(method, status) ==
  \/ status[1] = "1"
  \/ status \in {<<"2", "0", "4">>, <<"3", "0", "4">>}
  \/ method = "HEAD"

\* The caller names the method of the request once it has the status.
set_method(method) ==
  /\ code = "status_code"
  /\ \/ /\ NoBody(method, value)
        /\ body_type' = "FORCE_NO_BODY" /\ body_size' = 0
     \/ /\ ~NoBody(method, value) /\ value[1] = "2" /\ method = "CONNECT"
        /\ body_type' = "FORCE_NO_BODY_AND_STOP" /\ body_size' = 0
     \/ /\ ~NoBody(method, value) /\ ~(value[1] = "2" /\ method = "CONNECT")
        /\ body_type' = "CONNECTION_DELIMITED" /\ UNCHANGED body_size
  /\ UNCHANGED <<state, eof, tokenVars>>

puteof ==
  /\ eof' = TRUE
  /\ UNCHANGED <<state, body_type, body_size, tokenVars>>

-----------------------------------------------------------------------------
(* The beginning of next() *)

ExpectEndOfBody ==
  /\ state = "END_OF_BODY"
  /\ Found("end_of_body", 0, "END_OF_MESSAGE")
  /\ KeepBody

AfterMessage ==
  IF body_type = "FORCE_NO_BODY_AND_STOP" THEN "END_OF_CONNECTION_ERROR"
  ELSE "VERSION_STATIC_STR"

ExpectEndOfMessage ==
  /\ state = "END_OF_MESSAGE"
  /\ Found("end_of_message", 0, AfterMessage)
  /\ body_type' = "UNKNOWN_BODY"
  /\ UNCHANGED body_size

\* Only the code changes.
ExpectEndOfConnectionError ==
  /\ state = "END_OF_CONNECTION_ERROR"
  /\ code' = "error_use_another_connection"
  /\ state' = "ERRORED"
  /\ UNCHANGED <<idx, token_size, ibuffer>>
  /\ KeepBody

\* No symbol is left.  The end of the stream ends a body that only it could
\* end, and is an error anywhere else.
Starved ==
  /\ state \notin Sooner
  /\ rest = <<>>
  /\ \/ ~eof /\ Await(partial, state)
     \/ /\ eof /\ state # "UNSAFE_BODY"
        /\ Fail("error_use_another_connection", partial)
     \/ /\ eof /\ state = "UNSAFE_BODY"
        /\ Found("end_of_body", 0, "END_OF_MESSAGE")
  /\ KeepBody

-----------------------------------------------------------------------------
(* The status line *)

ExpectVersionStaticStr ==
  /\ StaticStr("VERSION_STATIC_STR", <<"HTTP/1.">>, "VERSION")
  /\ KeepBody

ExpectVersion ==
  Single("VERSION", Digits, "version", "SP_AFTER_VERSION") /\ KeepBody

ExpectSpAfterVersion ==
  Single("SP_AFTER_VERSION", {"sp"}, "skip", "STATUS_CODE") /\ KeepBody

\* Three digits, looked at when three symbols are there.
ExpectStatusCode ==
  /\ At("STATUS_CODE")
  /\ CASE Len(rest) < 3 -> Await(partial, state)
       [] Len(rest) >= 3 /\ Match(Digits, SubSeq(rest, 1, 3)) < 3 ->
            Fail("error_invalid_data", partial)
       [] OTHER -> Found("status_code", 3, "SP_AFTER_STATUS_CODE")
  /\ KeepBody

\* By then the method must be known.
ExpectSpAfterStatusCode ==
  /\ IF body_type = "UNKNOWN_BODY"
     THEN At("SP_AFTER_STATUS_CODE") /\ Fail("error_set_method", partial)
     ELSE Single("SP_AFTER_STATUS_CODE", {"sp"}, "skip", "REASON_PHRASE")
  /\ KeepBody

ExpectReasonPhrase ==
  /\ At("REASON_PHRASE")
  /\ LET n == Match(reason_phrase_char, rest)
     IN IF n = Len(rest) THEN Await(partial, state)
        ELSE Found("reason_phrase", n, "CRLF_AFTER_REASON_PHRASE")
  /\ KeepBody

ExpectCrlfAfterReasonPhrase == LineEnd("CRLF_AFTER_REASON_PHRASE") /\ KeepBody

-----------------------------------------------------------------------------
(* The header fields *)

Forced == {"FORCE_NO_BODY", "FORCE_NO_BODY_AND_STOP"}

\* Transfer-Encoding overrides Content-Length; none may follow chunked.
TransferEncodingName(n) ==
  /\ IF body_type = "CHUNKED_ENCODING_READ"
     THEN /\ Fail("error_invalid_transfer_encoding", n)
          /\ UNCHANGED body_type
     ELSE /\ Found("field_name", n, "COLON")
          /\ body_type' = "READING_ENCODING"
  /\ UNCHANGED body_size

\* Only one Content-Length, ignored after a Transfer-Encoding.
ContentLengthName(n) ==
  /\ IF body_type = "CONTENT_LENGTH_READ"
     THEN Fail("error_invalid_content_length", n)
     ELSE Found("field_name", n, "COLON")
  /\ body_type' = IF body_type = "CONNECTION_DELIMITED"
                  THEN "READING_CONTENT_LENGTH" ELSE body_type
  /\ UNCHANGED body_size

\* Neither counts in a response that has no body anyway.
ExpectFieldName ==
  /\ At("FIELD_NAME")
  /\ LET n == Match(tchar, rest)
         name == SubSeq(rest, 1, n)
     IN \/ n = Len(rest) /\ Await(partial, state) /\ KeepBody
        \/ /\ n \in 1 .. Len(rest) - 1
           /\ CASE body_type \notin Forced /\ name = <<"Transfer-Encoding">> ->
                     TransferEncodingName(n)
                [] body_type \notin Forced /\ name = <<"Content-Length">> ->
                     ContentLengthName(n)
                [] OTHER -> Found("field_name", n, "COLON") /\ KeepBody

ExpectColon == Colon("COLON", "OWS_AFTER_COLON", "FIELD_VALUE") /\ KeepBody

ExpectOwsAfterColon == MoreOws("OWS_AFTER_COLON") /\ KeepBody

ExpectFieldValue ==
  /\ BeginsAt("FIELD_VALUE", "OWS_AFTER_COLON")
  /\ LET n == Match(field_value_char, rest)
         field == decode_field_value(ibuffer, start, n)
     IN \/ n = Len(rest) /\ Await(partial, "FIELD_VALUE") /\ KeepBody
        \/ /\ n < Len(rest)
           /\ CASE body_type = "READING_CONTENT_LENGTH" -> LengthValue(n, field)
                [] body_type = "READING_ENCODING" -> EncodingValue(n, field)
                [] OTHER -> /\ Found("field_value", n, "CRLF_AFTER_FIELD_VALUE")
                            /\ KeepBody

ExpectCrlfAfterFieldValue == LineEnd("CRLF_AFTER_FIELD_VALUE") /\ KeepBody

\* What follows the head: without a usable length, all until the stream ends.
AfterHeaders ==
  CASE body_type \in {"RANDOM_ENCODING_READ", "CONNECTION_DELIMITED"} ->
         "UNSAFE_BODY"
    [] body_type = "CHUNKED_ENCODING_READ" -> "CHUNK_SIZE"
    [] body_type = "CONTENT_LENGTH_READ" /\ body_size > 0 -> "BODY"
    [] OTHER -> "END_OF_BODY"

ExpectCrlfAfterHeaders ==
  /\ EmptyLine("CRLF_AFTER_HEADERS", "FIELD_NAME", "end_of_headers",
               AfterHeaders)
  /\ body_type' = IF code' = "end_of_headers" /\ AfterHeaders = "UNSAFE_BODY"
                  THEN "FORCE_NO_BODY_AND_STOP" ELSE body_type
  /\ UNCHANGED body_size

-----------------------------------------------------------------------------
(* The body *)

ExpectBody == Data("BODY", "END_OF_BODY")

ExpectUnsafeBody ==
  /\ At("UNSAFE_BODY")
  /\ Found("body_chunk", Len(rest), state)
  /\ KeepBody

ExpectChunkSize ==
  /\ At("CHUNK_SIZE")
  /\ LET n == Match(HexDigits, rest)
         d == ChunkSize(SubSeq(rest, 1, n), MaxSize)
     IN \/ n = 0 /\ Fail("error_invalid_data", partial) /\ UNCHANGED body_size
        \/ /\ n > 0 /\ n = Len(rest)
           /\ Await(partial, state) /\ UNCHANGED body_size
        \/ /\ n \in 1 .. Len(rest) - 1
           /\ body_size' = d.out
           /\ IF d.res = "ok" THEN Found("skip", n, "CHUNK_EXT")
              ELSE Fail("error_chunk_size_overflow", partial)
  /\ UNCHANGED body_type

ExpectChunkExt ==
  /\ At("CHUNK_EXT")
  /\ LET n == Match(chunk_ext_char, rest)
     IN \/ n = Len(rest) /\ Await(n, state)
        \/ /\ n < Len(rest) /\ rest[n + 1] # "cr"
           /\ Fail("error_invalid_data", partial)
        \/ /\ n \in 1 .. Len(rest) - 1 /\ rest[n + 1] = "cr"
           /\ Found("skip", n, "CRLF_AFTER_CHUNK_EXT")
  /\ KeepBody

ExpectCrlfAfterChunkExt ==
  /\ \/ At("CRLF_AFTER_CHUNK_EXT")
     \/ At("CHUNK_EXT") /\ rest[1] = "cr"
  /\ StrictEnd("CRLF_AFTER_CHUNK_EXT",
               IF body_size # 0 THEN "skip" ELSE "end_of_body",
               IF body_size # 0 THEN "CHUNK_DATA" ELSE "TRAILER_NAME")
  /\ KeepBody

ExpectChunkData == Data("CHUNK_DATA", "CRLF_AFTER_CHUNK_DATA")

ExpectCrlfAfterChunkData ==
  /\ At("CRLF_AFTER_CHUNK_DATA")
  /\ StrictEnd(state, "skip", "CHUNK_SIZE")
  /\ KeepBody

-----------------------------------------------------------------------------
(* The trailers *)

ExpectTrailerName ==
  /\ At("TRAILER_NAME")
  /\ LET n == Match(tchar, rest)
     IN \/ n = Len(rest) /\ Await(partial, state)
        \/ /\ n \in 1 .. Len(rest) - 1
           /\ Found("field_name", n, "TRAILER_COLON")
  /\ KeepBody

ExpectTrailerColon ==
  /\ Colon("TRAILER_COLON", "OWS_AFTER_TRAILER_COLON", "TRAILER_VALUE")
  /\ KeepBody

ExpectOwsAfterTrailerColon == MoreOws("OWS_AFTER_TRAILER_COLON") /\ KeepBody

ExpectTrailerValue ==
  /\ BeginsAt("TRAILER_VALUE", "OWS_AFTER_TRAILER_COLON")
  /\ LET n == Match(field_value_char, rest)
     IN IF n = Len(rest) THEN Await(partial, "TRAILER_VALUE")
        ELSE Found("field_value", n, "CRLF_AFTER_TRAILER_VALUE")
  /\ KeepBody

ExpectCrlfAfterTrailerValue ==
  /\ At("CRLF_AFTER_TRAILER_VALUE")
  /\ StrictEnd(state, "skip", "TRAILER_NAME")
  /\ KeepBody

ExpectCrlfAfterTrailers ==
  /\ \/ At("CRLF_AFTER_TRAILERS")
     \/ At("TRAILER_NAME") /\ Match(tchar, rest) = 0
  /\ StrictEnd("CRLF_AFTER_TRAILERS",
               "end_of_message", "VERSION_STATIC_STR")
  /\ body_type' = IF code' = "end_of_message" THEN "UNKNOWN_BODY"
                  ELSE body_type
  /\ UNCHANGED body_size

-----------------------------------------------------------------------------
StatusLine ==
  \/ ExpectVersionStaticStr \/ ExpectVersion \/ ExpectSpAfterVersion
  \/ ExpectStatusCode \/ ExpectSpAfterStatusCode \/ ExpectReasonPhrase
  \/ ExpectCrlfAfterReasonPhrase

HeaderFields ==
  \/ ExpectFieldName \/ ExpectColon \/ ExpectOwsAfterColon
  \/ ExpectFieldValue \/ ExpectCrlfAfterFieldValue \/ ExpectCrlfAfterHeaders

Body ==
  \/ ExpectBody \/ ExpectUnsafeBody \/ ExpectChunkSize \/ ExpectChunkExt
  \/ ExpectCrlfAfterChunkExt \/ ExpectChunkData \/ ExpectCrlfAfterChunkData

Trailers ==
  \/ ExpectTrailerName \/ ExpectTrailerColon \/ ExpectOwsAfterTrailerColon
  \/ ExpectTrailerValue \/ ExpectCrlfAfterTrailerValue
  \/ ExpectCrlfAfterTrailers

\* In the state ERRORED next() returns at once.
next ==
  /\ \/ ExpectEndOfBody \/ ExpectEndOfMessage \/ ExpectEndOfConnectionError
     \/ Starved \/ StatusLine \/ HeaderFields \/ Body \/ Trailers
  /\ UNCHANGED eof
=============================================================================
