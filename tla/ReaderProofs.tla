---------------------------- MODULE ReaderProofs ----------------------------
(***************************************************************************)
(* Every token lies in the buffer given last, what the decoder of values   *)
(* looks at before an empty one is of the same field, and every variable   *)
(* keeps its type, for any streams, cut and closed anywhere.               *)
(*                                                                         *)
(* Readers has each parser as an instance (Rq, Rs), whose operators are    *)
(* the same as those of TokenReader and RequestReader, about which         *)
(* RequestReaderProofs is.                                                 *)
(***************************************************************************)
EXTENDS Readers, RequestReaderProofs

-----------------------------------------------------------------------------
(* The operators of both instances *)

LEMMA RequestClasses ==
  /\ Rq!Symbols = Symbols
  /\ Rq!Digits = Digits
  /\ Rq!HexDigits = HexDigits
  /\ Rq!tchar = tchar
  /\ Rq!ows = ows
  /\ Rq!field_value_char = field_value_char
  /\ Rq!chunk_ext_char = chunk_ext_char
  /\ Rq!request_target_char = request_target_char
BY DEF Rq!Symbols, Symbols, Rq!Digits, Digits, Rq!HexDigits, HexDigits,
       Rq!tchar, tchar, Rq!ows, ows, Rq!field_value_char, field_value_char,
       Rq!chunk_ext_char, chunk_ext_char, Rq!request_target_char,
       request_target_char, Rq!Words, Words, Rq!vchar, vchar

LEMMA RequestSyntax ==
  /\ \A class, s : Rq!Match(class, s) = Match(class, s)
  /\ \A s : Rq!LiberalCrlf(s) = LiberalCrlf(s)
  /\ \A b, i, n : Rq!decode_field_value(b, i, n) = decode_field_value(b, i, n)
  /\ \A s, t : Rq!IsPrefix(s, t) <=> IsPrefix(s, t)
  /\ \A s, t : Rq!IsStrictPrefix(s, t) <=> IsStrictPrefix(s, t)
BY DEF Rq!Match, Match, Rq!LiberalCrlf, LiberalCrlf, Rq!CRLF, CRLF,
       Rq!decode_field_value, decode_field_value, Rq!ending_ows, ending_ows,
       Rq!Downwards, Downwards, Rq!ows, ows, Rq!IsPrefix, IsPrefix,
       Rq!IsStrictPrefix, IsStrictPrefix

LEMMA RequestNumbers ==
  /\ \A s, max : Rq!ContentLength(s, max) = ContentLength(s, max)
  /\ \A s, max : Rq!ChunkSize(s, max) = ChunkSize(s, max)
BY DEF Rq!ContentLength, ContentLength, Rq!ChunkSize, ChunkSize, Rq!Decode,
       Decode, Rq!Decoded, Decoded, Rq!LeadingZeros, LeadingZeros, Rq!Match,
       Match, Rq!DigitValue, DigitValue, Rq!HexDigits, HexDigits, Rq!Digits,
       Digits

LEMMA RequestPlace ==
  /\ Rq!start = start /\ Rq!partial = partial /\ Rq!rest = rest
  /\ Rq!value = value /\ Rq!More = More
BY RequestSyntax DEF Rq!start, start, Rq!partial, partial, Rq!rest, rest,
       Rq!value, value, Rq!More, More

LEMMA RequestFound ==
  \A kind, n, s : Rq!Found(kind, n, s) <=> Found(kind, n, s)
BY RequestPlace DEF Rq!Found, Found

LEMMA RequestTypes ==
  /\ Rq!Errors = Errors /\ Rq!TokenKinds = TokenKinds
  /\ Rq!TokenTypeOK <=> TokenTypeOK
BY RequestClasses, RequestPlace DEF Rq!Errors, Errors, Rq!TokenKinds,
       TokenKinds, Rq!TokenTypeOK, TokenTypeOK

LEMMA ResponseClasses ==
  /\ Rs!Symbols = Symbols
  /\ Rs!Digits = Digits
  /\ Rs!HexDigits = HexDigits
  /\ Rs!tchar = tchar
  /\ Rs!ows = ows
  /\ Rs!field_value_char = field_value_char
  /\ Rs!chunk_ext_char = chunk_ext_char
  /\ Rs!reason_phrase_char = reason_phrase_char
BY DEF Rs!Symbols, Symbols, Rs!Digits, Digits, Rs!HexDigits, HexDigits,
       Rs!tchar, tchar, Rs!ows, ows, Rs!field_value_char, field_value_char,
       Rs!chunk_ext_char, chunk_ext_char, Rs!reason_phrase_char,
       reason_phrase_char, Rs!Words, Words, Rs!vchar, vchar

LEMMA ResponseSyntax ==
  /\ \A class, s : Rs!Match(class, s) = Match(class, s)
  /\ \A s : Rs!LiberalCrlf(s) = LiberalCrlf(s)
  /\ \A b, i, n : Rs!decode_field_value(b, i, n) = decode_field_value(b, i, n)
  /\ \A s, t : Rs!IsPrefix(s, t) <=> IsPrefix(s, t)
  /\ \A s, t : Rs!IsStrictPrefix(s, t) <=> IsStrictPrefix(s, t)
BY DEF Rs!Match, Match, Rs!LiberalCrlf, LiberalCrlf, Rs!CRLF, CRLF,
       Rs!decode_field_value, decode_field_value, Rs!ending_ows, ending_ows,
       Rs!Downwards, Downwards, Rs!ows, ows, Rs!IsPrefix, IsPrefix,
       Rs!IsStrictPrefix, IsStrictPrefix

LEMMA ResponseNumbers ==
  /\ \A s, max : Rs!ContentLength(s, max) = ContentLength(s, max)
  /\ \A s, max : Rs!ChunkSize(s, max) = ChunkSize(s, max)
BY DEF Rs!ContentLength, ContentLength, Rs!ChunkSize, ChunkSize, Rs!Decode,
       Decode, Rs!Decoded, Decoded, Rs!LeadingZeros, LeadingZeros, Rs!Match,
       Match, Rs!DigitValue, DigitValue, Rs!HexDigits, HexDigits, Rs!Digits,
       Digits

LEMMA ResponsePlace ==
  /\ Rs!start = start /\ Rs!partial = partial /\ Rs!rest = rest
  /\ Rs!value = value /\ Rs!More = More
BY ResponseSyntax DEF Rs!start, start, Rs!partial, partial, Rs!rest, rest,
       Rs!value, value, Rs!More, More

LEMMA ResponseFound ==
  \A kind, n, s : Rs!Found(kind, n, s) <=> Found(kind, n, s)
BY ResponsePlace DEF Rs!Found, Found

LEMMA ResponseTypes ==
  /\ Rs!Errors = Errors /\ Rs!TokenKinds = TokenKinds
  /\ Rs!TokenTypeOK <=> TokenTypeOK
BY ResponseClasses, ResponsePlace DEF Rs!Errors, Errors, Rs!TokenKinds,
       TokenKinds, Rs!TokenTypeOK, TokenTypeOK

-----------------------------------------------------------------------------
(* A call of next() on a request is one of RequestReader, but for field    *)
(* values, whose list of codings is not compared here.                     *)

LEMMA SameRequestLine ==
  Rq!RequestLine => RequestLine
<1>1. Rq!ExpectMethod => ExpectMethod
  BY RequestClasses, RequestSyntax, RequestPlace, RequestFound
  DEF Rq!ExpectMethod, ExpectMethod, Rq!At, At, Rq!Fail, Fail, Rq!Await,
      Await, Rq!KeepAll, KeepAll, Rq!KeepBody, KeepBody
<1>2. Rq!ExpectSpAfterMethod => ExpectSpAfterMethod
  BY RequestClasses, RequestSyntax, RequestPlace, RequestFound
  DEF Rq!ExpectSpAfterMethod, ExpectSpAfterMethod, Rq!Single, Single, Rq!At,
      At, Rq!Fail, Fail, Rq!Await, Await, Rq!KeepAll, KeepAll, Rq!KeepBody,
      KeepBody
<1>3. Rq!ExpectRequestTarget => ExpectRequestTarget
  BY RequestClasses, RequestSyntax, RequestPlace, RequestFound
  DEF Rq!ExpectRequestTarget, ExpectRequestTarget, Rq!At, At, Rq!Fail, Fail,
      Rq!Await, Await, Rq!KeepAll, KeepAll, Rq!KeepBody, KeepBody
<1>4. Rq!ExpectStaticStr => ExpectStaticStr
  BY RequestClasses, RequestSyntax, RequestPlace, RequestFound
  DEF Rq!ExpectStaticStr, ExpectStaticStr, Rq!StaticStr, StaticStr, Rq!At, At,
      Rq!Fail, Fail, Rq!Await, Await, Rq!KeepAll, KeepAll, Rq!KeepBody,
      KeepBody
<1>5. Rq!ExpectVersion => ExpectVersion
  BY RequestClasses, RequestSyntax, RequestPlace, RequestFound
  DEF Rq!ExpectVersion, ExpectVersion, Rq!Single, Single, Rq!At, At, Rq!Fail,
      Fail, Rq!Await, Await, Rq!KeepAll, KeepAll, Rq!KeepBody, KeepBody
<1>6. Rq!ExpectCrlfAfterVersion => ExpectCrlfAfterVersion
  BY RequestClasses, RequestSyntax, RequestPlace, RequestFound
  DEF Rq!ExpectCrlfAfterVersion, ExpectCrlfAfterVersion, Rq!LineEnd, LineEnd,
      Rq!At, At, Rq!Fail, Fail, Rq!Await, Await, Rq!KeepAll, KeepAll,
      Rq!KeepBody, KeepBody
<1> QED BY <1>1, <1>2, <1>3, <1>4, <1>5, <1>6
    DEF Rq!RequestLine, RequestLine

LEMMA SameHeaderFields ==
  Rq!HeaderFields => HeaderFields \/ Rq!ExpectFieldValue
<1>1. Rq!ExpectFieldName => ExpectFieldName
  BY RequestClasses, RequestSyntax, RequestPlace, RequestFound
  DEF Rq!ExpectFieldName, ExpectFieldName, Rq!HostName, HostName,
      Rq!TransferEncodingName, TransferEncodingName, Rq!ContentLengthName,
      ContentLengthName, Rq!At, At, Rq!Fail, Fail, Rq!Await, Await,
      Rq!KeepAll, KeepAll, Rq!KeepBody, KeepBody
<1>2. Rq!ExpectColon => ExpectColon
  BY RequestClasses, RequestSyntax, RequestPlace, RequestFound
  DEF Rq!ExpectColon, ExpectColon, Rq!Colon, Colon, Rq!At, At, Rq!Fail, Fail,
      Rq!Await, Await, Rq!KeepAll, KeepAll, Rq!KeepBody, KeepBody
<1>3. Rq!ExpectOwsAfterColon => ExpectOwsAfterColon
  BY RequestClasses, RequestSyntax, RequestPlace, RequestFound
  DEF Rq!ExpectOwsAfterColon, ExpectOwsAfterColon, Rq!MoreOws, MoreOws, Rq!At,
      At, Rq!Fail, Fail, Rq!Await, Await, Rq!KeepAll, KeepAll, Rq!KeepBody,
      KeepBody
<1>4. Rq!ExpectCrlfAfterFieldValue => ExpectCrlfAfterFieldValue
  BY RequestClasses, RequestSyntax, RequestPlace, RequestFound
  DEF Rq!ExpectCrlfAfterFieldValue, ExpectCrlfAfterFieldValue, Rq!LineEnd,
      LineEnd, Rq!At, At, Rq!Fail, Fail, Rq!Await, Await, Rq!KeepAll, KeepAll,
      Rq!KeepBody, KeepBody
<1>5. Rq!ExpectCrlfAfterHeaders => ExpectCrlfAfterHeaders
  BY RequestClasses, RequestSyntax, RequestPlace, RequestFound
  DEF Rq!ExpectCrlfAfterHeaders, ExpectCrlfAfterHeaders, Rq!EmptyLine,
      EmptyLine, Rq!AfterHeaders, AfterHeaders, Rq!HeadRefusal, HeadRefusal,
      Rq!At, At, Rq!Fail, Fail, Rq!Await, Await, Rq!KeepAll, KeepAll,
      Rq!KeepBody, KeepBody
<1> QED BY <1>1, <1>2, <1>3, <1>4, <1>5
    DEF Rq!HeaderFields, HeaderFields

LEMMA SameBody ==
  Rq!Body => Body
<1>1. Rq!ExpectBody => ExpectBody
  BY RequestClasses, RequestSyntax, RequestPlace, RequestFound
  DEF Rq!ExpectBody, ExpectBody, Rq!Data, Data, Rq!Available, Available,
      Rq!At, At, Rq!Fail, Fail, Rq!Await, Await, Rq!KeepAll, KeepAll,
      Rq!KeepBody, KeepBody
<1>2. Rq!ExpectEndOfBody => ExpectEndOfBody
  BY RequestClasses, RequestSyntax, RequestPlace, RequestFound
  DEF Rq!ExpectEndOfBody, ExpectEndOfBody, Rq!At, At, Rq!Fail, Fail, Rq!Await,
      Await, Rq!KeepAll, KeepAll, Rq!KeepBody, KeepBody
<1>3. Rq!ExpectEndOfMessage => ExpectEndOfMessage
  BY RequestClasses, RequestSyntax, RequestPlace, RequestFound
  DEF Rq!ExpectEndOfMessage, ExpectEndOfMessage, Rq!At, At, Rq!Fail, Fail,
      Rq!Await, Await, Rq!KeepAll, KeepAll, Rq!KeepBody, KeepBody
<1>4. Rq!ExpectChunkSize => ExpectChunkSize
  BY RequestClasses, RequestSyntax, RequestPlace, RequestFound, RequestNumbers
  DEF Rq!ExpectChunkSize, ExpectChunkSize, Rq!At, At, Rq!Fail, Fail, Rq!Await,
      Await, Rq!KeepAll, KeepAll, Rq!KeepBody, KeepBody
<1>5. Rq!ExpectChunkExt => ExpectChunkExt
  BY RequestClasses, RequestSyntax, RequestPlace, RequestFound
  DEF Rq!ExpectChunkExt, ExpectChunkExt, Rq!At, At, Rq!Fail, Fail, Rq!Await,
      Await, Rq!KeepAll, KeepAll, Rq!KeepBody, KeepBody
<1>6. Rq!ExpectCrlfAfterChunkExt => ExpectCrlfAfterChunkExt
  BY RequestClasses, RequestSyntax, RequestPlace, RequestFound
  DEF Rq!ExpectCrlfAfterChunkExt, ExpectCrlfAfterChunkExt, Rq!StrictEnd,
      StrictEnd, Rq!StrictCrlf, StrictCrlf, Rq!CRLF, CRLF, Rq!At, At, Rq!Fail,
      Fail, Rq!Await, Await, Rq!KeepAll, KeepAll, Rq!KeepBody, KeepBody
<1>7. Rq!ExpectChunkData => ExpectChunkData
  BY RequestClasses, RequestSyntax, RequestPlace, RequestFound
  DEF Rq!ExpectChunkData, ExpectChunkData, Rq!Data, Data, Rq!Available,
      Available, Rq!At, At, Rq!Fail, Fail, Rq!Await, Await, Rq!KeepAll,
      KeepAll, Rq!KeepBody, KeepBody
<1>8. Rq!ExpectCrlfAfterChunkData => ExpectCrlfAfterChunkData
  BY RequestClasses, RequestSyntax, RequestPlace, RequestFound
  DEF Rq!ExpectCrlfAfterChunkData, ExpectCrlfAfterChunkData, Rq!StrictEnd,
      StrictEnd, Rq!StrictCrlf, StrictCrlf, Rq!CRLF, CRLF, Rq!At, At, Rq!Fail,
      Fail, Rq!Await, Await, Rq!KeepAll, KeepAll, Rq!KeepBody, KeepBody
<1> QED BY <1>1, <1>2, <1>3, <1>4, <1>5, <1>6, <1>7, <1>8
    DEF Rq!Body, Body

LEMMA SameTrailers ==
  Rq!Trailers => Trailers
<1>1. Rq!ExpectTrailerName => ExpectTrailerName
  BY RequestClasses, RequestSyntax, RequestPlace, RequestFound
  DEF Rq!ExpectTrailerName, ExpectTrailerName, Rq!At, At, Rq!Fail, Fail,
      Rq!Await, Await, Rq!KeepAll, KeepAll, Rq!KeepBody, KeepBody
<1>2. Rq!ExpectTrailerColon => ExpectTrailerColon
  BY RequestClasses, RequestSyntax, RequestPlace, RequestFound
  DEF Rq!ExpectTrailerColon, ExpectTrailerColon, Rq!Colon, Colon, Rq!At, At,
      Rq!Fail, Fail, Rq!Await, Await, Rq!KeepAll, KeepAll, Rq!KeepBody,
      KeepBody
<1>3. Rq!ExpectOwsAfterTrailerColon => ExpectOwsAfterTrailerColon
  BY RequestClasses, RequestSyntax, RequestPlace, RequestFound
  DEF Rq!ExpectOwsAfterTrailerColon, ExpectOwsAfterTrailerColon, Rq!MoreOws,
      MoreOws, Rq!At, At, Rq!Fail, Fail, Rq!Await, Await, Rq!KeepAll, KeepAll,
      Rq!KeepBody, KeepBody
<1>4. Rq!ExpectTrailerValue => ExpectTrailerValue
  BY RequestClasses, RequestSyntax, RequestPlace, RequestFound
  DEF Rq!ExpectTrailerValue, ExpectTrailerValue, Rq!BeginsAt, BeginsAt, Rq!At,
      At, Rq!Fail, Fail, Rq!Await, Await, Rq!KeepAll, KeepAll, Rq!KeepBody,
      KeepBody
<1>5. Rq!ExpectCrlfAfterTrailerValue => ExpectCrlfAfterTrailerValue
  BY RequestClasses, RequestSyntax, RequestPlace, RequestFound
  DEF Rq!ExpectCrlfAfterTrailerValue, ExpectCrlfAfterTrailerValue,
      Rq!StrictEnd, StrictEnd, Rq!StrictCrlf, StrictCrlf, Rq!CRLF, CRLF,
      Rq!At, At, Rq!Fail, Fail, Rq!Await, Await, Rq!KeepAll, KeepAll,
      Rq!KeepBody, KeepBody
<1>6. Rq!ExpectCrlfAfterTrailers => ExpectCrlfAfterTrailers
  BY RequestClasses, RequestSyntax, RequestPlace, RequestFound
  DEF Rq!ExpectCrlfAfterTrailers, ExpectCrlfAfterTrailers, Rq!StrictEnd,
      StrictEnd, Rq!StrictCrlf, StrictCrlf, Rq!CRLF, CRLF, Rq!At, At, Rq!Fail,
      Fail, Rq!Await, Await, Rq!KeepAll, KeepAll, Rq!KeepBody, KeepBody
<1> QED BY <1>1, <1>2, <1>3, <1>4, <1>5, <1>6
    DEF Rq!Trailers, Trailers
-----------------------------------------------------------------------------
(* What a call may do *)

\* A token of the buffer is reported, or an error, or that more is needed.
Reports(states) == \E kind \in Codes, s \in states : \E n \in 0 .. Len(rest) :
                     Found(kind, n, s)

LEMMA ReportKeeps ==
  ASSUME TokenTypeOK, InBuffer, NEW states, Reports(states)
  PROVE  /\ code' \in Codes /\ state' \in states
         /\ idx' = start /\ idx' \in Nat /\ token_size' \in Nat
         /\ ibuffer' = ibuffer
         /\ InBuffer'
<1>1. PICK kind \in Codes, s \in states : \E n \in 0 .. Len(rest) :
        Found(kind, n, s)
  BY DEF Reports
<1>2. PICK n \in 0 .. Len(rest) : Found(kind, n, s)
  BY <1>1
<1>3. start \in 0 .. Len(ibuffer) /\ Len(rest) = Len(ibuffer) - start
      /\ Len(ibuffer) \in Nat
  BY BufferPlace DEF TokenTypeOK
<1>4. /\ code' = kind /\ token_size' = n /\ state' = s /\ idx' = start
      /\ ibuffer' = ibuffer
  BY <1>2 DEF Found
<1>5. idx' + token_size' <= Len(ibuffer')
  BY <1>3, <1>4
<1> QED BY <1>3, <1>4, <1>5 DEF InBuffer

\* The states after a field value, and the kinds of body it may announce.
Valued == {"FIELD_VALUE", "CRLF_AFTER_FIELD_VALUE", "ERRORED"}
Announced == {"CONTENT_LENGTH_READ", "CHUNKED_ENCODING_READ",
              "RANDOM_ENCODING_READ"}

LEMMA RequestValue ==
  ASSUME TokenTypeOK, InBuffer, Rq!ExpectFieldValue
  PROVE  /\ Reports(Valued) /\ (state' = "FIELD_VALUE" => code' = More)
         /\ body_size' \in 0 .. MaxSize
         /\ body_type' \in {body_type} \cup Announced
<1> DEFINE n == Match(field_value_char, rest)
           field == decode_field_value(ibuffer, start, n)
<1>1. n \in 0 .. Len(rest) /\ partial \in 0 .. Len(rest)
  BY BufferPlace, BufferMatch
<1>2. /\ ContentLength(field, MaxSize).out \in 0 .. MaxSize
      /\ ContentLength(field, MaxSize).res \in {"ok", "invalid", "overflow"}
  BY <1>1, BufferNumber
<1>3. \/ Found(More, partial, "FIELD_VALUE") /\ KeepBody
      \/ Found("field_value", n, "CRLF_AFTER_FIELD_VALUE") /\ KeepBody
      \/ Rq!LengthValue(n, field)
      \/ Rq!EncodingValue(n, field)
  BY RequestClasses, RequestSyntax, RequestPlace, RequestFound
  DEF Rq!ExpectFieldValue, Rq!Await, Rq!KeepBody, KeepBody
<1> HIDE DEF n, field
<1>4. CASE Rq!LengthValue(n, field)
  <2>1. /\ body_type' = "CONTENT_LENGTH_READ"
        /\ body_size' = ContentLength(field, MaxSize).out
        /\ \/ Found("error_invalid_content_length", n, "ERRORED")
           \/ Found("error_content_length_overflow", n, "ERRORED")
           \/ Found("field_value", n, "CRLF_AFTER_FIELD_VALUE")
    BY <1>2, <1>4, RequestNumbers, RequestFound
    DEF Rq!LengthValue, Rq!Fail
  <2> QED
    BY <1>1, <1>2, <2>1
    DEF Reports, Valued, Announced, Codes, Errors, TokenKinds, Found
<1>5. CASE Rq!EncodingValue(n, field)
  <2>1. /\ body_type' \in {body_type} \cup Announced
        /\ body_size' = body_size
        /\ \/ Found("error_invalid_transfer_encoding", n, "ERRORED")
           \/ Found("field_value", n, "CRLF_AFTER_FIELD_VALUE")
    BY <1>5, RequestFound DEF Rq!EncodingValue, Rq!Fail, Announced
  <2> QED
    BY <1>1, <2>1
    DEF Reports, Valued, Codes, Errors, TokenKinds, TokenTypeOK, Found
<1>6. CASE \/ Found(More, partial, "FIELD_VALUE") /\ KeepBody
           \/ Found("field_value", n, "CRLF_AFTER_FIELD_VALUE") /\ KeepBody
  BY <1>1, <1>6
  DEF Reports, Valued, Codes, TokenKinds, TokenTypeOK, KeepBody, Found
<1> QED BY <1>3, <1>4, <1>5, <1>6

LEMMA ResponseValue ==
  ASSUME TokenTypeOK, InBuffer, Rs!ExpectFieldValue
  PROVE  /\ Reports(Valued) /\ (state' = "FIELD_VALUE" => code' = More)
         /\ body_size' \in 0 .. MaxSize
         /\ body_type' \in {body_type} \cup Announced
<1> DEFINE n == Match(field_value_char, rest)
           field == decode_field_value(ibuffer, start, n)
<1>1. n \in 0 .. Len(rest) /\ partial \in 0 .. Len(rest)
  BY BufferPlace, BufferMatch
<1>2. /\ ContentLength(field, MaxSize).out \in 0 .. MaxSize
      /\ ContentLength(field, MaxSize).res \in {"ok", "invalid", "overflow"}
  BY <1>1, BufferNumber
<1>3. \/ Found(More, partial, "FIELD_VALUE") /\ KeepBody
      \/ Found("field_value", n, "CRLF_AFTER_FIELD_VALUE") /\ KeepBody
      \/ Rs!LengthValue(n, field)
      \/ Rs!EncodingValue(n, field)
  BY ResponseClasses, ResponseSyntax, ResponsePlace, ResponseFound
  DEF Rs!ExpectFieldValue, Rs!Await, Rs!KeepBody, KeepBody
<1> HIDE DEF n, field
<1>4. CASE Rs!LengthValue(n, field)
  <2>1. /\ body_type' = "CONTENT_LENGTH_READ"
        /\ body_size' = ContentLength(field, MaxSize).out
        /\ \/ Found("error_invalid_content_length", n, "ERRORED")
           \/ Found("error_content_length_overflow", n, "ERRORED")
           \/ Found("field_value", n, "CRLF_AFTER_FIELD_VALUE")
    BY <1>2, <1>4, ResponseNumbers, ResponseFound
    DEF Rs!LengthValue, Rs!Fail
  <2> QED
    BY <1>1, <1>2, <2>1
    DEF Reports, Valued, Announced, Codes, Errors, TokenKinds, Found
<1>5. CASE Rs!EncodingValue(n, field)
  <2>1. /\ body_type' \in {body_type} \cup Announced
        /\ body_size' = body_size
        /\ \/ Found("error_invalid_transfer_encoding", n, "ERRORED")
           \/ Found("field_value", n, "CRLF_AFTER_FIELD_VALUE")
    BY <1>5, ResponseFound DEF Rs!EncodingValue, Rs!Fail, Announced
  <2> QED
    BY <1>1, <2>1
    DEF Reports, Valued, Codes, Errors, TokenKinds, TokenTypeOK, Found
<1>6. CASE \/ Found(More, partial, "FIELD_VALUE") /\ KeepBody
           \/ Found("field_value", n, "CRLF_AFTER_FIELD_VALUE") /\ KeepBody
  BY <1>1, <1>6
  DEF Reports, Valued, Codes, TokenKinds, TokenTypeOK, KeepBody, Found
<1> QED BY <1>3, <1>4, <1>5, <1>6

-----------------------------------------------------------------------------
(* What lies behind a field value *)

\* Between the colon of a field and the end of its value.
Spaced == {"OWS_AFTER_COLON", "FIELD_VALUE", "OWS_AFTER_TRAILER_COLON",
           "TRAILER_VALUE"}

\* Back from p there is white space to a colon, or to the buffer's beginning.
Behind(b, p) ==
  \E j \in 0 .. p : /\ j = 0 \/ b[j] = "colon"
                    /\ \A m \in j + 1 .. p : b[m] \in ows

BehindInv ==
  /\ state \in Spaced => Behind(ibuffer, start)
  /\ code = "field_value" => idx \in Nat /\ Behind(ibuffer, idx)

\* The decoder of an empty value finds that colon or leaves the buffer.
LEMMA LookBack ==
  ASSUME NEW b, NEW p \in Nat, Behind(b, p)
  PROVE  LeavesBuffer(b, p, 0) \/ b[p - ending_ows(b, p, 0)] = "colon"
<1>1. PICK j \in 0 .. p : /\ j = 0 \/ b[j] = "colon"
                          /\ \A m \in j + 1 .. p : b[m] \in ows
  BY DEF Behind
<1> DEFINE d == [k \in 1 .. p |-> b[p + 1 - k]]
           e == Match(ows, d)
<1>2. Downwards(b, p, 0) = d
  BY DEF Downwards
<1>3. Len(d) = p
  OBVIOUS
<1>4. /\ e \in 0 .. p
      /\ \A k \in 1 .. e : d[k] \in ows
      /\ e # p => d[e + 1] \notin ows
  <2> HIDE DEF d
  <2> QED BY <1>3, MatchType
<1>5. ending_ows(b, p, 0) = e
  BY <1>2 DEF ending_ows
<1>6. \A k \in 1 .. p : d[k] = b[p + 1 - k]
  OBVIOUS
<1> HIDE DEF d, e
<1>7. CASE e = p
  BY <1>5, <1>7 DEF LeavesBuffer
<1>8. CASE e # p
  <2>1. p - e \in 1 .. p /\ b[p - e] \notin ows
    <3>1. e + 1 \in 1 .. p /\ p + 1 - (e + 1) = p - e
      BY <1>4, <1>8
    <3> QED BY <1>4, <1>6, <1>8, <3>1
  <2>2. p - e <= j
    <3>1. p - e > j => p - e \in j + 1 .. p
      BY <2>1
    <3> QED BY <1>1, <2>1, <3>1
  <2>3. b[j] = "colon"
    BY <1>1, <2>1, <2>2
  <2>4. ~(p - e < j)
    <3> SUFFICES ASSUME p - e < j PROVE FALSE
      BY <2>1
    <3>1. p + 1 - j \in 1 .. e /\ p + 1 - (p + 1 - j) = j
      BY <1>4, <2>1
    <3>2. b[j] \in ows
      BY <1>4, <1>6, <3>1
    <3> QED BY <2>3, <3>2 DEF ows
  <2>5. p - e = j
    BY <2>1, <2>2, <2>4
  <2> QED BY <1>5, <2>3, <2>5
<1> QED BY <1>7, <1>8

\* How a call may come to, or stay, behind a colon.
Shown ==
  /\ state' \in Spaced \/ code' = "field_value" =>
       ibuffer' = ibuffer /\ idx' = start
  /\ state' \in Spaced =>
       \/ /\ code' = "skip" /\ rest # <<>> /\ rest[1] = "colon"
          /\ token_size' = 1 + Match(ows, Tail(rest))
       \/ /\ state \in Spaced /\ code' = "skip"
          /\ token_size' = Match(ows, rest)
       \/ state \in Spaced /\ code' = More
  /\ code' = "field_value" => state \in Spaced

LEMMA ShownKeeps ==
  ASSUME TokenTypeOK, InBuffer, BehindInv, Shown
  PROVE  BehindInv'
<1>1. /\ start \in 0 .. Len(ibuffer) /\ Len(rest) = Len(ibuffer) - start
      /\ Len(ibuffer) \in Nat /\ rest \in Seq(Symbols)
  BY BufferPlace DEF TokenTypeOK
<1>2. \A i \in 1 .. Len(rest) : rest[i] = ibuffer[start + i]
  BY <1>1 DEF rest
<1>3. start' = IF code' = More THEN idx' ELSE idx' + token_size'
  BY DEF start
<1>4. code' = "field_value" => idx' \in Nat /\ Behind(ibuffer', idx')
  BY <1>1 DEF BehindInv, Shown
<1>5. ASSUME state' \in Spaced PROVE Behind(ibuffer', start')
  <2>0. ibuffer' = ibuffer /\ idx' = start
    BY <1>5 DEF Shown
  <2>1. CASE /\ code' = "skip" /\ rest # <<>> /\ rest[1] = "colon"
             /\ token_size' = 1 + Match(ows, Tail(rest))
    <3> DEFINE s == Tail(rest)
               n == Match(ows, s)
    <3>1. /\ Len(s) = Len(rest) - 1 /\ Len(rest) \in Nat \ {0}
          /\ \A i \in 1 .. Len(s) : s[i] = rest[i + 1]
      BY <1>1, <2>1, HeadTailProperties, EmptySeq
    <3>2. n \in 0 .. Len(s) /\ \A i \in 1 .. n : s[i] \in ows
      <4> HIDE DEF s
      <4> QED BY <3>1, MatchType
    <3>3. start' = start + 1 + n
      BY <1>1, <1>3, <2>0, <2>1, <3>2 DEF More
    <3> HIDE DEF s, n
    <3>4. start + 1 \in 0 .. start + 1 + n
      BY <1>1, <3>2
    <3>5. ibuffer[start + 1] = "colon"
      BY <1>2, <2>1, <3>1
    <3>6. ASSUME NEW m \in start + 2 .. start + 1 + n
          PROVE  ibuffer[m] \in ows
      <4>1. m - start - 1 \in 1 .. n /\ m - start - 1 \in 1 .. Len(s)
            /\ (m - start - 1) + 1 = m - start
        BY <1>1, <3>1, <3>2
      <4>2. m - start \in 1 .. Len(rest) /\ start + (m - start) = m
        BY <1>1, <3>1, <4>1
      <4>3. rest[m - start] \in ows
        BY <3>1, <3>2, <4>1
      <4> QED BY <1>2, <4>2, <4>3
    <3>7. start + 1 + 1 = start + 2
      BY <1>1
    <3> QED BY <2>0, <3>3, <3>4, <3>5, <3>6, <3>7 DEF Behind
  <2>2. CASE /\ state \in Spaced /\ code' = "skip"
             /\ token_size' = Match(ows, rest)
    <3> DEFINE n == Match(ows, rest)
    <3>1. n \in 0 .. Len(rest) /\ \A i \in 1 .. n : rest[i] \in ows
      BY <1>1, MatchType
    <3>2. start' = start + n
      BY <1>3, <2>0, <2>2 DEF More
    <3> HIDE DEF n
    <3>3. PICK j \in 0 .. start :
            /\ j = 0 \/ ibuffer[j] = "colon"
            /\ \A m \in j + 1 .. start : ibuffer[m] \in ows
      BY <2>2 DEF BehindInv, Behind
    <3>4. ASSUME NEW m \in j + 1 .. start + n PROVE ibuffer[m] \in ows
      <4>1. CASE m <= start
        BY <1>1, <3>1, <3>3, <4>1
      <4>2. CASE m > start
        <5>1. m - start \in 1 .. n /\ start + (m - start) = m
              /\ m - start \in 1 .. Len(rest)
          BY <1>1, <3>1, <4>2
        <5> QED BY <1>2, <3>1, <5>1
      <4> QED BY <1>1, <3>1, <4>1, <4>2
    <3>5. j \in 0 .. start + n
      BY <1>1, <3>1
    <3> QED BY <2>0, <3>2, <3>3, <3>4, <3>5 DEF Behind
  <2>3. CASE state \in Spaced /\ code' = More
    BY <1>3, <2>0, <2>3 DEF BehindInv
  <2> QED BY <1>5, <2>1, <2>2, <2>3 DEF Shown
<1> QED BY <1>4, <1>5 DEF BehindInv

\* set_buffer: what was before the current token is gone.
LEMMA ArrivalKeeps ==
  ASSUME TokenTypeOK, InBuffer, BehindInv, coming \in Seq(Symbols),
         NEW n \in 1 .. Len(coming),
         ibuffer' = SubSeq(ibuffer, idx + 1, Len(ibuffer))
                      \o SubSeq(coming, 1, n),
         idx' = 0, UNCHANGED <<state, code, token_size>>
  PROVE  BehindInv'
<1> DEFINE old == SubSeq(ibuffer, idx + 1, Len(ibuffer))
           new == SubSeq(coming, 1, n)
<1>1. /\ idx \in Nat /\ token_size \in Nat /\ Len(ibuffer) \in Nat
      /\ idx + token_size <= Len(ibuffer) /\ ibuffer \in Seq(Symbols)
  BY DEF TokenTypeOK, InBuffer
<1>2. /\ old \in Seq(Symbols) /\ Len(old) = Len(ibuffer) - idx
      /\ \A m \in 1 .. Len(old) : old[m] = ibuffer[idx + m]
  <2>1. \A j \in idx + 1 .. Len(ibuffer) : ibuffer[j] \in Symbols
    BY <1>1, ElementOfSeq
  <2>2. /\ old \in Seq(Symbols)
        /\ Len(old) = IF idx + 1 <= Len(ibuffer)
                      THEN Len(ibuffer) - (idx + 1) + 1 ELSE 0
        /\ \A m \in 1 .. Len(ibuffer) - (idx + 1) + 1 :
             old[m] = ibuffer[idx + 1 + m - 1]
    BY <1>1, <2>1, SubSeqProperties
  <2> HIDE DEF old
  <2>3. Len(old) = Len(ibuffer) - idx
    BY <1>1, <2>2
  <2>4. ASSUME NEW m \in 1 .. Len(old) PROVE old[m] = ibuffer[idx + m]
    <3>1. m \in 1 .. Len(ibuffer) - (idx + 1) + 1 /\ idx + 1 + m - 1 = idx + m
      BY <1>1, <2>3
    <3> QED BY <2>2, <3>1
  <2> QED BY <2>2, <2>3, <2>4
<1>3. new \in Seq(Symbols)
  <2>1. \A j \in 1 .. n : coming[j] \in Symbols
    BY ElementOfSeq
  <2> QED BY <2>1, SubSeqProperties
<1> HIDE DEF old, new
<1>4. \A m \in 1 .. Len(old) : (old \o new)[m] = old[m]
  BY <1>2, <1>3, ConcatProperties
<1>5. \A m \in 1 .. Len(ibuffer) - idx : ibuffer'[m] = ibuffer[idx + m]
  BY <1>2, <1>4 DEF old, new
<1>6. Behind(ibuffer', 0)
  BY DEF Behind
<1>7. start' = IF code = More THEN 0 ELSE token_size
  BY <1>1 DEF start
<1>8. CASE state \in Spaced /\ code # More
  <2>1. start = idx + token_size
    BY <1>8 DEF start
  <2>2. PICK j \in 0 .. idx + token_size :
          /\ j = 0 \/ ibuffer[j] = "colon"
          /\ \A m \in j + 1 .. idx + token_size : ibuffer[m] \in ows
    BY <1>8, <2>1 DEF BehindInv, Behind
  <2>3. CASE j <= idx
    <3>1. ASSUME NEW m \in 0 + 1 .. token_size PROVE ibuffer'[m] \in ows
      <4>1. idx + m \in j + 1 .. idx + token_size
            /\ m \in 1 .. Len(ibuffer) - idx
        BY <1>1, <2>3
      <4> QED BY <1>5, <2>2, <4>1
    <3>2. 0 \in 0 .. token_size
      BY <1>1
    <3>3. Behind(ibuffer', token_size)
      BY <3>1, <3>2 DEF Behind
    <3> QED BY <1>6, <1>7, <1>8, <3>3 DEF BehindInv
  <2>4. CASE j > idx
    <3>1. j - idx \in 0 .. token_size /\ j - idx \in 1 .. Len(ibuffer) - idx
          /\ idx + (j - idx) = j
      BY <1>1, <2>4
    <3>2. ibuffer'[j - idx] = "colon"
      <4>1. ibuffer[j] = "colon"
        BY <1>1, <2>2, <2>4
      <4>2. ibuffer'[j - idx] = ibuffer[idx + (j - idx)]
        BY <1>5, <3>1
      <4> QED BY <3>1, <4>1, <4>2
    <3>3. ASSUME NEW m \in (j - idx) + 1 .. token_size
          PROVE  ibuffer'[m] \in ows
      <4>1. idx + m \in j + 1 .. idx + token_size
            /\ m \in 1 .. Len(ibuffer) - idx
        BY <1>1, <2>4, <3>1
      <4> QED BY <1>5, <2>2, <4>1
    <3>4. Behind(ibuffer', token_size)
      BY <3>1, <3>2, <3>3 DEF Behind
    <3> QED BY <1>6, <1>7, <1>8, <3>4 DEF BehindInv
  <2> QED BY <1>1, <2>3, <2>4
<1>9. CASE ~(state \in Spaced /\ code # More)
  BY <1>6, <1>7, <1>9 DEF BehindInv
<1> QED BY <1>8, <1>9

-----------------------------------------------------------------------------
(* Requests *)

LEMMA RequestParser == Rq!ParserTypeOK <=> ParserTypeOK
BY RequestTypes
DEF Rq!ParserTypeOK, ParserTypeOK, Rq!States, States, Rq!BodyTypes, BodyTypes

LEMMA SameNext == Rq!next => next \/ Rq!ExpectFieldValue
<1>1. Rq!Starved => Starved
  BY RequestPlace, RequestFound
  DEF Rq!Starved, Starved, Rq!Sooner, Sooner, Rq!Await, Await,
      Rq!KeepAll, KeepAll, Rq!KeepBody, KeepBody
<1> QED
  BY <1>1, SameRequestLine, SameHeaderFields, SameBody, SameTrailers
  DEF Rq!next, next

LEMMA RequestKeeps ==
  ASSUME ParserTypeOK, InBuffer, Rq!next
  PROVE  ParserTypeOK' /\ InBuffer' /\ ibuffer' = ibuffer
<1>1. CASE next
  BY <1>1, NextKeepsType, NextIsStep, StepKeeps
<1>2. CASE Rq!ExpectFieldValue
  <2>1. /\ Reports(Valued)
        /\ body_size' \in 0 .. MaxSize
        /\ body_type' \in {body_type} \cup Announced
    BY <1>2, RequestValue DEF ParserTypeOK
  <2>2. Valued \subseteq States /\ Announced \subseteq BodyTypes
    BY DEF Valued, States, Announced, BodyTypes
  <2>3. version' = version
    BY <1>2 DEF Rq!ExpectFieldValue
  <2>4. /\ code' \in Codes /\ state' \in Valued
        /\ idx' \in Nat /\ token_size' \in Nat
        /\ ibuffer' = ibuffer /\ InBuffer'
    BY <2>1, ReportKeeps DEF ParserTypeOK
  <2> QED
    BY <2>1, <2>2, <2>3, <2>4 DEF ParserTypeOK, TokenTypeOK, Codes
<1> QED BY <1>1, <1>2, SameNext
-----------------------------------------------------------------------------
(* Responses *)

ResponseCall ==
  /\ Reports(Rs!States)
  /\ body_size' \in 0 .. MaxSize
  /\ body_type' \in Rs!BodyTypes

\* What is to be known about the buffer in each of them.
LEMMA ResponsePlaces ==
  ASSUME TokenTypeOK, InBuffer
  PROVE  /\ partial \in 0 .. Len(rest) /\ Len(rest) \in Nat
         /\ rest \in Seq(Symbols)
         /\ \A class : Match(class, rest) \in 0 .. Len(rest)
         /\ Rs!Available \in 0 .. Len(rest)
         /\ body_size - Rs!Available \in 0 .. MaxSize
<1>1. partial \in 0 .. Len(rest) /\ Len(rest) \in Nat /\ rest \in Seq(Symbols)
  BY BufferPlace
<1>2. \A class : Match(class, rest) \in 0 .. Len(rest)
  BY BufferMatch
<1>3. Rs!Available = IF Len(rest) < body_size THEN Len(rest) ELSE body_size
  BY ResponsePlace DEF Rs!Available
<1>4. body_size \in 0 .. MaxSize /\ MaxSize \in Nat
  BY MaxSizeAssumption DEF TokenTypeOK
<1> QED BY <1>1, <1>2, <1>3, <1>4

LEMMA ResponseStatusLineCall ==
  ASSUME Rs!ParserTypeOK, InBuffer, Rs!StatusLine
  PROVE  ResponseCall
<1> USE ResponseClasses, ResponseSyntax, ResponsePlace, ResponseFound
    DEF ResponseCall, Reports, Rs!States, Rs!BodyTypes, Codes, Errors,
        TokenKinds, Rs!At, Rs!Fail, Rs!Await, Rs!KeepBody
<1>0. /\ TokenTypeOK /\ body_type \in Rs!BodyTypes /\ state \in Rs!States
      /\ body_size \in 0 .. MaxSize
  BY ResponseTypes DEF Rs!ParserTypeOK, TokenTypeOK
<1>p. /\ partial \in 0 .. Len(rest) /\ Len(rest) \in Nat
      /\ rest \in Seq(Symbols)
      /\ \A class : Match(class, rest) \in 0 .. Len(rest)
      /\ Rs!Available \in 0 .. Len(rest)
      /\ body_size - Rs!Available \in 0 .. MaxSize
  BY <1>0, ResponsePlaces
<1>1. CASE Rs!ExpectVersionStaticStr
  BY <1>0, <1>p, <1>1
  DEF Rs!ExpectVersionStaticStr, Rs!StaticStr
<1>2. CASE Rs!ExpectVersion
  BY <1>0, <1>p, <1>2
  DEF Rs!ExpectVersion, Rs!Single
<1>3. CASE Rs!ExpectSpAfterVersion
  BY <1>0, <1>p, <1>3
  DEF Rs!ExpectSpAfterVersion, Rs!Single
<1>4. CASE Rs!ExpectStatusCode
  BY <1>0, <1>p, <1>4
  DEF Rs!ExpectStatusCode
<1>5. CASE Rs!ExpectSpAfterStatusCode
  BY <1>0, <1>p, <1>5
  DEF Rs!ExpectSpAfterStatusCode, Rs!Single
<1>6. CASE Rs!ExpectReasonPhrase
  BY <1>0, <1>p, <1>6
  DEF Rs!ExpectReasonPhrase
<1>7. CASE Rs!ExpectCrlfAfterReasonPhrase
  BY <1>0, <1>p, <1>7, BufferLineEnd
  DEF Rs!ExpectCrlfAfterReasonPhrase, Rs!LineEnd
<1> QED BY <1>1, <1>2, <1>3, <1>4, <1>5, <1>6, <1>7
    DEF Rs!StatusLine

LEMMA ResponseHeaderFieldsCall ==
  ASSUME Rs!ParserTypeOK, InBuffer, Rs!HeaderFields
  PROVE  ResponseCall
<1> USE ResponseClasses, ResponseSyntax, ResponsePlace, ResponseFound
    DEF ResponseCall, Reports, Rs!States, Rs!BodyTypes, Codes, Errors,
        TokenKinds, Rs!At, Rs!Fail, Rs!Await, Rs!KeepBody
<1>0. /\ TokenTypeOK /\ body_type \in Rs!BodyTypes /\ state \in Rs!States
      /\ body_size \in 0 .. MaxSize
  BY ResponseTypes DEF Rs!ParserTypeOK, TokenTypeOK
<1>p. /\ partial \in 0 .. Len(rest) /\ Len(rest) \in Nat
      /\ rest \in Seq(Symbols)
      /\ \A class : Match(class, rest) \in 0 .. Len(rest)
      /\ Rs!Available \in 0 .. Len(rest)
      /\ body_size - Rs!Available \in 0 .. MaxSize
  BY <1>0, ResponsePlaces
<1>1. CASE Rs!ExpectFieldName
  BY <1>0, <1>p, <1>1
  DEF Rs!ExpectFieldName, Rs!TransferEncodingName, Rs!ContentLengthName
<1>2. CASE Rs!ExpectColon
  BY <1>0, <1>p, <1>2, BufferColon
  DEF Rs!ExpectColon, Rs!Colon
<1>3. CASE Rs!ExpectOwsAfterColon
  BY <1>0, <1>p, <1>3
  DEF Rs!ExpectOwsAfterColon, Rs!MoreOws
<1>4. CASE Rs!ExpectFieldValue
  BY <1>0, <1>4, ResponseValue DEF Valued, Announced
<1>5. CASE Rs!ExpectCrlfAfterFieldValue
  BY <1>0, <1>p, <1>5, BufferLineEnd
  DEF Rs!ExpectCrlfAfterFieldValue, Rs!LineEnd
<1>6. CASE Rs!ExpectCrlfAfterHeaders
  BY <1>0, <1>p, <1>6, BufferLineEnd
  DEF Rs!ExpectCrlfAfterHeaders, Rs!EmptyLine, Rs!AfterHeaders
<1> QED BY <1>1, <1>2, <1>3, <1>4, <1>5, <1>6
    DEF Rs!HeaderFields

LEMMA ResponseBodyCall ==
  ASSUME Rs!ParserTypeOK, InBuffer, Rs!Body
  PROVE  ResponseCall
<1> USE ResponseClasses, ResponseSyntax, ResponsePlace, ResponseFound
    DEF ResponseCall, Reports, Rs!States, Rs!BodyTypes, Codes, Errors,
        TokenKinds, Rs!At, Rs!Fail, Rs!Await, Rs!KeepBody
<1>0. /\ TokenTypeOK /\ body_type \in Rs!BodyTypes /\ state \in Rs!States
      /\ body_size \in 0 .. MaxSize
  BY ResponseTypes DEF Rs!ParserTypeOK, TokenTypeOK
<1>p. /\ partial \in 0 .. Len(rest) /\ Len(rest) \in Nat
      /\ rest \in Seq(Symbols)
      /\ \A class : Match(class, rest) \in 0 .. Len(rest)
      /\ Rs!Available \in 0 .. Len(rest)
      /\ body_size - Rs!Available \in 0 .. MaxSize
  BY <1>0, ResponsePlaces
<1>1. CASE Rs!ExpectBody
  BY <1>0, <1>p, <1>1
  DEF Rs!ExpectBody, Rs!Data
<1>2. CASE Rs!ExpectUnsafeBody
  BY <1>0, <1>p, <1>2
  DEF Rs!ExpectUnsafeBody
<1>3. CASE Rs!ExpectChunkSize
  BY <1>0, <1>p, <1>3, BufferNumber, ResponseNumbers
  DEF Rs!ExpectChunkSize
<1>4. CASE Rs!ExpectChunkExt
  BY <1>0, <1>p, <1>4
  DEF Rs!ExpectChunkExt
<1>5. CASE Rs!ExpectCrlfAfterChunkExt
  BY <1>0, <1>p, <1>5
  DEF Rs!ExpectCrlfAfterChunkExt, Rs!StrictEnd
<1>6. CASE Rs!ExpectChunkData
  BY <1>0, <1>p, <1>6
  DEF Rs!ExpectChunkData, Rs!Data
<1>7. CASE Rs!ExpectCrlfAfterChunkData
  BY <1>0, <1>p, <1>7
  DEF Rs!ExpectCrlfAfterChunkData, Rs!StrictEnd
<1> QED BY <1>1, <1>2, <1>3, <1>4, <1>5, <1>6, <1>7
    DEF Rs!Body

LEMMA ResponseTrailersCall ==
  ASSUME Rs!ParserTypeOK, InBuffer, Rs!Trailers
  PROVE  ResponseCall
<1> USE ResponseClasses, ResponseSyntax, ResponsePlace, ResponseFound
    DEF ResponseCall, Reports, Rs!States, Rs!BodyTypes, Codes, Errors,
        TokenKinds, Rs!At, Rs!Fail, Rs!Await, Rs!KeepBody
<1>0. /\ TokenTypeOK /\ body_type \in Rs!BodyTypes /\ state \in Rs!States
      /\ body_size \in 0 .. MaxSize
  BY ResponseTypes DEF Rs!ParserTypeOK, TokenTypeOK
<1>p. /\ partial \in 0 .. Len(rest) /\ Len(rest) \in Nat
      /\ rest \in Seq(Symbols)
      /\ \A class : Match(class, rest) \in 0 .. Len(rest)
      /\ Rs!Available \in 0 .. Len(rest)
      /\ body_size - Rs!Available \in 0 .. MaxSize
  BY <1>0, ResponsePlaces
<1>1. CASE Rs!ExpectTrailerName
  BY <1>0, <1>p, <1>1
  DEF Rs!ExpectTrailerName
<1>2. CASE Rs!ExpectTrailerColon
  BY <1>0, <1>p, <1>2, BufferColon
  DEF Rs!ExpectTrailerColon, Rs!Colon
<1>3. CASE Rs!ExpectOwsAfterTrailerColon
  BY <1>0, <1>p, <1>3
  DEF Rs!ExpectOwsAfterTrailerColon, Rs!MoreOws
<1>4. CASE Rs!ExpectTrailerValue
  BY <1>0, <1>p, <1>4
  DEF Rs!ExpectTrailerValue, Rs!BeginsAt
<1>5. CASE Rs!ExpectCrlfAfterTrailerValue
  BY <1>0, <1>p, <1>5
  DEF Rs!ExpectCrlfAfterTrailerValue, Rs!StrictEnd
<1>6. CASE Rs!ExpectCrlfAfterTrailers
  BY <1>0, <1>p, <1>6
  DEF Rs!ExpectCrlfAfterTrailers, Rs!StrictEnd
<1> QED BY <1>1, <1>2, <1>3, <1>4, <1>5, <1>6
    DEF Rs!Trailers

\* Any call keeps the types, and the buffer.
LEMMA ResponseKeeps ==
  ASSUME Rs!ParserTypeOK, InBuffer, Rs!next
  PROVE  Rs!ParserTypeOK' /\ InBuffer' /\ ibuffer' = ibuffer
<1>1. TokenTypeOK /\ body_type \in Rs!BodyTypes /\ state \in Rs!States
      /\ body_size \in 0 .. MaxSize /\ eof' = eof /\ eof \in BOOLEAN
  BY ResponseTypes DEF Rs!ParserTypeOK, TokenTypeOK, Rs!next
<1>2. CASE Rs!ExpectEndOfConnectionError
  <2>1. /\ code' \in Codes /\ state' \in Rs!States
        /\ UNCHANGED <<idx, token_size, ibuffer, body_type, body_size>>
    BY <1>2
    DEF Rs!ExpectEndOfConnectionError, Rs!KeepBody, Codes, Errors, Rs!States
  <2>2. TokenTypeOK'
    BY <1>1, <2>1 DEF TokenTypeOK, Codes
  <2>3. Rs!TokenTypeOK'
    BY <2>2, ResponseClasses, ResponsePlace
    DEF Rs!TokenTypeOK, TokenTypeOK, Rs!Errors, Errors, Rs!TokenKinds,
        TokenKinds
  <2> QED
    BY <1>1, <2>1, <2>3 DEF Rs!ParserTypeOK, InBuffer
<1>3. CASE Rs!ExpectEndOfBody \/ Rs!ExpectEndOfMessage \/ Rs!Starved
           \/ Rs!StatusLine \/ Rs!HeaderFields \/ Rs!Body \/ Rs!Trailers
  <2>1. ResponseCall
    <3> USE ResponseFound, ResponsePlace
        DEF ResponseCall, Reports, Rs!States, Rs!BodyTypes, Codes, Errors,
            TokenKinds, Rs!Fail, Rs!Await, Rs!KeepBody
    <3>1. partial \in 0 .. Len(rest) /\ 0 \in 0 .. Len(rest)
      BY <1>1, BufferPlace
    <3>2. CASE Rs!ExpectEndOfBody
      BY <1>1, <3>1, <3>2 DEF Rs!ExpectEndOfBody
    <3>3. CASE Rs!ExpectEndOfMessage
      BY <1>1, <3>1, <3>3 DEF Rs!ExpectEndOfMessage, Rs!AfterMessage
    <3>4. CASE Rs!Starved
      BY <1>1, <3>1, <3>4 DEF Rs!Starved
    <3> QED
      BY <1>3, <3>2, <3>3, <3>4, ResponseStatusLineCall,
         ResponseHeaderFieldsCall, ResponseBodyCall, ResponseTrailersCall
  <2>2. /\ code' \in Codes /\ state' \in Rs!States
        /\ idx' \in Nat /\ token_size' \in Nat
        /\ ibuffer' = ibuffer /\ InBuffer'
    BY <1>1, <2>1, ReportKeeps DEF ResponseCall
  <2>3. TokenTypeOK'
    BY <1>1, <2>1, <2>2 DEF TokenTypeOK, Codes, ResponseCall
  <2>4. Rs!TokenTypeOK'
    BY <2>3, ResponseClasses, ResponsePlace
    DEF Rs!TokenTypeOK, TokenTypeOK, Rs!Errors, Errors, Rs!TokenKinds,
        TokenKinds
  <2> QED BY <1>1, <2>1, <2>2, <2>4 DEF Rs!ParserTypeOK, ResponseCall
<1> QED BY <1>2, <1>3 DEF Rs!next

-----------------------------------------------------------------------------
(* Every call is one of those *)

\* What becomes of a value: only more of the same is waited for behind it.
LEMMA ValueShown ==
  ASSUME state \in Spaced, idx' = start, ibuffer' = ibuffer,
         state' \in Valued, state' = "FIELD_VALUE" => code' = More
  PROVE  Shown
BY DEF Shown, Spaced, Valued

LEMMA RequestLineShown ==
  ASSUME Starved \/ RequestLine
  PROVE  Shown
<1> USE DEF Found, Fail, Await, Errors, More, Spaced, Shown, At
<1>1. CASE Starved
  BY <1>1 DEF Starved
<1>2. CASE RequestLine
  BY <1>2
  DEF RequestLine, ExpectMethod, ExpectSpAfterMethod, Single, StaticStr,
      ExpectRequestTarget, ExpectStaticStr, ExpectVersion, LineEnd,
      ExpectCrlfAfterVersion
<1> QED BY <1>1, <1>2

LEMMA BodyShown ==
  ASSUME Body
  PROVE  Shown
BY DEF Found, Fail, Await, Errors, More, Spaced, Shown, At, Body, ExpectBody,
       ExpectEndOfBody, ExpectEndOfMessage, ExpectChunkSize, ExpectChunkExt,
       ExpectCrlfAfterChunkExt, ExpectChunkData, ExpectCrlfAfterChunkData,
       Data, StrictEnd

LEMMA FieldShown ==
  ASSUME TokenTypeOK, InBuffer, HeaderFields
  PROVE  Shown
<1> USE DEF Found, Fail, Await, Errors, More, Spaced, Shown, At
<1>1. CASE ExpectFieldName
  BY <1>1
  DEF ExpectFieldName, HostName, TransferEncodingName, ContentLengthName
<1>2. CASE ExpectColon
  BY <1>2 DEF ExpectColon, Colon
<1>3. CASE ExpectOwsAfterColon
  BY <1>3 DEF ExpectOwsAfterColon, MoreOws
<1>4. CASE ExpectFieldValue
  <2> DEFINE n == Match(field_value_char, rest)
             field == decode_field_value(ibuffer, start, n)
  <2>1. state \in Spaced
    BY <1>4 DEF ExpectFieldValue, BeginsAt
  <2>2. n \in 0 .. Len(rest)
    BY BufferMatch
  <2>3. ContentLength(field, MaxSize).res \in {"ok", "invalid", "overflow"}
    <3> HIDE DEF n
    <3> QED BY <2>2, BufferNumber
  <2>4. \/ Await(partial, "FIELD_VALUE")
        \/ LengthValue(n, field) \/ EncodingValue(n, field)
        \/ Found("field_value", n, "CRLF_AFTER_FIELD_VALUE")
    BY <1>4 DEF ExpectFieldValue
  <2> HIDE DEF n, field
  <2>5. /\ idx' = start /\ ibuffer' = ibuffer /\ state' \in Valued
        /\ state' = "FIELD_VALUE" => code' = More
    BY <2>3, <2>4 DEF LengthValue, EncodingValue, Valued
  <2> QED BY <2>1, <2>5, ValueShown
<1>5. CASE ExpectCrlfAfterFieldValue
  <2>1. rest # <<>>
    BY <1>5 DEF ExpectCrlfAfterFieldValue, LineEnd
  <2> QED BY <1>5, <2>1, BufferLineEnd
          DEF ExpectCrlfAfterFieldValue, LineEnd
<1>6. CASE ExpectCrlfAfterHeaders
  <2>1. HeadRefusal # "none" => HeadRefusal \in Errors
    BY DEF HeadRefusal
  <2>2. AfterHeaders \notin Spaced
    BY DEF AfterHeaders
  <2>3. rest # <<>>
    BY <1>6 DEF ExpectCrlfAfterHeaders, EmptyLine
  <2> QED BY <1>6, <2>1, <2>2, <2>3, BufferLineEnd
          DEF ExpectCrlfAfterHeaders, EmptyLine
<1> QED BY <1>1, <1>2, <1>3, <1>4, <1>5, <1>6 DEF HeaderFields

LEMMA TrailerShown ==
  ASSUME Trailers
  PROVE  Shown
<1> USE DEF Found, Fail, Await, Errors, More, Spaced, Shown, At
<1>1. CASE ExpectTrailerName
  BY <1>1 DEF ExpectTrailerName
<1>2. CASE ExpectTrailerColon
  BY <1>2 DEF ExpectTrailerColon, Colon
<1>3. CASE ExpectOwsAfterTrailerColon
  BY <1>3 DEF ExpectOwsAfterTrailerColon, MoreOws
<1>4. CASE ExpectTrailerValue
  BY <1>4 DEF ExpectTrailerValue, BeginsAt
<1>5. CASE ExpectCrlfAfterTrailerValue \/ ExpectCrlfAfterTrailers
  BY <1>5
  DEF ExpectCrlfAfterTrailerValue, ExpectCrlfAfterTrailers, StrictEnd
<1> QED BY <1>1, <1>2, <1>3, <1>4, <1>5 DEF Trailers

LEMMA RequestShown ==
  ASSUME ParserTypeOK, InBuffer, Rq!next
  PROVE  Shown
<1>1. CASE next
  BY <1>1, RequestLineShown, FieldShown, BodyShown, TrailerShown
  DEF next, ParserTypeOK
<1>2. CASE Rq!ExpectFieldValue
  <2>1. state \in Spaced
    BY <1>2 DEF Rq!ExpectFieldValue, Rq!BeginsAt, Rq!At, Spaced
  <2>2. Reports(Valued) /\ (state' = "FIELD_VALUE" => code' = More)
    BY <1>2, RequestValue DEF ParserTypeOK
  <2>3. idx' = start /\ ibuffer' = ibuffer /\ state' \in Valued
    BY <2>2, ReportKeeps DEF ParserTypeOK
  <2> QED BY <2>1, <2>2, <2>3, ValueShown
<1> QED BY <1>1, <1>2, SameNext

LEMMA ResponseLineShown ==
  ASSUME Rs!StatusLine
  PROVE  Shown
<1> USE ResponsePlace, ResponseFound
    DEF Found, Rs!Fail, Rs!Await, More, Spaced, Shown, Rs!At
<1>1. CASE Rs!ExpectVersionStaticStr
  BY <1>1 DEF Rs!ExpectVersionStaticStr, Rs!StaticStr
<1>2. CASE Rs!ExpectVersion \/ Rs!ExpectSpAfterVersion
  BY <1>2 DEF Rs!ExpectVersion, Rs!ExpectSpAfterVersion, Rs!Single
<1>3. CASE Rs!ExpectStatusCode
  BY <1>3 DEF Rs!ExpectStatusCode
<1>4. CASE Rs!ExpectSpAfterStatusCode
  BY <1>4 DEF Rs!ExpectSpAfterStatusCode, Rs!Single
<1>5. CASE Rs!ExpectReasonPhrase
  BY <1>5 DEF Rs!ExpectReasonPhrase
<1>6. CASE Rs!ExpectCrlfAfterReasonPhrase
  BY <1>6 DEF Rs!ExpectCrlfAfterReasonPhrase, Rs!LineEnd
<1> QED BY <1>1, <1>2, <1>3, <1>4, <1>5, <1>6 DEF Rs!StatusLine

LEMMA ResponseFieldShown ==
  ASSUME TokenTypeOK, InBuffer, Rs!HeaderFields
  PROVE  Shown
<1> USE ResponsePlace, ResponseFound
    DEF Found, Rs!Fail, Rs!Await, More, Spaced, Shown, Rs!At
<1>1. CASE Rs!ExpectFieldName
  BY <1>1
  DEF Rs!ExpectFieldName, Rs!TransferEncodingName, Rs!ContentLengthName
<1>2. CASE Rs!ExpectColon
  BY <1>2, ResponseSyntax, ResponseClasses DEF Rs!ExpectColon, Rs!Colon
<1>3. CASE Rs!ExpectOwsAfterColon
  BY <1>3, ResponseSyntax, ResponseClasses
  DEF Rs!ExpectOwsAfterColon, Rs!MoreOws
<1>4. CASE Rs!ExpectFieldValue
  <2>1. state \in Spaced
    BY <1>4 DEF Rs!ExpectFieldValue, Rs!BeginsAt
  <2>2. Reports(Valued) /\ (state' = "FIELD_VALUE" => code' = More)
    BY <1>4, ResponseValue
  <2>3. idx' = start /\ ibuffer' = ibuffer /\ state' \in Valued
    BY <2>2, ReportKeeps
  <2> QED BY <2>1, <2>2, <2>3, ValueShown
<1>5. CASE Rs!ExpectCrlfAfterFieldValue
  <2>1. rest # <<>>
    BY <1>5 DEF Rs!ExpectCrlfAfterFieldValue, Rs!LineEnd
  <2> QED BY <1>5, <2>1, BufferLineEnd, ResponseSyntax
          DEF Rs!ExpectCrlfAfterFieldValue, Rs!LineEnd
<1>6. CASE Rs!ExpectCrlfAfterHeaders
  <2>1. rest # <<>>
    BY <1>6 DEF Rs!ExpectCrlfAfterHeaders, Rs!EmptyLine
  <2>2. Rs!AfterHeaders \notin Spaced
    BY DEF Rs!AfterHeaders
  <2> QED BY <1>6, <2>1, <2>2, BufferLineEnd, ResponseSyntax
          DEF Rs!ExpectCrlfAfterHeaders, Rs!EmptyLine
<1> QED BY <1>1, <1>2, <1>3, <1>4, <1>5, <1>6 DEF Rs!HeaderFields

LEMMA ResponseBodyShown ==
  ASSUME Rs!Body
  PROVE  Shown
BY ResponsePlace, ResponseFound
DEF Found, Rs!Fail, Rs!Await, More, Spaced, Shown, Rs!At, Rs!Body,
    Rs!ExpectBody, Rs!ExpectUnsafeBody, Rs!ExpectChunkSize, Rs!ExpectChunkExt,
    Rs!ExpectCrlfAfterChunkExt, Rs!ExpectChunkData,
    Rs!ExpectCrlfAfterChunkData, Rs!Data, Rs!StrictEnd

LEMMA ResponseTrailerShown ==
  ASSUME Rs!Trailers
  PROVE  Shown
<1> USE ResponsePlace, ResponseFound, ResponseSyntax, ResponseClasses
    DEF Found, Rs!Fail, Rs!Await, More, Spaced, Shown, Rs!At
<1>1. CASE Rs!ExpectTrailerName
  BY <1>1 DEF Rs!ExpectTrailerName
<1>2. CASE Rs!ExpectTrailerColon
  BY <1>2 DEF Rs!ExpectTrailerColon, Rs!Colon
<1>3. CASE Rs!ExpectOwsAfterTrailerColon
  BY <1>3 DEF Rs!ExpectOwsAfterTrailerColon, Rs!MoreOws
<1>4. CASE Rs!ExpectTrailerValue
  BY <1>4 DEF Rs!ExpectTrailerValue, Rs!BeginsAt
<1>5. CASE Rs!ExpectCrlfAfterTrailerValue \/ Rs!ExpectCrlfAfterTrailers
  BY <1>5
  DEF Rs!ExpectCrlfAfterTrailerValue, Rs!ExpectCrlfAfterTrailers,
      Rs!StrictEnd
<1> QED BY <1>1, <1>2, <1>3, <1>4, <1>5 DEF Rs!Trailers

LEMMA ResponseShown ==
  ASSUME TokenTypeOK, InBuffer, Rs!next
  PROVE  Shown
<1>1. CASE Rs!StatusLine \/ Rs!HeaderFields \/ Rs!Body \/ Rs!Trailers
  BY <1>1, ResponseLineShown, ResponseFieldShown, ResponseBodyShown,
     ResponseTrailerShown
<1>2. CASE Rs!ExpectEndOfBody \/ Rs!ExpectEndOfMessage \/ Rs!Starved
           \/ Rs!ExpectEndOfConnectionError
  BY <1>2, ResponsePlace, ResponseFound
  DEF Found, Rs!Fail, Rs!Await, More, Spaced, Shown, Rs!ExpectEndOfBody,
      Rs!ExpectEndOfMessage, Rs!AfterMessage, Rs!Starved,
      Rs!ExpectEndOfConnectionError
<1> QED BY <1>1, <1>2 DEF Rs!next

-----------------------------------------------------------------------------
(* What is reported *)

Reported == [kind : (TokenKinds \ {"skip"}) \cup Errors, value : Seq(Symbols)]

\* The symbols of a token that lies in the buffer.
LEMMA TokenSymbols ==
  ASSUME NEW b \in Seq(Symbols), NEW i \in Nat, NEW n \in Nat,
         i + n <= Len(b)
  PROVE  /\ SubSeq(b, i + 1, i + n) \in Seq(Symbols)
         /\ Len(SubSeq(b, i + 1, i + n)) = n
<1>1. \A j \in i + 1 .. i + n : b[j] \in Symbols
  BY ElementOfSeq
<1>2. /\ SubSeq(b, i + 1, i + n) \in Seq(Symbols)
      /\ Len(SubSeq(b, i + 1, i + n)) =
           IF i + 1 <= i + n THEN (i + n) - (i + 1) + 1 ELSE 0
  BY <1>1, SubSeqProperties
<1> QED BY <1>2

LEMMA ValueSymbols ==
  ASSUME NEW b \in Seq(Symbols), NEW i \in Nat, NEW n \in Nat,
         i + n <= Len(b)
  PROVE  decode_field_value(b, i, n) \in Seq(Symbols)
<1>1. \A j \in i + 1 .. i + n : b[j] \in Symbols
  BY ElementOfSeq
<1> QED BY <1>1, FieldValueType

LEMMA OneEvent ==
  ASSUME NEW k \in (TokenKinds \ {"skip"}) \cup Errors, NEW v \in Seq(Symbols)
  PROVE  [kind |-> k, value |-> v] \in Reported
BY DEF Reported

LEMMA OneSymbol == \A c \in Symbols : <<c>> \in Seq(Symbols)
OBVIOUS

\* Body data is reported symbol by symbol.
LEMMA DataReported ==
  ASSUME NEW v \in Seq(Symbols), NEW n \in Nat, Len(v) = n
  PROVE  [i \in 1 .. n |-> [kind |-> "body_chunk", value |-> <<v[i]>>]]
           \in Seq(Reported)
<1>1. ASSUME NEW i \in 1 .. n
      PROVE  [kind |-> "body_chunk", value |-> <<v[i]>>] \in Reported
  <2>1. v[i] \in Symbols
    BY ElementOfSeq
  <2>2. <<v[i]>> \in Seq(Symbols)
    BY <2>1, OneSymbol
  <2>3. "body_chunk" \in (TokenKinds \ {"skip"}) \cup Errors
    BY DEF TokenKinds
  <2> QED BY <2>2, <2>3, OneEvent
<1> HIDE DEF Reported
<1> QED BY <1>1

LEMMA RequestEvents ==
  ASSUME TokenTypeOK', InBuffer'
  PROVE  Rq!Events \in Seq(Reported)
<1> DEFINE v == Rq!value'
           token == SubSeq(ibuffer', idx' + 1, idx' + token_size')
<1>1. token \in Seq(Symbols) /\ Len(token) = token_size'
  BY TokenSymbols DEF TokenTypeOK, InBuffer
<1>2. v \in Seq(Symbols) /\ (code' # "field_value" => Len(v) = token_size')
  <2>1. v = IF code' = "field_value"
            THEN decode_field_value(ibuffer', idx', token_size') ELSE token
    BY RequestSyntax DEF Rq!value
  <2>2. decode_field_value(ibuffer', idx', token_size') \in Seq(Symbols)
    BY ValueSymbols DEF TokenTypeOK, InBuffer
  <2> HIDE DEF token, v
  <2> QED BY <1>1, <2>1, <2>2
<1>3. code' \in TokenKinds \cup Errors \cup {More} /\ token_size' \in Nat
  BY DEF TokenTypeOK
<1> HIDE DEF v
<1>4. CASE code' \in {"skip", More}
  <2>1. Rq!Events = <<>>
    BY <1>4, RequestPlace DEF Rq!Events, Rq!Event, Rq!Mark, More
  <2> QED BY <2>1, EmptySeq
<1>5. CASE code' = "body_chunk"
  <2>1. Rq!Events = [i \in 1 .. token_size' |->
                      [kind |-> "body_chunk", value |-> <<v[i]>>]]
    BY <1>5, RequestPlace DEF Rq!Events, Rq!Event, v, More
  <2> QED BY <1>2, <1>3, <1>5, <2>1, DataReported
<1>6. CASE code' \notin {"skip", More, "body_chunk"}
  <2>1. code' \in (TokenKinds \ {"skip"}) \cup Errors
    BY <1>3, <1>6
  <2>2. \/ Rq!Events = <<[kind |-> code', value |-> v]>>
        \/ Rq!Events = <<[kind |-> code', value |-> <<>>]>>
    BY <1>6, RequestPlace DEF Rq!Events, Rq!Event, Rq!Mark, v
  <2>3. <<>> \in Seq(Symbols)
    BY EmptySeq
  <2>4. PICK e \in Reported : Rq!Events = <<e>>
    BY <1>2, <2>1, <2>2, <2>3, OneEvent
  <2> QED BY <2>4
<1> QED BY <1>4, <1>5, <1>6

LEMMA ResponseEvents ==
  ASSUME TokenTypeOK', InBuffer'
  PROVE  Rs!Events \in Seq(Reported)
<1> DEFINE v == Rs!value'
           token == SubSeq(ibuffer', idx' + 1, idx' + token_size')
<1>1. token \in Seq(Symbols) /\ Len(token) = token_size'
  BY TokenSymbols DEF TokenTypeOK, InBuffer
<1>2. v \in Seq(Symbols) /\ (code' # "field_value" => Len(v) = token_size')
  <2>1. v = IF code' = "field_value"
            THEN decode_field_value(ibuffer', idx', token_size') ELSE token
    BY ResponseSyntax DEF Rs!value
  <2>2. decode_field_value(ibuffer', idx', token_size') \in Seq(Symbols)
    BY ValueSymbols DEF TokenTypeOK, InBuffer
  <2> HIDE DEF token, v
  <2> QED BY <1>1, <2>1, <2>2
<1>3. code' \in TokenKinds \cup Errors \cup {More} /\ token_size' \in Nat
  BY DEF TokenTypeOK
<1> HIDE DEF v
<1>4. CASE code' \in {"skip", More}
  <2>1. Rs!Events = <<>>
    BY <1>4, ResponsePlace DEF Rs!Events, Rs!Event, Rs!Mark, More
  <2> QED BY <2>1, EmptySeq
<1>5. CASE code' = "body_chunk"
  <2>1. Rs!Events = [i \in 1 .. token_size' |->
                      [kind |-> "body_chunk", value |-> <<v[i]>>]]
    BY <1>5, ResponsePlace DEF Rs!Events, Rs!Event, v, More
  <2> QED BY <1>2, <1>3, <1>5, <2>1, DataReported
<1>6. CASE code' \notin {"skip", More, "body_chunk"}
  <2>1. code' \in (TokenKinds \ {"skip"}) \cup Errors
    BY <1>3, <1>6
  <2>2. \/ Rs!Events = <<[kind |-> code', value |-> v]>>
        \/ Rs!Events = <<[kind |-> code', value |-> <<>>]>>
    BY <1>6, ResponsePlace DEF Rs!Events, Rs!Event, Rs!Mark, v
  <2>3. <<>> \in Seq(Symbols)
    BY EmptySeq
  <2>4. PICK e \in Reported : Rs!Events = <<e>>
    BY <1>2, <2>1, <2>2, <2>3, OneEvent
  <2> QED BY <2>4
<1> QED BY <1>4, <1>5, <1>6
-----------------------------------------------------------------------------
(* Streams *)

StreamTypeOK ==
  /\ cut \in BOOLEAN
  /\ coming \in Seq(Symbols)
  /\ waiting \in BOOLEAN
  /\ parsed \in Seq(Reported)

ReadersInv ==
  /\ InBuffer /\ BehindInv
  /\ side = "request" => Rq!ParserTypeOK /\ StreamTypeOK
  /\ side = "response" =>
       Rs!ParserTypeOK /\ StreamTypeOK /\ lost \in BOOLEAN

\* set_buffer with what is unread of the old buffer, and n symbols more.
LEMMA MoreSymbols ==
  ASSUME NEW b \in Seq(Symbols), NEW i \in Nat, NEW n \in Nat,
         i + n <= Len(b), NEW c \in Seq(Symbols), NEW k \in 1 .. Len(c)
  PROVE  LET all == SubSeq(b, i + 1, Len(b)) \o SubSeq(c, 1, k)
         IN /\ all \in Seq(Symbols) /\ 0 + n <= Len(all)
            /\ SubSeq(c, k + 1, Len(c)) \in Seq(Symbols)
<1> DEFINE old == SubSeq(b, i + 1, Len(b))
           new == SubSeq(c, 1, k)
           after == SubSeq(c, k + 1, Len(c))
<1>1. Len(b) \in Nat /\ Len(c) \in Nat
  OBVIOUS
<1>2. /\ \A j \in i + 1 .. Len(b) : b[j] \in Symbols
      /\ \A j \in 1 .. k : c[j] \in Symbols
      /\ \A j \in k + 1 .. Len(c) : c[j] \in Symbols
  BY <1>1, ElementOfSeq
<1>3. /\ old \in Seq(Symbols)
      /\ Len(old) = IF i + 1 <= Len(b) THEN Len(b) - (i + 1) + 1 ELSE 0
  BY <1>1, <1>2, SubSeqProperties
<1>4. new \in Seq(Symbols)
  BY <1>1, <1>2, SubSeqProperties
<1>5. after \in Seq(Symbols)
  BY <1>1, <1>2, SubSeqProperties
<1> HIDE DEF old, new, after
<1>6. old \o new \in Seq(Symbols) /\ Len(old \o new) = Len(old) + Len(new)
  BY <1>3, <1>4, ConcatProperties
<1>7. Len(new) \in Nat /\ Len(old) = Len(b) - i
  BY <1>1, <1>3, <1>4
<1>8. 0 + n <= Len(old \o new)
  BY <1>1, <1>6, <1>7
<1> QED BY <1>5, <1>6, <1>8 DEF old, new, after

LEMMA ReadersInit == Init => ReadersInv
<1> SUFFICES ASSUME Init PROVE ReadersInv
  OBVIOUS
<1>0. BehindInv
  BY DEF Init, BehindInv, Spaced, More, TokenInit, Rq!Init, Rq!ParserInit,
         Rq!TokenInit, Rq!More, Rs!Init, Rs!ParserInit, Rs!TokenInit, Rs!More
<1> USE DEF ReadersInv, StreamTypeOK
<1>1. <<>> \in Seq(Symbols) /\ <<>> \in Seq(Reported) /\ Len(<<>>) = 0
  BY EmptySeq
<1>2. MaxSize \in Nat /\ More \in TokenKinds \cup Errors \cup {More}
  BY MaxSizeAssumption
<1>3. ASSUME body_size = 0, code = More, idx = 0, token_size = 0,
             ibuffer = <<>>
      PROVE  TokenTypeOK /\ InBuffer
  BY <1>1, <1>2, <1>3 DEF TokenTypeOK, InBuffer
<1>4. CASE side = "text" /\ TokenInit
  BY <1>0, <1>3, <1>4 DEF TokenInit
<1>5. CASE side = "request" /\ Rq!Init
  <2>1. /\ body_size = 0 /\ code = More /\ idx = 0 /\ token_size = 0
        /\ ibuffer = <<>>
        /\ Rq!ParserInit /\ parsed = <<>> /\ waiting = FALSE
    BY <1>5, RequestPlace DEF Rq!Init, Rq!ParserInit, Rq!TokenInit
  <2>2. TokenTypeOK /\ InBuffer
    BY <1>3, <2>1
  <2>3. Rq!ParserTypeOK
    BY <2>1, <2>2, RequestTypes
    DEF Rq!ParserTypeOK, Rq!ParserInit, Rq!States, Rq!BodyTypes
  <2>4. cut \in BOOLEAN /\ coming \in Seq(Symbols)
    BY <1>5, StreamsAssumption DEF Rq!Init
  <2> QED BY <1>0, <1>1, <1>5, <2>1, <2>2, <2>3, <2>4
<1>6. CASE side = "response" /\ Rs!Init
  <2>1. /\ body_size = 0 /\ code = More /\ idx = 0 /\ token_size = 0
        /\ ibuffer = <<>>
        /\ Rs!ParserInit /\ parsed = <<>> /\ waiting = FALSE /\ lost = FALSE
    BY <1>6, ResponsePlace DEF Rs!Init, Rs!ParserInit, Rs!TokenInit
  <2>2. TokenTypeOK /\ InBuffer
    BY <1>3, <2>1
  <2>3. Rs!ParserTypeOK
    BY <2>1, <2>2, ResponseTypes
    DEF Rs!ParserTypeOK, Rs!ParserInit, Rs!States, Rs!BodyTypes
  <2>4. cut \in BOOLEAN /\ coming \in Seq(Symbols)
    BY <1>6, StreamsAssumption DEF Rs!Init
  <2> QED BY <1>0, <1>1, <1>6, <2>1, <2>2, <2>3, <2>4
<1> QED BY <1>4, <1>5, <1>6 DEF Init

LEMMA RequestCallKeeps ==
  ASSUME Rq!ParserTypeOK, InBuffer, Rq!next
  PROVE  Rq!ParserTypeOK' /\ InBuffer'
<1>1. ParserTypeOK' /\ InBuffer'
  BY RequestParser, RequestKeeps
<1>2. Rq!TokenTypeOK'
  BY <1>1, RequestClasses, RequestPlace
  DEF ParserTypeOK, Rq!TokenTypeOK, TokenTypeOK, Rq!Errors, Errors,
      Rq!TokenKinds, TokenKinds
<1> QED
  BY <1>1, <1>2
  DEF Rq!ParserTypeOK, ParserTypeOK, Rq!States, States, Rq!BodyTypes,
      BodyTypes

LEMMA RequestArrives ==
  ASSUME Rq!ParserTypeOK, StreamTypeOK, InBuffer, BehindInv,
         NEW n \in 1 .. Len(coming), Rq!Arrive(n)
  PROVE  Rq!ParserTypeOK' /\ StreamTypeOK' /\ InBuffer' /\ BehindInv'
<1>1. TokenTypeOK /\ Len(coming) \in Nat
  BY RequestTypes DEF Rq!ParserTypeOK, StreamTypeOK
<1> DEFINE b == SubSeq(ibuffer, idx + 1, Len(ibuffer)) \o SubSeq(coming, 1, n)
<1>2. /\ ibuffer' = b /\ idx' = 0
      /\ coming' = SubSeq(coming, n + 1, Len(coming))
      /\ waiting' \in BOOLEAN
      /\ UNCHANGED <<state, body_type, body_size, code, token_size, version>>
      /\ UNCHANGED <<cut, parsed>>
  BY DEF Rq!Arrive, Rq!set_buffer, Rq!Unread
<1>3. /\ b \in Seq(Symbols) /\ 0 + token_size <= Len(b)
      /\ SubSeq(coming, n + 1, Len(coming)) \in Seq(Symbols)
  BY <1>1, MoreSymbols DEF TokenTypeOK, InBuffer, StreamTypeOK
<1> HIDE DEF b
<1>4. TokenTypeOK' /\ InBuffer'
  BY <1>1, <1>2, <1>3 DEF TokenTypeOK, InBuffer
<1>5. Rq!TokenTypeOK'
  BY <1>4, RequestClasses, RequestPlace
  DEF Rq!TokenTypeOK, TokenTypeOK, Rq!Errors, Errors, Rq!TokenKinds,
      TokenKinds
<1>6. StreamTypeOK'
  BY <1>2, <1>3 DEF StreamTypeOK
<1>7. Rq!ParserTypeOK'
  BY <1>2, <1>5 DEF Rq!ParserTypeOK
<1>8. BehindInv'
  <2>1. coming \in Seq(Symbols)
    BY DEF StreamTypeOK
  <2> QED BY <1>1, <1>2, <2>1, ArrivalKeeps DEF b
<1> QED BY <1>4, <1>6, <1>7, <1>8

LEMMA RequestParses ==
  ASSUME Rq!ParserTypeOK, StreamTypeOK, InBuffer, BehindInv, Rq!Parse
  PROVE  Rq!ParserTypeOK' /\ StreamTypeOK' /\ InBuffer' /\ BehindInv'
<1>1. /\ Rq!next /\ waiting' \in BOOLEAN
      /\ parsed' = parsed \o Rq!Events
      /\ UNCHANGED <<cut, coming>>
  BY DEF Rq!Parse
<1>2. Rq!ParserTypeOK' /\ InBuffer'
  BY <1>1, RequestCallKeeps
<1>3. TokenTypeOK'
  BY <1>2, RequestClasses, RequestPlace
  DEF Rq!ParserTypeOK, Rq!TokenTypeOK, TokenTypeOK, Rq!Errors, Errors,
      Rq!TokenKinds, TokenKinds
<1>4. Rq!Events \in Seq(Reported)
  BY <1>2, <1>3, RequestEvents
<1>5. parsed' \in Seq(Reported)
  BY <1>1, <1>4, ConcatProperties DEF StreamTypeOK
<1>6. BehindInv'
  <2>1. ParserTypeOK /\ TokenTypeOK
    BY RequestParser DEF ParserTypeOK
  <2>2. Shown
    BY <1>1, <2>1, RequestShown
  <2> QED BY <2>1, <2>2, ShownKeeps
<1> QED BY <1>1, <1>2, <1>5, <1>6 DEF StreamTypeOK

LEMMA ResponseArrives ==
  ASSUME Rs!ParserTypeOK, StreamTypeOK, InBuffer, BehindInv,
         NEW n \in 1 .. Len(coming), Rs!Arrive(n)
  PROVE  Rs!ParserTypeOK' /\ StreamTypeOK' /\ InBuffer' /\ BehindInv'
<1>1. TokenTypeOK /\ Len(coming) \in Nat
  BY ResponseTypes DEF Rs!ParserTypeOK, StreamTypeOK
<1> DEFINE b == SubSeq(ibuffer, idx + 1, Len(ibuffer)) \o SubSeq(coming, 1, n)
<1>2. /\ ibuffer' = b /\ idx' = 0
      /\ coming' = SubSeq(coming, n + 1, Len(coming))
      /\ waiting' \in BOOLEAN
      /\ UNCHANGED <<state, body_type, body_size, code, token_size, eof>>
      /\ UNCHANGED <<cut, parsed>>
  BY DEF Rs!Arrive, Rs!set_buffer
<1>3. /\ b \in Seq(Symbols) /\ 0 + token_size <= Len(b)
      /\ SubSeq(coming, n + 1, Len(coming)) \in Seq(Symbols)
  BY <1>1, MoreSymbols DEF TokenTypeOK, InBuffer, StreamTypeOK
<1> HIDE DEF b
<1>4. TokenTypeOK' /\ InBuffer'
  BY <1>1, <1>2, <1>3 DEF TokenTypeOK, InBuffer
<1>5. Rs!TokenTypeOK'
  BY <1>4, ResponseClasses, ResponsePlace
  DEF Rs!TokenTypeOK, TokenTypeOK, Rs!Errors, Errors, Rs!TokenKinds,
      TokenKinds
<1>6. StreamTypeOK'
  BY <1>2, <1>3 DEF StreamTypeOK
<1>7. Rs!ParserTypeOK'
  BY <1>2, <1>5 DEF Rs!ParserTypeOK
<1>8. BehindInv'
  <2>1. coming \in Seq(Symbols)
    BY DEF StreamTypeOK
  <2> QED BY <1>1, <1>2, <2>1, ArrivalKeeps DEF b
<1> QED BY <1>4, <1>6, <1>7, <1>8

LEMMA ResponseParses ==
  ASSUME Rs!ParserTypeOK, StreamTypeOK, InBuffer, BehindInv, Rs!Parse
  PROVE  Rs!ParserTypeOK' /\ StreamTypeOK' /\ InBuffer' /\ BehindInv'
<1>1. /\ Rs!next /\ waiting' \in BOOLEAN
      /\ parsed' = parsed \o Rs!Events
      /\ UNCHANGED <<cut, coming>>
  BY DEF Rs!Parse
<1>2. Rs!ParserTypeOK' /\ InBuffer'
  BY <1>1, ResponseKeeps
<1>3. TokenTypeOK'
  BY <1>2, ResponseClasses, ResponsePlace
  DEF Rs!ParserTypeOK, Rs!TokenTypeOK, TokenTypeOK, Rs!Errors, Errors,
      Rs!TokenKinds, TokenKinds
<1>4. Rs!Events \in Seq(Reported)
  BY <1>2, <1>3, ResponseEvents
<1>5. parsed' \in Seq(Reported)
  BY <1>1, <1>4, ConcatProperties DEF StreamTypeOK
<1>6. BehindInv'
  <2>1. TokenTypeOK
    BY ResponseTypes DEF Rs!ParserTypeOK
  <2>2. Shown
    BY <1>1, <2>1, ResponseShown
  <2> QED BY <2>1, <2>2, ShownKeeps
<1> QED BY <1>1, <1>2, <1>5, <1>6 DEF StreamTypeOK

LEMMA ReadersNext == ReadersInv /\ [Next]_vars => ReadersInv'
<1> SUFFICES ASSUME ReadersInv, [Next]_vars PROVE ReadersInv'
  OBVIOUS
<1>1. CASE side = "request" /\ Rq!Next
  <2>1. side' = side
    BY <1>1 DEF Next, vars
  <2>2. Rq!ParserTypeOK' /\ StreamTypeOK' /\ InBuffer' /\ BehindInv'
    BY <1>1, RequestParses, RequestArrives DEF ReadersInv, Rq!Next
  <2> QED BY <1>1, <2>1, <2>2 DEF ReadersInv
<1>2. CASE side = "response" /\ Rs!Next
  <2>0. /\ Rs!ParserTypeOK /\ StreamTypeOK /\ InBuffer /\ BehindInv
        /\ lost \in BOOLEAN
    BY <1>2 DEF ReadersInv
  <2>1. side' = side
    BY <1>2 DEF Next, vars
  <2>2. CASE Rs!Parse \/ \E n \in 1 .. Len(coming) : Rs!Arrive(n)
    <3>1. Rs!ParserTypeOK' /\ StreamTypeOK' /\ InBuffer' /\ BehindInv'
      BY <2>0, <2>2, ResponseParses, ResponseArrives
    <3>2. lost' = lost
      BY <2>2 DEF Rs!Parse, Rs!Arrive
    <3> QED BY <1>2, <2>0, <2>1, <3>1, <3>2 DEF ReadersInv
  <2>3. CASE Rs!Close
    <3>1. /\ UNCHANGED <<state, body_type, body_size, code, idx, token_size,
                         ibuffer, cut, parsed>>
          /\ eof' = TRUE /\ coming' = <<>> /\ lost' \in BOOLEAN
          /\ waiting' \in BOOLEAN
      BY <2>3 DEF Rs!Close, Rs!puteof, Rs!tokenVars
    <3>2. InBuffer' /\ StreamTypeOK'
      BY <2>0, <3>1, EmptySeq DEF InBuffer, StreamTypeOK
    <3>4. BehindInv'
      BY <2>0, <3>1 DEF BehindInv, start
    <3>3. Rs!ParserTypeOK'
      BY <2>0, <3>1 DEF Rs!ParserTypeOK, Rs!TokenTypeOK
    <3> QED BY <1>2, <2>1, <3>1, <3>2, <3>3, <3>4 DEF ReadersInv
  <2>4. CASE Rs!SetMethod
    <3>1. /\ UNCHANGED <<state, eof, code, idx, token_size, ibuffer, cut,
                         coming, parsed, waiting, lost>>
          /\ body_type' \in Rs!BodyTypes
          /\ body_size' = 0 \/ body_size' = body_size
      BY <2>4
      DEF Rs!SetMethod, Rs!set_method, Rs!tokenVars, Rs!BodyTypes
    <3>2. InBuffer' /\ StreamTypeOK'
      BY <2>0, <3>1 DEF InBuffer, StreamTypeOK
    <3>5. BehindInv'
      BY <2>0, <3>1 DEF BehindInv, start
    <3>3. body_size' \in 0 .. MaxSize
      BY <2>0, <3>1, MaxSizeAssumption
      DEF Rs!ParserTypeOK, Rs!TokenTypeOK
    <3>4. Rs!ParserTypeOK'
      BY <2>0, <3>1, <3>3 DEF Rs!ParserTypeOK, Rs!TokenTypeOK
    <3> QED BY <1>2, <2>0, <2>1, <3>1, <3>2, <3>4, <3>5 DEF ReadersInv
  <2> QED BY <1>2, <2>2, <2>3, <2>4 DEF Rs!Next
<1>3. CASE UNCHANGED vars
  <2>1. BehindInv'
    BY <1>3 DEF ReadersInv, BehindInv, start, vars, tokenVars
  <2> QED
    BY <1>3, <2>1
    DEF ReadersInv, vars, tokenVars, InBuffer, StreamTypeOK, Rq!ParserTypeOK,
        Rq!TokenTypeOK, Rs!ParserTypeOK, Rs!TokenTypeOK
<1> QED BY <1>1, <1>2, <1>3 DEF Next

\* The variables of whichever parser is in use keep their types, and what it
\* reports is a sequence of events: tokens with their symbols, and errors
\* (next() of both readers and the decoders it calls).
THEOREM TypeCorrect == Spec => []TypeOK
<1>1. ReadersInv => TypeOK
  <2> SUFFICES ASSUME ReadersInv PROVE TypeOK
    OBVIOUS
  <2>1. ASSUME StreamTypeOK
        PROVE  \A i \in DOMAIN parsed :
                 parsed[i].kind \in (TokenKinds \ {"skip"}) \cup Errors
    <3> SUFFICES ASSUME NEW i \in DOMAIN parsed
                 PROVE  parsed[i].kind \in (TokenKinds \ {"skip"}) \cup Errors
      OBVIOUS
    <3>1. parsed \in Seq(Reported)
      BY <2>1 DEF StreamTypeOK
    <3>2. parsed[i] \in Reported
      BY <3>1, ElementOfSeq
    <3> QED BY <3>2 DEF Reported
  <2> QED
    BY <2>1, RequestTypes, RequestClasses, ResponseTypes, ResponseClasses
    DEF ReadersInv, TypeOK, Rq!TypeOK, Rs!TypeOK, StreamTypeOK
<1> QED BY <1>1, ReadersInit, ReadersNext, PTL DEF Spec

\* The token a parser reports lies in the buffer it was given last, although
\* buffers come and go between two calls (set_buffer of both readers); and
\* where decode_field_value looks back from an empty value, it stops at the
\* colon of the same field, or leaves a buffer in which nothing of the field
\* is left but white space: whatever symbols arrive, in pieces of any size,
\* and wherever the peer closes.
THEOREM TokensInBuffer == Spec => []TokenInBuffer
<1>1. ReadersInv => TokenInBuffer
  <2> SUFFICES ASSUME ReadersInv PROVE TokenInBuffer
    OBVIOUS
  <2>1. idx + token_size <= Len(ibuffer)
    BY DEF ReadersInv, InBuffer
  <2>2. ASSUME code = "field_value"
        PROVE  LeavesBuffer(ibuffer, idx, 0) \/ StopsAt = "colon"
    <3>1. idx \in Nat /\ Behind(ibuffer, idx)
      BY <2>2 DEF ReadersInv, BehindInv
    <3> QED BY <3>1, LookBack DEF StopsAt
  <2> QED BY <2>1, <2>2 DEF TokenInBuffer
<1> QED BY <1>1, ReadersInit, ReadersNext, PTL DEF Spec
=============================================================================
