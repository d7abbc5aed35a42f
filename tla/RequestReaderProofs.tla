------------------------ MODULE RequestReaderProofs ------------------------
(***************************************************************************)
(* What one call of reader::request::next() may do, for any buffer: the    *)
(* token it reports lies in the buffer, every variable keeps its type, and *)
(* the state moves only forward through the head, the body and the         *)
(* trailers of a message.                                                  *)
(***************************************************************************)
EXTENDS RequestReader, SequenceTheorems, WellFoundedInduction, TLAPS

-----------------------------------------------------------------------------
(* Matching *)

\* A nonempty set of numbers has a least one.
LEMMA LeastNat ==
  ASSUME NEW F, F \subseteq Nat, F # {}
  PROVE  \E x \in F : \A y \in F : x <= y
<1>1. PICK x \in F : \A y \in F : ~(<<y, x>> \in OpToRel(<, Nat))
  BY NatLessThanWellFounded, WFMin
<1>2. \A y \in F : ~(y < x)
  BY <1>1 DEF OpToRel
<1> QED BY <1>2

\* Every sequence has a longest prefix of characters of a class.
LEMMA MatchType ==
  ASSUME NEW class, NEW s, Len(s) \in Nat
  PROVE  /\ Match(class, s) \in 0 .. Len(s)
         /\ \A i \in 1 .. Match(class, s) : s[i] \in class
         /\ Match(class, s) # Len(s) => s[Match(class, s) + 1] \notin class
<1> DEFINE Longest(n) == /\ \A i \in 1 .. n : s[i] \in class
                         /\ n = Len(s) \/ s[n + 1] \notin class
           F == {i \in 1 .. Len(s) : s[i] \notin class}
<1>1. \E n \in 0 .. Len(s) : Longest(n)
  <2>1. CASE F = {}
    BY <2>1
  <2>2. CASE F # {}
    <3>1. PICK x \in F : \A y \in F : x <= y
      <4>1. F \subseteq Nat
        OBVIOUS
      <4> QED BY <2>2, <4>1, LeastNat
    <3>2. x - 1 \in 0 .. Len(s) /\ x - 1 + 1 = x
      OBVIOUS
    <3>3. Longest(x - 1)
      BY <3>1, <3>2
    <3> QED BY <3>2, <3>3
  <2> QED BY <2>1, <2>2
<1>2. /\ Match(class, s) \in 0 .. Len(s)
      /\ Longest(Match(class, s))
  BY <1>1 DEF Match
<1> QED BY <1>2

\* What decode_field_value leaves is the beginning of the value, and it looks
\* at no more symbols than lie before the value's end.
LEMMA EndingOws ==
  ASSUME NEW b, NEW i \in Nat, NEW n \in Nat
  PROVE  /\ Len(Downwards(b, i, n)) = IF n = 0 THEN i ELSE n - 1
         /\ ending_ows(b, i, n) \in 0 .. (IF n = 0 THEN i ELSE n - 1)
<1> DEFINE m == IF n = 0 THEN i ELSE n - 1
           d == [k \in 1 .. m |-> b[i + n + 1 - k]]
<1>1. m \in Nat
  OBVIOUS
<1> HIDE DEF m
<1>2. Len(d) = m
  BY <1>1
<1>3. Downwards(b, i, n) = d
  BY DEF Downwards, m
<1> HIDE DEF d
<1>4. Match(ows, d) \in 0 .. m
  BY <1>1, <1>2, MatchType
<1> QED BY <1>2, <1>3, <1>4 DEF ending_ows, m

LEMMA FieldValueType ==
  ASSUME NEW T, NEW b \in Seq(T), NEW i \in Nat, NEW n \in Nat,
         i + n <= Len(b), NEW S, \A j \in i + 1 .. i + n : b[j] \in S
  PROVE  decode_field_value(b, i, n) \in Seq(S)
<1> DEFINE ending == ending_ows(b, i, n)
           last == IF ending < n THEN i + n - ending ELSE i
<1>1. ending \in Nat
  BY EndingOws
<1>2. decode_field_value(b, i, n) = SubSeq(b, i + 1, last)
  BY DEF decode_field_value
<1> HIDE DEF ending
<1>3. last \in i .. i + n
  BY <1>1
<1> HIDE DEF last
<1>4. \A j \in i + 1 .. last : b[j] \in S
  BY <1>3
<1>5. SubSeq(b, i + 1, last) \in Seq(S)
  BY <1>3, <1>4, SubSeqProperties
<1> QED BY <1>2, <1>5

-----------------------------------------------------------------------------
(* Decoding numbers *)

\* f is what n rounds of h leave, beginning with b.
Iterates(f, n, b, h) == f[0] = b /\ \A k \in 1 .. n : f[k] = h[k][f[k - 1]]

LEMMA LoopExists ==
  ASSUME NEW n \in Nat, NEW R, NEW b \in R, NEW h \in [1 .. n -> [R -> R]]
  PROVE  \E f \in [0 .. n -> R] : Iterates(f, n, b, h)
<1> DEFINE Loop(f, m) ==
             f[0] = b /\ \A k \in 1 .. m : f[k] = h[k][f[k - 1]]
           T == {m \in 0 .. n : ~\E f \in [0 .. m -> R] : Loop(f, m)}
<1>1. T = {}
  <2> SUFFICES ASSUME T # {} PROVE FALSE
    OBVIOUS
  <2>1. PICK m \in T : \A y \in T : m <= y
    <3>1. T \subseteq Nat
      OBVIOUS
    <3> QED BY <3>1, LeastNat
  <2>2. CASE m = 0
    <3>1. [k \in 0 .. 0 |-> b] \in [0 .. 0 -> R]
      OBVIOUS
    <3>2. Loop([k \in 0 .. 0 |-> b], 0)
      OBVIOUS
    <3> QED BY <2>2, <3>1, <3>2
  <2>3. CASE m # 0
    <3>1. m - 1 \in 0 .. n /\ m - 1 \notin T /\ m \in 1 .. n
      <4>1. m \in 0 .. n
        OBVIOUS
      <4> HIDE DEF T
      <4> QED BY <2>1, <2>3, <4>1
    <3>2. PICK f \in [0 .. m - 1 -> R] : Loop(f, m - 1)
      BY <3>1
    <3> DEFINE g == [k \in 0 .. m |->
                       IF k = m THEN h[m][f[m - 1]] ELSE f[k]]
    <3>3. f[m - 1] \in R /\ h[m][f[m - 1]] \in R
      BY <3>1, <3>2
    <3>4. g \in [0 .. m -> R]
      BY <3>1, <3>2, <3>3
    <3>5. Loop(g, m)
      <4>1. g[0] = b
        BY <2>3, <3>1, <3>2
      <4>2. ASSUME NEW k \in 1 .. m PROVE g[k] = h[k][g[k - 1]]
        <5>1. g[k - 1] = f[k - 1]
          BY <3>1
        <5>2. k # m => k \in 1 .. m - 1 /\ g[k] = f[k]
          BY <3>1
        <5> QED BY <3>1, <3>2, <5>1, <5>2
      <4> QED BY <4>1, <4>2
    <3> QED BY <2>1, <3>4, <3>5
  <2> QED BY <2>2, <2>3
<1>2. \E f \in [0 .. n -> R] : Loop(f, n)
  BY <1>1
<1> QED BY <1>2 DEF Iterates

\* What every round keeps is so after the last.
LEMMA LoopType ==
  ASSUME NEW n \in Nat, NEW R, NEW f, f[0] \in R,
         \A k \in 1 .. n : f[k - 1] \in R => f[k] \in R
  PROVE  f[n] \in R
<1> DEFINE T == {k \in 0 .. n : f[k] \notin R}
<1> SUFFICES ASSUME T # {} PROVE FALSE
  OBVIOUS
<1>1. PICK m \in T : \A y \in T : m <= y
  <2>1. T \subseteq Nat
    OBVIOUS
  <2> QED BY <2>1, LeastNat
<1>2. m # 0 /\ m \in 1 .. n
  BY <1>1
<1>3. m - 1 \in 0 .. n /\ m - 1 \notin T
  BY <1>1, <1>2
<1> QED BY <1>1, <1>2, <1>3

LEMMA TimesNat == \A a, b \in Nat : a * b \in Nat
OBVIOUS

\* What content_length::decode and chunk_size::decode leave in their target
\* fits it, whatever they read.
LEMMA DecodeType ==
  ASSUME NEW s \in Seq(Symbols), NEW charset, charset \subseteq HexDigits,
         NEW base \in Nat, NEW max \in Nat
  PROVE  /\ Decode(s, charset, base, max).out \in 0 .. max
         /\ Decode(s, charset, base, max).res \in {"ok", "invalid", "overflow"}
<1> DEFINE z == SubSeq(s, LeadingZeros(s) + 1, Len(s))
           n == Len(z)
           Res == {"ok", "invalid", "overflow"}
           R == [res : Res, weight : Nat, out : 0 .. max]
           first == [res |-> "ok", weight |-> 1, out |-> 0]
           Round(p, k) ==
             LET c == z[n - k + 1]
                 v == DigitValue[c] * p.weight
             IN CASE p.res # "ok" -> p
                  [] c \notin charset -> [p EXCEPT !.res = "invalid"]
                  [] \/ max \div p.weight < DigitValue[c]
                     \/ max - v < p.out
                     \/ (k < n /\ max \div base < p.weight) ->
                       [p EXCEPT !.res = "overflow"]
                  [] OTHER -> [res |-> "ok", weight |-> p.weight * base,
                               out |-> p.out + v]
           Rounds(f) ==
             f = [k \in 0 .. n |-> IF k = 0 THEN first ELSE Round(f[k - 1], k)]
           last == CHOOSE f : Rounds(f)
<1>1. n \in Nat
  <2>1. Len(s) \in Nat /\ LeadingZeros(s) \in Nat
    BY MatchType DEF LeadingZeros
  <2>2. \A i \in LeadingZeros(s) + 1 .. Len(s) : s[i] \in Symbols
    BY <2>1, ElementOfSeq
  <2> QED BY <2>1, <2>2, SubSeqProperties
<1>2. ASSUME NEW p \in R, NEW k \in 1 .. n PROVE Round(p, k) \in R
  <2> DEFINE c == z[n - k + 1]
             v == DigitValue[c] * p.weight
  <2>1. CASE p.res # "ok" \/ c \notin charset
    BY <2>1
  <2>2. CASE p.res = "ok" /\ c \in charset
    <3>1. v \in Nat /\ p.weight * base \in Nat
      <4>1. \A d \in HexDigits : DigitValue[d] \in Nat
        BY DEF DigitValue, HexDigits, Digits
      <4>2. c \in HexDigits /\ p.weight \in Nat
        BY <2>2
      <4> HIDE DEF c
      <4> QED BY <4>1, <4>2, TimesNat
    <3>2. \/ Round(p, k) = [p EXCEPT !.res = "overflow"]
          \/ /\ ~(max - v < p.out)
             /\ Round(p, k) = [res |-> "ok", weight |-> p.weight * base,
                               out |-> p.out + v]
      BY <2>2
    <3>3. ~(max - v < p.out) => p.out + v \in 0 .. max
      <4> HIDE DEF v
      <4> QED BY <3>1
    <3>4. [p EXCEPT !.res = "overflow"] \in R
      OBVIOUS
    <3>5. ASSUME NEW out \in 0 .. max
          PROVE  [res |-> "ok", weight |-> p.weight * base, out |-> out] \in R
      BY <3>1
    <3> HIDE DEF Round, v, R
    <3> QED BY <3>2, <3>3, <3>4, <3>5
  <2> QED BY <2>1, <2>2
<1>3. first \in R
  OBVIOUS
<1> HIDE DEF n, z, Round, R, first
<1>4. Rounds(last)
  <2> DEFINE h == [k \in 1 .. n |-> [p \in R |-> Round(p, k)]]
  <2>1. h \in [1 .. n -> [R -> R]]
    BY <1>2
  <2>2. PICK f \in [0 .. n -> R] : Iterates(f, n, first, h)
    <3> HIDE DEF h, Rounds, last
    <3> QED BY <1>1, <1>3, <2>1, LoopExists
  <2>3. ASSUME NEW k \in 1 .. n PROVE f[k] = Round(f[k - 1], k)
    <3>1. f[k - 1] \in R
      BY <1>1
    <3> QED BY <2>2, <3>1 DEF Iterates
  <2>4. Rounds(f)
    BY <2>2, <2>3 DEF Iterates
  <2> HIDE DEF Rounds
  <2> QED BY <2>4
<1>5. last[n] \in R
  <2> HIDE DEF last
  <2>1. last[0] = first
    BY <1>1, <1>4
  <2>2. \A k \in 1 .. n : last[k] = Round(last[k - 1], k)
    BY <1>1, <1>4
  <2>3. \A k \in 1 .. n : last[k - 1] \in R => last[k] \in R
    BY <1>2, <2>2
  <2> QED BY <1>1, <1>3, <2>1, <2>3, LoopType
<1>6. last[n].out \in 0 .. max /\ last[n].res \in Res
  BY <1>5 DEF R
<1>7. Decode(s, charset, base, max) =
        IF s = <<>> THEN Decoded("invalid", 0)
        ELSE Decoded(last[n].res, last[n].out)
  BY DEF Decode, n, z, Round, first
<1> QED BY <1>6, <1>7 DEF Decoded

-----------------------------------------------------------------------------
(* One call of next() *)

\* The token lies in the buffer.
InBuffer == idx + token_size <= Len(ibuffer)

Codes == TokenKinds \cup Errors \cup {More}

HeadStates == {"METHOD", "SP_AFTER_METHOD", "REQUEST_TARGET",
  "STATIC_STR_AFTER_TARGET", "VERSION", "CRLF_AFTER_VERSION", "FIELD_NAME",
  "COLON", "OWS_AFTER_COLON", "FIELD_VALUE", "CRLF_AFTER_FIELD_VALUE",
  "CRLF_AFTER_HEADERS"}

BodyStates == {"BODY", "END_OF_BODY", "CHUNK_SIZE", "CHUNK_EXT",
  "CRLF_AFTER_CHUNK_EXT", "CHUNK_DATA", "CRLF_AFTER_CHUNK_DATA"}

EndStates == {"END_OF_MESSAGE", "TRAILER_NAME", "TRAILER_COLON",
  "OWS_AFTER_TRAILER_COLON", "TRAILER_VALUE", "CRLF_AFTER_TRAILER_VALUE",
  "CRLF_AFTER_TRAILERS"}

\* What a call may report, and where it may leave the parser: the head ends
\* once, then the body, then the message.
Moves(kind, s) ==
  \/ kind \in Errors /\ s = "ERRORED"
  \/ kind = "end_of_headers" /\ state \in HeadStates /\ s \in BodyStates
  \/ kind = "end_of_body" /\ state \in BodyStates /\ s \in EndStates
  \/ kind = "end_of_message" /\ state \in EndStates /\ s = "METHOD"
  \/ /\ kind \in {"skip", "method", "request_target", "version",
                  "field_name", "field_value", More}
     /\ state \in HeadStates /\ s \in HeadStates
  \/ /\ kind \in {"skip", "body_chunk", More}
     /\ state \in BodyStates /\ s \in BodyStates
  \/ /\ kind \in {"skip", "field_name", "field_value", More}
     /\ state \in EndStates /\ s \in EndStates

Step == \E kind, s : \E n \in 0 .. Len(rest) :
          Found(kind, n, s) /\ Moves(kind, s)

\* Where the parser is in the buffer.
LEMMA BufferPlace ==
  ASSUME TokenTypeOK, InBuffer
  PROVE  /\ start \in 0 .. Len(ibuffer)
         /\ Len(rest) = Len(ibuffer) - start
         /\ rest \in Seq(Symbols)
         /\ partial \in 0 .. Len(rest)
<1> USE DEF TokenTypeOK
<1>1. start \in 0 .. Len(ibuffer)
  BY DEF start, InBuffer
<1>2. \A i \in start + 1 .. Len(ibuffer) : ibuffer[i] \in Symbols
  BY <1>1, ElementOfSeq
<1>3. /\ rest \in Seq(Symbols)
      /\ Len(rest) = IF start + 1 <= Len(ibuffer)
                     THEN Len(ibuffer) - (start + 1) + 1 ELSE 0
  BY <1>1, <1>2, SubSeqProperties DEF rest
<1>4. Len(rest) = Len(ibuffer) - start
  BY <1>1, <1>3
<1>5. partial \in 0 .. Len(rest)
  BY <1>1, <1>4 DEF partial, start, InBuffer
<1> QED BY <1>1, <1>3, <1>4, <1>5

LEMMA Place ==
  ASSUME ParserTypeOK, InBuffer
  PROVE  /\ start \in 0 .. Len(ibuffer)
         /\ Len(rest) = Len(ibuffer) - start
         /\ rest \in Seq(Symbols)
         /\ partial \in 0 .. Len(rest)
BY BufferPlace DEF ParserTypeOK

LEMMA BufferMatch ==
  ASSUME TokenTypeOK, InBuffer, NEW class
  PROVE  Match(class, rest) \in 0 .. Len(rest)
BY BufferPlace, MatchType

LEMMA RestMatch ==
  ASSUME ParserTypeOK, InBuffer, NEW class
  PROVE  Match(class, rest) \in 0 .. Len(rest)
BY BufferMatch DEF ParserTypeOK

\* A step keeps the token in the buffer.
LEMMA StepKeeps ==
  ASSUME ParserTypeOK, InBuffer, Step
  PROVE  /\ code' \in Codes
         /\ state' \in States
         /\ idx' \in Nat /\ token_size' \in Nat
         /\ ibuffer' = ibuffer
         /\ InBuffer'
<1>1. PICK kind, s : \E n \in 0 .. Len(rest) :
        Found(kind, n, s) /\ Moves(kind, s)
  BY DEF Step
<1>2. PICK n \in 0 .. Len(rest) : Found(kind, n, s) /\ Moves(kind, s)
  BY <1>1
<1>3. start \in 0 .. Len(ibuffer) /\ Len(rest) = Len(ibuffer) - start
      /\ Len(ibuffer) \in Nat
  BY Place DEF ParserTypeOK, TokenTypeOK
<1>4. kind \in Codes
  BY <1>2 DEF Moves, Codes, TokenKinds
<1>5. s \in States
  BY <1>2 DEF Moves, States, HeadStates, BodyStates, EndStates
<1>6. /\ code' = kind /\ token_size' = n /\ state' = s /\ idx' = start
      /\ ibuffer' = ibuffer
  BY <1>2 DEF Found
<1>7. idx' + token_size' <= Len(ibuffer')
  BY <1>3, <1>6
<1> QED BY <1>3, <1>4, <1>5, <1>6, <1>7 DEF InBuffer

-----------------------------------------------------------------------------
(* Every rule is such a step *)

LEMMA StarvedStep ==
  ASSUME ParserTypeOK, InBuffer, Starved
  PROVE  Step
<1>1. state \in HeadStates \cup BodyStates \cup EndStates
  BY DEF Starved, ParserTypeOK, States, Sooner, HeadStates, BodyStates,
         EndStates
<1>2. Found(More, partial, state) /\ partial \in 0 .. Len(rest)
  BY Place DEF Starved, Await
<1> QED BY <1>1, <1>2 DEF Step, Moves

LEMMA RequestLineStep ==
  ASSUME ParserTypeOK, InBuffer, RequestLine
  PROVE  Step
<1> USE DEF Step, Moves, HeadStates, Errors, Fail, Await, At
<1>0. partial \in 0 .. Len(rest) /\ Len(rest) \in Nat /\ rest \in Seq(Symbols)
  BY Place
<1>1. CASE ExpectMethod
  BY <1>0, <1>1, RestMatch DEF ExpectMethod
<1>2. CASE ExpectSpAfterMethod
  BY <1>0, <1>2 DEF ExpectSpAfterMethod, Single
<1>3. CASE ExpectRequestTarget
  BY <1>0, <1>3, RestMatch DEF ExpectRequestTarget
<1>4. CASE ExpectStaticStr
  BY <1>0, <1>4 DEF ExpectStaticStr, StaticStr, IsPrefix
<1>5. CASE ExpectVersion
  BY <1>0, <1>5 DEF ExpectVersion, Single
<1>6. CASE ExpectCrlfAfterVersion
  BY <1>0, <1>6 DEF ExpectCrlfAfterVersion, LineEnd, LiberalCrlf
<1> QED BY <1>1, <1>2, <1>3, <1>4, <1>5, <1>6 DEF RequestLine

\* A colon and the white space after it.
LEMMA BufferColon ==
  ASSUME TokenTypeOK, InBuffer, rest # <<>>
  PROVE  1 + Match(ows, Tail(rest)) \in 0 .. Len(rest)
<1>1. rest \in Seq(Symbols) /\ Len(rest) \in Nat
  BY BufferPlace
<1>2. Len(Tail(rest)) = Len(rest) - 1 /\ Len(rest) # 0
  BY <1>1, HeadTailProperties, EmptySeq
<1>3. Len(Tail(rest)) \in Nat
  BY <1>1, <1>2
<1>4. Match(ows, Tail(rest)) \in 0 .. Len(Tail(rest))
  BY <1>3, MatchType
<1> QED BY <1>1, <1>2, <1>4

LEMMA ColonPlace ==
  ASSUME ParserTypeOK, InBuffer, rest # <<>>
  PROVE  1 + Match(ows, Tail(rest)) \in 0 .. Len(rest)
BY BufferColon DEF ParserTypeOK

LEMMA BufferLineEnd ==
  ASSUME TokenTypeOK, InBuffer, rest # <<>>
  PROVE  /\ 1 \in 0 .. Len(rest)
         /\ LiberalCrlf(rest) = "crlf" => 2 \in 0 .. Len(rest)
         /\ LiberalCrlf(rest)
              \in {"crlf", "lf", "insufficient_data", "invalid_data"}
<1>1. rest \in Seq(Symbols) /\ Len(rest) \in Nat
  BY BufferPlace
<1> QED BY <1>1, EmptySeq DEF LiberalCrlf

LEMMA LineEndPlace ==
  ASSUME ParserTypeOK, InBuffer, rest # <<>>
  PROVE  /\ 1 \in 0 .. Len(rest)
         /\ LiberalCrlf(rest) = "crlf" => 2 \in 0 .. Len(rest)
         /\ LiberalCrlf(rest)
              \in {"crlf", "lf", "insufficient_data", "invalid_data"}
BY BufferLineEnd DEF ParserTypeOK

\* The number in a field value, or in a chunk size.
LEMMA BufferNumber ==
  ASSUME TokenTypeOK, InBuffer, NEW n \in 0 .. Len(rest)
  PROVE  /\ LET d == ContentLength(decode_field_value(ibuffer, start, n), MaxSize)
            IN /\ d.out \in 0 .. MaxSize
               /\ d.res \in {"ok", "invalid", "overflow"}
         /\ ChunkSize(SubSeq(rest, 1, n), MaxSize).out \in 0 .. MaxSize
<1>1. SubSeq(rest, 1, n) \in Seq(Symbols)
  <2>1. rest \in Seq(Symbols) /\ Len(rest) \in Nat
    BY BufferPlace
  <2>2. \A i \in 1 .. n : rest[i] \in Symbols
    BY <2>1, ElementOfSeq
  <2> QED BY <2>1, <2>2, SubSeqProperties
<1>2. decode_field_value(ibuffer, start, n) \in Seq(Symbols)
  <2>1. /\ ibuffer \in Seq(Symbols) /\ start \in Nat /\ n \in Nat
        /\ start + n <= Len(ibuffer)
    BY BufferPlace DEF TokenTypeOK
  <2>2. \A j \in start + 1 .. start + n : ibuffer[j] \in Symbols
    BY <2>1, ElementOfSeq
  <2> QED BY <2>1, <2>2, FieldValueType
<1>3. Digits \subseteq HexDigits /\ MaxSize \in Nat
  BY MaxSizeAssumption DEF HexDigits
<1> QED BY <1>1, <1>2, <1>3, DecodeType DEF ContentLength, ChunkSize

LEMMA ValueType ==
  ASSUME ParserTypeOK, InBuffer, NEW n \in 0 .. Len(rest)
  PROVE  /\ LET d == ContentLength(decode_field_value(ibuffer, start, n), MaxSize)
            IN /\ d.out \in 0 .. MaxSize
               /\ d.res \in {"ok", "invalid", "overflow"}
         /\ ChunkSize(SubSeq(rest, 1, n), MaxSize).out \in 0 .. MaxSize
BY BufferNumber DEF ParserTypeOK

LEMMA HeaderFieldsStep ==
  ASSUME ParserTypeOK, InBuffer, HeaderFields
  PROVE  Step
<1> USE DEF Step, Moves, HeadStates, Errors, Fail, Await, At
<1>0. partial \in 0 .. Len(rest) /\ Len(rest) \in Nat /\ rest \in Seq(Symbols)
  BY Place
<1>1. CASE ExpectFieldName
  BY <1>0, <1>1, RestMatch
  DEF ExpectFieldName, HostName, TransferEncodingName, ContentLengthName
<1>2. CASE ExpectColon
  BY <1>0, <1>2, ColonPlace DEF ExpectColon, Colon
<1>3. CASE ExpectOwsAfterColon
  BY <1>0, <1>3, RestMatch DEF ExpectOwsAfterColon, MoreOws
<1>4. CASE ExpectFieldValue
  <2> DEFINE n == Match(field_value_char, rest)
             Ended(kind, s) == Found(kind, n, s) /\ Moves(kind, s)
  <2>1. n \in 0 .. Len(rest) /\ state \in HeadStates
    BY <1>4, RestMatch DEF ExpectFieldValue, BeginsAt
  <2>2. \/ Ended(More, "FIELD_VALUE") \/ Found(More, partial, "FIELD_VALUE")
        \/ Ended("field_value", "CRLF_AFTER_FIELD_VALUE")
        \/ \E error \in Errors : Ended(error, "ERRORED")
    <3> HIDE DEF n
    <3>1. CASE body_type = "READING_CONTENT_LENGTH"
      <4> DEFINE field == decode_field_value(ibuffer, start, n)
      <4>1. ContentLength(field, MaxSize).res
              \in {"ok", "invalid", "overflow"}
        BY <2>1, ValueType
      <4> HIDE DEF field
      <4>2. \/ n = Len(rest) /\ Await(partial, "FIELD_VALUE")
            \/ LengthValue(n, field)
        BY <1>4, <3>1 DEF ExpectFieldValue, n, field
      <4> QED BY <2>1, <4>1, <4>2 DEF LengthValue
    <3>2. CASE body_type # "READING_CONTENT_LENGTH"
      BY <1>4, <2>1, <3>2 DEF ExpectFieldValue, EncodingValue, n
    <3> QED BY <3>1, <3>2
  <2> QED BY <1>0, <2>1, <2>2
<1>5. CASE ExpectCrlfAfterFieldValue
  BY <1>0, <1>5 DEF ExpectCrlfAfterFieldValue, LineEnd, LiberalCrlf
<1>6. CASE ExpectCrlfAfterHeaders
  <2>1. AfterHeaders \in BodyStates
    BY DEF AfterHeaders, BodyStates
  <2>2. HeadRefusal # "none" => HeadRefusal \in Errors
    BY DEF HeadRefusal
  <2>3. state \in HeadStates /\ rest # <<>>
    BY <1>6 DEF ExpectCrlfAfterHeaders, EmptyLine
  <2> QED
    BY <1>0, <1>6, <2>1, <2>2, <2>3, LineEndPlace
    DEF ExpectCrlfAfterHeaders, EmptyLine
<1> QED BY <1>1, <1>2, <1>3, <1>4, <1>5, <1>6 DEF HeaderFields

LEMMA BodyStep ==
  ASSUME ParserTypeOK, InBuffer, Body
  PROVE  Step
<1> USE DEF Step, Moves, BodyStates, Errors, Fail, Await, At
<1>0. partial \in 0 .. Len(rest) /\ Len(rest) \in Nat /\ rest \in Seq(Symbols)
  BY Place
<1>1. Available \in 0 .. Len(rest)
  BY <1>0 DEF Available, ParserTypeOK, TokenTypeOK
<1>2. CASE ExpectBody
  BY <1>0, <1>1, <1>2 DEF ExpectBody, Data
<1>3. CASE ExpectEndOfBody
  BY <1>0, <1>3 DEF ExpectEndOfBody, EndStates
<1>4. CASE ExpectEndOfMessage
  BY <1>0, <1>4 DEF ExpectEndOfMessage, EndStates
<1>5. CASE ExpectChunkSize
  BY <1>0, <1>5, RestMatch DEF ExpectChunkSize
<1>6. CASE ExpectChunkExt
  BY <1>0, <1>6, RestMatch DEF ExpectChunkExt
<1>7. CASE ExpectCrlfAfterChunkExt
  BY <1>0, <1>7 DEF ExpectCrlfAfterChunkExt, StrictEnd, EndStates
<1>8. CASE ExpectChunkData
  BY <1>0, <1>1, <1>8 DEF ExpectChunkData, Data
<1>9. CASE ExpectCrlfAfterChunkData
  BY <1>0, <1>9 DEF ExpectCrlfAfterChunkData, StrictEnd
<1> QED BY <1>2, <1>3, <1>4, <1>5, <1>6, <1>7, <1>8, <1>9 DEF Body

LEMMA TrailersStep ==
  ASSUME ParserTypeOK, InBuffer, Trailers
  PROVE  Step
<1> USE DEF Step, Moves, EndStates, Errors, Fail, Await, At
<1>0. partial \in 0 .. Len(rest) /\ Len(rest) \in Nat /\ rest \in Seq(Symbols)
  BY Place
<1>1. CASE ExpectTrailerName
  BY <1>0, <1>1, RestMatch DEF ExpectTrailerName
<1>2. CASE ExpectTrailerColon
  BY <1>0, <1>2, ColonPlace DEF ExpectTrailerColon, Colon
<1>3. CASE ExpectOwsAfterTrailerColon
  BY <1>0, <1>3, RestMatch DEF ExpectOwsAfterTrailerColon, MoreOws
<1>4. CASE ExpectTrailerValue
  BY <1>0, <1>4, RestMatch DEF ExpectTrailerValue, BeginsAt
<1>5. CASE ExpectCrlfAfterTrailerValue
  BY <1>0, <1>5 DEF ExpectCrlfAfterTrailerValue, StrictEnd
<1>6. CASE ExpectCrlfAfterTrailers
  BY <1>0, <1>6 DEF ExpectCrlfAfterTrailers, StrictEnd
<1> QED BY <1>1, <1>2, <1>3, <1>4, <1>5, <1>6 DEF Trailers

LEMMA NextIsStep ==
  ASSUME ParserTypeOK, InBuffer, next
  PROVE  Step
BY StarvedStep, RequestLineStep, HeaderFieldsStep, BodyStep, TrailersStep
DEF next

-----------------------------------------------------------------------------
(* The variables keep their types *)

LEMMA HeadTypes ==
  ASSUME ParserTypeOK, InBuffer, RequestLine \/ HeaderFields
  PROVE  /\ body_size' \in 0 .. MaxSize
         /\ body_type' \in BodyTypes
         /\ version' \in {"HTTP_1_0", "HOST_NOT_READ", "HOST_READ"}
<1> USE DEF ParserTypeOK, TokenTypeOK, KeepAll, KeepBody
<1>1. CASE RequestLine
  BY <1>1
  DEF RequestLine, ExpectMethod, ExpectSpAfterMethod, ExpectRequestTarget,
      ExpectStaticStr, ExpectVersion, ExpectCrlfAfterVersion
<1>2. CASE ExpectFieldName
  BY <1>2
  DEF ExpectFieldName, HostName, TransferEncodingName, ContentLengthName,
      BodyTypes
<1>3. CASE ExpectFieldValue
  <2> DEFINE n == Match(field_value_char, rest)
             field == decode_field_value(ibuffer, start, n)
  <2>1. ContentLength(field, MaxSize).out \in 0 .. MaxSize
    BY RestMatch, ValueType
  <2>2. UNCHANGED version
    BY <1>3 DEF ExpectFieldValue
  <2>3. KeepBody \/ LengthValue(n, field) \/ EncodingValue(n, field)
    BY <1>3 DEF ExpectFieldValue
  <2> HIDE DEF field, n
  <2> QED BY <2>1, <2>2, <2>3 DEF LengthValue, EncodingValue, BodyTypes
<1>4. CASE ExpectColon \/ ExpectOwsAfterColon \/ ExpectCrlfAfterFieldValue
           \/ ExpectCrlfAfterHeaders
  BY <1>4 DEF ExpectColon, ExpectOwsAfterColon, ExpectCrlfAfterFieldValue,
              ExpectCrlfAfterHeaders
<1> QED BY <1>1, <1>2, <1>3, <1>4 DEF HeaderFields

LEMMA BodyAndTrailersTypes ==
  ASSUME ParserTypeOK, InBuffer, Body \/ Trailers
  PROVE  /\ body_size' \in 0 .. MaxSize
         /\ body_type' \in BodyTypes
         /\ version' \in {"HTTP_1_0", "HOST_NOT_READ", "HOST_READ"}
<1> USE DEF ParserTypeOK, TokenTypeOK, KeepAll, KeepBody
<1>1. CASE ExpectBody \/ ExpectChunkData
  <2>1. Available \in 0 .. body_size
    BY Place DEF Available
  <2>2. body_size' = body_size - Available
        /\ UNCHANGED <<body_type, version>>
    BY <1>1 DEF ExpectBody, ExpectChunkData, Data
  <2>3. MaxSize \in Nat
    BY MaxSizeAssumption
  <2> QED BY <2>1, <2>2, <2>3
<1>2. CASE ExpectChunkSize
  <2> DEFINE n == Match(HexDigits, rest)
             d == ChunkSize(SubSeq(rest, 1, n), MaxSize)
  <2>1. d.out \in 0 .. MaxSize
    BY RestMatch, ValueType
  <2>2. /\ UNCHANGED body_size \/ body_size' = d.out
        /\ UNCHANGED <<body_type, version>>
    BY <1>2 DEF ExpectChunkSize
  <2> HIDE DEF d
  <2> QED BY <2>1, <2>2
<1>3. CASE ExpectEndOfBody \/ ExpectEndOfMessage \/ ExpectChunkExt
           \/ ExpectCrlfAfterChunkExt \/ ExpectCrlfAfterChunkData
  BY <1>3
  DEF ExpectEndOfBody, ExpectEndOfMessage, ExpectChunkExt,
      ExpectCrlfAfterChunkExt, ExpectCrlfAfterChunkData, BodyTypes
<1>4. CASE Trailers
  BY <1>4
  DEF Trailers, ExpectTrailerName, ExpectTrailerColon,
      ExpectOwsAfterTrailerColon, ExpectTrailerValue,
      ExpectCrlfAfterTrailerValue, ExpectCrlfAfterTrailers, BodyTypes
<1> QED BY <1>1, <1>2, <1>3, <1>4 DEF Body

LEMMA NextKeepsType ==
  ASSUME ParserTypeOK, InBuffer, next
  PROVE  ParserTypeOK' /\ InBuffer'
<1>1. /\ code' \in Codes /\ state' \in States
      /\ idx' \in Nat /\ token_size' \in Nat
      /\ ibuffer' = ibuffer /\ InBuffer'
  BY NextIsStep, StepKeeps
<1>2. /\ body_size' \in 0 .. MaxSize
      /\ body_type' \in BodyTypes
      /\ version' \in {"HTTP_1_0", "HOST_NOT_READ", "HOST_READ"}
  <2>1. CASE Starved
    BY <2>1 DEF Starved, KeepAll, KeepBody, ParserTypeOK, TokenTypeOK
  <2> QED BY <2>1, HeadTypes, BodyAndTrailersTypes DEF next
<1> QED BY <1>1, <1>2 DEF ParserTypeOK, TokenTypeOK, Codes

\* With no symbol left it asks for more, unless a token needs none.
LEMMA NothingLeft ==
  ASSUME ParserTypeOK, next, rest = <<>>, state \notin Sooner
  PROVE  code' = More /\ state' = state
<1> USE DEF At, Sooner
<1>1. ~RequestLine
  BY DEF RequestLine, ExpectMethod, ExpectSpAfterMethod, Single, StaticStr,
         ExpectRequestTarget, ExpectStaticStr, ExpectVersion, LineEnd,
         ExpectCrlfAfterVersion
<1>2. ~HeaderFields
  BY DEF HeaderFields, ExpectFieldName, ExpectColon, Colon, MoreOws, LineEnd,
         ExpectOwsAfterColon, ExpectFieldValue, BeginsAt, EmptyLine,
         ExpectCrlfAfterFieldValue, ExpectCrlfAfterHeaders
<1>3. ~Body
  BY DEF Body, ExpectBody, Data, ExpectEndOfBody, ExpectEndOfMessage,
         ExpectChunkSize, ExpectChunkExt, ExpectCrlfAfterChunkExt,
         ExpectChunkData, ExpectCrlfAfterChunkData
<1>4. ~Trailers
  BY DEF Trailers, ExpectTrailerName, ExpectTrailerColon, Colon, MoreOws,
         ExpectOwsAfterTrailerColon, ExpectTrailerValue, BeginsAt,
         ExpectCrlfAfterTrailerValue, ExpectCrlfAfterTrailers
<1>5. Starved
  BY <1>1, <1>2, <1>3, <1>4 DEF next
<1> QED BY <1>5 DEF Starved, Await, Found

-----------------------------------------------------------------------------
(* The tokens of a field *)

\* The token found is all there is of a class, and what ends it is there.
Reads(class) ==
  /\ token_size' = Match(class, rest) /\ token_size' < Len(rest)
  /\ idx' = start /\ ibuffer' = ibuffer

LEMMA NoFieldToken ==
  ASSUME Starved \/ RequestLine \/ Body, ParserTypeOK
  PROVE  code' \notin {"field_name", "field_value"}
<1> USE DEF Found, Fail, Await, Errors, More
<1>1. CASE Starved
  BY <1>1 DEF Starved
<1>2. CASE RequestLine
  BY <1>2
  DEF RequestLine, ExpectMethod, ExpectSpAfterMethod, Single, StaticStr,
      ExpectRequestTarget, ExpectStaticStr, ExpectVersion, LineEnd,
      ExpectCrlfAfterVersion
<1>3. CASE Body
  BY <1>3
  DEF Body, ExpectBody, ExpectEndOfBody, ExpectEndOfMessage, ExpectChunkSize,
      ExpectChunkExt, ExpectCrlfAfterChunkExt, ExpectChunkData,
      ExpectCrlfAfterChunkData, Data, StrictEnd
<1> QED BY <1>1, <1>2, <1>3

\* A name is made of the characters of names, a value of those of values.
LEMMA FieldTokens ==
  ASSUME ParserTypeOK, InBuffer, next
  PROVE  /\ code' = "field_name" => Reads(tchar)
         /\ code' = "field_value" => Reads(field_value_char)
<1>1. CASE Starved \/ RequestLine \/ Body
  BY <1>1, NoFieldToken
<1> USE DEF Fail, Await, Errors, More
<1>2. CASE ExpectFieldName \/ ExpectTrailerName
  BY <1>2, RestMatch, Place
  DEF ExpectFieldName, HostName, TransferEncodingName, ContentLengthName,
      ExpectTrailerName, Found, Reads
<1>3. CASE ExpectFieldValue
  <2> DEFINE n == Match(field_value_char, rest)
             field == decode_field_value(ibuffer, start, n)
  <2>1. n \in 0 .. Len(rest) /\ Len(rest) \in Nat
    BY RestMatch, Place
  <2>2. ContentLength(field, MaxSize).res \in {"ok", "invalid", "overflow"}
    <3> HIDE DEF n
    <3> QED BY <2>1, ValueType
  <2>3. \/ n = Len(rest) /\ Await(partial, "FIELD_VALUE")
        \/ /\ n < Len(rest)
           /\ \/ LengthValue(n, field) \/ EncodingValue(n, field)
              \/ Found("field_value", n, "CRLF_AFTER_FIELD_VALUE")
    BY <1>3 DEF ExpectFieldValue
  <2> HIDE DEF field
  <2>4. \/ code' \notin {"field_name", "field_value"}
        \/ n < Len(rest) /\ Found("field_value", n, "CRLF_AFTER_FIELD_VALUE")
    <3> HIDE DEF n
    <3>1. LengthValue(n, field) =>
            \/ \E error \in Errors : Found(error, n, "ERRORED")
            \/ Found("field_value", n, "CRLF_AFTER_FIELD_VALUE")
      BY <2>2 DEF LengthValue
    <3>2. EncodingValue(n, field) =>
            \/ \E error \in Errors : Found(error, n, "ERRORED")
            \/ Found("field_value", n, "CRLF_AFTER_FIELD_VALUE")
      BY DEF EncodingValue
    <3> QED BY <2>3, <3>1, <3>2 DEF Found
  <2> QED BY <2>4 DEF Found, Reads
<1>4. CASE ExpectTrailerValue
  BY <1>4, RestMatch, Place DEF ExpectTrailerValue, Found, Reads
<1>5. CASE ExpectColon \/ ExpectOwsAfterColon \/ ExpectTrailerColon
           \/ ExpectOwsAfterTrailerColon
  BY <1>5 DEF ExpectColon, ExpectOwsAfterColon, ExpectTrailerColon,
              ExpectOwsAfterTrailerColon, Colon, MoreOws, Found
<1>6. CASE ExpectCrlfAfterFieldValue \/ ExpectCrlfAfterHeaders
  <2>1. rest # <<>>
    BY <1>6 DEF ExpectCrlfAfterFieldValue, ExpectCrlfAfterHeaders, LineEnd,
                EmptyLine, At
  <2>2. HeadRefusal # "none" => HeadRefusal \in Errors
    BY DEF HeadRefusal
  <2> QED BY <1>6, <2>1, <2>2, LineEndPlace
          DEF ExpectCrlfAfterFieldValue, ExpectCrlfAfterHeaders, LineEnd,
              EmptyLine, Found
<1>7. CASE ExpectCrlfAfterTrailerValue \/ ExpectCrlfAfterTrailers
  BY <1>7 DEF ExpectCrlfAfterTrailerValue, ExpectCrlfAfterTrailers, StrictEnd,
              Found
<1> QED BY <1>1, <1>2, <1>3, <1>4, <1>5, <1>6, <1>7
        DEF next, HeaderFields, Trailers

\* A field whose name was found and whose value is to come.
ValueStates == {"COLON", "OWS_AFTER_COLON", "FIELD_VALUE", "TRAILER_COLON",
                "OWS_AFTER_TRAILER_COLON", "TRAILER_VALUE"}

\* Only a name leads to a value, and each value follows a name of its own.
NameFirst ==
  /\ code' = "field_value" => state \in ValueStates
  /\ state' \in ValueStates /\ code' # "field_name" =>
       state \in ValueStates /\ code' # "field_value"

LEMMA ValueFollowsName ==
  ASSUME ParserTypeOK, InBuffer, next
  PROVE  NameFirst
<1> USE DEF Found, Fail, Await, Errors, More, ValueStates, NameFirst, At
<1>1. CASE Starved
  BY <1>1 DEF Starved
<1>2. CASE RequestLine
  BY <1>2
  DEF RequestLine, ExpectMethod, ExpectSpAfterMethod, Single, StaticStr,
      ExpectRequestTarget, ExpectStaticStr, ExpectVersion, LineEnd,
      ExpectCrlfAfterVersion
<1>3. CASE Body
  BY <1>3
  DEF Body, ExpectBody, ExpectEndOfBody, ExpectEndOfMessage, ExpectChunkSize,
      ExpectChunkExt, ExpectCrlfAfterChunkExt, ExpectChunkData,
      ExpectCrlfAfterChunkData, Data, StrictEnd
<1>4. CASE ExpectFieldName \/ ExpectTrailerName
  BY <1>4
  DEF ExpectFieldName, HostName, TransferEncodingName, ContentLengthName,
      ExpectTrailerName
<1>5. CASE ExpectFieldValue
  <2>1. state \in {"FIELD_VALUE", "OWS_AFTER_COLON"}
    BY <1>5 DEF ExpectFieldValue, BeginsAt
  <2> DEFINE n == Match(field_value_char, rest)
             field == decode_field_value(ibuffer, start, n)
  <2>2. n \in 0 .. Len(rest) /\ Len(rest) \in Nat
    BY RestMatch, Place
  <2>3. ContentLength(field, MaxSize).res \in {"ok", "invalid", "overflow"}
    <3> HIDE DEF n
    <3> QED BY <2>2, ValueType
  <2>4. \/ Await(partial, "FIELD_VALUE")
        \/ LengthValue(n, field) \/ EncodingValue(n, field)
        \/ Found("field_value", n, "CRLF_AFTER_FIELD_VALUE")
    BY <1>5 DEF ExpectFieldValue
  <2> HIDE DEF n, field
  <2>5. LengthValue(n, field) \/ EncodingValue(n, field) =>
          state' \notin ValueStates
    BY <2>3 DEF LengthValue, EncodingValue
  <2>6. state' \in ValueStates => code' = More
    BY <2>4, <2>5
  <2> QED BY <2>1, <2>6
<1>6. CASE ExpectTrailerValue
  BY <1>6 DEF ExpectTrailerValue, BeginsAt
<1>7. CASE ExpectColon \/ ExpectOwsAfterColon \/ ExpectTrailerColon
           \/ ExpectOwsAfterTrailerColon
  BY <1>7 DEF ExpectColon, ExpectOwsAfterColon, ExpectTrailerColon,
              ExpectOwsAfterTrailerColon, Colon, MoreOws
<1>8. CASE ExpectCrlfAfterFieldValue \/ ExpectCrlfAfterHeaders
  <2>1. HeadRefusal # "none" => HeadRefusal \in Errors
    BY DEF HeadRefusal
  <2>2. AfterHeaders \notin ValueStates
    BY DEF AfterHeaders
  <2>3. rest # <<>>
    BY <1>8 DEF ExpectCrlfAfterFieldValue, ExpectCrlfAfterHeaders, LineEnd,
                EmptyLine
  <2> QED BY <1>8, <2>1, <2>2, <2>3, LineEndPlace
          DEF ExpectCrlfAfterFieldValue, ExpectCrlfAfterHeaders, LineEnd,
              EmptyLine
<1>9. CASE ExpectCrlfAfterTrailerValue \/ ExpectCrlfAfterTrailers
  BY <1>9 DEF ExpectCrlfAfterTrailerValue, ExpectCrlfAfterTrailers, StrictEnd
<1> QED BY <1>1, <1>2, <1>3, <1>4, <1>5, <1>6, <1>7, <1>8, <1>9
        DEF next, HeaderFields, Trailers
=============================================================================
