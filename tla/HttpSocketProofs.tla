-------------------------- MODULE HttpSocketProofs --------------------------
(***************************************************************************)
(* What holds of the server socket for every buffer size and every stream  *)
(* of requests: what it keeps of a read lies in its buffer, nothing of the *)
(* stream is lost or read twice, the application is given fields, and      *)
(* replies are written one after the other, each to a request that was     *)
(* read.                                                                   *)
(***************************************************************************)
EXTENDS HttpSocket, RequestReaderProofs, FiniteSetTheorems

-----------------------------------------------------------------------------
(* Sequences *)

LEMMA DropType ==
  ASSUME NEW S, NEW s \in Seq(S), NEW n \in 0 .. Len(s)
  PROVE  /\ Drop(s, n) \in Seq(S)
         /\ Len(Drop(s, n)) = Len(s) - n
         /\ \A i \in 1 .. Len(s) - n : Drop(s, n)[i] = s[n + i]
<1>1. \A i \in n + 1 .. Len(s) : s[i] \in S
  BY ElementOfSeq
<1>2. /\ Drop(s, n) \in Seq(S)
      /\ Len(Drop(s, n)) = IF n + 1 <= Len(s) THEN Len(s) - (n + 1) + 1 ELSE 0
      /\ \A i \in 1 .. Len(s) - (n + 1) + 1 : Drop(s, n)[i] = s[n + 1 + i - 1]
  BY <1>1, SubSeqProperties DEF Drop
<1> QED BY <1>2

\* A part of a sequence.
LEMMA PartType ==
  ASSUME NEW S, NEW s \in Seq(S), NEW b \in Nat, NEW n \in Nat,
         b + n <= Len(s)
  PROVE  /\ SubSeq(s, b + 1, b + n) \in Seq(S)
         /\ Len(SubSeq(s, b + 1, b + n)) = n
         /\ \A i \in 1 .. n : SubSeq(s, b + 1, b + n)[i] = s[b + i]
<1>1. \A i \in b + 1 .. b + n : s[i] \in S
  BY ElementOfSeq
<1>2. b + 1 \in Int /\ b + n \in Int
  OBVIOUS
<1>3. /\ SubSeq(s, b + 1, b + n) \in Seq(S)
      /\ Len(SubSeq(s, b + 1, b + n)) =
           IF b + 1 <= b + n THEN b + n - (b + 1) + 1 ELSE 0
      /\ \A i \in 1 .. b + n - (b + 1) + 1 :
           SubSeq(s, b + 1, b + n)[i] = s[b + 1 + i - 1]
  BY <1>1, <1>2, SubSeqProperties
<1> QED BY <1>3

-----------------------------------------------------------------------------
(* The buffer *)

Running == pc \in {"parsing", "ended", "parsed"}

\* A name that waits for its value is kept before what is to be parsed.
Kept == IF expecting_field THEN field_name_size ELSE 0

\* Everything the socket knows by its place is in the buffer: what has been
\* parsed, the name of a field, and the token the parser has begun, also
\* after the buffer was compacted.
PlaceInv ==
  /\ ParserTypeOK /\ InBuffer
  /\ size \in Nat /\ Len(buffer) <= size
  /\ buffer \in Seq(Symbols) /\ coming \in Seq(Symbols)
  /\ nparsed \in Nat /\ field_name_begin \in Nat /\ field_name_size \in Nat
  /\ expecting_field \in BOOLEAN
  /\ pc \in {"idle", "reading", "parsing", "ended", "parsed", "over"}
  /\ field_name_begin + field_name_size <= size
  /\ Running => nparsed <= Len(buffer)
  /\ Running /\ code \notin Errors => Len(rest) <= Len(buffer) - nparsed
  /\ Running /\ expecting_field =>
       field_name_begin + field_name_size <= nparsed
  /\ pc = "parsing" => code \notin Errors
  /\ pc = "ended" => code = "end_of_message" /\ token_size <= nparsed
  /\ pc \in {"idle", "reading"} =>
       code = More /\ Kept + token_size <= Len(buffer)

LEMMA PlaceInit == Init => PlaceInv
<1> SUFFICES ASSUME Init PROVE PlaceInv
  OBVIOUS
<1>1. ParserTypeOK /\ InBuffer
  BY MaxSizeAssumption, EmptySeq
  DEF Init, ParserInit, TokenInit, ParserTypeOK, TokenTypeOK, States,
      BodyTypes, InBuffer
<1>2. size \in Nat /\ coming \in Seq(Symbols)
  BY SocketAssumption DEF Init
<1>3. /\ buffer = <<>> /\ nparsed = 0 /\ field_name_begin = 0
      /\ field_name_size = 0 /\ expecting_field = FALSE /\ pc = "idle"
      /\ code = More /\ token_size = 0
  BY DEF Init, ParserInit, TokenInit
<1>4. buffer \in Seq(Symbols) /\ Len(buffer) = 0
  BY <1>3, EmptySeq
<1>5. ~expecting_field /\ expecting_field \in BOOLEAN
  BY <1>3
<1>6. Kept + token_size <= Len(buffer) /\ Len(buffer) <= size
  BY <1>2, <1>3, <1>4, <1>5 DEF Kept
<1>7. field_name_begin + field_name_size <= size
  BY <1>2, <1>3
<1> QED BY <1>1, <1>2, <1>3, <1>4, <1>5, <1>6, <1>7 DEF PlaceInv, Running

\* Parsing begins after the name that is kept, where the parser was.
LEMMA OnReadPlace ==
  ASSUME PlaceInv, pc \in {"idle", "reading"},
         NEW b \in Seq(Symbols), Len(buffer) <= Len(b), Len(b) <= size,
         OnRead(b), coming' \in Seq(Symbols), size' = size
  PROVE  PlaceInv'
<1> USE DEF OnRead, set_buffer
<1>1. /\ Kept \in 0 .. Len(b) /\ Kept + token_size <= Len(b)
      /\ field_name_size <= size /\ token_size \in Nat /\ code = More
  BY DEF PlaceInv, Kept, ParserTypeOK, TokenTypeOK
<1>2. ibuffer' = IF expecting_field THEN Drop(b, field_name_size) ELSE b
  OBVIOUS
<1>3. ibuffer' \in Seq(Symbols) /\ Len(ibuffer') = Len(b) - Kept
  <2>1. CASE expecting_field
    BY <1>1, <1>2, <2>1, DropType DEF Kept
  <2>2. CASE ~expecting_field
    <3>1. Len(b) \in Nat /\ Len(b) - 0 = Len(b)
      OBVIOUS
    <3> QED BY <1>2, <2>2, <3>1 DEF Kept
  <2> QED BY <2>1, <2>2
<1>4. idx' = 0 /\ UNCHANGED <<state, body_type, body_size, code, token_size,
                              version>>
  OBVIOUS
<1>5. ParserTypeOK' /\ InBuffer'
  BY <1>1, <1>3, <1>4 DEF PlaceInv, ParserTypeOK, TokenTypeOK, InBuffer
<1>6. Len(rest)' = Len(b) - Kept
  <2>1. start' = 0
    BY <1>1, <1>4 DEF start
  <2>2. rest' = Drop(ibuffer', 0)
    BY <2>1 DEF rest, Drop
  <2>3. 0 \in 0 .. Len(ibuffer')
    BY <1>1, <1>3
  <2> QED BY <1>3, <2>2, <2>3, DropType
<1>7. /\ buffer' = b /\ nparsed' = Kept /\ field_name_begin' = 0
      /\ pc' = "parsing" /\ UNCHANGED <<field_name_size, expecting_field>>
  BY DEF Kept
<1>8. code' \notin Errors
  BY <1>1, <1>4 DEF Errors, More
<1> QED
  <2>1. Len(b) \in Nat /\ size \in Nat /\ field_name_size \in Nat
        /\ expecting_field \in BOOLEAN
    BY DEF PlaceInv
  <2> HIDE DEF OnRead, set_buffer
  <2> QED BY <1>1, <1>5, <1>6, <1>7, <1>8, <2>1 DEF PlaceInv, Running, Kept

LEMMA SchedulePlace ==
  ASSUME PlaceInv, pc = "idle", NEW t, Schedule(t),
         UNCHANGED <<size, coming>>
  PROVE  PlaceInv'
<1>1. CASE OnRead(buffer)
  <2>1. buffer \in Seq(Symbols) /\ Len(buffer) <= Len(buffer)
        /\ Len(buffer) <= size /\ coming' \in Seq(Symbols)
    BY DEF PlaceInv
  <2> QED BY <1>1, <2>1, OnReadPlace
<1>2. CASE pc' = "reading"
           /\ UNCHANGED <<parserVars, buffer, nparsed, fieldVars, flags>>
  BY <1>2
  DEF PlaceInv, Running, Kept, parserVars, tokenVars, fieldVars, ParserTypeOK,
      TokenTypeOK, InBuffer
<1> QED BY <1>1, <1>2 DEF Schedule

LEMMA ArrivePlace ==
  ASSUME PlaceInv, NEW n \in 1 .. Len(coming), Arrive(n)
  PROVE  PlaceInv'
<1> DEFINE piece == SubSeq(coming, 1, n)
           b == buffer \o piece
<1>1. coming \in Seq(Symbols) /\ buffer \in Seq(Symbols) /\ size \in Nat
      /\ Len(buffer) \in Nat
  BY DEF PlaceInv
<1>2. piece \in Seq(Symbols) /\ Len(piece) = n
  BY <1>1, PartType
<1>3. b \in Seq(Symbols) /\ Len(b) = Len(buffer) + n
  <2> HIDE DEF piece
  <2> QED BY <1>1, <1>2, ConcatProperties
<1>4. n <= size - Len(buffer) /\ size' = size
  BY DEF Arrive, Space, fixed
<1>5. coming' \in Seq(Symbols)
  BY <1>1, DropType DEF Arrive
<1>6. Len(buffer) <= Len(b) /\ Len(b) <= size
  <2> HIDE DEF b
  <2> QED BY <1>1, <1>3, <1>4
<1>7. OnRead(b) /\ pc = "reading"
  BY DEF Arrive
<1> HIDE DEF b
<1> QED BY <1>3, <1>4, <1>5, <1>6, <1>7, OnReadPlace

LEMMA ReadFailsPlace ==
  ASSUME PlaceInv, NEW error, ReadFails(error)
  PROVE  PlaceInv'
<1>1. buffer' = <<>> /\ buffer' \in Seq(Symbols) /\ Len(buffer') = 0
  BY EmptySeq DEF ReadFails, clear_buffer
<1>2. ParserTypeOK' /\ InBuffer'
  BY EmptySeq
  DEF PlaceInv, ReadFails, clear_buffer, reset, ParserTypeOK, TokenTypeOK,
      InBuffer, States, BodyTypes
<1>3. /\ pc' = "over" /\ expecting_field' \in BOOLEAN
      /\ UNCHANGED <<size, nparsed, field_name_begin, field_name_size, coming>>
  BY DEF ReadFails, clear_buffer, fixed
<1>4. size \in Nat /\ 0 <= size
  BY DEF PlaceInv
<1>5. Len(buffer)' <= size'
  BY <1>1, <1>3, <1>4
<1>6. ~Running'
  BY <1>3 DEF Running
<1> QED BY <1>1, <1>2, <1>3, <1>5, <1>6 DEF PlaceInv

LEMMA KeepPlace ==
  ASSUME PlaceInv,
         UNCHANGED <<parserVars, size, buffer, nparsed, fieldVars, pc, coming>>
  PROVE  PlaceInv'
<1> USE DEF parserVars, tokenVars, fieldVars
<1>1. ParserTypeOK' /\ InBuffer'
  BY DEF PlaceInv, ParserTypeOK, TokenTypeOK, InBuffer
<1>2. rest' = rest /\ Kept' = Kept /\ Running' = Running
  BY DEF rest, start, Kept, Running
<1> QED BY <1>1, <1>2 DEF PlaceInv

\* What the last call left is what the next begins with.
LEMMA StopPlace ==
  ASSUME PlaceInv, StopAtTheEnd
  PROVE  PlaceInv'
<1> DEFINE b == SubSeq(buffer, nparsed - token_size + 1, nparsed)
<1>1. /\ token_size \in Nat /\ nparsed \in Nat /\ token_size <= nparsed
      /\ nparsed <= Len(buffer) /\ buffer \in Seq(Symbols)
      /\ code = "end_of_message"
  BY DEF PlaceInv, ParserTypeOK, TokenTypeOK, StopAtTheEnd, Running
<1>2. b \in Seq(Symbols) /\ Len(b) = token_size
  <2>1. nparsed - token_size \in Nat
    BY <1>1
  <2>2. nparsed - token_size + token_size = nparsed
    BY <1>1
  <2> QED BY <1>1, <2>1, <2>2, PartType
<1>3. /\ ibuffer' = b /\ idx' = 0 /\ pc' = "parsing"
      /\ UNCHANGED <<state, body_type, body_size, code, token_size, version,
                     size, buffer, nparsed, field_name_begin, field_name_size,
                     expecting_field, coming>>
  BY DEF StopAtTheEnd, set_buffer, fixed, readVars, fieldVars
<1> HIDE DEF b
<1>4. ParserTypeOK' /\ InBuffer'
  BY <1>1, <1>2, <1>3 DEF PlaceInv, ParserTypeOK, TokenTypeOK, InBuffer
<1>5. Len(rest)' = 0
  <2>1. start' = token_size
    BY <1>1, <1>3 DEF start, More
  <2>2. rest' = Drop(b, token_size)
    BY <1>3, <2>1 DEF rest, Drop
  <2>3. token_size \in 0 .. Len(b)
    BY <1>1, <1>2
  <2>4. Len(Drop(b, token_size)) = Len(b) - token_size
    BY <1>2, <2>3, DropType
  <2>5. Len(rest') = token_size - token_size
    BY <1>2, <2>2, <2>4
  <2> QED BY <1>1, <2>5
<1>6. code \notin Errors
  BY <1>1 DEF Errors
<1>7. pc = "ended"
  BY DEF StopAtTheEnd
<1>8. Len(rest)' <= Len(buffer) - nparsed
  BY <1>1, <1>5
<1> QED BY <1>3, <1>4, <1>6, <1>7, <1>8 DEF PlaceInv, Running, Kept

\* A token is taken from what is left.
LEMMA TokenPlace ==
  ASSUME PlaceInv, NextToken
  PROVE  PlaceInv'
<1>1. pc = "parsing" /\ next /\ code \notin Errors
  BY DEF NextToken, PlaceInv
<1>2. /\ ParserTypeOK /\ InBuffer
      /\ nparsed \in Nat /\ size \in Nat /\ Len(buffer) \in Nat
      /\ Len(rest) <= Len(buffer) - nparsed
  BY <1>1 DEF PlaceInv, Running
<1>3. ParserTypeOK' /\ InBuffer'
  BY <1>1, <1>2, NextKeepsType
<1>4. PICK n \in 0 .. Len(rest) : \E kind, s : Found(kind, n, s)
  BY <1>1, <1>2, NextIsStep DEF Step
<1>5. token_size' = n /\ idx' = start /\ ibuffer' = ibuffer
  BY <1>4 DEF Found
<1>6. start \in 0 .. Len(ibuffer) /\ Len(rest) = Len(ibuffer) - start
      /\ ibuffer \in Seq(Symbols) /\ Len(ibuffer) \in Nat
  BY <1>2, Place DEF ParserTypeOK, TokenTypeOK
<1>7. code' \notin {More} \cup Errors => Len(rest') = Len(rest) - n
  <2> SUFFICES ASSUME code' # More PROVE Len(rest') = Len(rest) - n
    OBVIOUS
  <2>1. start' = start + n
    BY <1>5 DEF start
  <2>2. rest' = Drop(ibuffer, start + n)
    BY <1>5, <2>1 DEF rest, Drop
  <2>3. start + n \in 0 .. Len(ibuffer)
    BY <1>4, <1>6
  <2>4. Len(rest') = Len(ibuffer) - (start + n)
    BY <1>6, <2>2, <2>3, DropType
  <2> QED BY <1>4, <1>6, <2>4
<1>8. code' = More => Len(rest') = Len(rest)
  <2> SUFFICES ASSUME code' = More PROVE Len(rest') = Len(rest)
    OBVIOUS
  <2>1. start' = start
    BY <1>5 DEF start
  <2>2. rest' = rest
    BY <1>5, <2>1 DEF rest
  <2> QED BY <2>2
<1>9. /\ nparsed' = IF code' \in {More} \cup Errors THEN nparsed
                    ELSE nparsed + n
      /\ UNCHANGED <<size, buffer, coming>>
      /\ pc' = CASE code' \in {More} \cup Errors -> "parsed"
                 [] code' = "end_of_message" -> "ended"
                 [] OTHER -> "parsing"
  BY <1>5 DEF NextToken, fixed
<1>10. /\ nparsed' \in Nat /\ nparsed' <= Len(buffer)
       /\ code' \notin Errors => Len(rest') <= Len(buffer) - nparsed'
       /\ nparsed <= nparsed'
       /\ code' \notin {More} \cup Errors => n <= nparsed'
  BY <1>2, <1>4, <1>7, <1>8, <1>9
<1>11. pc' \in {"parsing", "ended", "parsed"}
       /\ (pc' = "parsing" => code' \notin Errors)
       /\ (pc' = "ended" => code' = "end_of_message"
                            /\ code' \notin {More} \cup Errors)
  <2>1. "end_of_message" \notin {More} \cup Errors
    BY DEF More, Errors
  <2> DEFINE stop == code' \in {More} \cup Errors
  <2>2. pc' = CASE stop -> "parsed" [] code' = "end_of_message" -> "ended"
                [] OTHER -> "parsing"
    BY <1>9
  <2>3. code' \in Errors => stop
    OBVIOUS
  <2> HIDE DEF stop
  <2>4. (stop /\ pc' = "parsed")
        \/ (~stop /\ code' = "end_of_message" /\ pc' = "ended")
        \/ (~stop /\ pc' = "parsing")
    BY <2>1, <2>2 DEF stop
  <2> QED BY <2>3, <2>4 DEF stop
<1>12. /\ field_name_begin' \in Nat /\ field_name_size' \in Nat
       /\ expecting_field' \in BOOLEAN
       /\ field_name_begin' + field_name_size' <= size
       /\ expecting_field' => field_name_begin' + field_name_size' <= nparsed'
  <2> DEFINE FieldsInv ==
        /\ field_name_begin \in Nat /\ field_name_size \in Nat
        /\ expecting_field \in BOOLEAN
        /\ field_name_begin + field_name_size <= size
        /\ expecting_field => field_name_begin + field_name_size <= nparsed
  <2>1. FieldsInv /\ Len(buffer) <= size
    BY <1>1 DEF PlaceInv, Running
  <2>2. CASE FieldNameToken
    <3>1. /\ code' = "field_name" /\ field_name_begin' = nparsed
          /\ field_name_size' = n /\ expecting_field' = TRUE
      BY <1>5, <2>2 DEF FieldNameToken
    <3>2. nparsed' = nparsed + n
      BY <1>9, <3>1 DEF More, Errors
    <3> QED BY <1>2, <1>4, <1>10, <2>1, <3>1, <3>2
  <2>3. CASE FieldValueToken
    <3>1. ~expecting_field' /\ expecting_field' \in BOOLEAN
          /\ UNCHANGED <<field_name_begin, field_name_size>>
      BY <2>3 DEF FieldValueToken
    <3> QED BY <2>1, <3>1
  <2>4. CASE UNCHANGED <<field_name_begin, field_name_size, expecting_field>>
    <3> QED BY <1>2, <1>10, <2>1, <2>4
  <2>5. \/ FieldNameToken \/ FieldValueToken
        \/ UNCHANGED <<field_name_begin, field_name_size, expecting_field>>
    BY DEF NextToken, KeepReading, RequestLineToken, EndOfHeaders, BodyToken,
           EndOfMessage, KeepFields, fieldVars
  <2> QED BY <2>2, <2>3, <2>4, <2>5
<1> QED
  <2>1. /\ size \in Nat /\ Len(buffer) <= size
        /\ buffer \in Seq(Symbols) /\ coming \in Seq(Symbols)
    BY DEF PlaceInv
  <2>2. pc' \notin {"idle", "reading"}
    BY <1>11
  <2> QED BY <1>3, <1>5, <1>9, <1>10, <1>11, <1>12, <2>1, <2>2
          DEF PlaceInv, Running

\* A name that waits for its value is put before what is left.
LEMMA EndPlace ==
  ASSUME PlaceInv, EndOfRead
  PROVE  PlaceInv'
<1>1. /\ pc = "parsed" /\ code = More /\ Running /\ code \notin Errors
      /\ buffer' = Compacted /\ nparsed' = 0
      /\ pc' \in {"idle", "reading", "over"}
      /\ UNCHANGED <<parserVars, size, field_name_begin, field_name_size,
                     expecting_field, coming>>
  BY DEF EndOfRead, fixed, fieldVars, Running, More, Errors
<1>2. /\ ParserTypeOK /\ InBuffer
      /\ nparsed \in Nat /\ size \in Nat /\ buffer \in Seq(Symbols)
      /\ Len(buffer) \in Nat /\ Len(buffer) <= size /\ nparsed <= Len(buffer)
      /\ Len(rest) <= Len(buffer) - nparsed
      /\ field_name_begin \in Nat /\ field_name_size \in Nat
      /\ expecting_field => field_name_begin + field_name_size <= nparsed
  BY <1>1 DEF PlaceInv
<1>3. token_size \in Nat /\ token_size <= Len(rest)
  <2>1. partial \in 0 .. Len(rest)
    BY <1>2, Place
  <2> QED BY <1>1, <2>1 DEF partial
<1> DEFINE left == Drop(buffer, nparsed)
<1>4. left \in Seq(Symbols) /\ Len(left) = Len(buffer) - nparsed
  BY <1>2, DropType
<1>5. /\ buffer' \in Seq(Symbols) /\ Len(buffer') \in Nat
      /\ Len(buffer') = Kept + (Len(buffer) - nparsed)
      /\ Kept \in Nat /\ Kept <= nparsed
  <2>1. CASE expecting_field
    <3>1. FieldName \in Seq(Symbols) /\ Len(FieldName) = field_name_size
      <4>1. field_name_begin + field_name_size <= Len(buffer)
        BY <1>2, <2>1
      <4> QED BY <1>2, <4>1, PartType DEF FieldName
    <3>2. buffer' = FieldName \o left
      BY <1>1, <2>1 DEF Compacted
    <3>3. buffer' \in Seq(Symbols)
          /\ Len(buffer') = Len(FieldName) + Len(left)
      <4> HIDE DEF left
      <4> QED BY <1>4, <3>1, <3>2, ConcatProperties
    <3>4. Kept = field_name_size
      BY <2>1 DEF Kept
    <3>5. field_name_size <= nparsed
      BY <1>2, <2>1
    <3> QED BY <1>2, <1>4, <3>1, <3>3, <3>4, <3>5
  <2>2. CASE ~expecting_field
    <3>1. buffer' = left /\ Kept = 0
      BY <1>1, <2>2 DEF Compacted, Kept
    <3> HIDE DEF left
    <3> QED BY <1>2, <1>4, <3>1
  <2> QED BY <2>1, <2>2
<1>6. Len(buffer') <= size /\ Kept + token_size <= Len(buffer')
  BY <1>2, <1>3, <1>5
<1>7. ParserTypeOK' /\ InBuffer' /\ Kept' = Kept
      /\ UNCHANGED <<code, token_size>>
  BY <1>1, <1>2
  DEF parserVars, tokenVars, ParserTypeOK, TokenTypeOK, InBuffer, Kept
<1>8. ~Running' /\ pc' \notin {"parsing", "ended"}
  BY <1>1 DEF Running
<1>9. /\ coming \in Seq(Symbols) /\ expecting_field \in BOOLEAN
      /\ field_name_begin + field_name_size <= size
  BY DEF PlaceInv
<1> QED BY <1>1, <1>2, <1>5, <1>6, <1>7, <1>8, <1>9 DEF PlaceInv

LEMMA WriteKeeps ==
  ASSUME Write
  PROVE  UNCHANGED <<parserVars, fixed, buffer, nparsed, fieldVars,
                     modern_http, flags, target, istate, msg, heads, whole,
                     pc, coming>>
<1> USE DEF OutOfOrder, Rejected, Finish, Written, readVars
<1>1. ASSUME NEW close, async_write_response(close)
      PROVE  UNCHANGED <<parserVars, fixed, buffer, nparsed, fieldVars,
                         modern_http, flags, target, istate, msg, heads, whole,
                         pc, coming>>
  BY <1>1 DEF async_write_response
<1>2. ASSUME NEW close, async_write_response_metadata(close)
      PROVE  UNCHANGED <<parserVars, fixed, buffer, nparsed, fieldVars,
                         modern_http, flags, target, istate, msg, heads, whole,
                         pc, coming>>
  BY <1>2 DEF async_write_response_metadata
<1>3. ASSUME NEW n, async_write(n)
      PROVE  UNCHANGED <<parserVars, fixed, buffer, nparsed, fieldVars,
                         modern_http, flags, target, istate, msg, heads, whole,
                         pc, coming>>
  BY <1>3 DEF async_write
<1>4. ASSUME NEW trailers, async_write_end(trailers)
      PROVE  UNCHANGED <<parserVars, fixed, buffer, nparsed, fieldVars,
                         modern_http, flags, target, istate, msg, heads, whole,
                         pc, coming>>
  BY <1>4 DEF async_write_end
<1>5. ASSUME async_write_response_continue
      PROVE  UNCHANGED <<parserVars, fixed, buffer, nparsed, fieldVars,
                         modern_http, flags, target, istate, msg, heads, whole,
                         pc, coming>>
  BY <1>5 DEF async_write_response_continue
<1> QED BY <1>1, <1>2, <1>3, <1>4, <1>5 DEF Write

LEMMA ReadPlace ==
  ASSUME PlaceInv, Read
  PROVE  PlaceInv'
<1> USE DEF Calls, ReadMore, fixed
<1>1. CASE async_read_request
  BY <1>1, SchedulePlace DEF async_read_request
<1>2. CASE async_read_some
  BY <1>2, SchedulePlace DEF async_read_some
<1>3. CASE async_read_trailers
  BY <1>3, SchedulePlace DEF async_read_trailers
<1>4. CASE Disconnect \/ ParsingError
  BY <1>4, ReadFailsPlace DEF Disconnect, ParsingError
<1>5. CASE \E n \in 1 .. Len(coming) : Arrive(n)
  BY <1>5, ArrivePlace
<1> QED BY <1>1, <1>2, <1>3, <1>4, <1>5, TokenPlace, StopPlace, EndPlace
        DEF Read

LEMMA NextPlace ==
  ASSUME PlaceInv, [Next]_vars
  PROVE  PlaceInv'
<1>1. CASE Write
  BY <1>1, WriteKeeps, KeepPlace DEF fixed
<1>2. CASE UNCHANGED vars
  BY <1>2, KeepPlace DEF vars, fixed, readVars
<1> QED BY <1>1, <1>2, ReadPlace DEF Next

-----------------------------------------------------------------------------
(* What a read waits for *)

\* read_state() says which part of a message the parser is in.
PhaseInv ==
  /\ istate \in {"empty", "message_ready", "body_ready"}
  /\ state = "ERRORED" => pc = "parsed" /\ code \in Errors
  /\ pc # "over" /\ state # "ERRORED" =>
       /\ istate = "empty" <=> state \in HeadStates
       /\ istate = "message_ready" <=> state \in BodyStates
       /\ istate = "body_ready" <=> state \in EndStates

\* While a handler runs, its flags say what it has come past: a new message
\* is begun only by a read of one, after the last reply, and once a message
\* has ended no more of the next one is parsed.
FlagsInv ==
  /\ istate = "empty" /\ "END" \notin flags =>
       target = "READY" /\ wstate = "finished" /\ "READY" \notin flags
  /\ "END" \in flags => istate = "empty"
  /\ "END" \in flags /\ pc = "parsing" => rest = <<>>
  /\ "END" \in flags \/ istate # "empty" =>
       (target = "READY" => "READY" \in flags)
  /\ pc = "ended" => "END" \in flags

ReadingInv ==
  /\ target = "READY" <=> istate = "empty"
  /\ target = "READY" => wstate = "finished"

HandlerInv ==
  /\ target \in Targets
  /\ Running => FlagsInv
  /\ pc = "reading" => ReadingInv

FlowInv == PlaceInv /\ PhaseInv /\ HandlerInv

LEMMA Parts ==
  /\ HeadStates \cap BodyStates = {} /\ HeadStates \cap EndStates = {}
  /\ BodyStates \cap EndStates = {}
  /\ HeadStates \cap Sooner = {}
  /\ "ERRORED" \notin HeadStates \cup BodyStates \cup EndStates
  /\ "METHOD" \in HeadStates
BY DEF HeadStates, BodyStates, EndStates, Sooner

LEMMA NextMoves ==
  ASSUME ParserTypeOK, InBuffer, next
  PROVE  Moves(code', state')
BY NextIsStep DEF Step, Found

LEMMA FlowInit == Init => FlowInv
<1> SUFFICES ASSUME Init PROVE FlowInv
  OBVIOUS
<1>1. PhaseInv
  BY Parts DEF Init, ParserInit, PhaseInv
<1>2. HandlerInv
  BY DEF Init, HandlerInv, Targets, Running
<1> QED BY <1>1, <1>2, PlaceInit DEF FlowInv

\* A call begins with nothing flagged.
LEMMA ScheduleFlow ==
  ASSUME FlowInv, pc = "idle", NEW t \in Targets, Schedule(t),
         istate' = istate, t = "READY" <=> istate = "empty",
         t = "READY" => wstate' = "finished"
  PROVE  PhaseInv' /\ HandlerInv'
<1>1. state' = state /\ code' = code /\ target' = t /\ state # "ERRORED"
      /\ pc' # "over"
  BY DEF FlowInv, PhaseInv, Schedule, OnRead, set_buffer, parserVars,
         tokenVars
<1>2. PhaseInv'
  BY <1>1 DEF FlowInv, PhaseInv
<1>3. CASE OnRead(buffer)
  <2>1. pc' = "parsing" /\ flags' = {}
    BY <1>3 DEF OnRead
  <2>2. FlagsInv'
    BY <1>1, <2>1 DEF FlagsInv
  <2> QED BY <1>1, <1>2, <2>1, <2>2 DEF HandlerInv
<1>4. CASE pc' = "reading"
  BY <1>1, <1>2, <1>4 DEF HandlerInv, ReadingInv, Running
<1> QED BY <1>3, <1>4 DEF Schedule

LEMMA ArriveFlow ==
  ASSUME FlowInv, NEW n, Arrive(n)
  PROVE  PhaseInv' /\ HandlerInv'
<1>1. /\ pc = "reading" /\ pc' = "parsing" /\ flags' = {}
      /\ UNCHANGED <<state, code, istate, wstate, target>>
  BY DEF Arrive, OnRead, set_buffer
<1>2. ReadingInv /\ target \in Targets
  BY <1>1 DEF FlowInv, HandlerInv
<1>3. FlagsInv'
  BY <1>1, <1>2 DEF FlagsInv, ReadingInv
<1> QED BY <1>1, <1>2, <1>3 DEF FlowInv, PhaseInv, HandlerInv

LEMMA ReadFailsFlow ==
  ASSUME FlowInv, NEW error, ReadFails(error)
  PROVE  PhaseInv' /\ HandlerInv'
<1>1. pc' = "over" /\ istate' = "empty" /\ state' = "METHOD"
      /\ target' = target
  BY DEF ReadFails, clear_buffer, reset
<1> QED BY <1>1 DEF FlowInv, PhaseInv, HandlerInv, Running

LEMMA KeepFlow ==
  ASSUME FlowInv, UNCHANGED <<parserVars, istate, flags, target, pc>>,
         wstate' = wstate \/ pc = "idle"
  PROVE  PhaseInv' /\ HandlerInv'
<1> USE DEF parserVars, tokenVars
<1>1. PhaseInv'
  BY DEF FlowInv, PhaseInv
<1>2. rest' = rest /\ pc' = pc /\ target' \in Targets
  BY DEF rest, start, FlowInv, HandlerInv
<1>3. CASE pc = "idle"
  BY <1>1, <1>2, <1>3 DEF HandlerInv, Running
<1>4. CASE wstate' = wstate
  <2>1. (FlagsInv => FlagsInv') /\ (ReadingInv => ReadingInv')
    BY <1>2, <1>4 DEF FlagsInv, ReadingInv
  <2> QED BY <1>1, <1>2, <2>1 DEF FlowInv, HandlerInv, Running
<1> QED BY <1>1, <1>3, <1>4

LEMMA StopFlow ==
  ASSUME FlowInv, StopAtTheEnd
  PROVE  PhaseInv' /\ HandlerInv'
<1> DEFINE b == SubSeq(buffer, nparsed - token_size + 1, nparsed)
<1>1. /\ pc = "ended" /\ pc' = "parsing" /\ code = "end_of_message"
      /\ ibuffer' = b /\ idx' = 0
      /\ UNCHANGED <<state, code, token_size, istate, flags, target, wstate>>
  BY DEF FlowInv, PlaceInv, StopAtTheEnd, set_buffer, readVars
<1>2. /\ token_size \in Nat /\ nparsed \in Nat /\ token_size <= nparsed
      /\ nparsed <= Len(buffer) /\ buffer \in Seq(Symbols)
  BY <1>1 DEF FlowInv, PlaceInv, ParserTypeOK, TokenTypeOK, Running
<1>3. b \in Seq(Symbols) /\ Len(b) = token_size
  <2>1. nparsed - token_size \in Nat
    BY <1>2
  <2>2. nparsed - token_size + token_size = nparsed
    BY <1>2
  <2> QED BY <1>2, <2>1, <2>2, PartType
<1> HIDE DEF b
<1>4. rest' = <<>>
  <2>1. start' = token_size
    BY <1>1, <1>2 DEF start, More
  <2>2. rest' = Drop(b, token_size)
    BY <1>1, <2>1 DEF rest, Drop
  <2>3. token_size \in 0 .. Len(b)
    BY <1>2, <1>3
  <2>4. Drop(b, token_size) \in Seq(Symbols)
        /\ Len(Drop(b, token_size)) = Len(b) - token_size
    BY <1>3, <2>3, DropType
  <2>5. Len(rest') = 0 /\ rest' \in Seq(Symbols)
    BY <1>2, <1>3, <2>2, <2>4
  <2> QED BY <2>5, EmptySeq
<1>5. FlagsInv /\ target \in Targets
  BY <1>1 DEF FlowInv, HandlerInv, Running
<1>6. FlagsInv'
  BY <1>1, <1>4, <1>5 DEF FlagsInv
<1>7. PhaseInv'
  BY <1>1 DEF FlowInv, PhaseInv
<1> QED BY <1>1, <1>5, <1>6, <1>7 DEF HandlerInv

\* A read that goes on waits for what has not come.
LEMMA EndFlow ==
  ASSUME FlowInv, EndOfRead
  PROVE  PhaseInv' /\ HandlerInv'
<1>1. /\ pc = "parsed" /\ code = More
      /\ UNCHANGED <<parserVars, flags, target, istate, wstate>>
      /\ pc' \in {"idle", "over"} \/ (pc' = "reading" /\ ~Complete)
  BY DEF EndOfRead
<1>2. FlagsInv /\ target \in Targets /\ state # "ERRORED"
      /\ istate \in {"empty", "message_ready", "body_ready"}
  BY <1>1 DEF FlowInv, HandlerInv, PhaseInv, Running, More, Errors
<1>3. PhaseInv'
  BY <1>1, <1>2 DEF FlowInv, PhaseInv, parserVars, tokenVars
<1>4. ~Complete => ReadingInv
  BY <1>2 DEF Complete, FlagsInv, ReadingInv, Targets
<1>5. ReadingInv => ReadingInv'
  BY <1>1 DEF ReadingInv
<1>6. target' \in Targets
  BY <1>1, <1>2
<1> QED BY <1>1, <1>3, <1>4, <1>5, <1>6 DEF HandlerInv, Running

\* A token moves read_state() with the parser.
LEMMA TokenFlow ==
  ASSUME FlowInv, NextToken
  PROVE  /\ PhaseInv' /\ HandlerInv'
         /\ code' = "end_of_headers" => wstate = "finished"
<1>1. pc = "parsing" /\ next /\ target' = target
  BY DEF NextToken
<1>2. /\ ParserTypeOK /\ InBuffer /\ target \in Targets /\ FlagsInv
      /\ state # "ERRORED"
      /\ istate \in {"empty", "message_ready", "body_ready"}
      /\ istate = "empty" <=> state \in HeadStates
      /\ istate = "message_ready" <=> state \in BodyStates
      /\ istate = "body_ready" <=> state \in EndStates
  BY <1>1 DEF FlowInv, PlaceInv, HandlerInv, PhaseInv, Running
<1>3. Moves(code', state')
  BY <1>1, <1>2, NextMoves
<1>4. "END" \in flags => code' = More
  <2> SUFFICES ASSUME "END" \in flags PROVE code' = More
    OBVIOUS
  <2>1. rest = <<>> /\ state \in HeadStates
    BY <1>1, <1>2 DEF FlagsInv
  <2>2. state \notin Sooner
    BY <2>1, Parts
  <2> QED BY <1>1, <1>2, <2>1, <2>2, NothingLeft
<1>5. pc' = CASE code' \in {More} \cup Errors -> "parsed"
              [] code' = "end_of_message" -> "ended"
              [] OTHER -> "parsing"
  BY DEF NextToken
<1>6. pc' \in {"parsing", "ended", "parsed"}
      /\ (code' \in {More} \cup Errors => pc' = "parsed")
      /\ (pc' = "ended" => code' = "end_of_message")
      /\ (code' = "end_of_message" => pc' = "ended")
  <2> DEFINE stop == code' \in {More} \cup Errors
  <2>1. code' = "end_of_message" => ~stop
    BY DEF More, Errors
  <2> HIDE DEF stop
  <2>2. pc' = CASE stop -> "parsed" [] code' = "end_of_message" -> "ended"
                [] OTHER -> "parsing"
    BY <1>5 DEF stop
  <2>3. pc' \in {"parsing", "ended", "parsed"} /\ (stop => pc' = "parsed")
        /\ (pc' = "ended" => code' = "end_of_message")
        /\ (code' = "end_of_message" => pc' = "ended")
    BY <2>1, <2>2
  <2> QED BY <2>3 DEF stop
<1>7. /\ code' \in Errors <=> state' = "ERRORED"
      /\ pc' # "over" /\ pc' # "reading"
  BY <1>2, <1>3, <1>6, Parts DEF Moves, Errors, More
<1>8. CASE /\ UNCHANGED <<istate, wstate, flags>>
           /\ code' \in {More, "skip", "method", "request_target", "version",
                         "field_name", "field_value"} \cup Errors
  <2>1. code' \notin Errors =>
          \/ state \in HeadStates /\ state' \in HeadStates
          \/ state \in BodyStates /\ state' \in BodyStates
          \/ state \in EndStates /\ state' \in EndStates
    BY <1>3, <1>8 DEF Moves, More
  <2>2. PhaseInv'
    BY <1>2, <1>6, <1>7, <1>8, <2>1, Parts DEF PhaseInv
  <2>3. code' # "end_of_message" /\ code' # "end_of_headers"
    BY <1>8 DEF More, Errors
  <2>4. FlagsInv'
    BY <1>1, <1>2, <1>4, <1>6, <1>8, <2>3 DEF FlagsInv
  <2> QED BY <1>1, <1>2, <1>7, <2>2, <2>3, <2>4 DEF HandlerInv
<1>9. CASE EndOfHeaders
  <2>1. /\ code' = "end_of_headers" /\ istate' = "message_ready"
        /\ wstate' = "empty" /\ flags' = flags \cup {"READY"}
    BY <1>9 DEF EndOfHeaders
  <2>2. state \in HeadStates /\ state' \in BodyStates /\ code' \notin Errors
        /\ code' # More /\ pc' # "ended"
    BY <1>3, <1>6, <2>1 DEF Moves, Errors, More
  <2>3. "END" \notin flags /\ istate = "empty" /\ wstate = "finished"
    BY <1>2, <1>4, <2>2 DEF FlagsInv
  <2>4. PhaseInv'
    BY <1>7, <2>1, <2>2, Parts DEF PhaseInv
  <2>5. FlagsInv'
    BY <2>1, <2>2, <2>3 DEF FlagsInv
  <2> QED BY <1>1, <1>2, <1>7, <2>3, <2>4, <2>5 DEF HandlerInv
<1>10. CASE BodyToken /\ code' = "body_chunk"
  <2>1. istate' = istate /\ wstate' = wstate /\ flags' = flags \cup {"DATA"}
    BY <1>10 DEF BodyToken
  <2>2. state \in BodyStates /\ state' \in BodyStates /\ code' \notin Errors
        /\ code' # More /\ pc' # "ended"
    BY <1>3, <1>6, <1>10 DEF Moves, Errors, More
  <2>3. "END" \notin flags /\ istate = "message_ready"
    BY <1>2, <1>4, <2>2
  <2>4. PhaseInv'
    BY <1>7, <2>1, <2>2, <2>3, Parts DEF PhaseInv
  <2>5. FlagsInv'
    BY <1>1, <1>2, <2>1, <2>2, <2>3 DEF FlagsInv
  <2> QED BY <1>1, <1>2, <1>7, <1>10, <2>4, <2>5 DEF HandlerInv
<1>11. CASE BodyToken /\ code' = "end_of_body"
  <2>1. istate' = "body_ready" /\ UNCHANGED <<wstate, flags>>
    BY <1>11 DEF BodyToken
  <2>2. state \in BodyStates /\ state' \in EndStates /\ code' \notin Errors
        /\ code' # More /\ pc' # "ended"
    BY <1>3, <1>6, <1>11 DEF Moves, Errors, More
  <2>3. "END" \notin flags /\ istate = "message_ready"
    BY <1>2, <1>4, <2>2
  <2>4. PhaseInv'
    BY <1>7, <2>1, <2>2, Parts DEF PhaseInv
  <2>5. FlagsInv'
    BY <1>1, <1>2, <2>1, <2>2, <2>3 DEF FlagsInv
  <2> QED BY <1>1, <1>2, <1>7, <1>11, <2>4, <2>5 DEF HandlerInv
<1>12. CASE EndOfMessage
  <2>1. /\ code' = "end_of_message" /\ istate' = "empty"
        /\ wstate' = wstate /\ flags' = flags \cup {"END"}
    BY <1>12 DEF EndOfMessage
  <2>2. state \in EndStates /\ state' \in HeadStates /\ code' \notin Errors
        /\ code' # More /\ pc' = "ended"
    BY <1>3, <1>6, <2>1, Parts DEF Moves, Errors, More
  <2>3. istate = "body_ready"
    BY <1>2, <2>2
  <2>4. PhaseInv'
    BY <1>7, <2>1, <2>2, Parts DEF PhaseInv
  <2>5. FlagsInv'
    BY <1>1, <1>2, <2>1, <2>2, <2>3 DEF FlagsInv
  <2> QED BY <1>1, <1>2, <1>7, <2>1, <2>4, <2>5 DEF HandlerInv
<1>13. \/ /\ UNCHANGED <<istate, wstate, flags>>
          /\ code' \in {More, "skip", "method", "request_target", "version",
                        "field_name", "field_value"} \cup Errors
       \/ EndOfHeaders \/ BodyToken \/ EndOfMessage
  BY DEF NextToken, KeepReading, RequestLineToken, FieldNameToken,
         FieldValueToken
<1>14. BodyToken => code' \in {"body_chunk", "end_of_body"}
  BY DEF BodyToken
<1> QED BY <1>8, <1>9, <1>10, <1>11, <1>12, <1>13, <1>14

LEMMA ReadFlow ==
  ASSUME FlowInv, Read
  PROVE  FlowInv'
<1> USE DEF Calls, ReadMore
<1>1. PlaceInv'
  BY ReadPlace DEF FlowInv
<1>2. CASE async_read_request
  <2>1. /\ pc = "idle" /\ istate = "empty" /\ istate' = istate
        /\ wstate' = "finished" /\ Schedule("READY") /\ "READY" \in Targets
    BY <1>2 DEF async_read_request, Targets
  <2> QED BY <1>1, <2>1, ScheduleFlow DEF FlowInv
<1>3. CASE async_read_some
  <2>1. /\ pc = "idle" /\ istate = "message_ready" /\ istate' = istate
        /\ Schedule("DATA") /\ "DATA" \in Targets
    BY <1>3 DEF async_read_some, Targets
  <2> QED BY <1>1, <2>1, ScheduleFlow DEF FlowInv
<1>4. CASE async_read_trailers
  <2>1. /\ pc = "idle" /\ istate = "body_ready" /\ istate' = istate
        /\ Schedule("END") /\ "END" \in Targets
    BY <1>4 DEF async_read_trailers, Targets
  <2> QED BY <1>1, <2>1, ScheduleFlow DEF FlowInv
<1>5. CASE Disconnect \/ ParsingError
  BY <1>1, <1>5, ReadFailsFlow DEF Disconnect, ParsingError, FlowInv
<1>6. CASE \E n \in 1 .. Len(coming) : Arrive(n)
  BY <1>1, <1>6, ArriveFlow DEF FlowInv
<1> QED BY <1>1, <1>2, <1>3, <1>4, <1>5, <1>6, TokenFlow, StopFlow, EndFlow
        DEF Read, FlowInv

LEMMA NextFlow ==
  ASSUME FlowInv, [Next]_vars
  PROVE  FlowInv'
<1>1. PlaceInv'
  BY NextPlace DEF FlowInv
<1>2. CASE Write
  <2>1. pc = "idle"
    BY <1>2
    DEF Write, async_write_response, async_write_response_continue,
        async_write_response_metadata, async_write, async_write_end, InOrder,
        OutOfOrder, Replies, Calls
  <2> QED BY <1>1, <1>2, <2>1, WriteKeeps, KeepFlow DEF FlowInv
<1>3. CASE UNCHANGED vars
  BY <1>1, <1>3, KeepFlow DEF vars, readVars, FlowInv
<1> QED BY <1>2, <1>3, ReadFlow DEF Next

-----------------------------------------------------------------------------
(* What is written *)

Items == {"continue", "response", "metadata", "chunk", "last chunk",
          "trailers", "close"}

\* After these a reply may begin.
Whole == {"none", "response", "last chunk", "trailers"}

Preceding(w, i) == IF i = 1 THEN "none" ELSE w[i - 1]

\* Whether the i-th item of w may follow the one before it.
Fits(w, i) ==
  LET before == Preceding(w, i)
  IN CASE w[i] = "continue" -> before \in Whole
       [] w[i] \in Opens -> before \in Whole \cup {"continue"}
       [] w[i] \in {"chunk", "last chunk"} ->
            \/ before \in {"metadata", "chunk"}
            \/ before = "close" /\ w[i - 2] = "metadata"
       [] w[i] = "trailers" -> before = "last chunk"
       [] w[i] = "close" -> before \in Opens

AllFit(w) == \A i \in DOMAIN w : Fits(w, i)

LastItem(w) == IF w = <<>> THEN "none" ELSE w[Len(w)]

\* Within a reply in chunks.
InChunks(w) ==
  \/ LastItem(w) \in {"metadata", "chunk"}
  \/ LastItem(w) = "close" /\ w[Len(w) - 1] = "metadata"

\* Whether x may be written next.
MayFollow(w, x) ==
  \/ x = "continue" /\ LastItem(w) \in Whole
  \/ x \in Opens /\ LastItem(w) \in Whole \cup {"continue"}
  \/ x \in {"chunk", "last chunk"} /\ InChunks(w)
  \/ x = "trailers" /\ LastItem(w) = "last chunk"
  \/ x = "close" /\ LastItem(w) \in Opens

LEMMA AppendType ==
  ASSUME NEW w \in Seq(Items), NEW x \in Items
  PROVE  /\ Append(w, x) \in Seq(Items)
         /\ Len(Append(w, x)) = Len(w) + 1
         /\ LastItem(Append(w, x)) = x
         /\ Append(w, x)[Len(w) + 1] = x
         /\ \A i \in 1 .. Len(w) : Append(w, x)[i] = w[i]
         /\ DOMAIN w = 1 .. Len(w)
         /\ DOMAIN Append(w, x) = 1 .. Len(w) + 1
<1>1. /\ Append(w, x) \in Seq(Items)
      /\ Len(Append(w, x)) = Len(w) + 1
      /\ Append(w, x)[Len(w) + 1] = x
      /\ \A i \in 1 .. Len(w) : Append(w, x)[i] = w[i]
      /\ DOMAIN w = 1 .. Len(w)
      /\ DOMAIN Append(w, x) = 1 .. Len(w) + 1
      /\ Len(w) \in Nat
  BY AppendProperties
<1>2. Append(w, x) # <<>>
  BY <1>1, EmptySeq
<1> QED BY <1>1, <1>2 DEF LastItem

LEMMA MayFit ==
  ASSUME NEW w, NEW x, MayFollow(w, x), NEW v, NEW k, v[k] = x,
         Preceding(v, k) = LastItem(w),
         LastItem(w) = "close" => v[k - 2] = w[Len(w) - 1]
  PROVE  Fits(v, k)
<1>1. CASE x = "continue" /\ LastItem(w) \in Whole
  BY <1>1 DEF Fits
<1>2. CASE x \in Opens /\ LastItem(w) \in Whole \cup {"continue"}
  BY <1>2 DEF Fits, Opens
<1>3. CASE x \in {"chunk", "last chunk"} /\ InChunks(w)
  BY <1>3 DEF Fits, Opens, InChunks
<1>4. CASE x = "trailers" /\ LastItem(w) = "last chunk"
  BY <1>4 DEF Fits, Opens
<1>5. CASE x = "close" /\ LastItem(w) \in Opens
  BY <1>5 DEF Fits, Opens
<1> QED BY <1>1, <1>2, <1>3, <1>4, <1>5 DEF MayFollow

LEMMA AppendFits ==
  ASSUME NEW w \in Seq(Items), AllFit(w), NEW x \in Items, MayFollow(w, x)
  PROVE  AllFit(Append(w, x))
<1> DEFINE v == Append(w, x)
           n == Len(w)
<1>1. /\ v[n + 1] = x /\ \A i \in 1 .. n : v[i] = w[i]
      /\ DOMAIN w = 1 .. n /\ DOMAIN v = 1 .. n + 1 /\ n \in Nat
  BY AppendType
<1>2. ASSUME NEW i \in 1 .. n PROVE Fits(v, i)
  <2>1. Fits(w, i) /\ v[i] = w[i]
    BY <1>1 DEF AllFit
  <2>2. Preceding(v, i) = Preceding(w, i)
    <3>1. i # 1 => i - 1 \in 1 .. n
      BY <1>1
    <3> HIDE DEF v, n
    <3> QED BY <1>1, <3>1 DEF Preceding
  <2>3. Preceding(w, i) = "close" => v[i - 2] = w[i - 2]
    <3> SUFFICES ASSUME Preceding(w, i) = "close", i - 2 \notin 1 .. n
                 PROVE  FALSE
      BY <1>1
    <3>1. i = 2 /\ w[1] = "close" /\ 1 \in 1 .. n
      BY <1>1 DEF Preceding
    <3>2. Fits(w, 1)
      BY <1>1, <3>1 DEF AllFit
    <3> QED BY <3>1, <3>2 DEF Fits, Preceding, Opens
  <2> HIDE DEF v, n
  <2> QED BY <2>1, <2>2, <2>3 DEF Fits
<1>3. Fits(v, n + 1)
  <2>1. Preceding(v, n + 1) = LastItem(w)
    <3>1. CASE n = 0
      <4>1. w = <<>>
        BY <3>1, EmptySeq
      <4> QED BY <3>1, <4>1 DEF Preceding, LastItem
    <3>2. CASE n # 0
      <4>1. n + 1 # 1 /\ n + 1 - 1 = n /\ n \in 1 .. n /\ w # <<>>
        BY <1>1, <3>2, EmptySeq
      <4>2. v[n] = w[n]
        BY <1>1, <4>1
      <4> HIDE DEF v
      <4> QED BY <4>1, <4>2 DEF Preceding, LastItem
    <3> QED BY <3>1, <3>2
  <2>2. LastItem(w) = "close" => v[n + 1 - 2] = w[n - 1]
    <3> SUFFICES ASSUME LastItem(w) = "close" PROVE v[n + 1 - 2] = w[n - 1]
      OBVIOUS
    <3>1. w # <<>> /\ w[n] = "close" /\ n # 0 /\ n \in 1 .. n
      BY <1>1, EmptySeq DEF LastItem
    <3>2. Fits(w, n)
      BY <1>1, <3>1 DEF AllFit
    <3>3. n # 1
      BY <3>1, <3>2 DEF Fits, Preceding, Opens
    <3>4. n - 1 \in 1 .. n /\ n + 1 - 2 = n - 1
      BY <1>1, <3>1, <3>3
    <3> QED BY <1>1, <3>4
  <2>3. v[n + 1] = x
    BY <1>1
  <2>4. LastItem(w) = "close" => v[n + 1 - 2] = w[Len(w) - 1]
    BY <2>2
  <2>5. PICK k \in Nat : k = n + 1
    BY <1>1
  <2> HIDE DEF v, n
  <2>6. v[k] = x /\ Preceding(v, k) = LastItem(w)
    BY <2>1, <2>3, <2>5
  <2>7. LastItem(w) = "close" => v[k - 2] = w[Len(w) - 1]
    <3>1. k - 2 = n + 1 - 2
      BY <1>1, <2>5
    <3> QED BY <2>4, <2>5, <3>1, Zenon
  <2>8. Fits(v, k)
    BY <2>6, <2>7, MayFit
  <2> QED BY <2>5, <2>8
<1>4. ASSUME NEW i \in 1 .. n + 1 PROVE Fits(v, i)
  BY <1>1, <1>2, <1>3
<1> QED BY <1>1, <1>4 DEF AllFit

CountIn(w, items) == Cardinality({i \in DOMAIN w : w[i] \in items})

LEMMA CountType ==
  ASSUME NEW w \in Seq(Items), NEW items
  PROVE  IsFiniteSet({i \in DOMAIN w : w[i] \in items})
         /\ CountIn(w, items) \in Nat
<1>1. DOMAIN w = 1 .. Len(w) /\ Len(w) \in Nat
  OBVIOUS
<1>2. IsFiniteSet(1 .. Len(w))
  BY <1>1, FS_Interval
<1>3. {i \in DOMAIN w : w[i] \in items} \subseteq 1 .. Len(w)
  BY <1>1
<1>4. IsFiniteSet({i \in DOMAIN w : w[i] \in items})
  BY <1>2, <1>3, FS_Subset
<1> QED BY <1>4, FS_CardinalityType DEF CountIn

LEMMA AppendCount ==
  ASSUME NEW w \in Seq(Items), NEW x \in Items, NEW items
  PROVE  CountIn(Append(w, x), items) =
           CountIn(w, items) + (IF x \in items THEN 1 ELSE 0)
<1> DEFINE v == Append(w, x)
           n == Len(w)
           F == {i \in DOMAIN w : w[i] \in items}
           G == {i \in DOMAIN v : v[i] \in items}
<1>1. /\ v[n + 1] = x /\ \A i \in 1 .. n : v[i] = w[i]
      /\ DOMAIN w = 1 .. n /\ DOMAIN v = 1 .. n + 1 /\ n \in Nat
  BY AppendType
<1>2. IsFiniteSet(F) /\ Cardinality(F) \in Nat
  BY CountType DEF CountIn
<1>3. n + 1 \notin F
  BY <1>1
<1>4. G = IF x \in items THEN F \cup {n + 1} ELSE F
  <2> HIDE DEF v, n
  <2>1. \A i : i \in G <=> (i \in 1 .. n + 1 /\ v[i] \in items)
    BY <1>1
  <2>2. \A i : i \in F <=> (i \in 1 .. n /\ w[i] \in items)
    BY <1>1
  <2>3. \A i : i \in 1 .. n + 1 <=> (i \in 1 .. n \/ i = n + 1)
    BY <1>1
  <2> HIDE DEF F, G
  <2>4. x \in items => \A i : i \in G <=> (i \in F \/ i = n + 1)
    BY <1>1, <2>1, <2>2, <2>3
  <2>5. x \notin items => \A i : i \in G <=> i \in F
    BY <1>1, <2>1, <2>2, <2>3
  <2>6. CASE x \in items
    <3>1. G = F \cup {n + 1}
      BY <2>4, <2>6
    <3> QED BY <2>6, <3>1
  <2>7. CASE x \notin items
    <3>1. G = F
      <4>1. F = {i \in DOMAIN w : i \in F} /\ G = {i \in DOMAIN v : i \in G}
        BY DEF F, G
      <4> QED BY <2>5, <2>7, <4>1
    <3> QED BY <2>7, <3>1
  <2> QED BY <2>6, <2>7
<1>5. Cardinality(F \cup {n + 1}) = Cardinality(F) + 1
  <2> HIDE DEF F
  <2> QED BY <1>2, <1>3, FS_AddElement
<1> HIDE DEF F, G, n
<1>6. Cardinality(G) = Cardinality(F) + (IF x \in items THEN 1 ELSE 0)
  BY <1>2, <1>4, <1>5
<1> QED BY <1>6 DEF CountIn, F, G

LEMMA ConcatAppend ==
  ASSUME NEW w \in Seq(Items), NEW x \in Items, NEW y \in Items
  PROVE  /\ w \o <<>> = w
         /\ w \o <<x>> = Append(w, x)
         /\ w \o (<<x>> \o <<>>) = Append(w, x)
         /\ w \o (<<x>> \o <<y>>) = Append(Append(w, x), y)
<1>1. /\ <<x>> \in Seq(Items) /\ <<y>> \in Seq(Items)
      /\ Append(w, x) \in Seq(Items)
  BY AppendType
<1>2. /\ w \o <<>> = w /\ <<x>> \o <<>> = <<x>>
      /\ Append(w, x) = w \o <<x>>
      /\ Append(Append(w, x), y) = Append(w, x) \o <<y>>
  BY <1>1, ConcatEmptySeq, AppendIsConcat
<1>3. (w \o <<x>>) \o <<y>> = w \o (<<x>> \o <<y>>)
  BY <1>1, ConcatAssociative
<1> QED BY <1>2, <1>3

\* The replies begun, those begun in chunks, and those of them ended.
Begun(w) == CountIn(w, Opens)
Chunked(w) == CountIn(w, {"metadata"})
Ended(w) == CountIn(w, {"last chunk"})

\* Replies come one after the other, and wstate says where the last one is.
TurnInv ==
  /\ wstate \in {"empty", "finished"} => LastItem(wire) \in Whole
  /\ wstate = "continue_issued" => LastItem(wire) = "continue"
  /\ wstate = "metadata_issued" =>
       InChunks(wire) /\ Ended(wire) < Chunked(wire)
  /\ wstate \in {"empty", "continue_issued"} /\ heads > 0 =>
       Begun(wire) < heads

WireInv ==
  /\ wire \in Seq(Items) /\ AllFit(wire)
  /\ heads \in Nat
  /\ wstate \in {"empty", "continue_issued", "metadata_issued", "finished"}
  /\ Begun(wire) <= heads
  /\ Ended(wire) <= Chunked(wire)
  /\ heads = 0 => wire = <<>>
  /\ ~is_open => pc = "idle" /\ wstate = "finished"
  /\ pc # "over" /\ is_open => TurnInv

LEMMA EmptyWire ==
  /\ <<>> \in Seq(Items) /\ AllFit(<<>>) /\ LastItem(<<>>) \in Whole
  /\ Begun(<<>>) = 0 /\ Chunked(<<>>) = 0 /\ Ended(<<>>) = 0
<1>1. <<>> \in Seq(Items) /\ DOMAIN <<>> = {}
  BY EmptySeq
<1>2. ASSUME NEW items PROVE CountIn(<<>>, items) = 0
  <2>1. {i \in DOMAIN <<>> : <<>>[i] \in items} = {}
    BY <1>1
  <2> QED BY <2>1, FS_EmptySet DEF CountIn
<1>3. LastItem(<<>>) = "none"
  BY DEF LastItem
<1>4. AllFit(<<>>)
  BY <1>1 DEF AllFit
<1> QED BY <1>1, <1>2, <1>3, <1>4 DEF Whole, Begun, Chunked, Ended

LEMMA WireInit == Init => WireInv
<1> SUFFICES ASSUME Init PROVE WireInv
  OBVIOUS
<1>1. wire = <<>> /\ heads = 0 /\ wstate = "empty" /\ is_open = TRUE
  BY DEF Init
<1>2. /\ wire \in Seq(Items) /\ AllFit(wire) /\ LastItem(wire) \in Whole
      /\ Begun(wire) = 0 /\ Chunked(wire) = 0 /\ Ended(wire) = 0
  BY <1>1, EmptyWire
<1>3. TurnInv
  BY <1>1, <1>2 DEF TurnInv
<1> QED BY <1>1, <1>2, <1>3 DEF WireInv

\* v is w with x after it.
Adds(v, w, x) == v = Append(w, x)

LEMMA AddsCount ==
  ASSUME NEW w \in Seq(Items), NEW x \in Items, NEW items, NEW v, Adds(v, w, x)
  PROVE  /\ x \in items => CountIn(v, items) = CountIn(w, items) + 1
         /\ x \notin items => CountIn(v, items) = CountIn(w, items)
<1>1. CountIn(v, items) = CountIn(w, items) + (IF x \in items THEN 1 ELSE 0)
  BY AppendCount DEF Adds
<1>2. CountIn(w, items) \in Nat
  BY CountType
<1> QED BY <1>1, <1>2

LEMMA BeforeLast ==
  ASSUME NEW w \in Seq(Items), w # <<>>, NEW x \in Items, NEW v, Adds(v, w, x)
  PROVE  v[Len(v) - 1] = LastItem(w)
<1>1. /\ Len(w) \in Nat /\ Len(v) = Len(w) + 1
      /\ \A i \in 1 .. Len(w) : v[i] = w[i]
  BY AppendType DEF Adds
<1>2. Len(w) \in 1 .. Len(w) /\ Len(v) - 1 = Len(w)
  BY <1>1, EmptySeq
<1> QED BY <1>1, <1>2 DEF LastItem

\* One more item, in its turn.
LEMMA WriteOne ==
  ASSUME NEW w \in Seq(Items), AllFit(w), NEW x \in Items, MayFollow(w, x),
         NEW v, Adds(v, w, x)
  PROVE  /\ v \in Seq(Items) /\ AllFit(v) /\ LastItem(v) = x
         /\ Begun(w) \in Nat /\ Chunked(w) \in Nat /\ Ended(w) \in Nat
         /\ x \in Opens => Begun(v) = Begun(w) + 1
         /\ x \notin Opens => Begun(v) = Begun(w)
         /\ x = "metadata" => Chunked(v) = Chunked(w) + 1
         /\ x # "metadata" => Chunked(v) = Chunked(w)
         /\ x = "last chunk" => Ended(v) = Ended(w) + 1
         /\ x # "last chunk" => Ended(v) = Ended(w)
<1>1. v \in Seq(Items) /\ LastItem(v) = x
  BY AppendType DEF Adds
<1>2. AllFit(v)
  BY AppendFits DEF Adds
<1>3. Begun(w) \in Nat /\ Chunked(w) \in Nat /\ Ended(w) \in Nat
  BY CountType DEF Begun, Chunked, Ended
<1>4. /\ x \in Opens => Begun(v) = Begun(w) + 1
      /\ x \notin Opens => Begun(v) = Begun(w)
  BY AddsCount DEF Begun
<1>5. /\ x \in {"metadata"} => Chunked(v) = Chunked(w) + 1
      /\ x \notin {"metadata"} => Chunked(v) = Chunked(w)
  BY AddsCount DEF Chunked
<1>6. /\ x \in {"last chunk"} => Ended(v) = Ended(w) + 1
      /\ x \notin {"last chunk"} => Ended(v) = Ended(w)
  BY AddsCount DEF Ended
<1> QED BY <1>1, <1>2, <1>3, <1>4, <1>5, <1>6, Zenon

\* The beginning of a reply, and the wish to close after it.
LEMMA WriteClose ==
  ASSUME NEW u \in Seq(Items), AllFit(u), LastItem(u) \in Opens,
         NEW v, Adds(v, u, "close")
  PROVE  /\ v \in Seq(Items) /\ AllFit(v)
         /\ LastItem(u) = "metadata" => InChunks(v)
         /\ Begun(v) = Begun(u) /\ Chunked(v) = Chunked(u)
         /\ Ended(v) = Ended(u)
<1>1. PICK x \in Items : x = "close"
  BY DEF Items
<1>2. x \notin Opens /\ MayFollow(u, x) /\ Adds(v, u, x)
  BY <1>1 DEF Opens, MayFollow
<1>3. /\ v \in Seq(Items) /\ AllFit(v) /\ LastItem(v) = x
      /\ Begun(v) = Begun(u)
      /\ x # "metadata" => Chunked(v) = Chunked(u)
      /\ x # "last chunk" => Ended(v) = Ended(u)
  BY <1>2, WriteOne
<1>4. v[Len(v) - 1] = LastItem(u)
  <2>1. u # <<>>
    BY DEF LastItem, Opens
  <2> QED BY <1>2, <2>1, BeforeLast
<1>5. LastItem(u) = "metadata" => InChunks(v)
  BY <1>1, <1>3, <1>4 DEF InChunks
<1> QED BY <1>1, <1>3, <1>5

Opening(v, w, x, close) == v = w \o (<<x>> \o Closing(close))

LEMMA WriteOpening ==
  ASSUME NEW w \in Seq(Items), AllFit(w), NEW x \in Opens, MayFollow(w, x),
         NEW close \in BOOLEAN, NEW v, Opening(v, w, x, close)
  PROVE  /\ v \in Seq(Items) /\ AllFit(v)
         /\ ~close => LastItem(v) = x
         /\ x = "metadata" => InChunks(v)
         /\ Begun(w) \in Nat /\ Chunked(w) \in Nat /\ Ended(w) \in Nat
         /\ Begun(v) = Begun(w) + 1
         /\ x = "metadata" => Chunked(v) = Chunked(w) + 1
         /\ x # "metadata" => Chunked(v) = Chunked(w)
         /\ Ended(v) = Ended(w)
<1>1. x \in Items /\ x # "last chunk"
  BY DEF Opens, Items
<1>2. PICK u : Adds(u, w, x)
  BY DEF Adds
<1>3. /\ u \in Seq(Items) /\ AllFit(u) /\ LastItem(u) = x
      /\ Begun(w) \in Nat /\ Chunked(w) \in Nat /\ Ended(w) \in Nat
      /\ Begun(u) = Begun(w) + 1
      /\ x = "metadata" => Chunked(u) = Chunked(w) + 1
      /\ x # "metadata" => Chunked(u) = Chunked(w)
      /\ Ended(u) = Ended(w)
  BY <1>1, <1>2, WriteOne
<1>4. CASE ~close
  <2>1. v = u
    BY <1>1, <1>2, <1>4, ConcatAppend DEF Closing, Opening, Adds
  <2>2. x = "metadata" => InChunks(v)
    BY <1>3, <2>1 DEF InChunks
  <2> QED BY <1>3, <1>4, <2>1, <2>2, Zenon
<1>5. CASE close
  <2>1. Adds(v, u, "close")
    BY <1>1, <1>2, <1>5, ConcatAppend DEF Closing, Items, Opening, Adds
  <2>2. /\ v \in Seq(Items) /\ AllFit(v)
        /\ x = "metadata" => InChunks(v)
        /\ Begun(v) = Begun(u) /\ Chunked(v) = Chunked(u)
        /\ Ended(v) = Ended(u)
    BY <1>3, <2>1, WriteClose
  <2> QED BY <1>3, <1>5, <2>2, Zenon
<1> QED BY <1>4, <1>5

-----------------------------------------------------------------------------
(* Every step keeps the turn *)

LEMMA KeepWire ==
  ASSUME WireInv, UNCHANGED <<wire, heads, wstate, is_open>>,
         pc = "over" => pc' = "over", ~is_open => pc' = "idle"
  PROVE  WireInv'
<1>1. TurnInv => TurnInv'
  BY DEF TurnInv
<1> QED BY <1>1 DEF WireInv

LEMMA FailWire ==
  ASSUME WireInv, pc # "idle", UNCHANGED <<wire, heads, is_open>>,
         pc' = "over", wstate' = "empty"
  PROVE  WireInv'
BY DEF WireInv

\* A request is read when the last one has been answered.
LEMMA RequestWire ==
  ASSUME WireInv, async_read_request
  PROVE  WireInv'
<1>1. /\ UNCHANGED <<wire, heads, is_open>> /\ wstate' = "finished"
      /\ pc = "idle" /\ is_open
      /\ heads = 0 \/ wstate = "finished"
  BY DEF async_read_request, Calls
<1>2. LastItem(wire) \in Whole
  <2>1. CASE heads = 0
    BY <2>1, EmptyWire DEF WireInv
  <2>2. CASE wstate = "finished"
    BY <1>1, <2>2 DEF WireInv, TurnInv
  <2> QED BY <1>1, <2>1, <2>2
<1>3. TurnInv'
  BY <1>1, <1>2 DEF TurnInv
<1> QED BY <1>1, <1>3 DEF WireInv

LEMMA HeadWire ==
  ASSUME WireInv, pc = "parsing", wstate = "finished", heads' = heads + 1,
         wstate' = "empty", UNCHANGED <<wire, is_open>>, pc' # "over"
  PROVE  WireInv'
<1>1. heads \in Nat /\ Begun(wire) <= heads /\ Begun(wire) \in Nat
      /\ wire \in Seq(Items) /\ is_open
  BY CountType DEF WireInv, Begun
<1>2. Begun(wire) < heads + 1 /\ Begun(wire) <= heads + 1 /\ heads + 1 # 0
      /\ heads + 1 \in Nat
  BY <1>1
<1>3. LastItem(wire) \in Whole
  BY <1>1 DEF WireInv, TurnInv
<1>4. TurnInv'
  BY <1>2, <1>3 DEF TurnInv
<1> QED BY <1>1, <1>2, <1>4 DEF WireInv

LEMMA TokenWire ==
  ASSUME FlowInv, WireInv, NextToken
  PROVE  WireInv'
<1>1. pc = "parsing" /\ UNCHANGED <<wire, is_open>>
      /\ pc' \in {"parsed", "ended", "parsing"}
  BY DEF NextToken
<1>2. is_open
  BY <1>1 DEF WireInv
<1>3. UNCHANGED <<heads, wstate>> \/ EndOfHeaders
  BY DEF NextToken, KeepReading, RequestLineToken, FieldNameToken,
         FieldValueToken, BodyToken, EndOfMessage
<1>4. CASE EndOfHeaders
  <2>1. code' = "end_of_headers" /\ heads' = heads + 1 /\ wstate' = "empty"
    BY <1>4 DEF EndOfHeaders
  <2>2. wstate = "finished"
    BY <2>1, TokenFlow
  <2> QED BY <1>1, <2>1, <2>2, HeadWire
<1> QED BY <1>1, <1>2, <1>3, <1>4, KeepWire

LEMMA ReadWire ==
  ASSUME FlowInv, WireInv, Read
  PROVE  WireInv'
<1>1. CASE Disconnect \/ ParsingError
  <2>1. /\ pc # "idle" /\ pc' = "over" /\ wstate' = "empty"
        /\ UNCHANGED <<wire, heads, is_open>>
    BY <1>1 DEF Disconnect, ParsingError, ReadFails, clear_buffer
  <2> QED BY <2>1, FailWire
<1>2. CASE async_read_some \/ async_read_trailers
           \/ \E n \in 1 .. Len(coming) : Arrive(n)
  <2>1. /\ UNCHANGED <<wire, heads, wstate, is_open>> /\ pc # "over"
        /\ pc = "idle" => is_open
    BY <1>2 DEF async_read_some, async_read_trailers, ReadMore, Arrive, Calls
  <2> QED BY <2>1, KeepWire DEF WireInv
<1>3. CASE StopAtTheEnd \/ EndOfRead
  <2>1. /\ UNCHANGED <<wire, heads, wstate, is_open>> /\ pc # "over"
        /\ pc # "idle"
    BY <1>3 DEF StopAtTheEnd, EndOfRead, readVars
  <2> QED BY <2>1, KeepWire DEF WireInv
<1> QED BY <1>1, <1>2, <1>3, RequestWire, TokenWire DEF Read

\* The first item of a reply, and what it may be followed by.
LEMMA ReplyWire ==
  ASSUME WireInv, Calls, heads > 0, wstate \in {"empty", "continue_issued"},
         NEW x \in Opens, NEW close \in BOOLEAN,
         Opening(wire', wire, x, close), heads' = heads, pc' = pc,
         wstate' = IF x = "metadata" THEN "metadata_issued" ELSE "finished",
         IF x = "metadata" THEN is_open' = is_open ELSE is_open' => ~close
  PROVE  WireInv'
<1>1. /\ is_open /\ pc = "idle" /\ heads \in Nat
      /\ wire \in Seq(Items) /\ AllFit(wire) /\ TurnInv
      /\ Ended(wire) <= Chunked(wire)
  BY DEF WireInv, Calls
<1>2. Begun(wire) < heads /\ MayFollow(wire, x)
  BY <1>1 DEF TurnInv, MayFollow
<1>3. /\ wire' \in Seq(Items) /\ AllFit(wire')
      /\ ~close => LastItem(wire') = x
      /\ x = "metadata" => InChunks(wire')
      /\ Begun(wire) \in Nat /\ Chunked(wire) \in Nat /\ Ended(wire) \in Nat
      /\ Begun(wire') = Begun(wire) + 1
      /\ x = "metadata" => Chunked(wire') = Chunked(wire) + 1
      /\ x # "metadata" => Chunked(wire') = Chunked(wire)
      /\ Ended(wire') = Ended(wire)
  BY <1>1, <1>2, WriteOpening
<1>4. /\ Begun(wire') <= heads /\ heads # 0
      /\ Ended(wire') <= Chunked(wire')
      /\ x = "metadata" => Ended(wire') < Chunked(wire')
  <2>1. Begun(wire') <= heads /\ heads # 0
    BY <1>1, <1>2, <1>3
  <2>2. CASE x = "metadata"
    <3>1. Chunked(wire') = Chunked(wire) + 1
      BY <1>3, <2>2
    <3>2. Ended(wire') < Chunked(wire') /\ Ended(wire') <= Chunked(wire')
      BY <1>1, <1>3, <3>1
    <3> QED BY <2>1, <3>2
  <2>3. CASE x # "metadata"
    BY <1>1, <1>3, <2>1, <2>3
  <2> QED BY <2>2, <2>3
<1>5. is_open' => TurnInv'
  <2>1. CASE x = "metadata"
    BY <1>3, <1>4, <2>1 DEF TurnInv
  <2>2. CASE x = "response"
    BY <1>3, <2>2 DEF TurnInv, Whole
  <2> QED BY <2>1, <2>2 DEF Opens
<1> QED BY <1>1, <1>3, <1>4, <1>5 DEF WireInv

\* What async_write_end writes: the last chunk, and the trailers if any.
Ending(v, w, trailers) == v = w \o (<<"last chunk">> \o trailers)

LEMMA NoTrailers == \A x \in Items : <<x>> \o <<>> = <<x>>
  OBVIOUS

LEMMA EndingAdds ==
  ASSUME NEW w \in Seq(Items), NEW v, NEW trailers \in {<<>>, <<"trailers">>},
         Ending(v, w, trailers)
  PROVE  \E u : /\ Adds(u, w, "last chunk")
                /\ v = u \/ Adds(v, u, "trailers")
<1>1. PICK x \in Items : x = "last chunk"
  BY DEF Items
<1>2. PICK y \in Items : y = "trailers"
  BY DEF Items
<1>3. PICK u : Adds(u, w, x)
  BY DEF Adds
<1>4. CASE trailers = <<>>
  <2>1. <<x>> \o <<>> = <<x>>
    BY <1>1, NoTrailers, Zenon
  <2>2. v = w \o <<x>>
    BY <1>1, <1>4, <2>1, Zenon DEF Ending
  <2>3. v = u
    BY <1>3, <2>2, ConcatAppend DEF Adds
  <2> QED BY <1>1, <1>3, <2>3
<1>5. CASE trailers = <<"trailers">>
  <2>1. v = w \o (<<x>> \o <<y>>)
    BY <1>1, <1>2, <1>5 DEF Ending
  <2>2. Adds(v, u, y)
    BY <1>3, <2>1, ConcatAppend DEF Adds
  <2> QED BY <1>1, <1>2, <1>3, <2>2
<1> QED BY <1>4, <1>5

LEMMA EndWire ==
  ASSUME WireInv, Calls, heads > 0, wstate = "metadata_issued",
         heads' = heads, pc' = pc, wstate' = "finished",
         NEW trailers \in {<<>>, <<"trailers">>},
         Ending(wire', wire, trailers)
  PROVE  WireInv'
<1>1. wire \in Seq(Items) /\ AllFit(wire) /\ TurnInv /\ pc = "idle"
  BY DEF WireInv, Calls
<1>2. PICK x \in Items : x = "last chunk"
  BY DEF Items
<1>3. PICK y \in Items : y = "trailers"
  BY DEF Items
<1>4. PICK u : Adds(u, wire, x) /\ (wire' = u \/ Adds(wire', u, y))
  BY <1>1, <1>2, <1>3, EndingAdds, Zenon
<1>5. MayFollow(wire, x) /\ x \notin Opens /\ x # "metadata"
  BY <1>1, <1>2 DEF MayFollow, TurnInv, Opens
<1>6. /\ u \in Seq(Items) /\ AllFit(u) /\ LastItem(u) = x
      /\ Begun(u) = Begun(wire) /\ Chunked(u) = Chunked(wire)
      /\ Ended(u) = Ended(wire) + 1
      /\ Ended(wire) \in Nat /\ Chunked(wire) \in Nat
  BY <1>1, <1>2, <1>4, <1>5, WriteOne
<1>7. Ended(u) <= Chunked(u)
  <2>1. Ended(wire) < Chunked(wire)
    BY <1>1 DEF TurnInv
  <2> QED BY <1>6, <2>1
<1>8. /\ wire' \in Seq(Items) /\ AllFit(wire')
      /\ LastItem(wire') \in Whole
      /\ Begun(wire') = Begun(u) /\ Chunked(wire') = Chunked(u)
      /\ Ended(wire') = Ended(u)
  <2>1. CASE wire' = u
    BY <1>2, <1>6, <2>1 DEF Whole
  <2>2. CASE Adds(wire', u, y)
    <3>1. MayFollow(u, y) /\ y \notin Opens /\ y # "metadata"
          /\ y # "last chunk"
      BY <1>2, <1>3, <1>6 DEF MayFollow, Opens
    <3>2. /\ wire' \in Seq(Items) /\ AllFit(wire') /\ LastItem(wire') = y
          /\ Begun(wire') = Begun(u) /\ Chunked(wire') = Chunked(u)
          /\ Ended(wire') = Ended(u)
      BY <1>6, <2>2, <3>1, WriteOne
    <3> QED BY <1>3, <3>2 DEF Whole
  <2> QED BY <1>4, <2>1, <2>2
<1>9. TurnInv'
  BY <1>8 DEF TurnInv
<1>10. heads # 0 /\ heads \in Nat /\ Begun(wire) <= heads
  BY DEF WireInv
<1>11. Begun(wire') <= heads /\ Ended(wire') <= Chunked(wire')
  BY <1>6, <1>7, <1>8, <1>10
<1> QED BY <1>1, <1>8, <1>9, <1>10, <1>11 DEF WireInv

LEMMA WriteWire ==
  ASSUME WireInv, Write
  PROVE  WireInv'
<1>0. heads' = heads /\ pc' = pc
  BY WriteKeeps
<1>1. ASSUME Rejected("out_of_order")
             \/ Rejected("native_stream_unsupported")
      PROVE  WireInv'
  <2>1. UNCHANGED <<wire, heads, wstate, is_open, pc>>
    BY <1>1 DEF Rejected, readVars
  <2> QED BY <2>1, KeepWire DEF WireInv
<1>2. ASSUME NEW close \in BOOLEAN, async_write_response(close)
      PROVE  WireInv'
  <2>1. CASE OutOfOrder({"empty", "continue_issued"})
    BY <1>1, <2>1 DEF OutOfOrder
  <2>2. CASE /\ InOrder({"empty", "continue_issued"}) /\ Agree(close)
             /\ Finish(<<"response">> \o Closing(close))
    <3>1. /\ Opening(wire', wire, "response", close)
          /\ wstate' = "finished" /\ (is_open' => ~close)
      BY <2>2 DEF Finish, Written, Agree, Opening
    <3>2. Calls /\ heads > 0 /\ wstate \in {"empty", "continue_issued"}
      BY <2>2 DEF InOrder, Replies
    <3> QED BY <1>0, <3>1, <3>2, ReplyWire DEF Opens
  <2> QED BY <1>2, <2>1, <2>2 DEF async_write_response
<1>3. ASSUME NEW close \in BOOLEAN, async_write_response_metadata(close)
      PROVE  WireInv'
  <2>1. CASE Rejected("native_stream_unsupported")
             \/ OutOfOrder({"empty", "continue_issued"})
    BY <1>1, <2>1 DEF OutOfOrder
  <2>2. CASE /\ InOrder({"empty", "continue_issued"}) /\ UNCHANGED is_open
             /\ Written(<<"metadata">> \o Closing(close), "metadata_issued")
    <3>1. /\ Opening(wire', wire, "metadata", close)
          /\ wstate' = "metadata_issued" /\ is_open' = is_open
      BY <2>2 DEF Written, Opening
    <3>2. Calls /\ heads > 0 /\ wstate \in {"empty", "continue_issued"}
      BY <2>2 DEF InOrder, Replies
    <3> QED BY <1>0, <3>1, <3>2, ReplyWire DEF Opens
  <2> QED BY <1>3, <2>1, <2>2 DEF async_write_response_metadata
<1>4. CASE async_write_response_continue
  <2>1. CASE OutOfOrder({"empty"})
    BY <1>1, <2>1 DEF OutOfOrder
  <2>2. CASE /\ InOrder({"empty"}) /\ UNCHANGED <<keep_alive, is_open>>
             /\ Written(<<"continue">>, "continue_issued")
    <3>1. /\ wire' = wire \o <<"continue">> /\ wstate' = "continue_issued"
          /\ is_open' = is_open /\ wstate = "empty" /\ heads > 0 /\ Calls
      BY <2>2 DEF Written, InOrder, Replies
    <3>2. PICK x \in Items : x = "continue"
      BY DEF Items
    <3>3. wire \in Seq(Items) /\ AllFit(wire) /\ TurnInv /\ is_open
          /\ pc = "idle"
      BY <3>1 DEF WireInv, Calls
    <3>4. Adds(wire', wire, x)
      BY <3>1, <3>2, <3>3, ConcatAppend DEF Adds
    <3>5. MayFollow(wire, x) /\ x \notin Opens /\ x # "metadata"
          /\ x # "last chunk"
      BY <3>1, <3>2, <3>3 DEF MayFollow, TurnInv, Opens
    <3>6. /\ wire' \in Seq(Items) /\ AllFit(wire') /\ LastItem(wire') = x
          /\ Begun(wire') = Begun(wire) /\ Chunked(wire') = Chunked(wire)
          /\ Ended(wire') = Ended(wire)
      BY <3>3, <3>4, <3>5, WriteOne
    <3>7. TurnInv'
      BY <1>0, <3>1, <3>2, <3>3, <3>6 DEF TurnInv
    <3>8. heads # 0
      BY <3>1 DEF WireInv
    <3> QED BY <1>0, <3>1, <3>3, <3>6, <3>7, <3>8 DEF WireInv
  <2> QED BY <1>4, <2>1, <2>2 DEF async_write_response_continue
<1>5. ASSUME NEW n \in 0 .. 1, async_write(n)
      PROVE  WireInv'
  <2>1. CASE OutOfOrder({"metadata_issued"})
    BY <1>1, <2>1 DEF OutOfOrder
  <2>2. CASE /\ InOrder({"metadata_issued"}) /\ Written(Chunk(n), wstate)
             /\ UNCHANGED <<keep_alive, is_open>>
    <3>1. /\ wire' = wire \o Chunk(n) /\ wstate' = wstate
          /\ is_open' = is_open /\ wstate = "metadata_issued" /\ heads > 0
          /\ Calls
      BY <2>2 DEF Written, InOrder, Replies
    <3>2. PICK x \in Items : x = "chunk"
      BY DEF Items
    <3>3. wire \in Seq(Items) /\ AllFit(wire) /\ TurnInv /\ is_open
          /\ pc = "idle"
      BY <3>1 DEF WireInv, Calls
    <3>4. wire' = wire \/ Adds(wire', wire, x)
      BY <3>1, <3>2, <3>3, ConcatAppend DEF Adds, Chunk
    <3>5. CASE wire' = wire
      BY <1>0, <3>1, <3>5, KeepWire DEF WireInv
    <3>6. CASE Adds(wire', wire, x)
      <4>1. MayFollow(wire, x) /\ x \notin Opens /\ x # "metadata"
            /\ x # "last chunk"
        BY <3>1, <3>2, <3>3 DEF MayFollow, TurnInv, Opens
      <4>2. /\ wire' \in Seq(Items) /\ AllFit(wire') /\ LastItem(wire') = x
            /\ Begun(wire') = Begun(wire) /\ Chunked(wire') = Chunked(wire)
            /\ Ended(wire') = Ended(wire)
        BY <3>3, <3>6, <4>1, WriteOne
      <4>3. TurnInv'
        BY <1>0, <3>1, <3>2, <3>3, <4>2 DEF TurnInv, InChunks
      <4>4. heads # 0
        BY <3>1 DEF WireInv
      <4> QED BY <1>0, <3>1, <3>3, <4>2, <4>3, <4>4 DEF WireInv
    <3> QED BY <3>4, <3>5, <3>6
  <2> QED BY <1>5, <2>1, <2>2 DEF async_write
<1>6. ASSUME NEW trailers \in {<<>>, <<"trailers">>}, async_write_end(trailers)
      PROVE  WireInv'
  <2>1. CASE OutOfOrder({"metadata_issued"})
    BY <1>1, <2>1 DEF OutOfOrder
  <2>2. CASE /\ InOrder({"metadata_issued"})
             /\ Finish(<<"last chunk">> \o trailers)
    <3>1. /\ Ending(wire', wire, trailers) /\ wstate' = "finished"
          /\ wstate = "metadata_issued" /\ heads > 0 /\ Calls
      BY <2>2 DEF Finish, Written, InOrder, Replies, Ending
    <3> QED BY <1>0, <3>1, EndWire
  <2> QED BY <1>6, <2>1, <2>2 DEF async_write_end
<1> QED BY <1>2, <1>3, <1>4, <1>5, <1>6 DEF Write

\* What is written is one reply after the other, none before its request is
\* read, each of them whole before the next begins: the state of the writer
\* (writer_helper of socket-inl.hpp) and the state of the reader never let
\* more replies be begun than heads were read.
THEOREM RepliesInTurn == Spec => []AnswersInTurn
<1> DEFINE Inv == FlowInv /\ WireInv
<1>1. Init => Inv
  BY FlowInit, WireInit
<1>2. Inv /\ [Next]_vars => Inv'
  <2> SUFFICES ASSUME Inv, [Next]_vars PROVE Inv'
    OBVIOUS
  <2>1. FlowInv'
    BY NextFlow
  <2>2. CASE UNCHANGED vars
    <3>1. UNCHANGED <<wire, heads, wstate, is_open, pc>>
      BY <2>2 DEF vars, readVars
    <3> QED BY <2>1, <3>1, KeepWire DEF WireInv
  <2> QED BY <2>1, <2>2, ReadWire, WriteWire DEF Next
<1>3. Inv => AnswersInTurn
  <2> SUFFICES ASSUME WireInv PROVE AnswersInTurn
    OBVIOUS
  <2>1. Count(Opens) <= heads /\ Count({"last chunk"}) <= Count({"metadata"})
    BY DEF WireInv, Begun, Chunked, Ended, CountIn, Count
  <2>2. \A i \in DOMAIN wire : Fits(wire, i)
    BY DEF WireInv, AllFit
  <2>3. ~is_open => wstate = "finished"
    BY DEF WireInv
  <2> QED BY <2>1, <2>2, <2>3 DEF AnswersInTurn, Fits, Preceding, Whole
<1> QED BY <1>1, <1>2, <1>3, PTL DEF Spec

\* Whatever is known by its place in the buffer is there: the token that has
\* begun, the name that waits for its value, what has been parsed; the buffer
\* never holds more than its size (on_async_read_message, where it is
\* compacted, and the set_buffer of the parser).
THEOREM PlacesInBuffer == Spec => []PlaceInv
<1>1. PlaceInv /\ [Next]_vars => PlaceInv'
  BY NextPlace
<1> QED BY <1>1, PlaceInit, PTL DEF Spec

-----------------------------------------------------------------------------
(* Waiting *)

\* The channel is asked for more only while the buffer is not full.
RoomInv == size > 0 /\ (pc = "reading" => Len(buffer) < size)

LEMMA RoomInit == Init => RoomInv
BY SocketAssumption DEF Init, RoomInv

LEMMA ScheduleRoom ==
  ASSUME RoomInv, NEW t, Schedule(t), size' = size
  PROVE  RoomInv'
<1>1. CASE OnRead(buffer)
  BY <1>1 DEF OnRead, RoomInv
<1>2. CASE buffer = <<>> /\ UNCHANGED buffer
  <2>1. Len(buffer') = 0
    BY <1>2
  <2> QED BY <2>1 DEF RoomInv
<1> QED BY <1>1, <1>2 DEF Schedule

LEMMA NextRoom ==
  ASSUME RoomInv, [Next]_vars
  PROVE  RoomInv'
<1> USE DEF fixed
<1>1. CASE async_read_request \/ async_read_some \/ async_read_trailers
  BY <1>1, ScheduleRoom
  DEF async_read_request, async_read_some, async_read_trailers, ReadMore
<1>2. CASE Disconnect \/ ParsingError
  BY <1>2 DEF Disconnect, ParsingError, ReadFails, RoomInv
<1>3. CASE \E n \in 1 .. Len(coming) : Arrive(n)
  BY <1>3 DEF Arrive, OnRead, RoomInv
<1>4. CASE NextToken
  <2>1. pc' \in {"parsed", "ended", "parsing"} /\ size' = size
    BY <1>4 DEF NextToken
  <2> QED BY <2>1 DEF RoomInv
<1>5. CASE StopAtTheEnd
  BY <1>5 DEF StopAtTheEnd, RoomInv
<1>6. CASE EndOfRead
  BY <1>6 DEF EndOfRead, RoomInv
<1>7. CASE Write
  BY <1>7, WriteKeeps DEF RoomInv
<1>8. CASE UNCHANGED vars
  BY <1>8 DEF vars, readVars, RoomInv
<1> QED BY <1>1, <1>2, <1>3, <1>4, <1>5, <1>6, <1>7, <1>8 DEF Next, Read

\* A read that waits has room, and waits for what is to come: for a message
\* when none is being read, else for more of that message or for its end
\* (on_async_read_message, which goes on only when the buffer is not full,
\* and the size of it that the constructor checks).
THEOREM NeverWaitsInVain == Spec => []WaitsWithRoom
<1> DEFINE Inv == FlowInv /\ RoomInv
<1>1. Init => Inv
  BY FlowInit, RoomInit
<1>2. Inv /\ [Next]_vars => Inv'
  BY NextFlow, NextRoom
<1>3. Inv => WaitsWithRoom
  BY DEF FlowInv, HandlerInv, ReadingInv, RoomInv, WaitsWithRoom
<1> QED BY <1>1, <1>2, <1>3, PTL DEF Spec

-----------------------------------------------------------------------------
(* What is left of a sequence *)

LEMMA DropNone ==
  ASSUME NEW S, NEW s \in Seq(S)
  PROVE  Drop(s, 0) = s
BY SubSeqFull DEF Drop

LEMMA DropAll ==
  ASSUME NEW S, NEW s \in Seq(S), NEW t \in Seq(S)
  PROVE  Drop(s \o t, Len(s)) = t
<1> DEFINE u == s \o t
           n == Len(s)
<1>1. u \in Seq(S) /\ Len(u) = n + Len(t) /\ n \in Nat /\ Len(t) \in Nat
      /\ \A i \in 1 .. Len(t) : u[n + i] = t[i]
  BY ConcatProperties
<1> HIDE DEF u, n
<1>2. n \in 0 .. Len(u) /\ Len(u) - n = Len(t)
  BY <1>1
<1>3. /\ Drop(u, n) \in Seq(S) /\ Len(Drop(u, n)) = Len(u) - n
      /\ \A i \in 1 .. Len(u) - n : Drop(u, n)[i] = u[n + i]
  BY <1>1, <1>2, DropType
<1>4. Drop(u, n) = t
  BY <1>1, <1>2, <1>3, SeqEqual
<1> QED BY <1>4 DEF u, n

LEMMA DropTwice ==
  ASSUME NEW S, NEW s \in Seq(S), NEW a \in 0 .. Len(s),
         NEW b \in 0 .. Len(s) - a
  PROVE  Drop(Drop(s, a), b) = Drop(s, a + b)
<1>1. /\ Drop(s, a) \in Seq(S) /\ Len(Drop(s, a)) = Len(s) - a
      /\ \A i \in 1 .. Len(s) - a : Drop(s, a)[i] = s[a + i]
  BY DropType
<1>2. b \in 0 .. Len(Drop(s, a)) /\ a + b \in 0 .. Len(s)
      /\ Len(s) - a - b = Len(s) - (a + b)
  BY <1>1
<1>3. /\ Drop(Drop(s, a), b) \in Seq(S)
      /\ Len(Drop(Drop(s, a), b)) = Len(s) - (a + b)
      /\ \A i \in 1 .. Len(s) - a - b :
           Drop(Drop(s, a), b)[i] = Drop(s, a)[b + i]
  BY <1>1, <1>2, DropType
<1>4. /\ Drop(s, a + b) \in Seq(S) /\ Len(Drop(s, a + b)) = Len(s) - (a + b)
      /\ \A i \in 1 .. Len(s) - (a + b) : Drop(s, a + b)[i] = s[a + b + i]
  BY <1>2, DropType
<1>5. ASSUME NEW i \in 1 .. Len(s) - (a + b)
      PROVE  Drop(Drop(s, a), b)[i] = Drop(s, a + b)[i]
  <2>1. b + i \in 1 .. Len(s) - a /\ i \in 1 .. Len(s) - a - b
        /\ a + (b + i) = a + b + i
    OBVIOUS
  <2> QED BY <1>1, <1>3, <1>4, <2>1
<1> QED BY <1>3, <1>4, <1>5, SeqEqual

LEMMA DropFirst ==
  ASSUME NEW S, NEW s \in Seq(S), NEW t \in Seq(S), NEW n \in 0 .. Len(s)
  PROVE  Drop(s \o t, n) = Drop(s, n) \o t
<1> DEFINE u == s \o t
           r == Drop(s, n)
           v == r \o t
<1>1. /\ u \in Seq(S) /\ Len(u) = Len(s) + Len(t)
      /\ \A i \in 1 .. Len(s) + Len(t) :
           u[i] = IF i <= Len(s) THEN s[i] ELSE t[i - Len(s)]
  BY ConcatProperties
<1>2. /\ r \in Seq(S) /\ Len(r) = Len(s) - n
      /\ \A i \in 1 .. Len(s) - n : r[i] = s[n + i]
  BY DropType
<1> HIDE DEF r
<1>3. /\ v \in Seq(S) /\ Len(v) = Len(r) + Len(t)
      /\ \A i \in 1 .. Len(r) + Len(t) :
           v[i] = IF i <= Len(r) THEN r[i] ELSE t[i - Len(r)]
  BY <1>2, ConcatProperties
<1> HIDE DEF u, v
<1>4. n \in 0 .. Len(u) /\ Len(s) \in Nat /\ Len(t) \in Nat
  BY <1>1
<1>5. /\ Drop(u, n) \in Seq(S) /\ Len(Drop(u, n)) = Len(u) - n
      /\ \A i \in 1 .. Len(u) - n : Drop(u, n)[i] = u[n + i]
  BY <1>1, <1>4, DropType
<1>6. ASSUME NEW i \in 1 .. Len(v) PROVE Drop(u, n)[i] = v[i]
  <2>1. /\ i \in 1 .. Len(u) - n /\ n + i \in 1 .. Len(s) + Len(t)
        /\ i \in 1 .. Len(r) + Len(t)
        /\ n + i <= Len(s) <=> i <= Len(r)
        /\ i <= Len(r) => i \in 1 .. Len(s) - n
        /\ n + i - Len(s) = i - Len(r)
    BY <1>1, <1>2, <1>3, <1>4
  <2>2. Drop(u, n)[i] = u[n + i]
    BY <1>5, <2>1
  <2>3. u[n + i] = IF i <= Len(r) THEN s[n + i] ELSE t[n + i - Len(s)]
    BY <1>1, <2>1
  <2>4. v[i] = IF i <= Len(r) THEN r[i] ELSE t[i - Len(r)]
    BY <1>3, <2>1
  <2>5. i <= Len(r) => r[i] = s[n + i]
    BY <1>2, <2>1
  <2>6. n + i - Len(s) = i - Len(r)
    BY <2>1
  <2> QED BY <2>2, <2>3, <2>4, <2>5, <2>6
<1>7. Drop(u, n) = v
  <2>1. Len(Drop(u, n)) = Len(v)
    BY <1>1, <1>2, <1>3, <1>4, <1>5
  <2> QED BY <1>3, <1>5, <1>6, <2>1, SeqEqual
<1> QED BY <1>7 DEF u, r, v

\* A sequence is its first elements and the rest.
LEMMA FirstAndRest ==
  ASSUME NEW S, NEW s \in Seq(S), NEW n \in 0 .. Len(s)
  PROVE  SubSeq(s, 1, n) \o Drop(s, n) = s
<1> DEFINE first == SubSeq(s, 1, n)
<1>1. first \in Seq(S) /\ Len(first) = n /\ \A i \in 1 .. n : first[i] = s[i]
  <2>1. 0 + n <= Len(s) /\ 0 \in Nat /\ n \in Nat
    OBVIOUS
  <2>2. /\ SubSeq(s, 0 + 1, 0 + n) \in Seq(S)
        /\ Len(SubSeq(s, 0 + 1, 0 + n)) = n
        /\ \A i \in 1 .. n : SubSeq(s, 0 + 1, 0 + n)[i] = s[0 + i]
    BY <2>1, PartType
  <2> QED BY <2>2
<1>2. /\ Drop(s, n) \in Seq(S) /\ Len(Drop(s, n)) = Len(s) - n
      /\ \A i \in 1 .. Len(s) - n : Drop(s, n)[i] = s[n + i]
  BY DropType
<1> HIDE DEF first
<1>3. /\ first \o Drop(s, n) \in Seq(S)
      /\ Len(first \o Drop(s, n)) = Len(s)
      /\ \A i \in 1 .. Len(s) :
           (first \o Drop(s, n))[i] = IF i <= n THEN first[i]
                                      ELSE Drop(s, n)[i - n]
  BY <1>1, <1>2, ConcatProperties
<1>4. ASSUME NEW i \in 1 .. Len(s) PROVE (first \o Drop(s, n))[i] = s[i]
  <2>1. CASE i <= n
    BY <1>1, <1>3, <2>1
  <2>2. CASE ~(i <= n)
    <3>1. i - n \in 1 .. Len(s) - n /\ n + (i - n) = i
      BY <2>2
    <3> QED BY <1>2, <1>3, <2>2, <3>1
  <2> QED BY <2>1, <2>2
<1>5. first \o Drop(s, n) = s
  BY <1>3, <1>4, SeqEqual
<1> QED BY <1>5 DEF first

\* The beginning of a sequence is that of a longer one.
LEMMA SamePart ==
  ASSUME NEW S, NEW s \in Seq(S), NEW t \in Seq(S), NEW b \in Nat,
         NEW n \in Nat, b + n <= Len(s)
  PROVE  SubSeq(s \o t, b + 1, b + n) = SubSeq(s, b + 1, b + n)
<1>1. /\ s \o t \in Seq(S) /\ b + n <= Len(s \o t)
      /\ \A i \in 1 .. Len(s) : (s \o t)[i] = s[i]
  BY ConcatProperties
<1>2. /\ SubSeq(s, b + 1, b + n) \in Seq(S)
      /\ Len(SubSeq(s, b + 1, b + n)) = n
      /\ \A i \in 1 .. n : SubSeq(s, b + 1, b + n)[i] = s[b + i]
  BY PartType
<1>3. /\ SubSeq(s \o t, b + 1, b + n) \in Seq(S)
      /\ Len(SubSeq(s \o t, b + 1, b + n)) = n
      /\ \A i \in 1 .. n : SubSeq(s \o t, b + 1, b + n)[i] = (s \o t)[b + i]
  BY <1>1, PartType
<1>4. \A i \in 1 .. n : b + i \in 1 .. Len(s)
  OBVIOUS
<1> QED BY <1>1, <1>2, <1>3, <1>4, SeqEqual

-----------------------------------------------------------------------------
(* What is in the buffer *)

Sent == StreamBytes(stream, MaxSize)

\* What is in the buffer and has not been parsed.
Ahead == Drop(buffer, IF Running THEN nparsed ELSE Kept)

\* The parser reads what comes next, or nothing once a message has ended;
\* and what comes next is the rest of what the client has sent.
InSequence ==
  /\ pc = "parsing" => rest = <<>> \/ rest = Ahead
  /\ pc # "over" => \E k \in 0 .. Len(Sent) : Ahead \o coming = Drop(Sent, k)

NameAt(n) == SubSeq(buffer, n + 1, n + field_name_size)

\* The name that waits for its value is one, wherever it is.
NameInv ==
  expecting_field =>
    /\ Running => NameAt(field_name_begin) \in Seq(tchar)
    /\ pc \in {"idle", "reading"} => NameAt(0) \in Seq(tchar)

OrderInv == Sent \in Seq(Symbols) /\ InSequence /\ NameInv

LEMMA AheadType ==
  ASSUME PlaceInv, pc # "over"
  PROVE  /\ Ahead \in Seq(Symbols) /\ buffer \in Seq(Symbols)
         /\ coming \in Seq(Symbols)
         /\ (IF Running THEN nparsed ELSE Kept) \in 0 .. Len(buffer)
<1>1. (IF Running THEN nparsed ELSE Kept) \in 0 .. Len(buffer)
      /\ buffer \in Seq(Symbols) /\ coming \in Seq(Symbols)
  BY DEF PlaceInv, Running, Kept, ParserTypeOK, TokenTypeOK
<1> QED BY <1>1, DropType DEF Ahead

LEMMA OrderInit == Init => OrderInv
<1> SUFFICES ASSUME Init PROVE OrderInv
  OBVIOUS
<1>1. Sent \in Seq(Symbols) /\ coming = Sent /\ buffer = <<>> /\ pc = "idle"
      /\ ~expecting_field
  BY SocketAssumption DEF Init, Sent
<1>2. Ahead = <<>>
  <2>1. Ahead = Drop(<<>>, 0)
    BY <1>1 DEF Ahead, Running, Kept
  <2> QED BY <2>1, EmptySeq, DropNone
<1>3. Ahead \o coming = Drop(Sent, 0)
  <2>1. Drop(Sent, 0) = Sent
    BY <1>1, DropNone
  <2> QED BY <1>1, <1>2, <2>1, ConcatEmptySeq
<1>4. 0 \in 0 .. Len(Sent)
  BY <1>1
<1> QED BY <1>1, <1>3, <1>4 DEF OrderInv, InSequence, NameInv

\* What has arrived follows what was there.
LEMMA OnReadOrder ==
  ASSUME PlaceInv, PlaceInv', OrderInv, pc \in {"idle", "reading"},
         NEW piece \in Seq(Symbols), OnRead(buffer \o piece),
         coming = piece \o coming', UNCHANGED stream
  PROVE  OrderInv'
<1> DEFINE b == buffer \o piece
<1>1. /\ buffer' = b /\ nparsed' = Kept /\ field_name_begin' = 0 /\ pc' = "parsing"
      /\ UNCHANGED <<field_name_size, expecting_field, code>> /\ idx' = 0
      /\ ibuffer' = IF expecting_field THEN Drop(b, field_name_size) ELSE b
  BY DEF OnRead, set_buffer, Kept
<1>2. /\ buffer \in Seq(Symbols) /\ Kept \in 0 .. Len(buffer) /\ code = More
      /\ coming' \in Seq(Symbols) /\ coming \in Seq(Symbols)
      /\ b \in Seq(Symbols) /\ field_name_size \in Nat /\ ~Running
      /\ expecting_field \in BOOLEAN
  <2>1. b \in Seq(Symbols)
    BY ConcatProperties DEF PlaceInv
  <2>2. /\ buffer \in Seq(Symbols) /\ code = More /\ ~Running
        /\ coming' \in Seq(Symbols) /\ coming \in Seq(Symbols)
        /\ field_name_size \in Nat /\ expecting_field \in BOOLEAN
        /\ token_size \in Nat /\ Kept + token_size <= Len(buffer)
    BY DEF PlaceInv, Running, ParserTypeOK, TokenTypeOK
  <2>3. Kept \in Nat
    BY <2>2 DEF Kept
  <2>4. Len(buffer) \in Nat
    BY <2>2
  <2>5. Kept \in 0 .. Len(buffer)
    BY <2>2, <2>3, <2>4
  <2> QED BY <2>1, <2>2, <2>5
<1> HIDE DEF b
<1>3. Ahead' = Drop(b, Kept)
  BY <1>1 DEF Ahead, Running
<1>4. rest' = Ahead'
  <2>1. ibuffer' = Drop(b, Kept)
    <3>1. b = Drop(b, 0)
      BY <1>2, DropNone
    <3> QED BY <1>1, <1>2, <3>1 DEF Kept
  <2>2. start' = 0
    BY <1>1, <1>2 DEF start
  <2>3. rest' = Drop(ibuffer', 0)
    BY <2>2 DEF rest, Drop
  <2>4. ibuffer' \in Seq(Symbols)
    BY DEF PlaceInv, ParserTypeOK, TokenTypeOK
  <2> QED BY <1>3, <2>1, <2>3, <2>4, DropNone
<1>5. Ahead' \o coming' = Ahead \o coming
  <2>1. Ahead = Drop(buffer, Kept) /\ Ahead \in Seq(Symbols)
    BY <1>2, AheadType DEF Ahead
  <2>2. Ahead' = Ahead \o piece
    BY <1>2, <1>3, <2>1, DropFirst DEF b
  <2> QED BY <1>2, <2>1, <2>2, ConcatAssociative
<1>6. InSequence'
  BY <1>4, <1>5 DEF OrderInv, InSequence, Sent
<1>7. NameInv'
  <2> SUFFICES ASSUME expecting_field PROVE NameAt(0)' \in Seq(tchar)
    BY <1>1 DEF NameInv
  <2>1. NameAt(0) \in Seq(tchar) /\ 0 + field_name_size <= Len(buffer)
        /\ 0 \in Nat
    BY <1>2 DEF OrderInv, NameInv, Kept
  <2>2. SubSeq(b, 0 + 1, 0 + field_name_size)
          = SubSeq(buffer, 0 + 1, 0 + field_name_size)
    BY <1>2, <2>1, SamePart DEF b
  <2> QED BY <1>1, <2>1, <2>2 DEF NameAt
<1> QED BY <1>6, <1>7 DEF OrderInv, Sent

LEMMA ScheduleOrder ==
  ASSUME PlaceInv, PlaceInv', OrderInv, pc = "idle", NEW t, Schedule(t),
         UNCHANGED <<stream, coming>>
  PROVE  OrderInv'
<1>1. CASE OnRead(buffer)
  <2>1. <<>> \in Seq(Symbols) /\ buffer \o <<>> = buffer
        /\ coming = <<>> \o coming'
    BY EmptySeq, ConcatEmptySeq DEF PlaceInv
  <2>2. OnRead(buffer \o <<>>)
    BY <1>1, <2>1
  <2> QED BY <2>1, <2>2, OnReadOrder
<1>2. CASE pc' = "reading"
           /\ UNCHANGED <<parserVars, buffer, nparsed, fieldVars, flags>>
  <2>1. ~Running /\ ~Running' /\ Ahead' = Ahead
    BY <1>2 DEF Running, Ahead, Kept, fieldVars
  <2> QED BY <1>2, <2>1
          DEF OrderInv, InSequence, NameInv, NameAt, Sent, fieldVars
<1> QED BY <1>1, <1>2 DEF Schedule

LEMMA ArriveOrder ==
  ASSUME PlaceInv, PlaceInv', OrderInv, NEW n \in 1 .. Len(coming), Arrive(n)
  PROVE  OrderInv'
<1> DEFINE piece == SubSeq(coming, 1, n)
<1>1. coming \in Seq(Symbols) /\ n \in 0 .. Len(coming)
  BY DEF PlaceInv
<1>2. piece \in Seq(Symbols)
  <2>1. 0 \in Nat /\ n \in Nat /\ 0 + n <= Len(coming)
    BY <1>1
  <2>2. SubSeq(coming, 0 + 1, 0 + n) \in Seq(Symbols)
    BY <1>1, <2>1, PartType
  <2> QED BY <2>2
<1>3. coming = piece \o coming'
  BY <1>1, FirstAndRest DEF Arrive
<1>4. OnRead(buffer \o piece) /\ pc = "reading" /\ UNCHANGED stream
  BY DEF Arrive, fixed
<1> HIDE DEF piece
<1> QED BY <1>2, <1>3, <1>4, OnReadOrder

LEMMA KeepOrder ==
  ASSUME OrderInv, UNCHANGED <<parserVars, stream, buffer, nparsed, fieldVars,
                               pc, coming>>
  PROVE  OrderInv'
<1>1. rest' = rest /\ Ahead' = Ahead /\ Running' = Running
  BY DEF rest, start, Ahead, Kept, Running, parserVars, tokenVars, fieldVars
<1> QED BY <1>1 DEF OrderInv, InSequence, NameInv, NameAt, Sent, fieldVars

\* Past a message the parser has nothing to read.
LEMMA StopOrder ==
  ASSUME PlaceInv, OrderInv, StopAtTheEnd
  PROVE  OrderInv'
<1> DEFINE b == SubSeq(buffer, nparsed - token_size + 1, nparsed)
<1>1. /\ pc = "ended" /\ pc' = "parsing" /\ Running /\ Running'
      /\ ibuffer' = b /\ idx' = 0
      /\ UNCHANGED <<code, token_size, buffer, nparsed, stream, coming,
                     field_name_begin, field_name_size, expecting_field>>
  BY DEF StopAtTheEnd, set_buffer, fixed, readVars, fieldVars, Running
<1>2. /\ token_size \in Nat /\ nparsed \in Nat /\ token_size <= nparsed
      /\ nparsed <= Len(buffer) /\ buffer \in Seq(Symbols)
      /\ code = "end_of_message"
  BY <1>1 DEF PlaceInv, ParserTypeOK, TokenTypeOK
<1>3. b \in Seq(Symbols) /\ Len(b) = token_size
  <2>1. nparsed - token_size \in Nat
        /\ nparsed - token_size + token_size = nparsed
    BY <1>2
  <2> QED BY <1>2, <2>1, PartType
<1> HIDE DEF b
<1>4. rest' = <<>>
  <2>1. start' = token_size
    BY <1>1, <1>2 DEF start, More
  <2>2. rest' = Drop(b, token_size)
    BY <1>1, <2>1 DEF rest, Drop
  <2>3. Drop(b \o <<>>, Len(b)) = <<>> /\ b \o <<>> = b
    BY <1>3, EmptySeq, DropAll, ConcatEmptySeq
  <2> QED BY <1>3, <2>2, <2>3
<1>5. Ahead' = Ahead
  BY <1>1 DEF Ahead
<1> QED BY <1>1, <1>4, <1>5 DEF OrderInv, InSequence, NameInv, NameAt, Sent

\* What is left of what is ahead is still the rest of what was sent.
LEMMA RestOfSent ==
  ASSUME NEW s \in Seq(Symbols), NEW a \in Seq(Symbols),
         NEW c \in Seq(Symbols), NEW n \in 0 .. Len(a),
         \E k \in 0 .. Len(s) : a \o c = Drop(s, k)
  PROVE  \E k \in 0 .. Len(s) : Drop(a, n) \o c = Drop(s, k)
<1>1. PICK k \in 0 .. Len(s) : a \o c = Drop(s, k)
  OBVIOUS
<1>2. Drop(a, n) \o c = Drop(a \o c, n)
  BY DropFirst
<1>3. Len(a \o c) = Len(a) + Len(c) /\ Len(Drop(s, k)) = Len(s) - k
  BY ConcatProperties, DropType
<1>4. n \in 0 .. Len(s) - k
  BY <1>1, <1>3
<1>5. Drop(a, n) \o c = Drop(s, k + n) /\ k + n \in 0 .. Len(s)
  BY <1>1, <1>2, <1>4, DropTwice
<1> QED BY <1>5

\* A token is what comes next.
LEMMA TokenInSequence ==
  ASSUME PlaceInv, OrderInv, NextToken
  PROVE  InSequence'
<1>1. /\ pc = "parsing" /\ next /\ Running
      /\ UNCHANGED <<buffer, stream, coming>>
  BY DEF NextToken, fixed, Running
<1>2. /\ ParserTypeOK /\ InBuffer /\ code \notin Errors
      /\ nparsed \in Nat /\ nparsed <= Len(buffer)
      /\ buffer \in Seq(Symbols) /\ coming \in Seq(Symbols)
      /\ Ahead = Drop(buffer, nparsed) /\ Ahead \in Seq(Symbols)
  BY <1>1, AheadType DEF PlaceInv, Ahead
<1>3. PICK n \in 0 .. Len(rest) : \E kind, s : Found(kind, n, s)
  BY <1>1, <1>2, NextIsStep DEF Step
<1>4. token_size' = n /\ idx' = start /\ ibuffer' = ibuffer
  BY <1>3 DEF Found
<1>5. start \in 0 .. Len(ibuffer) /\ Len(rest) = Len(ibuffer) - start
      /\ ibuffer \in Seq(Symbols) /\ rest = Drop(ibuffer, start)
      /\ rest \in Seq(Symbols)
  BY <1>2, Place DEF ParserTypeOK, TokenTypeOK, rest, Drop
<1> DEFINE stop == code' \in {More} \cup Errors
<1>6. /\ nparsed' = IF stop THEN nparsed ELSE nparsed + n
      /\ pc' = CASE stop -> "parsed" [] code' = "end_of_message" -> "ended"
                 [] OTHER -> "parsing"
  BY <1>4 DEF NextToken
<1>7. ~stop => start' = start + n
  BY <1>4 DEF start
<1> HIDE DEF stop
<1>8. /\ stop => pc' = "parsed"
      /\ ~stop => pc' \in {"ended", "parsing"}
  <2>1. stop => pc' = "parsed"
    BY <1>6 DEF stop, More, Errors
  <2>2. ~stop => pc' \in {"ended", "parsing"}
    BY <1>6
  <2> QED BY <2>1, <2>2
<1>9. Running' /\ Ahead' = Drop(buffer, nparsed')
  <2>1. Running'
    BY <1>8 DEF Running
  <2> QED BY <1>1, <2>1 DEF Ahead
<1>10. Sent' = Sent /\ coming' = coming /\ pc' # "over"
       /\ Sent \in Seq(Symbols)
       /\ \E k \in 0 .. Len(Sent) : Ahead \o coming = Drop(Sent, k)
  BY <1>1, <1>8 DEF OrderInv, InSequence, Sent
<1>11. CASE stop
  <2>1. Ahead' = Ahead /\ pc' = "parsed"
    BY <1>2, <1>6, <1>8, <1>9, <1>11
  <2> QED BY <1>10, <2>1 DEF InSequence
<1>12. CASE ~stop
  <2>1. n \in 0 .. Len(Ahead)
    <3>1. rest = <<>> \/ rest = Ahead
      BY <1>1 DEF OrderInv, InSequence
    <3>2. rest = <<>> => n = 0
      OBVIOUS
    <3> QED BY <1>2, <3>1, <3>2
  <2>2. Ahead' = Drop(Ahead, n)
    <3>1. nparsed \in 0 .. Len(buffer) /\ n \in 0 .. Len(buffer) - nparsed
      BY <1>2, <2>1, DropType
    <3>2. nparsed' = nparsed + n
      BY <1>6, <1>12
    <3> QED BY <1>2, <1>9, <3>1, <3>2, DropTwice
  <2>3. \E k \in 0 .. Len(Sent) : Drop(Ahead, n) \o coming = Drop(Sent, k)
    <3>1. Sent \in Seq(Symbols) /\ Ahead \in Seq(Symbols)
          /\ coming \in Seq(Symbols)
      BY <1>2, <1>10
    <3> QED BY <1>10, <2>1, <3>1, RestOfSent
  <2>4. rest' = Drop(rest, n)
    <3>1. rest' = Drop(ibuffer, start + n)
      BY <1>4, <1>7, <1>12 DEF rest, Drop
    <3>2. n \in 0 .. Len(ibuffer) - start
      BY <1>5
    <3> QED BY <1>5, <3>1, <3>2, DropTwice
  <2>5. rest' = <<>> \/ rest' = Ahead'
    <3>1. CASE rest = <<>>
      <4>1. n = 0
        BY <3>1
      <4> QED BY <1>5, <2>4, <3>1, <4>1, DropNone
    <3>2. CASE rest = Ahead
      BY <2>2, <2>4, <3>2
    <3> QED BY <1>1, <3>1, <3>2 DEF OrderInv, InSequence
  <2>6. \E k \in 0 .. Len(Sent) : Ahead' \o coming = Drop(Sent, k)
    BY <2>2, <2>3
  <2> QED BY <1>10, <2>5, <2>6 DEF InSequence
<1> QED BY <1>11, <1>12

\* The characters of a token that is all there is of a class.
LEMMA ReadsClass ==
  ASSUME PlaceInv, pc = "parsing", NEW class, Reads(class)
  PROVE  /\ token_size' \in 0 .. Len(rest) /\ rest # <<>>
         /\ SubSeq(rest, 1, token_size') \in Seq(class)
<1>1. rest \in Seq(Symbols) /\ Len(rest) \in Nat
  BY Place DEF PlaceInv
<1>2. /\ token_size' \in 0 .. Len(rest)
      /\ \A i \in 1 .. token_size' : rest[i] \in class
  BY <1>1, MatchType DEF Reads
<1>3. rest # <<>>
  BY <1>1, <1>2, EmptySeq DEF Reads
<1>4. SubSeq(rest, 1, token_size') \in Seq(class)
  BY <1>2, SubSeqProperties
<1> QED BY <1>2, <1>3, <1>4

\* What is read of what is ahead is in the buffer after what was parsed.
LEMMA ReadAhead ==
  ASSUME PlaceInv, OrderInv, pc = "parsing", rest # <<>>,
         NEW n \in 0 .. Len(rest)
  PROVE  SubSeq(buffer, nparsed + 1, nparsed + n) = SubSeq(rest, 1, n)
<1>1. /\ buffer \in Seq(Symbols) /\ nparsed \in 0 .. Len(buffer)
      /\ rest = Drop(buffer, nparsed)
  BY DEF PlaceInv, OrderInv, InSequence, Running, Ahead
<1>2. /\ rest \in Seq(Symbols) /\ Len(rest) = Len(buffer) - nparsed
      /\ \A i \in 1 .. Len(buffer) - nparsed : rest[i] = buffer[nparsed + i]
  BY <1>1, DropType
<1>3. /\ SubSeq(buffer, nparsed + 1, nparsed + n) \in Seq(Symbols)
      /\ Len(SubSeq(buffer, nparsed + 1, nparsed + n)) = n
      /\ \A i \in 1 .. n :
           SubSeq(buffer, nparsed + 1, nparsed + n)[i] = buffer[nparsed + i]
  BY <1>1, <1>2, PartType
<1>4. /\ SubSeq(rest, 1, n) \in Seq(Symbols)
      /\ Len(SubSeq(rest, 1, n)) = n
      /\ \A i \in 1 .. n : SubSeq(rest, 1, n)[i] = rest[i]
  <2>1. 0 \in Nat /\ n \in Nat /\ 0 + n <= Len(rest)
    BY <1>2
  <2>2. /\ SubSeq(rest, 0 + 1, 0 + n) \in Seq(Symbols)
        /\ Len(SubSeq(rest, 0 + 1, 0 + n)) = n
        /\ \A i \in 1 .. n : SubSeq(rest, 0 + 1, 0 + n)[i] = rest[0 + i]
    BY <1>2, <2>1, PartType
  <2> QED BY <2>2
<1>5. \A i \in 1 .. n : rest[i] = buffer[nparsed + i]
  BY <1>2
<1> QED BY <1>3, <1>4, <1>5, SeqEqual

\* A name is where it was read until its value is.
LEMMA TokenName ==
  ASSUME PlaceInv, OrderInv, NextToken
  PROVE  NameInv'
<1>1. /\ pc = "parsing" /\ next /\ Running /\ buffer' = buffer
      /\ pc' \in {"parsing", "ended", "parsed"}
  <2> DEFINE stop == code' \in {More} \cup Errors
  <2>1. pc' = CASE stop -> "parsed" [] code' = "end_of_message" -> "ended"
                [] OTHER -> "parsing"
    BY DEF NextToken
  <2> HIDE DEF stop
  <2> QED BY <2>1 DEF NextToken, Running
<1>2. CASE FieldNameToken
  <2>1. /\ code' = "field_name" /\ field_name_begin' = nparsed
        /\ field_name_size' = token_size'
    BY <1>2 DEF FieldNameToken
  <2>2. Reads(tchar)
    BY <1>1, <2>1, FieldTokens DEF PlaceInv
  <2>3. NameAt(field_name_begin)' = SubSeq(rest, 1, token_size')
        /\ SubSeq(rest, 1, token_size') \in Seq(tchar)
    BY <1>1, <2>1, <2>2, ReadsClass, ReadAhead DEF NameAt
  <2> QED BY <1>1, <2>3 DEF NameInv
<1>3. CASE FieldValueToken
  <2>1. ~expecting_field'
    BY <1>3 DEF FieldValueToken
  <2> QED BY <2>1 DEF NameInv
<1>4. CASE UNCHANGED <<field_name_begin, field_name_size, expecting_field>>
  BY <1>1, <1>4 DEF OrderInv, NameInv, NameAt
<1>5. \/ FieldNameToken \/ FieldValueToken
      \/ UNCHANGED <<field_name_begin, field_name_size, expecting_field>>
  BY DEF NextToken, KeepReading, RequestLineToken, EndOfHeaders, BodyToken,
         EndOfMessage, KeepFields, fieldVars
<1> QED BY <1>2, <1>3, <1>4, <1>5

\* What is kept is the name, then what comes next.
LEMMA EndOrder ==
  ASSUME PlaceInv, OrderInv, EndOfRead
  PROVE  OrderInv'
<1>1. /\ pc = "parsed" /\ Running /\ ~Running' /\ buffer' = Compacted
      /\ pc' \in {"idle", "reading", "over"}
      /\ UNCHANGED <<stream, coming, field_name_begin, field_name_size,
                     expecting_field>>
  BY DEF EndOfRead, fixed, fieldVars, Running
<1>2. /\ nparsed \in 0 .. Len(buffer) /\ buffer \in Seq(Symbols)
      /\ field_name_begin \in Nat /\ field_name_size \in Nat
      /\ expecting_field =>
           field_name_begin + field_name_size <= Len(buffer)
  BY <1>1 DEF PlaceInv
<1>3. Ahead = Drop(buffer, nparsed) /\ Ahead \in Seq(Symbols)
  BY <1>1, <1>2, DropType DEF Ahead
<1>4. Ahead' = Drop(Compacted, Kept)
  BY <1>1 DEF Ahead, Kept
<1>5. /\ Drop(Compacted, Kept) = Ahead
      /\ expecting_field => SubSeq(Compacted, 1, field_name_size) = FieldName
  <2>1. CASE expecting_field
    <3>1. FieldName \in Seq(Symbols) /\ Len(FieldName) = field_name_size
      BY <1>2, <2>1, PartType DEF FieldName
    <3>2. Compacted = FieldName \o Ahead /\ Kept = field_name_size
      BY <1>3, <2>1 DEF Compacted, Kept
    <3>3. Drop(FieldName \o Ahead, Len(FieldName)) = Ahead
      BY <1>3, <3>1, DropAll
    <3>4. SubSeq(FieldName \o Ahead, 0 + 1, 0 + field_name_size)
            = SubSeq(FieldName, 0 + 1, 0 + field_name_size)
      <4>1. 0 \in Nat /\ 0 + field_name_size <= Len(FieldName)
        BY <1>2, <3>1
      <4> QED BY <1>2, <1>3, <3>1, <4>1, SamePart
    <3>5. SubSeq(FieldName, 1, field_name_size) = FieldName
      BY <3>1, SubSeqFull
    <3>6. 0 + field_name_size = field_name_size
      BY <1>2
    <3> QED BY <3>1, <3>2, <3>3, <3>4, <3>5, <3>6
  <2>2. CASE ~expecting_field
    <3>1. Compacted = Ahead /\ Kept = 0
      BY <1>3, <2>2 DEF Compacted, Kept
    <3> QED BY <1>3, <2>2, <3>1, DropNone
  <2> QED BY <2>1, <2>2
<1>6. InSequence'
  BY <1>1, <1>4, <1>5 DEF OrderInv, InSequence, Sent
<1>7. NameInv'
  <2> SUFFICES ASSUME expecting_field PROVE NameAt(0)' \in Seq(tchar)
    BY <1>1 DEF NameInv
  <2>1. FieldName \in Seq(tchar)
    BY <1>1 DEF OrderInv, NameInv, NameAt, FieldName
  <2>2. NameAt(0)' = SubSeq(Compacted, 1, field_name_size)
    <3>1. 0 + field_name_size = field_name_size /\ 0 + 1 = 1
      BY <1>2
    <3>2. NameAt(0)' = SubSeq(Compacted, 0 + 1, 0 + field_name_size)
      BY <1>1 DEF NameAt
    <3> QED BY <3>1, <3>2
  <2> QED BY <1>5, <2>1, <2>2
<1> QED BY <1>1, <1>6, <1>7 DEF OrderInv, Sent

LEMMA ReadFailsOrder ==
  ASSUME OrderInv, NEW error, ReadFails(error)
  PROVE  OrderInv'
<1>1. pc' = "over" /\ ~expecting_field' /\ UNCHANGED stream
  BY DEF ReadFails, clear_buffer, fixed
<1> QED BY <1>1 DEF OrderInv, InSequence, NameInv, Sent

LEMMA NextOrder ==
  ASSUME PlaceInv, OrderInv, [Next]_vars
  PROVE  OrderInv'
<1> USE DEF fixed
<1>1. PlaceInv'
  BY NextPlace
<1>2. CASE async_read_request \/ async_read_some \/ async_read_trailers
  <2>1. /\ pc = "idle" /\ UNCHANGED <<stream, coming>>
        /\ \E t \in Targets : Schedule(t)
    BY <1>2
    DEF async_read_request, async_read_some, async_read_trailers, ReadMore,
        Calls, Targets
  <2> QED BY <1>1, <2>1, ScheduleOrder
<1>3. CASE Disconnect \/ ParsingError
  BY <1>3, ReadFailsOrder DEF Disconnect, ParsingError
<1>4. CASE \E n \in 1 .. Len(coming) : Arrive(n)
  BY <1>1, <1>4, ArriveOrder
<1>5. CASE NextToken
  <2>1. Sent' = Sent
    BY <1>5 DEF NextToken, Sent
  <2>2. Sent \in Seq(Symbols)
    BY DEF OrderInv
  <2> QED BY <1>5, <2>1, <2>2, TokenInSequence, TokenName DEF OrderInv
<1>6. CASE Write
  BY <1>6, WriteKeeps, KeepOrder
<1>7. CASE UNCHANGED vars
  BY <1>7, KeepOrder DEF vars, readVars
<1> QED BY <1>2, <1>3, <1>4, <1>5, <1>6, <1>7, StopOrder, EndOrder
        DEF Next, Read

\* Nothing the client sends is lost, read twice or out of its place: what the
\* buffer holds beyond what was parsed, followed by what has not arrived, is
\* always the rest of the stream, and it is what the parser reads next,
\* through every compaction of the buffer, with or without a field name that
\* is kept before it (on_async_read_message).
THEOREM NothingIsLost == Spec => []InSequence
<1> DEFINE Inv == PlaceInv /\ OrderInv
<1>1. Init => Inv
  BY PlaceInit, OrderInit
<1>2. Inv /\ [Next]_vars => Inv'
  BY NextPlace, NextOrder
<1>3. Inv => InSequence
  BY DEF OrderInv
<1> QED BY <1>1, <1>2, <1>3, PTL DEF Spec

-----------------------------------------------------------------------------
(* The types of what the application gets *)

\* Taking fields out leaves fields.
LEMMA OthersType ==
  ASSUME NEW S, NEW fields \in Seq(S)
  PROVE  Others(fields) \in Seq(S)
<1> DEFINE n == Len(fields)
           Round(r, i) == IF fields[i].name = <<"Expect">> THEN r
                          ELSE Append(r, fields[i])
           Rounds(f) ==
             f = [i \in 0 .. n |-> IF i = 0 THEN <<>> ELSE Round(f[i - 1], i)]
           kept == CHOOSE f : Rounds(f)
           R == Seq(S)
<1>1. n \in Nat /\ <<>> \in R
  BY EmptySeq
<1>2. ASSUME NEW r \in R, NEW i \in 1 .. n PROVE Round(r, i) \in R
  <2>1. fields[i] \in S
    BY ElementOfSeq
  <2> QED BY <2>1, AppendProperties
<1>3. Others(fields) = kept[n]
  BY DEF Others
<1> HIDE DEF n, Round, R
<1>4. Rounds(kept)
  <2> DEFINE h == [i \in 1 .. n |-> [r \in R |-> Round(r, i)]]
  <2>1. h \in [1 .. n -> [R -> R]]
    BY <1>2
  <2>2. PICK f \in [0 .. n -> R] : Iterates(f, n, <<>>, h)
    <3> HIDE DEF h, Rounds, kept
    <3> QED BY <1>1, <2>1, LoopExists
  <2>3. ASSUME NEW i \in 1 .. n PROVE f[i] = Round(f[i - 1], i)
    <3>1. f[i - 1] \in R
      BY <1>1
    <3> QED BY <2>2, <3>1 DEF Iterates
  <2>4. Rounds(f)
    BY <2>2, <2>3 DEF Iterates
  <2> HIDE DEF Rounds
  <2> QED BY <2>4
<1>5. kept[n] \in R
  <2> HIDE DEF kept
  <2>1. kept[0] = <<>>
    BY <1>1, <1>4
  <2>2. \A i \in 1 .. n : kept[i] = Round(kept[i - 1], i)
    BY <1>1, <1>4
  <2>3. \A i \in 1 .. n : kept[i - 1] \in R => kept[i] \in R
    BY <1>2, <2>2
  <2> QED BY <1>1, <2>1, <2>3, LoopType
<1> QED BY <1>3, <1>5 DEF R

\* A message has its five parts; its fields have names and values.
IsMessage(m) ==
  /\ m = [method |-> m.method, path |-> m.path, headers |-> m.headers,
          body |-> m.body, trailers |-> m.trailers]
  /\ m.headers \in Seq(Fields) /\ m.trailers \in Seq(Fields)

SocketStates ==
  /\ {use_trailers, modern_http, is_open} \subseteq BOOLEAN
  /\ keep_alive \in {"UNKNOWN", "CLOSE_READ", "KEEP_ALIVE_READ"}
  /\ flags \subseteq Targets
  /\ wstate \in {"empty", "continue_issued", "metadata_issued", "finished"}
  /\ result \in {"ok", "eof", "parsing_error", "buffer_exhausted",
                 "out_of_order", "native_stream_unsupported"}

\* The parser is between a name and its value only while the name is kept.
ValueInv == state \in ValueStates => expecting_field

MsgInv == IsMessage(msg) /\ ValueInv

LEMMA MsgInit == Init => MsgInv /\ SocketStates
<1> SUFFICES ASSUME Init PROVE MsgInv /\ SocketStates
  OBVIOUS
<1>1. msg = [method |-> <<>>, path |-> <<>>, headers |-> <<>>, body |-> <<>>,
             trailers |-> <<>>]
  BY DEF Init, EmptyMessage
<1>2. <<>> \in Seq(Fields)
  BY EmptySeq
<1>3. MsgInv
  BY <1>1, <1>2
  DEF MsgInv, IsMessage, ValueInv, ValueStates, Init, ParserInit
<1> QED BY <1>3 DEF Init, SocketStates, Targets

\* The value of a field.
LEMMA ValueRead ==
  ASSUME PlaceInv, pc = "parsing", next, code' = "field_value"
  PROVE  value' \in Seq(field_value_char)
<1>1. Reads(field_value_char) /\ InBuffer
  BY FieldTokens DEF PlaceInv
<1>2. /\ token_size' \in 0 .. Len(rest)
      /\ \A i \in 1 .. token_size' : rest[i] \in field_value_char
  <2>1. rest \in Seq(Symbols) /\ Len(rest) \in Nat
    BY Place DEF PlaceInv
  <2> QED BY <1>1, <2>1, MatchType DEF Reads
<1>3. start \in 0 .. Len(ibuffer) /\ Len(rest) = Len(ibuffer) - start
      /\ ibuffer \in Seq(Symbols)
  BY Place DEF PlaceInv, ParserTypeOK, TokenTypeOK
<1>4. value' = decode_field_value(ibuffer, start, token_size')
  BY <1>1 DEF value, Reads
<1> DEFINE n == token_size'
<1>5. n \in Nat /\ start \in Nat /\ start + n <= Len(ibuffer)
      /\ n <= Len(rest)
  BY <1>2, <1>3
<1>6. \A i \in 1 .. Len(ibuffer) - start : rest[i] = ibuffer[start + i]
  BY <1>3, DropType DEF rest, Drop
<1>7. ASSUME NEW j \in start + 1 .. start + n
      PROVE  ibuffer[j] \in field_value_char
  <2> HIDE DEF n
  <2>1. j - start \in 1 .. n /\ start + (j - start) = j
    BY <1>5
  <2>2. j - start \in 1 .. Len(ibuffer) - start
    BY <1>3, <1>5, <2>1
  <2> QED BY <1>2, <1>6, <2>1, <2>2 DEF n
<1> HIDE DEF n
<1>8. decode_field_value(ibuffer, start, n) \in Seq(field_value_char)
  BY <1>3, <1>5, <1>7, FieldValueType
<1> QED BY <1>4, <1>8 DEF n

LEMMA TokenMsg ==
  ASSUME PlaceInv, OrderInv, MsgInv, NextToken
  PROVE  MsgInv'
<1>1. pc = "parsing" /\ next /\ Running /\ NameFirst
  BY ValueFollowsName DEF NextToken, Running, PlaceInv
<1>2. CASE FieldValueToken
  <2> DEFINE field == [name |-> FieldName, value |-> value']
  <2>1. code' = "field_value" /\ expecting_field /\ state' \notin ValueStates
    BY <1>1, <1>2 DEF FieldValueToken, NameFirst, MsgInv, ValueInv
  <2>2. FieldName \in Seq(tchar)
    BY <1>1, <2>1 DEF OrderInv, NameInv, NameAt, FieldName
  <2>3. value' \in Seq(field_value_char)
    BY <1>1, <2>1, ValueRead
  <2>4. field \in Fields
    BY <2>2, <2>3 DEF Fields
  <2>5. \/ msg' = [msg EXCEPT !.trailers = Append(@, field)]
        \/ msg' = [msg EXCEPT !.headers = Append(@, field)]
        \/ msg' = msg
    BY <1>2 DEF FieldValueToken
  <2> HIDE DEF field
  <2>6. /\ Append(msg.headers, field) \in Seq(Fields)
        /\ Append(msg.trailers, field) \in Seq(Fields)
    BY <2>4, AppendProperties DEF MsgInv, IsMessage
  <2>7. IsMessage(msg')
    BY <2>5, <2>6 DEF MsgInv, IsMessage
  <2> QED BY <2>1, <2>7 DEF MsgInv, ValueInv
<1>3. CASE FieldNameToken
  BY <1>3 DEF FieldNameToken, MsgInv, ValueInv
<1>4. ASSUME expecting_field' = expecting_field, IsMessage(msg'),
             code' # "field_name"
      PROVE  MsgInv'
  BY <1>1, <1>4 DEF NameFirst, MsgInv, ValueInv
<1>5. CASE EndOfHeaders
  <2>1. Others(msg.headers) \in Seq(Fields)
    BY OthersType DEF MsgInv, IsMessage
  <2>2. /\ msg' = [msg EXCEPT !.headers = Others(@)] \/ msg' = msg
        /\ expecting_field' = expecting_field /\ code' # "field_name"
    BY <1>5 DEF EndOfHeaders, fieldVars
  <2>3. IsMessage(msg')
    BY <2>1, <2>2 DEF MsgInv, IsMessage
  <2> QED BY <1>4, <2>2, <2>3
<1>6. CASE RequestLineToken
  <2>1. IsMessage(msg')
    BY <1>6 DEF RequestLineToken, MsgInv, IsMessage
  <2> QED BY <1>4, <1>6, <2>1 DEF RequestLineToken, KeepFields
<1>7. CASE BodyToken
  <2>1. IsMessage(msg')
    BY <1>7 DEF BodyToken, MsgInv, IsMessage
  <2> QED BY <1>4, <1>7, <2>1 DEF BodyToken, KeepFields
<1>8. CASE EndOfMessage
  BY <1>4, <1>8 DEF EndOfMessage, fieldVars, MsgInv
<1>9. CASE KeepReading /\ code' \in {More, "skip"} \cup Errors
  BY <1>4, <1>9 DEF KeepReading, fieldVars, MsgInv, More, Errors
<1> QED BY <1>2, <1>3, <1>5, <1>6, <1>7, <1>8, <1>9 DEF NextToken

LEMMA NextMsg ==
  ASSUME PlaceInv, OrderInv, MsgInv, [Next]_vars
  PROVE  MsgInv'
<1>1. ASSUME UNCHANGED <<state, msg, expecting_field>>
      PROVE  MsgInv'
  BY <1>1 DEF MsgInv, ValueInv
<1>2. ASSUME NEW t, Schedule(t)
      PROVE  UNCHANGED <<state, expecting_field>>
  BY <1>2 DEF Schedule, OnRead, set_buffer, parserVars, fieldVars
<1>3. CASE async_read_request
  <2>1. msg' = EmptyMessage /\ UNCHANGED <<state, expecting_field>>
    BY <1>2, <1>3 DEF async_read_request
  <2>2. <<>> \in Seq(Fields)
    BY EmptySeq
  <2>3. IsMessage(msg')
    BY <2>1, <2>2 DEF IsMessage, EmptyMessage
  <2> QED BY <2>1, <2>3 DEF MsgInv, ValueInv
<1>4. CASE async_read_some \/ async_read_trailers
  BY <1>1, <1>2, <1>4 DEF async_read_some, async_read_trailers, ReadMore
<1>5. CASE Disconnect \/ ParsingError
  <2>1. state' = "METHOD" /\ msg' = msg
    BY <1>5 DEF Disconnect, ParsingError, ReadFails, clear_buffer, reset
  <2> QED BY <2>1 DEF MsgInv, ValueInv, ValueStates
<1>6. CASE \E n \in 1 .. Len(coming) : Arrive(n)
  BY <1>1, <1>6 DEF Arrive, OnRead, set_buffer
<1>7. CASE StopAtTheEnd
  BY <1>1, <1>7 DEF StopAtTheEnd, set_buffer, readVars, fieldVars
<1>8. CASE EndOfRead
  BY <1>1, <1>8 DEF EndOfRead, parserVars, fieldVars
<1>9. CASE Write
  BY <1>1, <1>9, WriteKeeps DEF parserVars, fieldVars
<1>10. CASE UNCHANGED vars
  BY <1>1, <1>10 DEF vars, parserVars, readVars, fieldVars
<1> QED BY <1>3, <1>4, <1>5, <1>6, <1>7, <1>8, <1>9, <1>10, TokenMsg
        DEF Next, Read

-----------------------------------------------------------------------------
(* What the socket reports of itself *)

LEMMA TokenStates ==
  ASSUME SocketStates, NextToken
  PROVE  SocketStates'
<1> USE DEF SocketStates, Targets
<1>1. is_open' = is_open /\ result' = result
  BY DEF NextToken
<1>2. CASE KeepReading \/ FieldNameToken \/ EndOfMessage
  BY <1>1, <1>2 DEF KeepReading, FieldNameToken, EndOfMessage, fieldVars
<1>3. CASE RequestLineToken
  BY <1>1, <1>3 DEF RequestLineToken
<1>4. CASE FieldValueToken
  <2>1. \A options : Asked(options)
                       \in {"UNKNOWN", "CLOSE_READ", "KEEP_ALIVE_READ"}
    BY DEF Asked
  <2>2. keep_alive' \in {"UNKNOWN", "CLOSE_READ", "KEEP_ALIVE_READ"}
    BY <1>4, <2>1 DEF FieldValueToken
  <2> QED BY <1>1, <1>4, <2>2 DEF FieldValueToken
<1>5. CASE EndOfHeaders
  BY <1>1, <1>5 DEF EndOfHeaders, fieldVars
<1>6. CASE BodyToken
  BY <1>1, <1>6 DEF BodyToken
<1> QED BY <1>2, <1>3, <1>4, <1>5, <1>6 DEF NextToken

LEMMA ReadStates ==
  ASSUME SocketStates, Read
  PROVE  SocketStates'
<1> USE DEF SocketStates, fieldVars
<1>1. ASSUME NEW t, Schedule(t)
      PROVE  use_trailers' = use_trailers /\ flags' \subseteq Targets
  BY <1>1 DEF Schedule, OnRead
<1>2. CASE async_read_request
  BY <1>1, <1>2 DEF async_read_request
<1>3. CASE async_read_some \/ async_read_trailers
  BY <1>1, <1>3 DEF async_read_some, async_read_trailers, ReadMore
<1>4. CASE Disconnect \/ ParsingError
  BY <1>4 DEF Disconnect, ParsingError, ReadFails, clear_buffer
<1>5. CASE \E n \in 1 .. Len(coming) : Arrive(n)
  BY <1>5 DEF Arrive, OnRead
<1>6. CASE StopAtTheEnd
  BY <1>6 DEF StopAtTheEnd, readVars
<1>7. CASE EndOfRead
  BY <1>7 DEF EndOfRead
<1> QED BY <1>2, <1>3, <1>4, <1>5, <1>6, <1>7, TokenStates DEF Read

LEMMA WriteStates ==
  ASSUME SocketStates, Write
  PROVE  SocketStates'
<1> USE DEF SocketStates, fieldVars, OutOfOrder, Rejected, Finish, Written,
            readVars, Agree
<1>1. ASSUME NEW close, async_write_response(close)
      PROVE  SocketStates'
  BY <1>1 DEF async_write_response
<1>2. ASSUME NEW close, async_write_response_metadata(close)
      PROVE  SocketStates'
  BY <1>2 DEF async_write_response_metadata
<1>3. ASSUME NEW n, async_write(n)
      PROVE  SocketStates'
  BY <1>3 DEF async_write
<1>4. ASSUME NEW trailers, async_write_end(trailers)
      PROVE  SocketStates'
  <2>1. CASE OutOfOrder({"metadata_issued"})
    BY <2>1
  <2>2. CASE UNCHANGED keep_alive /\ Finish(<<"last chunk">> \o trailers)
    BY <2>2
  <2> QED BY <1>4, <2>1, <2>2 DEF async_write_end
<1>5. ASSUME async_write_response_continue
      PROVE  SocketStates'
  BY <1>5 DEF async_write_response_continue
<1> QED BY <1>1, <1>2, <1>3, <1>4, <1>5 DEF Write

\* The socket's variables keep to what they are for, for every buffer size and
\* every stream: a name cut out of the buffer, wherever the buffer was
\* compacted since it was found, is made of name characters, a value of the
\* characters of values, so that the application is only ever given fields;
\* read_state(), write_state() and what a call ends with are those that are
\* documented, and what has been parsed, and the name that is kept, lie in
\* the buffer (on_async_read_message, clear_buffer, the writers).
THEOREM SocketTypes == Spec => []TypeOK
<1> DEFINE Inv == FlowInv /\ OrderInv /\ MsgInv /\ SocketStates
<1>1. Init => Inv
  BY FlowInit, OrderInit, MsgInit
<1>2. Inv /\ [Next]_vars => Inv'
  <2> SUFFICES ASSUME Inv, [Next]_vars PROVE Inv'
    OBVIOUS
  <2>1. PlaceInv
    BY DEF FlowInv
  <2>2. FlowInv' /\ OrderInv' /\ MsgInv'
    BY <2>1, NextFlow, NextOrder, NextMsg
  <2>3. UNCHANGED vars => SocketStates'
    BY DEF vars, readVars, fieldVars, SocketStates
  <2> QED BY <2>2, <2>3, ReadStates, WriteStates DEF Next
<1>3. Inv => TypeOK
  BY DEF FlowInv, PlaceInv, PhaseInv, HandlerInv, MsgInv, IsMessage,
         SocketStates, TypeOK, Running
<1> QED BY <1>1, <1>2, <1>3, PTL DEF Spec
=============================================================================
