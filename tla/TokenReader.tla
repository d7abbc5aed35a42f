---------------------------- MODULE TokenReader ----------------------------
(***************************************************************************)
(* What the incremental parsers of requests and of responses have in       *)
(* common (src/http/include/boost/http/reader): where the current token    *)
(* begins in the buffer, how it ends, and the rules for line ends, colons, *)
(* body lengths and chunks that both apply.                                *)
(*                                                                         *)
(* One call of next() is one step; it looks at the symbols of ibuffer from *)
(* the token it is at, and either finds that token, finds an error, or     *)
(* notes how much of the token it has seen and asks for more.  Recursive   *)
(* calls of next() only pass to a state that may begin at the same symbol. *)
(***************************************************************************)
EXTENDS HttpSyntax

CONSTANT
  MaxSize     \* the greatest value of body_size, 2^64 - 1 in the code

ASSUME MaxSizeAssumption == MaxSize \in Nat \ {0}

VARIABLES state, body_type, body_size, code, idx, token_size, ibuffer

tokenVars == <<code, idx, token_size, ibuffer>>

\* Tokens without symbols come at once; no token comes after an error.
Sooner == {"ERRORED", "END_OF_BODY", "END_OF_MESSAGE",
           "END_OF_CONNECTION_ERROR"}

Errors == {"error_invalid_data", "error_no_host",
  "error_invalid_content_length", "error_content_length_overflow",
  "error_invalid_transfer_encoding", "error_chunk_size_overflow",
  "error_set_method", "error_use_another_connection"}

TokenKinds == {"skip", "method", "request_target", "version", "status_code",
  "reason_phrase", "field_name", "field_value", "end_of_headers",
  "body_chunk", "end_of_body", "end_of_message"}

More == "error_insufficient_data"

TokenTypeOK ==
  /\ body_size \in 0 .. MaxSize
  /\ code \in TokenKinds \cup Errors \cup {More}
  /\ idx \in Nat
  /\ token_size \in Nat
  /\ ibuffer \in Seq(Symbols)

TokenInit ==
  /\ body_size = 0
  /\ code = More
  /\ idx = 0
  /\ token_size = 0
  /\ ibuffer = <<>>

\* A bug form: the place in the old buffer is kept.
KeepsPlace(b) ==
  /\ ibuffer' = b
  /\ UNCHANGED <<state, body_type, body_size, code, idx, token_size>>

\* The caller puts the symbols that were not consumed first in b.
set_buffer(b) ==
  /\ ibuffer' = b
  /\ idx' = 0
  /\ UNCHANGED <<state, body_type, body_size, code, token_size>>

\* What value<field_value>() and the other value<>() return.
value ==
  IF code = "field_value" THEN decode_field_value(ibuffer, idx, token_size)
  ELSE SubSeq(ibuffer, idx + 1, idx + token_size)

-----------------------------------------------------------------------------
(* The beginning of next() *)

\* Where the token begins: after the last one, once that was reported.
start == IF code = More THEN idx ELSE idx + token_size

\* How much of it earlier calls have seen.
partial == IF code = More THEN token_size ELSE 0

rest == SubSeq(ibuffer, start + 1, Len(ibuffer))

\* The token in state s, when there is something to read.
At(s) == state = s /\ rest # <<>>

\* A token of n symbols, or an error, and the state after it.
Found(kind, n, s) ==
  /\ code' = kind
  /\ token_size' = n
  /\ state' = s
  /\ idx' = start
  /\ UNCHANGED ibuffer

Fail(error, n) == Found(error, n, "ERRORED")

\* n symbols of the token of state s are there, the end is not.
Await(n, s) == Found(More, n, s)

KeepBody == UNCHANGED <<body_type, body_size>>

-----------------------------------------------------------------------------
(* Rules of both parsers *)

\* A token of one symbol.
Single(s, class, kind, after) ==
  /\ At(s)
  /\ IF rest[1] \in class THEN Found(kind, 1, after)
                           ELSE Fail("error_invalid_data", partial)

\* A literal text.
StaticStr(s, text, after) ==
  /\ At(s)
  /\ \/ IsPrefix(text, rest) /\ Found("skip", Len(text), after)
     \/ IsStrictPrefix(rest, text) /\ Await(Len(rest), s)
     \/ /\ ~IsPrefix(text, rest) /\ ~IsStrictPrefix(rest, text)
        /\ Fail("error_invalid_data", partial)

\* A line end of the head, CRLF or a single LF.
LineEnd(s) ==
  /\ At(s)
  /\ CASE LiberalCrlf(rest) = "crlf" -> Found("skip", 2, "FIELD_NAME")
       [] LiberalCrlf(rest) = "lf" -> Found("skip", 1, "FIELD_NAME")
       [] LiberalCrlf(rest) = "insufficient_data" -> Await(partial, state)
       [] OTHER -> Fail("error_invalid_data", partial)

\* The empty line after the head; it may begin where a field name could.
EmptyLine(s, name, kind, after) ==
  /\ At(s) \/ (At(name) /\ Match(tchar, rest) = 0)
  /\ CASE LiberalCrlf(rest) = "insufficient_data" -> Await(partial, s)
       [] LiberalCrlf(rest) = "invalid_data" ->
            Fail("error_invalid_data", partial)
       [] LiberalCrlf(rest) = "crlf" -> Found(kind, 2, after)
       [] LiberalCrlf(rest) = "lf" -> Found(kind, 1, after)

\* A strict CRLF, and what it completes.
StrictEnd(s, kind, after) ==
  CASE Len(rest) < 2 -> Await(partial, s)
    [] Len(rest) >= 2 /\ StrictCrlf(rest) = 0 ->
         Fail("error_invalid_data", partial)
    [] OTHER -> Found(kind, 2, after)

\* The colon and the white space after it, as far as it is there.
Colon(s, skipping, valued) ==
  /\ At(s)
  /\ LET n == 1 + Match(ows, Tail(rest))
     IN IF rest[1] # "colon" THEN Fail("error_invalid_data", partial)
        ELSE Found("skip", n, IF n = Len(rest) THEN skipping ELSE valued)

\* More white space; the value begins at the first symbol that is none.
MoreOws(s) ==
  /\ At(s)
  /\ Match(ows, rest) > 0
  /\ Found("skip", Match(ows, rest), s)

BeginsAt(s, ows_state) ==
  \/ At(s)
  \/ At(ows_state) /\ Match(ows, rest) = 0

\* The effect of a field value on what the body will be.
LengthValue(n, field) ==
  LET d == ContentLength(field, MaxSize)
  IN /\ body_type' = "CONTENT_LENGTH_READ"
     /\ body_size' = d.out
     /\ CASE d.res = "invalid" -> Fail("error_invalid_content_length", n)
          [] d.res = "overflow" -> Fail("error_content_length_overflow", n)
          [] d.res = "ok" -> Found("field_value", n, "CRLF_AFTER_FIELD_VALUE")

EncodingValue(n, field) ==
  LET res == decode_transfer_encoding(field)
  IN /\ IF res = "CHUNKED_INVALID"
        THEN /\ Fail("error_invalid_transfer_encoding", n)
             /\ UNCHANGED body_type
        ELSE /\ Found("field_value", n, "CRLF_AFTER_FIELD_VALUE")
             /\ body_type' = IF res = "CHUNKED_AT_END"
                             THEN "CHUNKED_ENCODING_READ"
                             ELSE "RANDOM_ENCODING_READ"
     /\ UNCHANGED body_size

\* A bug form: the whole buffer is taken for body data.
AllOfIt == Len(rest)

\* What is there of the data that is still to come.
Available == IF Len(rest) < body_size THEN Len(rest) ELSE body_size

Data(s, after) ==
  /\ At(s)
  /\ Found("body_chunk", Available, IF body_size = Available THEN after ELSE s)
  /\ body_size' = body_size - Available
  /\ UNCHANGED body_type
=============================================================================
