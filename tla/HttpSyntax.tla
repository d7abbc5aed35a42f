----------------------------- MODULE HttpSyntax -----------------------------
(***************************************************************************)
(* The lexical rules of the HTTP readers (src/http/include/boost/http/     *)
(* syntax and reader/detail), over symbols: a symbol is a byte, or a word  *)
(* that the rules treat as one byte of its class.  Data of a body may be   *)
(* any symbol.  A word stands for all its spellings: names and codings are *)
(* compared, and field names stored, without regard to case.               *)
(***************************************************************************)
EXTENDS Naturals, Sequences, SequencesExt

Digits == {"0", "1", "2", "3", "4"}
HexDigits == Digits \cup {"a"}
Words == {"G", "CONNECT", "Host", "Transfer-Encoding", "Content-Length",
          "Connection", "Expect", "Upgrade", "x", "chunked", "gzip", "close",
          "keep-alive"}

tchar == HexDigits \cup Words
ows == {"sp"}
vchar == tchar \cup {"comma", "semi", "slash", "colon", "HTTP/1."}
request_target_char == tchar \cup {"comma", "semi", "slash", "colon"}
field_value_char == vchar \cup ows
reason_phrase_char == vchar \cup ows
chunk_ext_char == vchar \cup ows
Symbols == field_value_char \cup {"cr", "lf", "ctl"}

CRLF == <<"cr", "lf">>

-----------------------------------------------------------------------------
(* Matching *)

\* The length of the longest prefix of s made of characters of the class.
Match(class, s) ==
  CHOOSE n \in 0 .. Len(s) :
    /\ \A i \in 1 .. n : s[i] \in class
    /\ n = Len(s) \/ s[n + 1] \notin class

\* strict_crlf::match, on two symbols or more.
StrictCrlf(s) == IF SubSeq(s, 1, 2) = CRLF THEN 2 ELSE 0

\* A bug form: two symbols are asked for, although a lone LF would do.
Hesitant(s) ==
  CASE Len(s) < 2 -> "insufficient_data"
    [] Len(s) >= 2 /\ s[1] = "lf" -> "lf"
    [] Len(s) >= 2 /\ SubSeq(s, 1, 2) = CRLF -> "crlf"
    [] OTHER -> "invalid_data"

\* liberal_crlf::match, on one symbol or more.
LiberalCrlf(s) ==
  CASE s[1] = "lf" -> "lf"
    [] s = <<"cr">> -> "insufficient_data"
    [] Len(s) >= 2 /\ SubSeq(s, 1, 2) = CRLF -> "crlf"
    [] OTHER -> "invalid_data"

-----------------------------------------------------------------------------
(* Decoding *)

DigitValue ==
  [d \in HexDigits |->
     CASE d = "0" -> 0 [] d = "1" -> 1 [] d = "2" -> 2 [] d = "3" -> 3
       [] d = "4" -> 4 [] d = "a" -> 10]

LeadingZeros(s) == Match({"0"}, s)

Decoded(res, out) == [res |-> res, out |-> out]

\* A bug form: the weight of the next digit is not checked.
NoWeightCheck(s, charset, base, max) ==
  LET z == SubSeq(s, LeadingZeros(s) + 1, Len(s))
      n == Len(z)
      last[k \in 0 .. n] ==
        IF k = 0 THEN [res |-> "ok", weight |-> 1, out |-> 0]
        ELSE LET p == last[k - 1]
                 c == z[n - k + 1]
                 v == DigitValue[c] * p.weight
             IN CASE p.res # "ok" -> p
                  [] c \notin charset -> [p EXCEPT !.res = "invalid"]
                  [] \/ p.weight > 0 /\ max \div p.weight < DigitValue[c]
                     \/ max - v < p.out ->
                       [p EXCEPT !.res = "overflow"]
                  [] OTHER -> [res |-> "ok",
                               weight |-> (p.weight * base) % (max + 1),
                               out |-> p.out + v]
  IN IF s = <<>> THEN Decoded("invalid", 0)
     ELSE Decoded(last[n].res, last[n].out)

\* content_length::decode and chunk_size::decode: from the last digit to the
\* first, stopping at the first that is no digit or no longer fits a Target
\* whose greatest value is max.  last[k] is the loop after k digits.
Decode(s, charset, base, max) ==
  LET z == SubSeq(s, LeadingZeros(s) + 1, Len(s))
      n == Len(z)
      last[k \in 0 .. n] ==
        IF k = 0 THEN [res |-> "ok", weight |-> 1, out |-> 0]
        ELSE LET p == last[k - 1]
                 c == z[n - k + 1]
                 v == DigitValue[c] * p.weight
             IN CASE p.res # "ok" -> p
                  [] c \notin charset -> [p EXCEPT !.res = "invalid"]
                  [] \/ max \div p.weight < DigitValue[c]
                     \/ max - v < p.out
                     \/ (k < n /\ max \div base < p.weight) ->
                       [p EXCEPT !.res = "overflow"]
                  [] OTHER -> [res |-> "ok", weight |-> p.weight * base,
                               out |-> p.out + v]
  IN IF s = <<>> THEN Decoded("invalid", 0)
     ELSE Decoded(last[n].res, last[n].out)

ContentLength(s, max) == Decode(s, Digits, 10, max)
ChunkSize(s, max) == Decode(s, HexDigits, 16, max)

\* The symbols of b that decode_field_value meets for the n symbols after the
\* first i: from the last down to the second.  Without any, in.size() - 1
\* wraps, and the symbols before the value come, to the beginning of b.
Downwards(b, i, n) ==
  [k \in 1 .. (IF n = 0 THEN i ELSE n - 1) |-> b[i + n + 1 - k]]

ending_ows(b, i, n) == Match(ows, Downwards(b, i, n))

\* The loop does not end within b: what it reads next lies before the buffer.
LeavesBuffer(b, i, n) == n = 0 /\ ending_ows(b, i, n) = i

\* The value without trailing white space; its first symbol always stays.
\* remove_suffix takes no more than there is: an empty value stays empty
\* whatever was read before it, in the buffer or out of it.
decode_field_value(b, i, n) ==
  LET ending == ending_ows(b, i, n)
  IN SubSeq(b, i + 1, IF ending < n THEN i + n - ending ELSE i)

\* The white space around an element goes.
Trim(s) ==
  LET kept == {i \in 1 .. Len(s) : s[i] \notin ows}
  IN IF kept = {} THEN <<>> ELSE SubSeq(s, Min(kept), Max(kept))

\* header_value_any_of: the elements between commas, trimmed, the empty ones
\* left out.
Elements(s) ==
  LET cuts == SetToSortSeq({0, Len(s) + 1}
                             \cup {i \in 1 .. Len(s) : s[i] = "comma"}, <)
      pieces == [k \in 1 .. Len(cuts) - 1 |->
                   Trim(SubSeq(s, cuts[k] + 1, cuts[k + 1] - 1))]
  IN SelectSeq(pieces, LAMBDA e : e # <<>>)

\* A bug form: an encoding after chunked is let through.
AnyOrder(s) ==
  IF <<"chunked">> \in ToSet(Elements(s)) THEN "CHUNKED_AT_END"
  ELSE "CHUNKED_NOT_FOUND"

\* decode_transfer_encoding: the predicate over the elements in turn.
decode_transfer_encoding(s) ==
  FoldLeft(LAMBDA res, e :
             CASE res = "CHUNKED_NOT_FOUND" ->
                    IF e = <<"chunked">> THEN "CHUNKED_AT_END" ELSE res
               [] res = "CHUNKED_AT_END" -> "CHUNKED_INVALID"
               [] OTHER -> res,
           "CHUNKED_NOT_FOUND", Elements(s))
=============================================================================
