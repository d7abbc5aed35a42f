---------------------------- MODULE HttpHeaders ----------------------------
(***************************************************************************)
(* Values of header fields as the file server reads them                   *)
(* (algorithm/header.hpp and is_valid_range): decimal numbers of a width,  *)
(* dates, entity tags, byte ranges, lists.  A list is taken apart by       *)
(* Elements of HttpSyntax.                                                 *)
(***************************************************************************)
EXTENDS HttpSyntax, FiniteSetsExt

CONSTANTS
  MaxInt,     \* the greatest value of the integer type of positions
  Century     \* times from Century on are those of the years since 2000

-----------------------------------------------------------------------------
(* Numbers *)

\* A bug form: a digit whose weight does not fit is added all the same.
Wrapping(s) ==
  LET n == Len(s)
      last[k \in 0 .. n] ==
        IF k = 0 THEN [ok |-> TRUE, ret |-> 0, digit |-> 1, overflow |-> FALSE]
        ELSE LET p == last[k - 1]
             IN [p EXCEPT !.ret = (@ + DigitValue[s[n - k + 1]] * p.digit) % (MaxInt + 1),
                          !.digit = (@ * 10) % (MaxInt + 1)]
  IN last[n]

\* from_decimal_string: from the last digit to the first; ~ok is the
\* exception, thrown by a digit other than 0 that no longer fits.  last[k] is
\* the loop after k digits.
from_decimal_string(s) ==
  LET n == Len(s)
      last[k \in 0 .. n] ==
        IF k = 0 THEN [ok |-> TRUE, ret |-> 0, digit |-> 1, overflow |-> FALSE]
        ELSE LET p == last[k - 1]
                 value == DigitValue[s[n - k + 1]]
                 wide == MaxInt \div 10 < p.digit
             IN IF \/ ~p.ok
                   \/ /\ value # 0
                      /\ \/ p.overflow
                         \/ MaxInt \div p.digit < value
                         \/ MaxInt - value * p.digit < p.ret
                THEN [p EXCEPT !.ok = FALSE]
                ELSE [ok |-> TRUE,
                      ret |-> p.ret + value * p.digit,
                      digit |-> IF wide THEN p.digit ELSE p.digit * 10,
                      overflow |-> p.overflow \/ wide]
  IN last[n]

-----------------------------------------------------------------------------
(* Byte ranges *)

Fields(spec) == LET d == SelectInSeq(spec, LAMBDA c : c = "dash")
                IN [first |-> SubSeq(spec, 1, d - 1),
                    last |-> SubSeq(spec, d + 1, Len(spec))]

\* The regular expression (\d*)-(\d*), and a digit somewhere.
IsSpec(spec) ==
  /\ Len(spec) > 1
  /\ \E d \in DOMAIN spec :
       /\ spec[d] = "dash"
       /\ \A i \in DOMAIN spec \ {d} : spec[i] \in Digits

Range1(first, second) == <<[first |-> first, second |-> second]>>

\* What the predicate of is_valid_range adds to the set for one element: no
\* range if it cannot be satisfied.
add_range(spec, size) ==
  LET f == Fields(spec)
      first == from_decimal_string(f.first)
      last == from_decimal_string(f.last)
      within == f.last # <<>> /\ last.ok
  IN CASE f.first # <<>> /\ (~first.ok \/ first.ret >= size) -> <<>>
       [] f.first # <<>> /\ first.ok /\ first.ret < size ->
            IF within /\ last.ret < first.ret THEN <<>>
            ELSE Range1(first.ret,
                        IF within THEN Min({last.ret, size - 1}) ELSE size - 1)
       [] OTHER ->
            IF last.ok /\ last.ret = 0 THEN <<>>
            ELSE Range1(IF last.ok THEN size - Min({last.ret, size}) ELSE 0,
                        size - 1)

\* is_valid_range, of a size other than 0: the ranges, or none where it
\* returns false.
is_valid_range(value, size) ==
  LET specs == Elements(Tail(value))
  IN IF Len(value) > 1 /\ value[1] = "bytes=" /\ \A e \in ToSet(specs) : IsSpec(e)
     THEN FoldLeft(LAMBDA set, e : set \o add_range(e, size), <<>>, specs)
     ELSE <<>>

-----------------------------------------------------------------------------
(* Dates and entity tags *)

NotADate == 0

\* header_to_ptime, of a value of one of the three forms (rfc1123, rfc1036,
\* asctime) with a time that exists, or of neither.  A year of two digits is
\* one of the 1900s.
header_to_ptime(value) ==
  CASE value.form \in {"rfc1123", "asctime"} -> value.at
    [] value.form = "rfc1036" -> value.at % Century
    [] OTHER -> NotADate

\* The text between the quotes of a well-formed entity tag.
Opaque(tag) ==
  [value |-> IF tag = <<>> THEN <<>>
             ELSE SubSeq(tag, IF tag[1] = "W/" THEN 3 ELSE 2, Len(tag) - 1),
   strong |-> tag # <<>> /\ tag[1] = "quote"]

Weak(tag) == tag # <<>> /\ tag[1] = "W/"

etag_match_strong(a, b) == ~Weak(a) /\ ~Weak(b) /\ a = b

etag_match_weak(a, b) ==
  (IF Weak(a) THEN Tail(a) ELSE a) = (IF Weak(b) THEN Tail(b) ELSE b)
=============================================================================
