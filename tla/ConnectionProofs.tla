-------------------------- MODULE ConnectionProofs --------------------------
(***************************************************************************)
(* The safety of the connections, for any number of them and any bound on  *)
(* what the clients send.                                                  *)
(*                                                                         *)
(* The coroutines share only the service, so the inductive invariant is a  *)
(* statement about each connection alone, Exchange: it relates the place   *)
(* where the coroutine waits (pc, target) to the states of the socket      *)
(* (istate, wstate) and to the part of the stream that was read.           *)
(***************************************************************************)
EXTENDS Connection, SequenceTheorems, FiniteSetTheorems, TLAPS

-----------------------------------------------------------------------------
(* Counting the tokens of a kind *)

Places(k, s, m, n) == {i \in m .. n : s[i] = k}

LEMMA PlacesFinite ==
  ASSUME NEW k, NEW s, NEW m \in Int, NEW n \in Int
  PROVE  /\ IsFiniteSet(Places(k, s, m, n))
         /\ Cardinality(Places(k, s, m, n)) \in Nat
<1>1. Places(k, s, m, n) \subseteq m .. n
  BY DEF Places
<1> QED BY <1>1, FS_Interval, FS_Subset, FS_CardinalityType

\* The tokens of a part of a stream, by their places in the stream.
LEMMA CountPart ==
  ASSUME NEW s \in Seq(Tokens), NEW k, NEW m \in Nat, NEW e \in Nat,
         m # 0, m <= e + 1, e <= Len(s)
  PROVE  Count(k, SubSeq(s, m, e)) = Cardinality(Places(k, s, m, e))
<1> DEFINE b == SubSeq(s, m, e)
           n == e - m + 1
           S == Places(k, b, 1, n)
           T == Places(k, s, m, e)
           f == [i \in S |-> m + i - 1]
<1>1. /\ n \in Nat /\ Len(b) = n /\ b \in Seq(Tokens)
      /\ \A i \in 1 .. n : b[i] = s[m + i - 1]
  <2>1. \A i \in m .. e : s[i] \in Tokens
    BY ElementOfSeq
  <2>2. /\ b \in Seq(Tokens)
        /\ Len(b) = IF m <= e THEN e - m + 1 ELSE 0
        /\ \A i \in 1 .. e - m + 1 : b[i] = s[m + i - 1]
    BY <2>1, SubSeqProperties
  <2> HIDE DEF b
  <2> QED BY <2>2
<1>2. DOMAIN b = 1 .. n
  BY <1>1, LenProperties
<1>3. Count(k, b) = Cardinality(S)
  BY <1>2 DEF Count, Places
<1>4. IsFiniteSet(S)
  BY <1>1, PlacesFinite
<1>5. f \in Bijection(S, T)
  <2> HIDE DEF b
  <2>1. \A i \in S : i \in 1 .. n /\ b[i] = k
    BY DEF Places
  <2>2. \A t \in T : t \in m .. e /\ s[t] = k
    BY DEF Places
  <2>3. ASSUME NEW i \in S PROVE m + i - 1 \in T
    BY <1>1, <2>1 DEF Places
  <2>4. ASSUME NEW t \in T PROVE t - m + 1 \in S /\ f[t - m + 1] = t
    <3>1. t - m + 1 \in 1 .. n /\ m + (t - m + 1) - 1 = t
      BY <2>2
    <3>2. t - m + 1 \in S
      BY <1>1, <2>2, <3>1 DEF Places
    <3> QED BY <3>1, <3>2
  <2>5. \A i, j \in S : f[i] = f[j] => i = j
    BY <2>1
  <2> HIDE DEF S, T
  <2>6. f \in [S -> T]
    BY <2>3
  <2>7. \A t \in T : \E i \in S : f[i] = t
    BY <2>4
  <2> HIDE DEF f
  <2> QED BY <2>5, <2>6, <2>7 DEF Bijection, Injection, Surjection, IsInjective
<1>6. Cardinality(S) = Cardinality(T)
  BY <1>4, <1>5, FS_Bijection DEF ExistsBijection
<1> QED BY <1>3, <1>6

LEMMA CountPrefix ==
  ASSUME NEW s \in Seq(Tokens), NEW k, NEW n \in Nat, n <= Len(s)
  PROVE  Count(k, SubSeq(s, 1, n)) = Cardinality(Places(k, s, 1, n))
BY CountPart

\* Reading on adds what was read.
LEMMA CountOn ==
  ASSUME NEW s \in Seq(Tokens), NEW k, NEW r \in Nat, NEW e \in Nat,
         r <= e, e <= Len(s)
  PROVE  Count(k, SubSeq(s, 1, e)) =
           Count(k, SubSeq(s, 1, r)) + Count(k, SubSeq(s, r + 1, e))
<1> DEFINE A == Places(k, s, 1, r)
           B == Places(k, s, r + 1, e)
           C == Places(k, s, 1, e)
<1>1. C = A \cup B /\ A \cap B = {}
  BY DEF Places
<1>2. /\ IsFiniteSet(A) /\ IsFiniteSet(B)
      /\ Cardinality(A) \in Nat /\ Cardinality(B) \in Nat
  BY PlacesFinite
<1>3. Cardinality(C) = Cardinality(A) + Cardinality(B)
  <2> HIDE DEF A, B, C
  <2>1. Cardinality(A \cup B) =
          Cardinality(A) + Cardinality(B) - Cardinality(A \cap B)
    BY <1>2, FS_Union
  <2>2. Cardinality(A \cap B) = 0
    BY <1>1, FS_EmptySet
  <2> QED BY <1>1, <1>2, <2>1, <2>2
<1>4. r <= Len(s) /\ r + 1 \in Nat /\ r + 1 # 0 /\ r + 1 <= e + 1
  BY LenProperties
<1>5. Count(k, SubSeq(s, 1, e)) = Cardinality(C)
  BY CountPrefix
<1>6. Count(k, SubSeq(s, 1, r)) = Cardinality(A)
  BY <1>4, CountPrefix
<1>7. Count(k, SubSeq(s, r + 1, e)) = Cardinality(B)
  BY <1>4, CountPart
<1> HIDE DEF A, B, C
<1> QED BY <1>3, <1>5, <1>6, <1>7

\* A kind that does not occur later is counted in the part that was read.
LEMMA CountAll ==
  ASSUME NEW s \in Seq(Tokens), NEW k, NEW r \in Nat, r <= Len(s),
         \A i \in r + 1 .. Len(s) : s[i] # k
  PROVE  Count(k, s) = Count(k, SubSeq(s, 1, r))
<1>1. Places(k, s, 1, Len(s)) = Places(k, s, 1, r)
  BY LenProperties DEF Places
<1>2. Count(k, s) = Cardinality(Places(k, s, 1, Len(s)))
  BY LenProperties DEF Count, Places
<1> QED BY <1>1, <1>2, CountPrefix

\* No more tokens of a kind than tokens.
LEMMA CountBound ==
  ASSUME NEW s \in Seq(Tokens), NEW k, NEW r \in Nat, r <= Len(s)
  PROVE  Count(k, SubSeq(s, 1, r)) \in 0 .. r
<1>1. Places(k, s, 1, r) \in SUBSET (1 .. r)
  BY DEF Places
<1>2. IsFiniteSet(1 .. r) /\ Cardinality(1 .. r) = r
  BY FS_Interval
<1>3. Cardinality(Places(k, s, 1, r)) <= r
  BY <1>1, <1>2, FS_Subset
<1> QED BY <1>3, PlacesFinite, CountPrefix

-----------------------------------------------------------------------------
(* The inductive invariant, for one connection *)

\* No body after the end of a message: a stream is one request, and perhaps
\* the head of another.
Ordered(s) ==
  \A i, j \in 1 .. Len(s) : s[i] = "eom" /\ s[j] = "chunk" => j < i

\* The end of the message is among what was read.
EomRead(c) == \E i \in 1 .. read[c] : sent[c][i] = "eom"

\* The stream and the part of it that was read.  The tokens before one that
\* the parser refuses are consumed with it, and not stored.
Stream(c) ==
  /\ Len(sent[c]) <= MaxTokens[c]
  /\ Ordered(sent[c])
  /\ read[c] <= Len(sent[c])
  /\ got[c] <= read[c]
  /\ err[c] # "parsing_error" =>
       got[c] = Count("chunk", SubSeq(sent[c], 1, read[c]))
  /\ expect[c] => Has({"expecting head"}, sent[c])

\* The body is read only while the message is not complete and the writer is
\* open; a reply and the manager come after the end of the message.
Exchange(c) ==
  /\ Up /\ pc[c] = "reading" /\ target[c] # "READY" =>
       wstate[c] # "finished" /\ istate[c] # "empty"
  /\ Up /\ pc[c] = "continuing" =>
       /\ wstate[c] # "finished"
       /\ Has({"expecting head"}, sent[c])
       /\ istate[c] = "empty" => EomRead(c)
  /\ pc[c] = "replying" => EomRead(c)
  /\ c \in handled => EomRead(c) /\ err[c] # "parsing_error"
  /\ Up /\ c \in handled => pc[c] \in {"replying", "over"}
  /\ err[c] = "parsing_error" => pc[c] = "over"
  /\ err[c] # "out_of_order"

\* The variables are functions of the connections (TypeOK, which bounds read
\* and got, follows with Stream).
Shape ==
  /\ sent \in [Conns -> Seq(Tokens)]
  /\ gone \in [Conns -> {"no", "closed", "reset"}]
  /\ read \in [Conns -> Nat]
  /\ istate \in [Conns -> {"empty", "message_ready", "body_ready"}]
  /\ wstate \in [Conns -> {"empty", "continue_issued", "finished"}]
  /\ got \in [Conns -> Nat]
  /\ expect \in [Conns -> BOOLEAN]
  /\ pc \in [Conns -> {"new", "reading", "continuing", "replying", "over"}]
  /\ target \in [Conns -> {"READY", "DATA", "END"}]
  /\ status \in [Conns -> {0, 200, 400, 500}]
  /\ handled \subseteq Conns
  /\ err \in [Conns -> {"none", "eof", "peer", "parsing_error",
                        "out_of_order"}]
  /\ svc \in {"up", "aborted", "ended"}

IInv ==
  /\ Shape
  /\ \A c \in Conns : Stream(c) /\ Exchange(c)
  /\ OnlyBrokenPeers

USE ConnectionAssumption

LEMMA InitIInv == Init => IInv
<1> SUFFICES ASSUME Init PROVE IInv
  OBVIOUS
<1>1. Shape
  BY EmptySeq DEF Init, Shape
<1>2. Count("chunk", SubSeq(<<>>, 1, 0)) = 0
  <2>1. SubSeq(<<>>, 1, 0) = <<>>
    BY SubSeqEmpty
  <2>2. {i \in DOMAIN <<>> : <<>>[i] = "chunk"} = {}
    OBVIOUS
  <2> QED BY <2>1, <2>2, FS_EmptySet DEF Count
<1>3. ASSUME NEW c \in Conns PROVE Stream(c) /\ Exchange(c)
  BY <1>2, EmptySeq DEF Init, Stream, Exchange, Ordered
<1> QED BY <1>1, <1>3 DEF Init, IInv, OnlyBrokenPeers

-----------------------------------------------------------------------------
(* What a step leaves alone *)

\* A connection that a step does not touch; the service may end.
Untouched(d) ==
  /\ sent'[d] = sent[d] /\ read'[d] = read[d]
  /\ istate'[d] = istate[d] /\ wstate'[d] = wstate[d]
  /\ got'[d] = got[d] /\ expect'[d] = expect[d]
  /\ pc'[d] = pc[d] /\ target'[d] = target[d] /\ err'[d] = err[d]
  /\ d \in handled' <=> d \in handled
  /\ Up' => Up

LEMMA UntouchedKept ==
  ASSUME NEW d, Stream(d), Exchange(d), Untouched(d)
  PROVE  Stream(d)' /\ Exchange(d)'
BY DEF Stream, Exchange, Untouched, EomRead

\* The coroutine of c goes on, of all connections' variables only its own.
Only(c) ==
  \A d \in Conns \ {c} :
    /\ wstate'[d] = wstate[d] /\ pc'[d] = pc[d] /\ target'[d] = target[d]
    /\ err'[d] = err[d]
    /\ d \in handled' <=> d \in handled

CoShape ==
  /\ wstate \in [Conns -> {"empty", "continue_issued", "finished"}]
  /\ pc \in [Conns -> {"new", "reading", "continuing", "replying", "over"}]
  /\ target \in [Conns -> {"READY", "DATA", "END"}]
  /\ status \in [Conns -> {0, 200, 400, 500}]
  /\ handled \subseteq Conns
  /\ err \in [Conns -> {"none", "eof", "peer", "parsing_error",
                        "out_of_order"}]
  /\ svc \in {"up", "aborted", "ended"}

\* With an open writer, a complete message is handled and anything else is
\* read on: no call is out of order.
LEMMA LoopStep ==
  ASSUME CoShape, NEW c \in Conns, NEW i, NEW w,
         w \in {"empty", "continue_issued"}, Loop(c, i, w)
  PROVE  /\ CoShape' /\ Only(c) /\ err' = err
         /\ svc' \in {svc, "ended"}
         /\ \/ /\ i # "empty"
               /\ pc'[c] = "reading" /\ wstate'[c] = w
               /\ handled' = handled
            \/ /\ i = "empty"
               /\ pc'[c] = "replying" \/ (svc' = "ended" /\ pc' = pc)
               /\ handled' \subseteq handled \cup {c}
<1> USE DEF CoShape, Only
<1>1. CASE i # "empty"
  BY <1>1 DEF Loop, Read, HandleRequest
<1>2. CASE i = "empty"
  <2>1. HandleRequest(c, w)
    BY <1>2 DEF Loop
  <2>2. ASSUME NEW code \in {200, 400, 500}, Reply(c, code, w)
        PROVE  /\ wstate' \in
                    [Conns -> {"empty", "continue_issued", "finished"}]
               /\ pc' = [pc EXCEPT ![c] = "replying"]
               /\ wstate' = [wstate EXCEPT ![c] = "finished"]
               /\ status' \in [Conns -> {0, 200, 400, 500}]
               /\ err' = err /\ svc' = svc
    BY <2>2 DEF Reply
  <2>3. CASE Reply(c, 400, w) /\ UNCHANGED <<target, handled>>
    <3>1. PICK code \in {200, 400, 500} : Reply(c, code, w)
      BY <2>3
    <3>2. UNCHANGED <<target, handled>>
      BY <2>3
    <3> QED BY <1>2, <2>2, <3>1, <3>2
  <2>4. ASSUME NEW code \in {200, 400, 500}, Reply(c, code, w),
               handled' = handled \cup {c}, UNCHANGED target
        PROVE  /\ CoShape' /\ Only(c) /\ err' = err /\ svc' = svc
               /\ pc'[c] = "replying"
    BY <2>2, <2>4
  <2>5. CASE /\ handled' = handled \cup {c} /\ svc' = "ended"
             /\ wstate' = [wstate EXCEPT ![c] = w]
             /\ UNCHANGED <<pc, target, status, err>>
    BY <1>2, <2>5
  <2> QED BY <1>2, <2>1, <2>3, <2>4, <2>5 DEF HandleRequest
<1> QED BY <1>1, <1>2

\* After the head of a message the writer is open: a 100-continue is sent if
\* it was asked for, and otherwise the loop goes on.
LEMMA AfterHeadStep ==
  ASSUME CoShape, NEW c \in Conns, NEW i, NEW expecting \in BOOLEAN,
         AfterHead(c, i, "empty", expecting)
  PROVE  /\ CoShape' /\ Only(c) /\ err' = err
         /\ svc' \in {svc, "ended"}
         /\ \/ /\ expecting
               /\ pc'[c] = "continuing" /\ wstate'[c] = "continue_issued"
               /\ handled' = handled
            \/ /\ i # "empty"
               /\ pc'[c] = "reading" /\ wstate'[c] = "empty"
               /\ handled' = handled
            \/ /\ i = "empty"
               /\ pc'[c] = "replying" \/ (svc' = "ended" /\ pc' = pc)
               /\ handled' \subseteq handled \cup {c}
<1>1. CASE expecting
  BY <1>1 DEF AfterHead, CoShape, Only
<1>2. CASE ~expecting
  <2>1. Loop(c, i, "empty")
    BY <1>2 DEF AfterHead
  <2> QED BY <2>1, LoopStep
<1> QED BY <1>1, <1>2

-----------------------------------------------------------------------------
(* What a batch brings *)

Part(s, r, n) == SubSeq(s, r + 1, r + n)

LEMMA PartTokens ==
  ASSUME NEW s \in Seq(Tokens), NEW r \in Nat, NEW n \in Nat,
         r + n <= Len(s)
  PROVE  /\ Part(s, r, n) \in Seq(Tokens)
         /\ DOMAIN Part(s, r, n) = 1 .. n
         /\ \A i \in 1 .. n : Part(s, r, n)[i] = s[r + i]
<1> DEFINE b == SubSeq(s, r + 1, r + n)
<1>1. \A i \in r + 1 .. r + n : s[i] \in Tokens
  BY ElementOfSeq
<1>2. /\ b \in Seq(Tokens)
      /\ Len(b) = IF r + 1 <= r + n THEN (r + n) - (r + 1) + 1 ELSE 0
      /\ \A i \in 1 .. (r + n) - (r + 1) + 1 : b[i] = s[(r + 1) + i - 1]
  BY <1>1, SubSeqProperties
<1>3. Part(s, r, n) = b
  BY DEF Part
<1> HIDE DEF b
<1>4. Len(b) = n /\ \A i \in 1 .. n : b[i] = s[r + i]
  BY <1>2
<1> QED BY <1>2, <1>3, <1>4, LenProperties

\* Reading a part on adds the tokens of the part.
LEMMA CountNext ==
  ASSUME NEW s \in Seq(Tokens), NEW k, NEW r \in Nat, NEW n \in Nat,
         NEW e, e = r + n, e <= Len(s)
  PROVE  Count(k, SubSeq(s, 1, e)) =
           Count(k, SubSeq(s, 1, r)) + Count(k, Part(s, r, n))
<1>1. e \in Nat /\ r <= e
  OBVIOUS
<1>2. Part(s, r, n) = SubSeq(s, r + 1, e)
  BY DEF Part
<1> QED BY <1>1, <1>2, CountOn

LEMMA CountAdvances ==
  ASSUME NEW s \in Seq(Tokens), NEW k, NEW r \in Nat, NEW n \in Nat,
         r + n <= Len(s)
  PROVE  /\ Count(k, SubSeq(s, 1, r)) + Count(k, Part(s, r, n)) =
              Count(k, SubSeq(s, 1, r + n))
         /\ Count(k, SubSeq(s, 1, r + n)) \in 0 .. r + n
<1> DEFINE e == r + n
<1>1. e \in Nat /\ e = r + n /\ e <= Len(s)
  OBVIOUS
<1> HIDE DEF e
<1>2. Count(k, SubSeq(s, 1, e)) =
        Count(k, SubSeq(s, 1, r)) + Count(k, Part(s, r, n))
  BY <1>1, CountNext
<1>3. Count(k, SubSeq(s, 1, e)) \in 0 .. e
  BY <1>1, CountBound
<1> QED BY <1>1, <1>2, <1>3

\* The tokens of a batch are the next ones of the stream.
LEMMA BatchTokens ==
  ASSUME Shape, NEW c \in Conns, NEW n \in Nat, Batch(c, n)
  PROVE  /\ sent[c] \in Seq(Tokens) /\ Len(sent[c]) \in Nat
         /\ read[c] \in Nat /\ n # 0
         /\ read[c] + n <= Len(sent[c])
         /\ Parsed(c, n) = Part(sent[c], read[c], n)
         /\ Parsed(c, n) \in Seq(Tokens)
         /\ DOMAIN Parsed(c, n) = 1 .. n
         /\ \A i \in 1 .. n : Parsed(c, n)[i] = sent[c][read[c] + i]
<1> DEFINE s == sent[c]
           r == read[c]
<1>1. s \in Seq(Tokens) /\ r \in Nat
  BY DEF Shape
<1>2. n \in 1 .. Len(s) - r
  BY DEF Batch
<1>3. Parsed(c, n) = Part(s, r, n)
  BY DEF Parsed, Part
<1> HIDE DEF s, r
<1>4. Len(s) \in Nat
  BY <1>1, LenProperties
<1>5. n # 0 /\ r + n <= Len(s)
  BY <1>1, <1>2, <1>4
<1>6. /\ Part(s, r, n) \in Seq(Tokens)
      /\ DOMAIN Part(s, r, n) = 1 .. n
      /\ \A i \in 1 .. n : Part(s, r, n)[i] = s[r + i]
  BY <1>1, <1>5, PartTokens
<1>7. /\ s \in Seq(Tokens) /\ Len(s) \in Nat /\ r \in Nat /\ n # 0
      /\ r + n <= Len(s) /\ Parsed(c, n) = Part(s, r, n)
      /\ Parsed(c, n) \in Seq(Tokens)
      /\ DOMAIN Parsed(c, n) = 1 .. n
      /\ \A i \in 1 .. n : Parsed(c, n)[i] = s[r + i]
  BY <1>1, <1>3, <1>4, <1>5, <1>6
<1> QED BY <1>7 DEF s, r

\* A token of a batch was sent, and was read with the batch.
LEMMA BatchHas ==
  ASSUME Shape, NEW c \in Conns, NEW n \in Nat, Batch(c, n),
         NEW kinds, Has(kinds, Parsed(c, n))
  PROVE  /\ Has(kinds, sent[c])
         /\ \E i \in 1 .. read[c] + n : sent[c][i] \in kinds
<1>1. PICK k \in 1 .. n : sent[c][read[c] + k] \in kinds
  BY BatchTokens DEF Has
<1>2. /\ read[c] + k \in 1 .. read[c] + n
      /\ read[c] + k \in DOMAIN sent[c]
  <2>1. DOMAIN sent[c] = 1 .. Len(sent[c])
    BY BatchTokens, LenProperties
  <2> QED BY <2>1, BatchTokens
<1> QED BY <1>1, <1>2 DEF Has

\* The body after a batch holds the chunks of all that was read.
LEMMA BatchBody ==
  ASSUME Shape, NEW c \in Conns, Stream(c), NEW n \in Nat, Batch(c, n),
         err[c] # "parsing_error"
  PROVE  /\ read[c] + n \in Nat /\ read[c] + n <= Len(sent[c])
         /\ Body(got[c], Parsed(c, n)) =
              Count("chunk", SubSeq(sent[c], 1, read[c] + n))
         /\ Body(got[c], Parsed(c, n)) \in Nat
         /\ Body(got[c], Parsed(c, n)) <= read[c] + n
<1> DEFINE s == sent[c]
           r == read[c]
<1>1. /\ s \in Seq(Tokens) /\ r \in Nat /\ r + n <= Len(s)
      /\ Parsed(c, n) = Part(s, r, n)
  BY BatchTokens
<1>2. got[c] = Count("chunk", SubSeq(s, 1, r))
  BY DEF Stream
<1>3. Body(got[c], Parsed(c, n)) =
        Count("chunk", SubSeq(s, 1, r)) + Count("chunk", Part(s, r, n))
  BY <1>1, <1>2 DEF Body
<1> HIDE DEF s, r
<1>4. /\ Count("chunk", SubSeq(s, 1, r)) + Count("chunk", Part(s, r, n)) =
           Count("chunk", SubSeq(s, 1, r + n))
      /\ Count("chunk", SubSeq(s, 1, r + n)) \in 0 .. r + n
  BY <1>1, CountAdvances
<1>5. r + n \in Nat
  BY <1>1
<1>6. Body(got[c], Parsed(c, n)) = Count("chunk", SubSeq(s, 1, r + n))
  BY <1>3, <1>4
<1> DEFINE count == Count("chunk", SubSeq(s, 1, r + n))
           e == r + n
<1>7. count \in 0 .. e /\ e \in Nat
  BY <1>4, <1>5
<1>8. count \in Nat /\ count <= e
  <2> HIDE DEF count, e
  <2> QED BY <1>7
<1> QED BY <1>1, <1>5, <1>6, <1>8 DEF s, r

\* The stream after a batch.
LEMMA BatchStream ==
  ASSUME Shape, NEW c \in Conns, Stream(c), NEW n \in Nat, Batch(c, n),
         err[c] # "parsing_error",
         NEW e, e = read[c] + n, NEW b, b = Body(got[c], Parsed(c, n)),
         read' = [read EXCEPT ![c] = e],
         got' = [got EXCEPT ![c] = b],
         sent' = sent,
         expect'[c] => expect[c] \/ Has({"expecting head"}, Parsed(c, n))
  PROVE  /\ Stream(c)'
         /\ read' \in [Conns -> Nat] /\ got' \in [Conns -> Nat]
<1>1. /\ e \in Nat /\ e <= Len(sent[c])
      /\ b = Count("chunk", SubSeq(sent[c], 1, e))
      /\ b \in Nat /\ b <= e
  BY BatchBody
<1>2. /\ read'[c] = e /\ read' \in [Conns -> Nat]
      /\ got'[c] = b /\ got' \in [Conns -> Nat]
      /\ sent'[c] = sent[c]
  <2>1. read \in [Conns -> Nat] /\ got \in [Conns -> Nat]
    BY DEF Shape
  <2> QED BY <1>1, <2>1
<1>3. expect'[c] => Has({"expecting head"}, sent[c])
  BY BatchHas DEF Stream
<1>4. Len(sent[c]) <= MaxTokens[c] /\ Ordered(sent[c])
  BY DEF Stream
<1> QED BY <1>1, <1>2, <1>3, <1>4 DEF Stream

-----------------------------------------------------------------------------
(* The steps *)

\* A step of one connection.
LEMMA Assembled ==
  ASSUME IInv, Shape', NEW c \in Conns, \A d \in Conns \ {c} : Untouched(d),
         Stream(c)', Exchange(c)', svc' = "aborted" => Broke(c)'
  PROVE  IInv'
<1>1. \A d \in Conns \ {c} : Stream(d)' /\ Exchange(d)'
  BY UntouchedKept DEF IInv
<1>2. OnlyBrokenPeers'
  BY DEF OnlyBrokenPeers
<1> QED BY <1>1, <1>2 DEF IInv

\* A token that follows is in order: no body comes after the end.
LEMMA SentInOrder ==
  ASSUME NEW s \in Seq(Tokens), NEW token \in Follows(s), Ordered(s),
         token \in Tokens
  PROVE  Ordered(Append(s, token))
<1> DEFINE t == Append(s, token)
<1>1. /\ Len(s) \in Nat /\ Len(t) = Len(s) + 1
      /\ \A i \in 1 .. Len(s) : t[i] = s[i]
      /\ t[Len(s) + 1] = token
  BY AppendProperties, LenProperties
<1>2. token = "chunk" => \A i \in 1 .. Len(s) : s[i] # "eom"
  BY LenProperties DEF Follows, Has, Heads
<1> HIDE DEF t
<1>3. ASSUME NEW i \in 1 .. Len(t), NEW j \in 1 .. Len(t),
             t[i] = "eom", t[j] = "chunk"
      PROVE  j < i
  <2>1. i \in 1 .. Len(s) \/ i = Len(s) + 1
    BY <1>1
  <2>2. j \in 1 .. Len(s) \/ j = Len(s) + 1
    BY <1>1
  <2>3. CASE j = Len(s) + 1
    BY <1>1, <1>2, <1>3, <2>1, <2>3
  <2>4. CASE j \in 1 .. Len(s) /\ i = Len(s) + 1
    BY <1>1, <2>4
  <2>5. CASE j \in 1 .. Len(s) /\ i \in 1 .. Len(s)
    BY <1>1, <1>3, <2>5 DEF Ordered
  <2> QED BY <2>1, <2>2, <2>3, <2>4, <2>5
<1>4. Ordered(t)
  BY <1>3 DEF Ordered
<1> QED BY <1>4 DEF t

\* What is sent later changes nothing of what was sent before.
LEMMA SentKeeps ==
  ASSUME NEW s \in Seq(Tokens), NEW token \in Tokens,
         NEW r \in Nat, r <= Len(s)
  PROVE  /\ Append(s, token) \in Seq(Tokens)
         /\ Len(Append(s, token)) = Len(s) + 1
         /\ \A i \in 1 .. r : Append(s, token)[i] = s[i]
         /\ \A kinds : Has(kinds, s) => Has(kinds, Append(s, token))
         /\ \A k : Count(k, SubSeq(Append(s, token), 1, r)) =
                     Count(k, SubSeq(s, 1, r))
<1> DEFINE t == Append(s, token)
<1>1. /\ Len(s) \in Nat /\ t \in Seq(Tokens) /\ Len(t) = Len(s) + 1
      /\ \A i \in 1 .. Len(s) : t[i] = s[i]
      /\ DOMAIN s = 1 .. Len(s) /\ DOMAIN t = 1 .. Len(t)
  BY AppendProperties, LenProperties
<1> HIDE DEF t
<1>2. \A i \in 1 .. r : t[i] = s[i]
  BY <1>1
<1>3. ASSUME NEW kinds, Has(kinds, s) PROVE Has(kinds, t)
  <2>1. PICK i \in 1 .. Len(s) : s[i] \in kinds
    BY <1>1, <1>3 DEF Has
  <2>2. i \in 1 .. Len(t)
    BY <1>1
  <2> QED BY <1>1, <2>1, <2>2 DEF Has
<1>4. ASSUME NEW k
      PROVE  Count(k, SubSeq(t, 1, r)) = Count(k, SubSeq(s, 1, r))
  <2>1. Places(k, t, 1, r) = Places(k, s, 1, r)
    BY <1>2 DEF Places
  <2>2. r <= Len(t)
    BY <1>1
  <2> QED BY <1>1, <2>1, <2>2, CountPrefix
<1> QED BY <1>1, <1>2, <1>3, <1>4 DEF t

LEMMA SendStep ==
  ASSUME IInv, NEW c \in Conns, NEW token \in Tokens, Send(c, token)
  PROVE  IInv'
<1> DEFINE s == sent[c]
           t == Append(sent[c], token)
           r == read[c]
           m == MaxTokens[c]
<1>1. /\ s \in Seq(Tokens) /\ r \in Nat /\ r <= Len(s) /\ Len(s) \in Nat
      /\ Ordered(s) /\ Len(s) < m /\ token \in Follows(s) /\ m \in Nat
  <2>1. s \in Seq(Tokens) /\ r \in Nat
    BY DEF IInv, Shape
  <2>2. r <= Len(s) /\ Ordered(s)
    BY DEF IInv, Stream
  <2>3. Len(s) < m /\ token \in Follows(s)
    BY DEF Send
  <2>4. m \in Nat
    OBVIOUS
  <2> HIDE DEF s, r, m
  <2> QED BY <2>1, <2>2, <2>3, <2>4, LenProperties
<1>2. /\ t \in Seq(Tokens) /\ Len(t) = Len(s) + 1
      /\ \A i \in 1 .. r : t[i] = s[i]
      /\ Has({"expecting head"}, s) => Has({"expecting head"}, t)
      /\ Count("chunk", SubSeq(t, 1, r)) = Count("chunk", SubSeq(s, 1, r))
  <2> HIDE DEF s, r
  <2>1. t = Append(s, token)
    BY DEF s
  <2> HIDE DEF t
  <2> QED BY <1>1, <2>1, SentKeeps
<1>3. Ordered(t)
  BY <1>1, SentInOrder
<1>4. sent' = [sent EXCEPT ![c] = t] /\ UNCHANGED <<gone, sockVars, coVars>>
  BY DEF Send
<1>5. Shape /\ Stream(c) /\ Exchange(c) /\ Up
  BY DEF IInv, Send, Connected
<1> HIDE DEF t
<1>6. Shape' /\ sent'[c] = t
  <2>1. sent' \in [Conns -> Seq(Tokens)] /\ sent'[c] = t
    <3>1. sent \in [Conns -> Seq(Tokens)]
      BY <1>5 DEF Shape
    <3> QED BY <1>2, <1>4, <3>1
  <2> QED BY <1>4, <1>5, <2>1 DEF Shape, sockVars, coVars
<1>7. \A d \in Conns \ {c} : Untouched(d)
  BY <1>4, <1>5 DEF Shape, Untouched, sockVars, coVars, Up
<1>8. Len(t) <= m /\ r <= Len(t)
  <2> DEFINE x == Len(s)
             y == Len(t)
  <2>1. x \in Nat /\ r \in Nat /\ m \in Nat /\ r <= x /\ x < m
    BY <1>1
  <2>2. y = x + 1
    BY <1>2
  <2> HIDE DEF s, r, m, x, y
  <2>3. y <= m /\ r <= y
    BY <2>1, <2>2
  <2> QED BY <2>3 DEF y
<1>9. Stream(c)'
  BY <1>2, <1>3, <1>4, <1>5, <1>6, <1>8 DEF Stream, sockVars, coVars
<1>10. EomRead(c) => EomRead(c)'
  BY <1>2, <1>4, <1>6 DEF EomRead, sockVars
<1>11. Exchange(c)'
  BY <1>2, <1>4, <1>5, <1>6, <1>10 DEF Exchange, sockVars, coVars, Up
<1>12. svc' # "aborted"
  BY <1>4, <1>5 DEF Up, coVars
<1> QED BY <1>6, <1>7, <1>9, <1>11, <1>12, Assembled

\* Nothing but the service, or how a client left, changes.
LEMMA QuietStep ==
  ASSUME IInv, UNCHANGED <<sent, sockVars, pc, target, status, handled, err>>,
         gone' \in [Conns -> {"no", "closed", "reset"}],
         svc' \in {svc, "ended"}, svc' = "aborted" => gone' = gone
  PROVE  IInv'
<1>1. Shape'
  BY DEF IInv, Shape, sockVars
<1>2. \A c \in Conns : Untouched(c)
  BY DEF Untouched, sockVars, Up
<1>3. OnlyBrokenPeers'
  BY DEF IInv, OnlyBrokenPeers, Broke, Asked
<1> QED BY <1>1, <1>2, <1>3, UntouchedKept DEF IInv

LEMMA LeaveStep ==
  ASSUME IInv, NEW c \in Conns, NEW how \in {"closed", "reset"}, Leave(c, how)
  PROVE  IInv'
<1>1. gone' \in [Conns -> {"no", "closed", "reset"}]
  BY DEF Leave, IInv, Shape
<1>2. svc' = svc /\ svc' # "aborted"
  BY DEF Leave, Connected, Up, coVars
<1> QED BY <1>1, <1>2, QuietStep DEF Leave, coVars

LEMMA EndsStep ==
  ASSUME IInv, Ends \/ Down \/ UNCHANGED vars
  PROVE  IInv'
<1>1. gone \in [Conns -> {"no", "closed", "reset"}]
  BY DEF IInv, Shape
<1>2. CASE Ends
  BY <1>1, <1>2, QuietStep DEF Ends, clientVars
<1>3. CASE UNCHANGED vars
  BY <1>1, <1>3, QuietStep DEF vars, clientVars, coVars
<1> QED BY <1>2, <1>3 DEF Down

LEMMA AcceptStep ==
  ASSUME IInv, NEW c \in Conns, accept(c)
  PROVE  IInv'
<1> USE DEF accept, Read, clientVars
<1>1. Shape /\ Stream(c) /\ Exchange(c) /\ Up
  BY DEF IInv
<1>2. Shape'
  BY <1>1 DEF Shape
<1>3. \A d \in Conns \ {c} : Untouched(d)
  BY <1>1 DEF Shape, Untouched, Up
<1>4. Stream(c)'
  BY <1>1 DEF Stream
<1>5. /\ pc'[c] = "reading" /\ target'[c] = "READY"
      /\ c \notin handled /\ err[c] # "parsing_error"
  BY <1>1 DEF Shape, Exchange
<1>6. Exchange(c)'
  BY <1>1, <1>5 DEF Exchange
<1>7. svc' # "aborted"
  BY <1>1 DEF Up
<1> QED BY <1>2, <1>3, <1>4, <1>6, <1>7, Assembled

\* The body is read only while the writer is open; a batch that ends the
\* message ends the loop, and the end of the message was then read.
LEMMA ReadStep ==
  ASSUME IInv, NEW c \in Conns, NEW n \in Nat, on_async_read_message(c, n)
  PROVE  IInv'
<1> DEFINE b == Parsed(c, n)
           i == ReadState(istate[c], b)
           w == WriterState(wstate[c], b)
           expecting == expect[c] \/ Has({"expecting head"}, b)
<1>1. Shape /\ Stream(c) /\ Exchange(c)
  BY DEF IInv
<1>2. /\ Up /\ pc[c] = "reading" /\ Batch(c, n)
      /\ read' = [read EXCEPT ![c] = @ + n]
      /\ istate' = [istate EXCEPT ![c] = i]
      /\ got' = [got EXCEPT ![c] = Body(@, b)]
      /\ expect' = [expect EXCEPT ![c] = expecting]
      /\ sent' = sent /\ gone' = gone
  BY DEF on_async_read_message, clientVars
<1>3. \/ /\ ~Reached(target[c], b)
         /\ wstate' = [wstate EXCEPT ![c] = w]
         /\ UNCHANGED coVars
      \/ /\ Reached(target[c], b)
         /\ target[c] = "READY"
         /\ AfterHead(c, i, w, expecting)
      \/ /\ Reached(target[c], b)
         /\ target[c] # "READY"
         /\ Loop(c, i, w)
  BY DEF on_async_read_message
<1>4. c \notin handled /\ err[c] \notin {"parsing_error", "out_of_order"}
  BY <1>1, <1>2 DEF Exchange
<1>5. /\ expect' \in [Conns -> BOOLEAN] /\ expect'[c] = expecting
      /\ istate' \in [Conns -> {"empty", "message_ready", "body_ready"}]
      /\ istate'[c] = i
      /\ i \in {"empty", "message_ready", "body_ready"}
      /\ w \in {"empty", "continue_issued", "finished"}
  <2>1. /\ istate \in [Conns -> {"empty", "message_ready", "body_ready"}]
        /\ wstate \in [Conns -> {"empty", "continue_issued", "finished"}]
        /\ expect \in [Conns -> BOOLEAN]
    BY <1>1 DEF Shape
  <2>2. expecting \in BOOLEAN
    BY <2>1 DEF Has
  <2>3. i \in {"empty", "message_ready", "body_ready"}
    BY <2>1 DEF ReadState
  <2>4. w \in {"empty", "continue_issued", "finished"}
    BY <2>1 DEF WriterState
  <2> HIDE DEF i, w, expecting
  <2> QED BY <1>2, <2>1, <2>2, <2>3, <2>4
<1>6. /\ Stream(c)'
      /\ read' \in [Conns -> Nat] /\ got' \in [Conns -> Nat]
  <2>1. expect'[c] => expect[c] \/ Has({"expecting head"}, Parsed(c, n))
    BY <1>5
  <2> HIDE DEF expecting, i, w, b
  <2> QED BY <1>1, <1>2, <1>4, <2>1, BatchStream DEF b
<1>7. Has({"eom"}, b) => EomRead(c)'
  <2>1. ASSUME Has({"eom"}, b)
        PROVE  \E k \in 1 .. read[c] + n : sent[c][k] \in {"eom"}
    BY <1>1, <1>2, <2>1, BatchHas
  <2>2. read \in [Conns -> Nat]
    BY <1>1 DEF Shape
  <2> HIDE DEF b, i, w, expecting
  <2> QED BY <1>2, <2>1, <2>2 DEF EomRead
<1>8. expecting => Has({"expecting head"}, sent[c])'
  BY <1>5, <1>6 DEF Stream
<1>9. /\ target[c] = "READY" /\ Reached(target[c], b) =>
           w = "empty" /\ (i = "empty" => Has({"eom"}, b))
      /\ target[c] # "READY" =>
           w # "finished" /\ (i = "empty" => Has({"eom"}, b))
      /\ target[c] # "READY" /\ ~Reached(target[c], b) => ~Has({"eom"}, b)
  <2>1. target[c] \in {"READY", "DATA", "END"}
    BY <1>1 DEF Shape
  <2>2. Up /\ pc[c] = "reading" /\ target[c] # "READY" =>
          wstate[c] # "finished" /\ istate[c] # "empty"
    BY <1>1 DEF Exchange
  <2>3. Has({"eom"}, b) => Has({"chunk", "eom"}, b)
    BY DEF Has
  <2> HIDE DEF b
  <2> QED BY <1>2, <2>1, <2>2, <2>3 DEF Reached, ReadState, WriterState
<1>10. CoShape /\ gone \in [Conns -> {"no", "closed", "reset"}]
       /\ sent \in [Conns -> Seq(Tokens)]
  BY <1>1 DEF Shape, CoShape
<1>11. /\ CoShape' /\ Only(c) /\ err' = err
       /\ svc' \in {svc, "ended"}
       /\ \/ /\ ~Reached(target[c], b)
             /\ wstate'[c] = w /\ UNCHANGED coVars
          \/ /\ expecting /\ (i = "empty" => Has({"eom"}, b))
             /\ pc'[c] = "continuing" /\ wstate'[c] = "continue_issued"
             /\ handled' = handled
          \/ /\ i # "empty"
             /\ pc'[c] = "reading" /\ wstate'[c] # "finished"
             /\ handled' = handled
          \/ /\ Has({"eom"}, b)
             /\ pc'[c] = "replying" \/ (svc' = "ended" /\ pc' = pc)
             /\ handled' \subseteq handled \cup {c}
  <2> HIDE DEF b, i, w, expecting
  <2>1. CASE /\ ~Reached(target[c], b)
             /\ wstate' = [wstate EXCEPT ![c] = w]
             /\ UNCHANGED coVars
    BY <1>5, <1>10, <2>1 DEF CoShape, Only, coVars
  <2>2. CASE /\ Reached(target[c], b)
             /\ target[c] = "READY"
             /\ AfterHead(c, i, w, expecting)
    <3>1. w = "empty" /\ (i = "empty" => Has({"eom"}, b))
      BY <1>9, <2>2
    <3>2. AfterHead(c, i, "empty", expecting) /\ expecting \in BOOLEAN
      BY <1>5, <2>2, <3>1
    <3> QED BY <1>10, <3>1, <3>2, AfterHeadStep
  <2>3. CASE /\ Reached(target[c], b)
             /\ target[c] # "READY"
             /\ Loop(c, i, w)
    <3>1. /\ w \in {"empty", "continue_issued"}
          /\ i = "empty" => Has({"eom"}, b)
      BY <1>5, <1>9, <2>3
    <3> QED BY <1>10, <2>3, <3>1, LoopStep
  <2> QED BY <1>3, <2>1, <2>2, <2>3
<1> HIDE DEF b, i, w, expecting
<1>12. Shape'
  BY <1>2, <1>5, <1>6, <1>10, <1>11 DEF Shape, CoShape
<1>13. \A d \in Conns \ {c} : Untouched(d)
  <2>1. Up
    BY <1>2
  <2> QED BY <1>1, <1>2, <1>11, <2>1 DEF Shape, Only, Untouched
<1>14. Exchange(c)'
  <2>1. c \in handled' => EomRead(c)' /\ (Up' => pc'[c] = "replying")
    BY <1>4, <1>7, <1>11 DEF Up, coVars
  <2>2. err'[c] \notin {"parsing_error", "out_of_order"}
    BY <1>4, <1>11
  <2>3. pc'[c] = "replying" => EomRead(c)'
    BY <1>2, <1>7, <1>11 DEF coVars
  <2>4. Up' /\ pc'[c] = "continuing" =>
          /\ wstate'[c] # "finished" /\ Has({"expecting head"}, sent[c])'
          /\ istate'[c] = "empty" => EomRead(c)'
    BY <1>2, <1>5, <1>7, <1>8, <1>11 DEF Up, coVars
  <2>5. Up' /\ pc'[c] = "reading" /\ target'[c] # "READY" =>
          wstate'[c] # "finished" /\ istate'[c] # "empty"
    <3>1. ASSUME ~Reached(target[c], b), wstate'[c] = w, UNCHANGED coVars,
                 target'[c] # "READY"
          PROVE  wstate'[c] # "finished" /\ istate'[c] # "empty"
      <4>1. target[c] # "READY"
        BY <3>1 DEF coVars
      <4>2. w # "finished" /\ i # "empty"
        BY <1>9, <3>1, <4>1
      <4> QED BY <1>5, <3>1, <4>2
    <3> QED BY <1>2, <1>5, <1>11, <3>1 DEF Up
  <2> QED BY <2>1, <2>2, <2>3, <2>4, <2>5 DEF Exchange
<1>15. svc' # "aborted"
  BY <1>2, <1>11 DEF Up
<1> QED BY <1>6, <1>12, <1>13, <1>14, <1>15, Assembled

\* What the parser refuses ends the service; the client sent it.
LEMMA ParsingErrorStep ==
  ASSUME IInv, NEW c \in Conns, NEW n \in Nat, parsing_error(c, n)
  PROVE  IInv'
<1> DEFINE e == read[c] + n
<1>1. Shape /\ Stream(c) /\ Exchange(c) /\ Up
  BY DEF IInv, parsing_error
<1>2. /\ pc[c] = "reading" /\ Batch(c, n) /\ Has({"bad"}, Parsed(c, n))
      /\ read' = [read EXCEPT ![c] = e]
      /\ err' = [err EXCEPT ![c] = "parsing_error"]
      /\ pc' = [pc EXCEPT ![c] = "over"]
      /\ istate' = [istate EXCEPT ![c] = "empty"]
      /\ wstate' = [wstate EXCEPT ![c] = "empty"]
      /\ UNCHANGED <<clientVars, got, expect, target, status, handled>>
      /\ svc' = "aborted"
  BY DEF parsing_error, ReadFails, Throw, Silent
<1>3. read[c] \in Nat /\ e \in Nat /\ e <= Len(sent[c]) /\ read[c] <= e
  <2>1. read[c] \in Nat /\ e <= Len(sent[c])
    BY <1>1, <1>2, BatchTokens
  <2> DEFINE r == read[c]
  <2>2. r \in Nat
    BY <2>1
  <2>3. r + n \in Nat /\ r <= r + n
    <3> HIDE DEF r
    <3> QED BY <2>2
  <2> QED BY <2>1, <2>3
<1> HIDE DEF e
<1>4. c \notin handled
  BY <1>1, <1>2 DEF Exchange
<1>5. Shape'
  BY <1>1, <1>2, <1>3 DEF Shape, clientVars
<1>6. \A d \in Conns \ {c} : Untouched(d)
  BY <1>1, <1>2 DEF Shape, Untouched, clientVars, Up
<1>7. /\ read'[c] = e /\ sent'[c] = sent[c] /\ got'[c] = got[c]
      /\ expect'[c] = expect[c] /\ err'[c] = "parsing_error"
      /\ pc'[c] = "over"
  BY <1>1, <1>2 DEF Shape, clientVars
<1>8. Stream(c)'
  <2>1. got[c] \in Nat
    BY <1>1 DEF Shape
  <2>2. got[c] <= read[c]
    BY <1>1 DEF Stream
  <2>3. got[c] <= e
    <3> DEFINE g == got[c]
               r == read[c]
    <3>1. g \in Nat /\ r \in Nat /\ g <= r /\ r <= e
      BY <1>3, <2>1, <2>2
    <3> HIDE DEF g, r
    <3>2. g <= e
      BY <1>3, <3>1
    <3> QED BY <3>2 DEF g
  <2>4. /\ Len(sent[c]) <= MaxTokens[c] /\ Ordered(sent[c])
        /\ expect[c] => Has({"expecting head"}, sent[c])
    BY <1>1 DEF Stream
  <2> QED BY <1>3, <1>7, <2>3, <2>4 DEF Stream
<1>9. Exchange(c)'
  BY <1>2, <1>4, <1>7 DEF Exchange
<1>10. Has({"bad"}, sent[c])
  BY <1>1, <1>2, BatchHas
<1>11. Broke(c)'
  BY <1>7, <1>10 DEF Broke
<1> QED BY <1>5, <1>6, <1>8, <1>9, <1>11, Assembled

\* The end of the stream is silent; a reset is the client's.
LEMMA ReadErrorStep ==
  ASSUME IInv, NEW c \in Conns, read_error(c)
  PROVE  IInv'
<1>1. Shape /\ Stream(c) /\ Exchange(c) /\ Up
  BY DEF IInv, read_error
<1>2. PICK e \in {"eof", "peer"} :
        /\ ReadFails(c, e)
        /\ e = "peer" => gone[c] = "reset"
  BY DEF read_error
<1>3. /\ pc[c] = "reading" /\ read' = read
      /\ err' = [err EXCEPT ![c] = e]
      /\ pc' = [pc EXCEPT ![c] = "over"]
      /\ istate' = [istate EXCEPT ![c] = "empty"]
      /\ wstate' = [wstate EXCEPT ![c] = "empty"]
      /\ UNCHANGED <<clientVars, got, expect, target, status, handled>>
      /\ svc' = IF e = "eof" THEN svc ELSE "aborted"
  BY <1>2 DEF read_error, ReadFails, Throw, Silent
<1>4. c \notin handled /\ err[c] # "parsing_error"
  BY <1>1, <1>3 DEF Exchange
<1>5. Shape'
  BY <1>1, <1>3 DEF Shape, clientVars
<1>6. \A d \in Conns \ {c} : Untouched(d)
  BY <1>1, <1>3 DEF Shape, Untouched, clientVars, Up
<1>7. err'[c] = e /\ pc'[c] = "over"
  BY <1>1, <1>3 DEF Shape
<1>8. Stream(c)'
  BY <1>1, <1>3, <1>4 DEF Stream, clientVars
<1>9. Exchange(c)'
  BY <1>3, <1>4, <1>7 DEF Exchange
<1>10. svc' = "aborted" => Broke(c)'
  BY <1>1, <1>2, <1>3 DEF Broke, Up, clientVars
<1> QED BY <1>5, <1>6, <1>8, <1>9, <1>10, Assembled

\* What a coroutine waits to have written is a reply to a whole message, or
\* the 100-continue that the loop follows.
LEMMA WrittenStep ==
  ASSUME IInv, NEW c \in Conns, written(c)
  PROVE  IInv'
<1>1. Shape /\ Stream(c) /\ Exchange(c) /\ Up
  BY DEF IInv, written
<1>2. UNCHANGED <<clientVars, read, istate, got, expect>>
  BY DEF written
<1>3. /\ CoShape' /\ Only(c) /\ err' = err /\ svc' \in {svc, "ended"}
      /\ c \in handled' =>
           EomRead(c) /\ (Up' => pc'[c] \in {"replying", "over"})
      /\ pc'[c] = "replying" => EomRead(c)
      /\ Up' => pc'[c] # "continuing"
      /\ Up' /\ pc'[c] = "reading" =>
           wstate'[c] # "finished" /\ istate[c] # "empty"
      /\ err[c] # "parsing_error"
  <2>1. CoShape
    BY <1>1 DEF Shape, CoShape
  <2>2. CASE pc[c] = "continuing" /\ Loop(c, istate[c], wstate[c])
    <3>1. /\ wstate[c] \in {"empty", "continue_issued"}
          /\ istate[c] = "empty" => EomRead(c)
          /\ c \notin handled /\ err[c] # "parsing_error"
      BY <1>1, <2>2 DEF Shape, Exchange
    <3>2. pc'[c] = "continuing" => svc' = "ended"
      BY <2>1, <2>2, <3>1, LoopStep
    <3> QED BY <2>1, <2>2, <3>1, <3>2, LoopStep DEF Up
  <2>3. CASE /\ pc[c] = "replying"
             /\ pc' = [pc EXCEPT ![c] = "over"]
             /\ UNCHANGED <<wstate, target, status, handled, err, svc>>
    <3>1. EomRead(c) /\ err[c] # "parsing_error"
      BY <1>1, <2>3 DEF Exchange
    <3> QED BY <2>1, <2>3, <3>1 DEF CoShape, Only
  <2> QED BY <2>2, <2>3 DEF written
<1>4. Shape'
  BY <1>1, <1>2, <1>3 DEF Shape, CoShape, clientVars
<1>5. \A d \in Conns \ {c} : Untouched(d)
  BY <1>1, <1>2, <1>3 DEF Only, Untouched, clientVars
<1>6. Stream(c)'
  BY <1>1, <1>2, <1>3 DEF Stream, clientVars
<1>7. EomRead(c)' <=> EomRead(c)
  BY <1>2 DEF EomRead, clientVars
<1>8. err[c] # "out_of_order"
  BY <1>1 DEF Exchange
<1>9. Exchange(c)'
  BY <1>2, <1>3, <1>7, <1>8 DEF Exchange
<1>10. svc' # "aborted"
  BY <1>1, <1>3 DEF Up
<1> QED BY <1>4, <1>5, <1>6, <1>9, <1>10, Assembled

\* Only a client that has not yet got what it asked for can fail a write.
LEMMA WriteErrorStep ==
  ASSUME IInv, NEW c \in Conns, write_error(c)
  PROVE  IInv'
<1>1. Shape /\ Stream(c) /\ Exchange(c) /\ Up
  BY DEF IInv, write_error
<1>2. /\ pc[c] \in {"continuing", "replying"} /\ gone[c] # "no"
      /\ err' = [err EXCEPT ![c] = "peer"]
      /\ pc' = [pc EXCEPT ![c] = "over"]
      /\ UNCHANGED <<clientVars, sockVars, target, status, handled>>
      /\ svc' = "aborted"
  BY DEF write_error, Throw, Silent
<1>3. Shape'
  BY <1>1, <1>2 DEF Shape, clientVars, sockVars
<1>4. \A d \in Conns \ {c} : Untouched(d)
  BY <1>1, <1>2 DEF Shape, Untouched, clientVars, sockVars, Up
<1>5. err'[c] = "peer" /\ pc'[c] = "over" /\ err[c] # "parsing_error"
  <2>1. err'[c] = "peer" /\ pc'[c] = "over"
    BY <1>1, <1>2 DEF Shape
  <2>2. err[c] # "parsing_error"
    BY <1>1, <1>2 DEF Exchange
  <2> QED BY <2>1, <2>2
<1>6. Stream(c)'
  BY <1>1, <1>2, <1>5 DEF Stream, clientVars, sockVars
<1>7. EomRead(c)' <=> EomRead(c)
  BY <1>2 DEF EomRead, clientVars, sockVars
<1>8. Exchange(c)'
  BY <1>1, <1>2, <1>5, <1>7 DEF Exchange
<1>9. Asked(c) \/ Has({"expecting head"}, sent[c])
  <2>1. CASE pc[c] = "continuing"
    BY <1>1, <2>1 DEF Exchange
  <2>2. CASE pc[c] = "replying"
    <3>1. PICK i \in 1 .. read[c] : sent[c][i] = "eom"
      BY <1>1, <2>2 DEF Exchange, EomRead
    <3>2. sent[c] \in Seq(Tokens) /\ read[c] \in Nat /\ read[c] <= Len(sent[c])
      <4>1. sent[c] \in Seq(Tokens) /\ read[c] \in Nat
        BY <1>1 DEF Shape
      <4>2. read[c] <= Len(sent[c])
        BY <1>1 DEF Stream
      <4> QED BY <4>1, <4>2
    <3>3. i \in DOMAIN sent[c]
      BY <3>2, LenProperties
    <3> QED BY <3>1, <3>3 DEF Asked, Has
  <2> QED BY <1>2, <2>1, <2>2
<1>10. gone[c] \in {"closed", "reset"}
  BY <1>1, <1>2 DEF Shape
<1>11. Broke(c)'
  BY <1>2, <1>9, <1>10 DEF Broke, Asked, clientVars
<1> QED BY <1>3, <1>4, <1>6, <1>8, <1>11, Assembled

LEMMA NextIInv == IInv /\ [Next]_vars => IInv'
<1> SUFFICES ASSUME IInv, [Next]_vars PROVE IInv'
  OBVIOUS
<1>1. ASSUME NEW c \in Conns, Client(c) PROVE IInv'
  BY <1>1, SendStep, LeaveStep DEF Client
<1>2. ASSUME NEW c \in Conns, Complete(c) PROVE IInv'
  <2>1. CASE accept(c)
    BY <2>1, AcceptStep
  <2>2. ASSUME NEW n \in 1 .. MaxTokens[c],
               on_async_read_message(c, n) \/ parsing_error(c, n)
        PROVE  IInv'
    <3>1. n \in Nat
      OBVIOUS
    <3> QED BY <2>2, <3>1, ReadStep, ParsingErrorStep
  <2>3. CASE read_error(c)
    BY <2>3, ReadErrorStep
  <2>4. CASE written(c)
    BY <2>4, WrittenStep
  <2>5. CASE write_error(c)
    BY <2>5, WriteErrorStep
  <2> QED BY <1>2, <2>1, <2>2, <2>3, <2>4, <2>5 DEF Complete
<1>3. CASE Ends \/ Down \/ UNCHANGED vars
  BY <1>3, EndsStep
<1> QED BY <1>1, <1>2, <1>3 DEF Next

LEMMA Invariance == Spec => []IInv
BY InitIInv, NextIInv, PTL DEF Spec

-----------------------------------------------------------------------------
(* The theorems *)

LEMMA TypeFollows == IInv => TypeOK
<1> SUFFICES ASSUME IInv PROVE TypeOK
  OBVIOUS
<1>1. ASSUME NEW c \in Conns
      PROVE  read[c] \in 0 .. Len(sent[c]) /\ got[c] \in 0 .. MaxTokens[c]
  <2> DEFINE l == Len(sent[c])
             r == read[c]
             g == got[c]
             m == MaxTokens[c]
  <2>1. sent[c] \in Seq(Tokens) /\ r \in Nat /\ g \in Nat
    BY DEF IInv, Shape
  <2>2. l \in Nat
    BY <2>1, LenProperties
  <2>3. m \in Nat
    OBVIOUS
  <2>4. l <= m /\ r <= l /\ g <= r
    BY DEF IInv, Stream
  <2> HIDE DEF l, r, g, m
  <2>5. r \in 0 .. l /\ g \in 0 .. m
    BY <2>1, <2>2, <2>3, <2>4
  <2> QED BY <2>5 DEF l, r, g, m
<1>2. Shape
  BY DEF IInv
<1> QED BY <1>1, <1>2 DEF Shape, TypeOK

\* The variables keep their types: what the parser has consumed was sent, and
\* the body holds no more than the client's tokens (basic_socket's istate and
\* writer_helper, and the coroutine of connection.C).
THEOREM TypeCorrect == Spec => []TypeOK
BY Invariance, TypeFollows, PTL

\* However a client cuts its request into segments, and whether or not it
\* asked for a 100-continue, the coroutine of connection.C never calls the
\* socket out of order (http_errc::out_of_order).
THEOREM NeverCalledOutOfOrder == Spec => []NeverOutOfOrder
<1>1. IInv => NeverOutOfOrder
  BY DEF IInv, Exchange, NeverOutOfOrder
<1> QED BY <1>1, Invariance, PTL

LEMMA WholeFollows == IInv => WholeBody
<1> SUFFICES ASSUME IInv, NEW c \in handled
             PROVE  /\ Has({"eom"}, SubSeq(sent[c], 1, read[c]))
                    /\ got[c] = Count("chunk", sent[c])
  BY DEF WholeBody
<1> DEFINE s == sent[c]
           r == read[c]
<1>1. c \in Conns
  BY DEF IInv, Shape
<1>2. Stream(c) /\ Exchange(c)
  BY <1>1 DEF IInv
<1>3. s \in Seq(Tokens) /\ r \in Nat
  BY <1>1 DEF IInv, Shape
<1>4. EomRead(c) /\ err[c] # "parsing_error"
  BY <1>2 DEF Exchange
<1>5. PICK i \in 1 .. r : s[i] = "eom"
  BY <1>4 DEF EomRead
<1>6. /\ r <= Len(s) /\ Ordered(s)
      /\ got[c] = Count("chunk", SubSeq(s, 1, r))
  BY <1>2, <1>4 DEF Stream
<1> HIDE DEF s, r
<1>7. ASSUME NEW j \in r + 1 .. Len(s) PROVE s[j] # "chunk"
  <2>1. /\ i \in 1 .. Len(s) /\ j \in 1 .. Len(s) /\ ~(j < i)
    BY <1>3, <1>6, LenProperties
  <2> QED BY <1>5, <1>6, <2>1 DEF Ordered
<1>8. Count("chunk", s) = Count("chunk", SubSeq(s, 1, r))
  BY <1>3, <1>6, <1>7, CountAll
<1>9. Has({"eom"}, SubSeq(s, 1, r))
  <2>1. /\ 0 + r <= Len(s) /\ 0 \in Nat
    BY <1>3, <1>6
  <2>2. /\ DOMAIN Part(s, 0, r) = 1 .. r
        /\ \A k \in 1 .. r : Part(s, 0, r)[k] = s[0 + k]
    BY <1>3, <2>1, PartTokens
  <2>3. Part(s, 0, r)[i] = "eom" /\ i \in DOMAIN Part(s, 0, r)
    <3>1. 0 + i = i
      BY <1>3, <1>5
    <3> QED BY <1>5, <2>2, <3>1
  <2>4. Part(s, 0, r) = SubSeq(s, 1, r)
    BY <1>3 DEF Part
  <2> QED BY <2>3, <2>4 DEF Has
<1> QED BY <1>6, <1>8, <1>9 DEF s, r

\* manager::handle is called only with a whole message: the end of the message
\* was read, and the body holds every chunk that the client sends in it.
THEOREM WholeBodyHandled == Spec => []WholeBody
BY Invariance, WholeFollows, PTL

\* The service is aborted by an exception of a coroutine only if some client
\* broke its exchange: it sent what the parser refuses, reset its connection,
\* or left before it had the answer it asked for (connection.C rethrows every
\* error but the end of the stream).
THEOREM OnlyBrokenPeersAbort == Spec => []OnlyBrokenPeers
<1>1. IInv => OnlyBrokenPeers
  BY DEF IInv
<1> QED BY <1>1, Invariance, PTL
=============================================================================
