------------------------- MODULE WorkerStartProofs -------------------------
(***************************************************************************)
(* The safety of the two halves of starting a worker: the handshake on its *)
(* control pipe (Handshake), for every capacity of the pipe, every number  *)
(* of helpers and every alphabet of names and addresses; and the launch of *)
(* its process (PosixLaunch), for every plan of contexts, every set of     *)
(* descriptors and every number of children.                               *)
(*                                                                         *)
(* Of the handshake, the inductive invariant Flow says where each line is: *)
(* the next line the getline loop will see is number read + 1 of all that  *)
(* was said, and what it has recorded are the last addresses among the     *)
(* lines before.  The refinement of Start rests on it: the loop answers at *)
(* the very line that made the verdict.                                    *)
(*                                                                         *)
(* Of the launch, ServiceInv says which object owns each descriptor of the *)
(* service, at every point where the launch may fail; ChildInv says which  *)
(* streams a child has in their places, and that those it has not can      *)
(* still be put there.                                                     *)
(***************************************************************************)
EXTENDS Handshake, PosixLaunch, SequenceTheorems, FiniteSetTheorems,
        WellFoundedInduction, TLAPS

-----------------------------------------------------------------------------
(* Lines *)

\* The four cases of the getline loop exclude each other, and the decisive
\* lines are those that make it return.
LEMMA LineKinds ==
  ASSUME NEW line \in Lines
  PROVE  /\ line \in Inputs => /\ ~Decisive(line)
                               /\ line.name \in Names
                               /\ line.addr \in Addrs
         /\ line.kind \in {"INIT", "NOTICE"} =>
              ~Decisive(line) /\ line \notin Inputs
         /\ Decisive(line) => line \notin Inputs
         /\ line \in Bad => line.kind # "RUNNING"
<1>1. \A x \in Inputs : /\ x.kind = "INPUT"
                        /\ x.name \in Names
                        /\ x.addr \in Addrs
  BY DEF Inputs, Input
<1>2. \A x \in Bad : x.kind \in {"ERROR", "INPUT without colon", "other"}
  <2>1. \A k : Said(k).kind = k
    BY DEF Said
  <2> QED BY <2>1 DEF Bad
<1>3. CASE line \in Inputs
  BY <1>1, <1>2, <1>3 DEF Decisive
<1>4. CASE line \in Bad
  BY <1>1, <1>2, <1>4 DEF Decisive
<1>5. CASE line \in {Said("INIT"), Said("NOTICE"), Said("RUNNING")}
  <2>1. line.kind \in {"INIT", "NOTICE", "RUNNING"}
    BY <1>5 DEF Said
  <2> QED BY <1>1, <1>2, <2>1 DEF Decisive
<1> QED BY <1>3, <1>4, <1>5 DEF Lines

\* LastAddr and BeforeVerdict of any sequence of lines, not just of said.
For(s, n, L) == {i \in L : s[i] \in Inputs /\ s[i].name = n}

Top(F) == CHOOSE i \in F : \A k \in F : k <= i

LastOf(s, n, L) ==
  IF For(s, n, L) = {} THEN NoAddr ELSE s[Top(For(s, n, L))].addr

Before(s) == {i \in 1 .. Len(s) : \A k \in 1 .. i : ~Decisive(s[k])}

\* A nonempty set of numbers has a least one.
LEMMA LeastNat ==
  ASSUME NEW F, F \subseteq Nat, F # {}
  PROVE  \E x \in F : \A y \in F : x <= y
<1>1. PICK x \in F : \A y \in F : ~(<<y, x>> \in OpToRel(<, Nat))
  BY NatLessThanWellFounded, WFMin
<1>2. \A y \in F : ~(y < x)
  BY <1>1 DEF OpToRel
<1> QED BY <1>2

\* A nonempty set of positions has a last one.
LEMMA GreatestPosition ==
  ASSUME NEW N \in Nat, NEW F, F \subseteq 1 .. N, F # {}
  PROVE  \E x \in F : \A y \in F : y <= x
<1> DEFINE T == {N - i : i \in F}
<1>1. T \subseteq Nat /\ T # {}
  <2>1. ASSUME NEW i \in F PROVE N - i \in T /\ N - i \in Nat
    OBVIOUS
  <2> QED BY <2>1
<1>2. PICK t \in T : \A u \in T : t <= u
  BY <1>1, LeastNat
<1>3. PICK x \in F : t = N - x
  BY <1>2
<1>4. ASSUME NEW y \in F PROVE y <= x
  <2>1. N - x <= N - y
    BY <1>2, <1>3
  <2> QED BY <2>1
<1> QED BY <1>4

\* The last address announced among some positions depends only on the lines
\* at these positions.
LEMMA LastOfSame ==
  ASSUME NEW s \in Seq(Lines), NEW t \in Seq(Lines), NEW n, NEW L,
         \A i \in L : i \in 1 .. Len(s) /\ t[i] = s[i]
  PROVE  LastOf(t, n, L) = LastOf(s, n, L)
<1>1. For(t, n, L) = For(s, n, L) /\ For(s, n, L) \subseteq 1 .. Len(s)
  BY DEF For
<1>2. CASE For(s, n, L) = {}
  BY <1>1, <1>2 DEF LastOf
<1>3. CASE For(s, n, L) # {}
  <2>1. Top(For(s, n, L)) \in For(s, n, L)
    BY <1>1, <1>3, GreatestPosition DEF Top
  <2>2. t[Top(For(s, n, L))] = s[Top(For(s, n, L))]
    BY <2>1 DEF For
  <2> QED BY <1>1, <1>3, <2>2 DEF LastOf
<1> QED BY <1>2, <1>3

\* One more position counts only if it announces an address for n.
LEMMA LastOfNext ==
  ASSUME NEW s \in Seq(Lines), NEW n,
         NEW r \in Nat, r + 1 <= Len(s)
  PROVE  LastOf(s, n, 1 .. r + 1) =
           IF s[r + 1] \in Inputs /\ s[r + 1].name = n
           THEN s[r + 1].addr ELSE LastOf(s, n, 1 .. r)
<1>1. CASE s[r + 1] \in Inputs /\ s[r + 1].name = n
  <2> DEFINE F == For(s, n, 1 .. r + 1)
  <2>1. r + 1 \in F /\ F \subseteq 1 .. r + 1
    BY <1>1 DEF For
  <2>2. Top(F) = r + 1
    <3>1. \A k \in F : k <= r + 1
      BY <2>1
    <3>2. \A i \in F : (\A k \in F : k <= i) => i = r + 1
      BY <2>1
    <3> QED BY <2>1, <3>1, <3>2 DEF Top
  <2> QED BY <1>1, <2>1, <2>2 DEF LastOf
<1>2. CASE ~(s[r + 1] \in Inputs /\ s[r + 1].name = n)
  <2>1. For(s, n, 1 .. r + 1) = For(s, n, 1 .. r)
    BY <1>2 DEF For
  <2>2. For(s, n, 1 .. r) # {} =>
          s[Top(For(s, n, 1 .. r + 1))] = s[Top(For(s, n, 1 .. r))]
    BY <2>1
  <2> QED BY <1>2, <2>1, <2>2 DEF LastOf
<1> QED BY <1>1, <1>2

-----------------------------------------------------------------------------
(* The inductive invariant *)

read == Len(said) - (Len(buf) + Len(pipe))

\* buf and then pipe are the last lines that were said.
Suffix ==
  /\ Len(buf) + Len(pipe) <= Len(said)
  /\ \A i \in 1 .. Len(buf) : buf[i] = said[read + i]
  /\ \A i \in 1 .. Len(pipe) : pipe[i] = said[read + Len(buf) + i]

\* The loop has read past the decisive line only when it has answered, ...
Undecided == answer = "pending" => \A i \in 1 .. read : ~Decisive(said[i])

\* ... and recorded what came before it.
Recorded ==
  inputs = [n \in Names |-> LastOf(said, n, Before(said) \cap 1 .. read)]

Flow == Suffix /\ Undecided /\ Recorded

IInv == TypeOK /\ Flow

USE HandshakeAssumption

\* Nothing is said, nothing is read.
LEMMA InitIInv == Init => IInv
<1> SUFFICES ASSUME Init PROVE IInv
  OBVIOUS
<1> USE DEF Init
<1>1. TypeOK
  BY EmptySeq DEF TypeOK
<1>2. Suffix /\ Undecided
  BY DEF Suffix, Undecided, read
<1>3. \A n : For(<<>>, n, Before(<<>>) \cap 1 .. read) = {}
  <2>1. Before(<<>>) = {}
    BY DEF Before
  <2> QED BY <2>1 DEF For
<1>4. Recorded
  BY <1>3 DEF Recorded, LastOf
<1> QED BY <1>1, <1>2, <1>4 DEF IInv, Flow

LEMMA NextType == TypeOK /\ [Next]_vars => TypeOK'
<1> SUFFICES ASSUME TypeOK, [Next]_vars PROVE TypeOK'
  OBVIOUS
<1> USE DEF TypeOK, pipeVars, readVars
<1>1. ASSUME NEW p \in {Worker} \cup Helpers, NEW line \in Lines,
             Write(p, line)
      PROVE  TypeOK'
  BY <1>1, AppendProperties DEF Write
<1>2. ASSUME NEW p \in {Worker} \cup Helpers, NEW q \in Helpers,
             Inherit(p, q)
      PROVE  TypeOK'
  BY <1>2 DEF Inherit
<1>3. ASSUME NEW p \in {Worker} \cup Helpers, CloseEnd(p) PROVE TypeOK'
  BY <1>3 DEF CloseEnd
<1>4. ASSUME NEW n \in 1 .. Capacity, underflow(n) PROVE TypeOK'
  <2>1. \A i \in 1 .. Len(pipe) : pipe[i] \in Lines
    BY ElementOfSeq
  <2>2. SubSeq(pipe, 1, n) \in Seq(Lines)
    BY <1>4, <2>1, SubSeqProperties DEF underflow
  <2>3. SubSeq(pipe, n + 1, Len(pipe)) \in Seq(Lines)
    BY <1>4, <2>1, SubSeqProperties, LenProperties DEF underflow
  <2> QED BY <1>4, <2>2, <2>3 DEF underflow
<1>5. CASE getline
  <2>1. buf' \in Seq(Lines)
    BY <1>5, HeadTailProperties DEF getline
  <2>2. \A line \in Inputs : Record(line) \in [Names -> Addrs \cup {NoAddr}]
    BY LineKinds DEF Record, Lines
  <2> QED BY <1>5, <2>1, <2>2 DEF getline
<1>6. CASE AtEof \/ Interrupted \/ Over \/ UNCHANGED vars
  BY <1>6 DEF AtEof, Interrupted, Over, vars
<1> QED BY <1>1, <1>2, <1>3, <1>4, <1>5, <1>6 DEF Next, Reader

\* Steps that move no line.
LEMMA SameFlow ==
  ASSUME IInv, UNCHANGED <<buf, pipe, said, inputs>>,
         answer' = answer \/ answer' # "pending"
  PROVE  Flow'
BY DEF IInv, Flow, Suffix, Undecided, Recorded, read

LEMMA WriteFlow ==
  ASSUME IInv, NEW p, NEW line \in Lines, Write(p, line)
  PROVE  Flow'
<1> USE DEF Write, readVars, IInv, TypeOK, Flow, Suffix
<1>1. /\ said' \in Seq(Lines) /\ Len(said') = Len(said) + 1
      /\ \A i \in 1 .. Len(said) : said'[i] = said[i]
      /\ said'[Len(said) + 1] = line
  BY AppendProperties
<1>2. /\ pipe' \in Seq(Lines) /\ Len(pipe') = Len(pipe) + 1
      /\ \A i \in 1 .. Len(pipe) : pipe'[i] = pipe[i]
      /\ pipe'[Len(pipe) + 1] = line
  BY AppendProperties
<1>3. read' = read /\ read \in Nat /\ read <= Len(said)
  BY <1>1, <1>2, LenProperties DEF read
<1>4. Suffix'
  <2>1. ASSUME NEW i \in 1 .. Len(buf) PROVE buf'[i] = said'[read' + i]
    <3>1. read + i \in 1 .. Len(said)
      BY <1>3, LenProperties DEF read
    <3> QED BY <1>1, <1>3, <3>1
  <2>2. ASSUME NEW i \in 1 .. Len(pipe)
        PROVE  pipe'[i] = said'[read' + Len(buf') + i]
    <3>1. read + Len(buf) + i \in 1 .. Len(said)
      BY <1>3, LenProperties DEF read
    <3> QED BY <1>1, <1>2, <1>3, <3>1
  <2>3. pipe'[Len(pipe) + 1] = said'[read' + Len(buf') + (Len(pipe) + 1)]
    BY <1>1, <1>2, <1>3, LenProperties DEF read
  <2>4. Len(buf') + Len(pipe') <= Len(said')
    BY <1>1, <1>2, LenProperties
  <2>5. ASSUME NEW i \in 1 .. Len(pipe')
        PROVE  pipe'[i] = said'[read' + Len(buf') + i]
    <3>1. i \in 1 .. Len(pipe) \/ i = Len(pipe) + 1
      BY <1>2, LenProperties
    <3> QED BY <2>2, <2>3, <3>1
  <2> QED BY <2>1, <2>4, <2>5
<1>5. Undecided'
  BY <1>1, <1>3 DEF Undecided
<1>6. Before(said') \cap 1 .. read = Before(said) \cap 1 .. read
  BY <1>1, <1>3 DEF Before
<1>7. \A n : LastOf(said', n, Before(said) \cap 1 .. read) =
             LastOf(said, n, Before(said) \cap 1 .. read)
  <2> DEFINE L == Before(said) \cap 1 .. read
  <2>1. \A i \in L : i \in 1 .. Len(said) /\ said'[i] = said[i]
    BY <1>1, <1>3, LenProperties
  <2>2. said \in Seq(Lines) /\ said' \in Seq(Lines)
    BY <1>1
  <2> HIDE DEF L, Write, IInv, TypeOK, Flow, Suffix
  <2>3. \A n : LastOf(said', n, L) = LastOf(said, n, L)
    BY <2>1, <2>2, LastOfSame
  <2> QED BY <2>3 DEF L
<1>8. Recorded'
  BY <1>3, <1>6, <1>7 DEF Recorded
<1> QED BY <1>4, <1>5, <1>8

\* A read(2) moves lines from the pipe to the buffer and loses none.
LEMMA UnderflowFlow ==
  ASSUME IInv, NEW n, underflow(n)
  PROVE  Flow'
<1> USE DEF IInv, TypeOK, Flow, underflow, BufferUsedUp
<1>1. /\ pipe \in Seq(Lines) /\ Len(pipe) \in Nat /\ n \in 1 .. Len(pipe)
      /\ Len(buf) = 0 /\ Len(said) \in Nat
      /\ \A i \in 1 .. Len(pipe) : pipe[i] \in Lines
  BY LenProperties, ElementOfSeq
<1>2. /\ Len(buf') = n
      /\ \A i \in 1 .. n : buf'[i] = pipe[i]
  BY <1>1, SubSeqProperties
<1>3. /\ Len(pipe') = Len(pipe) - n
      /\ \A i \in 1 .. Len(pipe') : pipe'[i] = pipe[n + i]
  <2>1. \A i \in n + 1 .. Len(pipe) : pipe[i] \in Lines
    BY <1>1
  <2>2. /\ Len(pipe') = IF n + 1 <= Len(pipe)
                        THEN Len(pipe) - (n + 1) + 1 ELSE 0
        /\ \A i \in 1 .. Len(pipe) - (n + 1) + 1 :
             pipe'[i] = pipe[(n + 1) + i - 1]
    BY <1>1, <2>1, SubSeqProperties
  <2> QED BY <1>1, <2>2
<1>4. read' = read
  <2>1. said' = said /\ Len(buf') + Len(pipe') = Len(buf) + Len(pipe)
    BY <1>1, <1>2, <1>3
  <2> HIDE DEF IInv, TypeOK, Flow, underflow
  <2> QED BY <2>1 DEF read
<1>5. Suffix'
  <2>1. Len(buf') + Len(pipe') <= Len(said')
    BY <1>1, <1>2, <1>3 DEF Suffix
  <2>2. \A i \in 1 .. Len(pipe) : pipe[i] = said[read + i]
    BY <1>1 DEF Suffix, read
  <2>3. ASSUME NEW i \in 1 .. Len(buf') PROVE buf'[i] = said'[read' + i]
    BY <1>1, <1>2, <1>4, <2>2
  <2>4. ASSUME NEW i \in 1 .. Len(pipe')
        PROVE  pipe'[i] = said'[read' + Len(buf') + i]
    <3>1. n + i \in 1 .. Len(pipe) /\ pipe'[i] = pipe[n + i]
      BY <1>1, <1>3
    <3>2. pipe'[i] = said[read + (n + i)]
      BY <2>2, <3>1
    <3>3. read + (n + i) = read + n + i
      BY <1>1, LenProperties DEF read
    <3> QED BY <1>2, <1>4, <3>2, <3>3
  <2> QED BY <2>1, <2>3, <2>4 DEF Suffix
<1> QED BY <1>4, <1>5 DEF Undecided, Recorded

\* What Head(buf) is: the line after the last that was read.
LEMMA NextLine ==
  ASSUME TypeOK, Suffix, buf # <<>>
  PROVE  /\ read \in Nat /\ read + 1 \in 1 .. Len(said)
         /\ Head(buf) = said[read + 1]
         /\ Head(buf) \in Lines
<1>1. /\ Len(buf) \in Nat \ {0} /\ Len(pipe) \in Nat /\ Len(said) \in Nat
      /\ Head(buf) = buf[1] /\ Head(buf) \in Lines
  BY EmptySeq, LenProperties, HeadTailProperties DEF TypeOK
<1>2. buf[1] = said[read + 1] /\ Len(buf) + Len(pipe) <= Len(said)
  <2>1. 1 \in 1 .. Len(buf)
    BY <1>1
  <2> QED BY <2>1 DEF Suffix
<1> QED BY <1>1, <1>2 DEF read

\* The lines before the verdict that the loop has read after one more line.
LEMMA BeforeNext ==
  ASSUME NEW s \in Seq(Lines), NEW r \in Nat, r + 1 \in 1 .. Len(s),
         \A i \in 1 .. r : ~Decisive(s[i])
  PROVE  /\ Before(s) \cap 1 .. r = 1 .. r
         /\ Before(s) \cap 1 .. r + 1 =
              IF Decisive(s[r + 1]) THEN 1 .. r ELSE 1 .. r + 1
<1>1. \A i \in 1 .. r : i \in Before(s)
  BY DEF Before
<1>2. r + 1 \in Before(s) <=> ~Decisive(s[r + 1])
  BY DEF Before
<1> QED BY <1>1, <1>2

\* One line is taken from the buffer, recorded, and answered if it decides.
LEMMA GetlineFlow ==
  ASSUME IInv, getline
  PROVE  Flow'
<1> DEFINE line == Head(buf)
<1> USE DEF IInv, TypeOK, Flow, getline, pipeVars
<1>1. /\ Len(buf) \in Nat \ {0} /\ Len(pipe) \in Nat /\ Len(said) \in Nat
      /\ Len(buf') = Len(buf) - 1
      /\ \A i \in 1 .. Len(buf') : buf'[i] = buf[i + 1]
  BY EmptySeq, LenProperties, HeadTailProperties
<1>2. /\ read \in Nat /\ read + 1 \in 1 .. Len(said)
      /\ line = said[read + 1] /\ line \in Lines
  BY NextLine
<1>3. read' = read + 1
  BY <1>1 DEF read
<1>4. Suffix'
  <2>1. Len(buf') + Len(pipe') <= Len(said')
    BY <1>1 DEF Suffix
  <2>2. ASSUME NEW i \in 1 .. Len(buf') PROVE buf'[i] = said'[read' + i]
    <3>1. i + 1 \in 1 .. Len(buf) /\ buf'[i] = buf[i + 1]
      BY <1>1
    <3>2. buf'[i] = said[read + (i + 1)]
      BY <3>1 DEF Suffix
    <3>3. read + (i + 1) = read' + i
      BY <1>2, <1>3
    <3> QED BY <3>2, <3>3
  <2>3. ASSUME NEW i \in 1 .. Len(pipe')
        PROVE  pipe'[i] = said'[read' + Len(buf') + i]
    <3>1. pipe'[i] = said[read + Len(buf) + i]
      BY DEF Suffix
    <3>2. read + Len(buf) + i = read' + Len(buf') + i
      BY <1>1, <1>2, <1>3
    <3> QED BY <3>1, <3>2
  <2> QED BY <2>1, <2>2, <2>3 DEF Suffix
<1>5. \A i \in 1 .. read : ~Decisive(said[i])
  BY DEF Undecided, Reading
<1>6. Undecided'
  <2>1. answer' = "pending" => ~Decisive(said[read + 1])
    BY <1>2, LineKinds DEF Decisive, Reading
  <2> QED BY <1>2, <1>3, <1>5, <2>1 DEF Undecided
<1>7. /\ Before(said) \cap 1 .. read = 1 .. read
      /\ Before(said) \cap 1 .. read + 1 =
           IF Decisive(line) THEN 1 .. read ELSE 1 .. read + 1
  BY <1>2, <1>5, BeforeNext
<1>8. inputs = [n \in Names |-> LastOf(said, n, 1 .. read)]
  BY <1>7 DEF Recorded
<1>9. CASE line \in Inputs
  <2>1. inputs' = [inputs EXCEPT ![line.name] = line.addr] /\ ~Decisive(line)
    BY <1>2, <1>9, LineKinds DEF Decisive, Record
  <2>2. \A n : LastOf(said, n, 1 .. read + 1) =
               IF line.name = n THEN line.addr ELSE LastOf(said, n, 1 .. read)
    <3>1. said \in Seq(Lines) /\ said[read + 1] = line
      BY <1>2
    <3> HIDE DEF IInv, TypeOK, Flow, getline, line
    <3>2. ASSUME NEW n
          PROVE  LastOf(said, n, 1 .. read + 1) =
                   IF said[read + 1] \in Inputs /\ said[read + 1].name = n
                   THEN said[read + 1].addr ELSE LastOf(said, n, 1 .. read)
      BY <1>2, <3>1, LastOfNext
    <3> QED BY <1>9, <3>1, <3>2
  <2>3. inputs' = [n \in Names |-> LastOf(said, n, 1 .. read + 1)]
    BY <1>8, <2>1, <2>2
  <2> QED BY <1>3, <1>4, <1>6, <1>7, <2>1, <2>3 DEF Recorded
<1>10. CASE line \notin Inputs
  <2>1. inputs' = inputs
    BY <1>10
  <2>2. \A n : LastOf(said, n, 1 .. read + 1) = LastOf(said, n, 1 .. read)
    BY <1>2, <1>10, LastOfNext
  <2>3. Recorded'
    BY <1>3, <1>7, <1>8, <2>1, <2>2 DEF Recorded
  <2> QED BY <1>4, <1>6, <2>3
<1> QED BY <1>9, <1>10

LEMMA NextFlow == IInv /\ [Next]_vars => Flow'
<1> SUFFICES ASSUME IInv, [Next]_vars PROVE Flow'
  OBVIOUS
<1>1. ASSUME NEW p \in {Worker} \cup Helpers, NEW line \in Lines,
             Write(p, line)
      PROVE  Flow'
  BY <1>1, WriteFlow
<1>2. ASSUME NEW p \in {Worker} \cup Helpers, NEW q \in Helpers,
             Inherit(p, q)
      PROVE  Flow'
  BY <1>2, SameFlow DEF Inherit, readVars
<1>3. ASSUME NEW p \in {Worker} \cup Helpers, CloseEnd(p) PROVE Flow'
  BY <1>3, SameFlow DEF CloseEnd, readVars
<1>4. ASSUME NEW n \in 1 .. Capacity, underflow(n) PROVE Flow'
  BY <1>4, UnderflowFlow
<1>5. CASE getline
  BY <1>5, GetlineFlow
<1>6. CASE AtEof \/ Interrupted \/ Over \/ UNCHANGED vars
  BY <1>6, SameFlow
  DEF AtEof, Interrupted, Over, vars, pipeVars, readVars
<1> QED
  BY <1>1, <1>2, <1>3, <1>4, <1>5, <1>6 DEF Next, Reader

LEMMA NextIInv == IInv /\ [Next]_vars => IInv'
BY NextType, NextFlow DEF IInv

-----------------------------------------------------------------------------
(* Type correctness, and the order of the lines *)

\* The variables of both ends of the pipe keep their shape.
THEOREM TypeCorrect == Spec => []TypeOK
<1>1. IInv => TypeOK
  BY DEF IInv
<1> QED BY InitIInv, NextIInv, <1>1, PTL DEF Spec

\* The operators of Handshake are those above, of said.
LEMMA OfSaid ==
  /\ BeforeVerdict = Before(said)
  /\ \A n, L : LastAddr(n, L) = LastOf(said, n, L)
<1>1. \A n, L : LastAddr(n, L) = LastOf(said, n, L)
  BY DEF LastAddr, LastOf, Top, For
<1> QED BY <1>1 DEF BeforeVerdict, Before

LEMMA FlowInOrder == IInv => InOrder
<1> SUFFICES ASSUME IInv PROVE InOrder
  OBVIOUS
<1> DEFINE rest == buf \o pipe
           tail == SubSeq(said, read + 1, Len(said))
<1>1. /\ buf \in Seq(Lines) /\ pipe \in Seq(Lines) /\ said \in Seq(Lines)
      /\ Len(buf) \in Nat /\ Len(pipe) \in Nat /\ Len(said) \in Nat
      /\ \A i \in 1 .. Len(said) : said[i] \in Lines
  BY LenProperties, ElementOfSeq DEF IInv, TypeOK
<1>2. /\ rest \in Seq(Lines) /\ Len(rest) = Len(buf) + Len(pipe)
      /\ \A i \in 1 .. Len(buf) + Len(pipe) : rest[i] =
           IF i <= Len(buf) THEN buf[i] ELSE pipe[i - Len(buf)]
  BY <1>1, ConcatProperties
<1>3. /\ Len(buf) + Len(pipe) <= Len(said)
      /\ \A i \in 1 .. Len(buf) : buf[i] = said[read + i]
      /\ \A i \in 1 .. Len(pipe) : pipe[i] = said[read + Len(buf) + i]
  BY DEF IInv, Flow, Suffix
<1>4. read \in Nat /\ read = Len(said) - Len(rest)
  BY <1>1, <1>2, <1>3 DEF read
<1>5. /\ tail \in Seq(Lines) /\ Len(tail) = Len(said) - read
      /\ \A i \in 1 .. Len(said) - read : tail[i] = said[read + i]
  <2>1. \A i \in read + 1 .. Len(said) : said[i] \in Lines
    BY <1>1, <1>4
  <2>2. /\ tail \in Seq(Lines)
        /\ Len(tail) = IF read + 1 <= Len(said)
                       THEN Len(said) - (read + 1) + 1 ELSE 0
        /\ \A i \in 1 .. Len(said) - (read + 1) + 1 :
             tail[i] = said[(read + 1) + i - 1]
    BY <1>1, <1>4, <2>1, SubSeqProperties
  <2> HIDE DEF tail, rest
  <2> QED BY <1>1, <1>2, <1>3, <1>4, <2>2
<1>6. rest = tail
  <2>1. ASSUME NEW i \in 1 .. Len(rest) PROVE rest[i] = tail[i]
    <3> HIDE DEF tail, rest
    <3>1. tail[i] = said[read + i]
      BY <1>1, <1>2, <1>3, <1>4, <1>5
    <3>2. CASE i <= Len(buf)
      BY <1>1, <1>2, <1>3, <3>1, <3>2
    <3>3. CASE ~(i <= Len(buf))
      <4>1. /\ i - Len(buf) \in 1 .. Len(pipe)
            /\ rest[i] = pipe[i - Len(buf)]
        BY <1>1, <1>2, <3>3
      <4>2. read + Len(buf) + (i - Len(buf)) = read + i
        BY <1>1, <1>4
      <4> QED BY <1>3, <3>1, <4>1, <4>2
    <3> QED BY <3>2, <3>3
  <2> HIDE DEF tail, rest
  <2> QED BY <1>2, <1>4, <1>5, <2>1, SeqEqual
<1>7. inputs = [n \in Names |-> LastAddr(n, BeforeVerdict \cap 1 .. read)]
  BY OfSaid DEF IInv, Flow, Recorded
<1>8. answer = "pending" => 1 .. read \subseteq BeforeVerdict
  BY <1>1, <1>4, OfSaid DEF IInv, Flow, Undecided, Before
<1>9. read >= 0 /\ read = Len(said) - Len(buf \o pipe)
  BY <1>4
<1> HIDE DEF rest, tail
<1>10. buf \o pipe = SubSeq(said, read + 1, Len(said))
  BY <1>6 DEF rest, tail
<1> HIDE DEF read
<1> QED BY <1>7, <1>8, <1>9, <1>10, Zenon DEF InOrder

\* Nothing is lost, repeated or reordered between the worker's writes and the
\* getline loop of run_process, whatever part of the pipe each read(2) takes:
\* what is buffered is the end of what was said, and worker::inputs comes
\* from the lines before.  (A line is one record: cuts inside are not modelled.)
THEOREM LinesInOrder == Spec => []InOrder
BY InitIInv, NextIInv, FlowInOrder, PTL DEF Spec

-----------------------------------------------------------------------------
(* The refinement of Start *)

\* The verdict falls at line d: the first that decides.
DecidedAt(s, d) ==
  /\ d \in 1 .. Len(s)
  /\ Decisive(s[d])
  /\ \A i \in 1 .. d - 1 : ~Decisive(s[i])

Undecisive(s) == \A i \in 1 .. Len(s) : ~Decisive(s[i])

First(s) == s[CHOOSE i \in 1 .. Len(s) :
                /\ i \notin Before(s)
                /\ \A k \in 1 .. i - 1 : k \in Before(s)]

\* Verdict and Announced, of any sequence of lines.
VerdictOf(s, c, w) ==
  IF c THEN "eof"
  ELSE IF Before(s) # 1 .. Len(s)
       THEN IF First(s).kind = "RUNNING" THEN "running" ELSE "bad"
  ELSE IF w = {} THEN "eof" ELSE "silent"

AnnouncedOf(s, c, in) ==
  IF c THEN in ELSE [n \in Names |-> LastOf(s, n, Before(s))]

ShownOf(a, in) == IF a = "ok" THEN in ELSE [n \in Names |-> NoAddr]

LEMMA Mapping ==
  /\ Verdict = VerdictOf(said, cut, writers)
  /\ Announced = AnnouncedOf(said, cut, inputs)
<1>1. BeforeVerdict = Before(said)
  BY OfSaid
<1>2. Verdict = VerdictOf(said, cut, writers)
  BY <1>1 DEF Verdict, VerdictOf, First
<1>3. Announced = AnnouncedOf(said, cut, inputs)
  BY OfSaid DEF Announced, AnnouncedOf
<1> QED BY <1>2, <1>3

\* The same after a step.
LEMMA MappingNext ==
  /\ Verdict' = VerdictOf(said', cut', writers')
  /\ Announced' = AnnouncedOf(said', cut', inputs')
<1>1. /\ BeforeVerdict' = Before(said')
      /\ \A n, L : LastAddr(n, L)' = LastOf(said', n, L)
  <2>1. \A n, L : LastAddr(n, L)' = LastOf(said', n, L)
    BY DEF LastAddr, LastOf, Top, For
  <2> QED BY <2>1 DEF BeforeVerdict, Before
<1>2. Verdict' = VerdictOf(said', cut', writers')
  BY <1>1 DEF Verdict, VerdictOf, First
<1>3. \A n : LastAddr(n, BeforeVerdict)' = LastOf(said', n, Before(said'))
  BY <1>1 DEF LastAddr, LastOf, Top, For
<1>4. Announced' = AnnouncedOf(said', cut', inputs')
  BY <1>3 DEF Announced, AnnouncedOf
<1> QED BY <1>2, <1>4

LEMMA DecidedOrNot ==
  ASSUME NEW s \in Seq(Lines)
  PROVE  Undecisive(s) \/ \E d : DecidedAt(s, d)
<1> DEFINE D == {i \in 1 .. Len(s) : Decisive(s[i])}
<1>1. CASE D = {}
  BY <1>1 DEF Undecisive
<1>2. CASE D # {}
  <2>1. D \subseteq Nat
    OBVIOUS
  <2>2. PICK d \in D : \A i \in D : d <= i
    BY <1>2, <2>1, LeastNat
  <2>3. \A i \in 1 .. d - 1 : ~Decisive(s[i])
    BY <2>2, LenProperties
  <2> QED BY <2>2, <2>3 DEF DecidedAt
<1> QED BY <1>1, <1>2

LEMMA OfDecided ==
  ASSUME NEW s \in Seq(Lines), NEW d, DecidedAt(s, d)
  PROVE  /\ Before(s) = 1 .. d - 1
         /\ Before(s) # 1 .. Len(s)
         /\ First(s) = s[d]
<1>1. Len(s) \in Nat /\ d \in 1 .. Len(s)
  BY LenProperties DEF DecidedAt
<1>2. ASSUME NEW i \in 1 .. Len(s)
      PROVE  i \in Before(s) <=> i <= d - 1
  <2>1. CASE i <= d - 1
    BY <1>1, <2>1 DEF DecidedAt, Before
  <2>2. CASE ~(i <= d - 1)
    <3>1. d \in 1 .. i
      BY <1>1, <2>2
    <3> QED BY <2>2, <3>1 DEF DecidedAt, Before
  <2> QED BY <2>1, <2>2
<1>3. Before(s) = 1 .. d - 1
  <2>1. Before(s) \subseteq 1 .. Len(s)
    BY DEF Before
  <2>2. ASSUME NEW i \in Before(s) PROVE i \in 1 .. d - 1
    BY <1>1, <1>2, <2>1
  <2>3. ASSUME NEW i \in 1 .. d - 1 PROVE i \in Before(s)
    BY <1>1, <1>2
  <2> QED BY <2>2, <2>3
<1>4. Before(s) # 1 .. Len(s)
  BY <1>1, <1>3
<1>5. First(s) = s[d]
  <2> DEFINE P(i) == /\ i \notin Before(s)
                     /\ \A k \in 1 .. i - 1 : k \in Before(s)
  <2>1. P(d)
    BY <1>1, <1>3
  <2>2. ASSUME NEW i \in 1 .. Len(s), P(i) PROVE i = d
    BY <1>1, <1>3, <2>2
  <2>3. (CHOOSE i \in 1 .. Len(s) : P(i)) = d
    BY <1>1, <2>1, <2>2
  <2> QED BY <2>3 DEF First
<1> QED BY <1>3, <1>4, <1>5

LEMMA OfUndecisive ==
  ASSUME NEW s, Undecisive(s)
  PROVE  Before(s) = 1 .. Len(s)
BY DEF Undecisive, Before

\* A decided verdict does not depend on what follows, nor on who writes.
LEMMA DecidedForGood ==
  ASSUME NEW s \in Seq(Lines), NEW d, DecidedAt(s, d),
         NEW t \in Seq(Lines), Len(s) <= Len(t),
         \A i \in 1 .. Len(s) : t[i] = s[i]
  PROVE  /\ DecidedAt(t, d)
         /\ \A c, w, x : VerdictOf(t, c, w) = VerdictOf(s, c, x)
         /\ \A c, in : AnnouncedOf(t, c, in) = AnnouncedOf(s, c, in)
<1>1. /\ Len(s) \in Nat /\ Len(t) \in Nat /\ d \in 1 .. Len(s)
      /\ \A i \in 1 .. d : t[i] = s[i]
  BY LenProperties DEF DecidedAt
<1>2. DecidedAt(t, d)
  BY <1>1 DEF DecidedAt
<1>3. /\ Before(s) = 1 .. d - 1 /\ Before(s) # 1 .. Len(s) /\ First(s) = s[d]
      /\ Before(t) = 1 .. d - 1 /\ Before(t) # 1 .. Len(t) /\ First(t) = t[d]
  BY <1>2, OfDecided
<1>4. First(s) = First(t)
  BY <1>1, <1>3
<1>5. \A n : LastOf(t, n, 1 .. d - 1) = LastOf(s, n, 1 .. d - 1)
  <2>1. \A i \in 1 .. d - 1 : i \in 1 .. Len(s) /\ t[i] = s[i]
    BY <1>1
  <2> DEFINE L == 1 .. d - 1
  <2>2. \A i \in L : i \in 1 .. Len(s) /\ t[i] = s[i]
    BY <2>1
  <2> HIDE DEF L
  <2>3. \A n : LastOf(t, n, L) = LastOf(s, n, L)
    BY <2>2, LastOfSame
  <2> QED BY <2>3 DEF L
<1>6. \A c, w, x : VerdictOf(t, c, w) = VerdictOf(s, c, x)
  BY <1>3, <1>4 DEF VerdictOf
<1>7. \A c, in : AnnouncedOf(t, c, in) = AnnouncedOf(s, c, in)
  BY <1>3, <1>5 DEF AnnouncedOf
<1> QED BY <1>2, <1>6, <1>7

\* What an abstract step may be.
StartStep == S!StartNext \/ UNCHANGED S!startVars

\* Steps that leave the mapped variables alone.
LEMMA Stutters ==
  ASSUME Verdict' = Verdict, Announced' = Announced,
         answer' = answer, inputs' = inputs
  PROVE  StartStep
BY DEF StartStep, S!startVars

\* Nothing the reader keeps changed, no line was added, and the last writer
\* did not leave.
LEMMA SameStutters ==
  ASSUME UNCHANGED <<said, cut, inputs, answer>>,
         (writers' = {}) <=> (writers = {})
  PROVE  StartStep
<1>1. VerdictOf(said, cut, writers') = VerdictOf(said, cut, writers)
  BY DEF VerdictOf
<1>2. Verdict' = Verdict
  BY <1>1, Mapping DEF Verdict, BeforeVerdict
<1>3. Announced' = Announced
  BY DEF Announced, LastAddr, BeforeVerdict
<1> QED BY <1>2, <1>3, Stutters

\* What is said before the verdict is announced, the first decisive line is
\* the verdict, and what comes after counts for nothing.
LEMMA WriteStarts ==
  ASSUME IInv, NEW p, NEW line \in Lines, Write(p, line)
  PROVE  StartStep
<1>1. /\ said \in Seq(Lines) /\ said' \in Seq(Lines) /\ Len(said) \in Nat
      /\ Len(said') = Len(said) + 1
      /\ \A i \in 1 .. Len(said) : said'[i] = said[i]
      /\ said'[Len(said) + 1] = line
  BY AppendProperties, LenProperties DEF IInv, TypeOK, Write
<1>2. /\ writers # {}
      /\ UNCHANGED <<writers, cut, inputs, answer>>
  BY DEF Write, readVars
<1>3. /\ Verdict = VerdictOf(said, cut, writers)
      /\ Announced = AnnouncedOf(said, cut, inputs)
      /\ Verdict' = VerdictOf(said', cut, writers)
      /\ Announced' = AnnouncedOf(said', cut, inputs)
  BY <1>2, Mapping, MappingNext
<1>4. CASE cut
  BY <1>2, <1>3, <1>4, Stutters DEF VerdictOf, AnnouncedOf
<1>5. ASSUME NEW d, DecidedAt(said, d) PROVE StartStep
  BY <1>1, <1>2, <1>3, <1>5, DecidedForGood, Stutters
<1>6. CASE ~cut /\ Undecisive(said)
  <2> DEFINE N == Len(said)
  <2>1. /\ Verdict = "silent"
        /\ Announced = [n \in Names |-> LastOf(said, n, 1 .. N)]
    BY <1>2, <1>3, <1>6, OfUndecisive DEF VerdictOf, AnnouncedOf
  <2>2. \A n : LastOf(said', n, 1 .. N) = LastOf(said, n, 1 .. N)
    <3> DEFINE L == 1 .. N
    <3>1. \A i \in L : i \in 1 .. Len(said) /\ said'[i] = said[i]
      BY <1>1
    <3> HIDE DEF L
    <3>2. \A n : LastOf(said', n, L) = LastOf(said, n, L)
      BY <1>1, <3>1, LastOfSame
    <3> QED BY <3>2 DEF L
  <2>3. CASE Decisive(line)
    <3>1. DecidedAt(said', N + 1)
      BY <1>1, <1>6, <2>3 DEF DecidedAt, Undecisive
    <3>2. /\ Before(said') = 1 .. (N + 1) - 1
          /\ Before(said') # 1 .. Len(said')
          /\ First(said') = line
      BY <1>1, <3>1, OfDecided
    <3>3. Before(said') = 1 .. N
      BY <1>1, <3>2
    <3>4. Verdict' \in {"running", "bad"}
      BY <1>3, <1>6, <3>2 DEF VerdictOf
    <3>5. Announced' = Announced
      BY <1>3, <1>6, <2>1, <2>2, <3>3 DEF AnnouncedOf
    <3> QED BY <1>2, <2>1, <3>4, <3>5
        DEF StartStep, S!StartNext, S!Decide
  <2>4. CASE ~Decisive(line)
    <3>1. Undecisive(said')
      BY <1>1, <1>6, <2>4 DEF Undecisive
    <3>2. /\ Verdict' = "silent"
          /\ Announced' = [n \in Names |-> LastOf(said', n, 1 .. N + 1)]
      BY <1>1, <1>2, <1>3, <1>6, <3>1, OfUndecisive
      DEF VerdictOf, AnnouncedOf
    <3>3. ASSUME NEW n
          PROVE  LastOf(said', n, 1 .. N + 1) =
                   IF line \in Inputs /\ line.name = n
                   THEN line.addr ELSE LastOf(said, n, 1 .. N)
      BY <1>1, <2>2, LastOfNext
    <3>4. CASE line \in Inputs
      <4>1. line.name \in Names /\ line.addr \in Addrs
        BY <3>4, LineKinds
      <4>2. Announced' = [Announced EXCEPT ![line.name] = line.addr]
        BY <2>1, <3>2, <3>3, <3>4, <4>1
      <4>3. S!Announce(line.name, line.addr)
        BY <1>2, <2>1, <3>2, <4>2 DEF S!Announce
      <4> QED BY <4>1, <4>3 DEF StartStep, S!StartNext
    <3>5. CASE line \notin Inputs
      <4>1. Announced' = Announced
        BY <2>1, <3>2, <3>3, <3>5
      <4> QED BY <1>2, <2>1, <3>2, <4>1, Stutters
    <3> QED BY <3>4, <3>5
  <2> QED BY <2>3, <2>4
<1> QED BY <1>1, <1>4, <1>5, <1>6, DecidedOrNot

\* The last writer gone, an undecided start is decided: end of file.
LEMMA CloseEndStarts ==
  ASSUME IInv, NEW p, CloseEnd(p)
  PROVE  StartStep
<1>1. UNCHANGED <<said, cut, inputs, answer>> /\ writers # {}
  BY DEF CloseEnd, readVars
<1>2. CASE writers' # {}
  BY <1>1, <1>2, SameStutters
<1>3. CASE writers' = {}
  <2>1. Announced' = Announced
    BY <1>1, Mapping, MappingNext
  <2>2. /\ Verdict = VerdictOf(said, cut, writers)
        /\ Verdict' = VerdictOf(said, cut, {})
    BY <1>1, <1>3, Mapping, MappingNext
  <2>3. CASE cut \/ Before(said) # 1 .. Len(said)
    <3>1. Verdict' = Verdict
      BY <2>2, <2>3 DEF VerdictOf
    <3> QED BY <1>1, <2>1, <3>1, Stutters
  <2>4. CASE ~cut /\ Before(said) = 1 .. Len(said)
    <3>1. Verdict = "silent" /\ Verdict' = "eof"
      BY <1>1, <2>2, <2>4 DEF VerdictOf
    <3> QED BY <1>1, <2>1, <3>1 DEF StartStep, S!StartNext, S!Decide
  <2> QED BY <2>3, <2>4
<1> QED BY <1>2, <1>3

\* A pending reader with nothing buffered has read every line, and none of
\* them was decisive.
LEMMA DrainedUndecisive ==
  ASSUME IInv, answer = "pending", buf = <<>>, pipe = <<>>
  PROVE  /\ Undecisive(said)
         /\ inputs = [n \in Names |-> LastOf(said, n, 1 .. Len(said))]
<1>1. read = Len(said)
  BY LenProperties DEF read, IInv, TypeOK
<1>2. Undecisive(said)
  BY <1>1 DEF IInv, Flow, Undecided, Undecisive
<1>3. Before(said) \cap 1 .. read = 1 .. Len(said)
  BY <1>1, <1>2, OfUndecisive
<1> QED BY <1>2, <1>3 DEF IInv, Flow, Recorded

\* A read cut short by a signal passes for the end of the file: what was
\* recorded so far is what counts.
LEMMA InterruptedStarts ==
  ASSUME IInv, Interrupted
  PROVE  StartStep
<1>1. /\ answer = "pending" /\ ~cut /\ cut' = TRUE /\ writers # {}
      /\ buf = <<>> /\ pipe = <<>>
      /\ UNCHANGED <<said, writers, inputs, answer>>
  BY DEF Interrupted, Reading, pipeVars
<1>2. /\ Before(said) = 1 .. Len(said)
      /\ inputs = [n \in Names |-> LastOf(said, n, 1 .. Len(said))]
  BY <1>1, DrainedUndecisive, OfUndecisive
<1>3. Verdict = "silent" /\ Announced = inputs
  BY <1>1, <1>2, Mapping DEF VerdictOf, AnnouncedOf
<1>4. Verdict' = "eof" /\ Announced' = inputs
  BY <1>1, MappingNext DEF VerdictOf, AnnouncedOf
<1> QED BY <1>1, <1>3, <1>4 DEF StartStep, S!StartNext, S!Decide

\* The loop answers at the line that made the verdict, with what was
\* announced before it.
LEMMA GetlineStarts ==
  ASSUME IInv, getline
  PROVE  StartStep
<1> DEFINE line == Head(buf)
<1>1. /\ answer = "pending" /\ ~cut /\ buf # <<>>
      /\ UNCHANGED <<said, writers, cut>>
  BY DEF getline, Reading, pipeVars
<1>2. /\ said \in Seq(Lines) /\ read \in Nat
      /\ read + 1 \in 1 .. Len(said) /\ line = said[read + 1]
      /\ line \in Lines
  BY <1>1, NextLine DEF IInv, TypeOK, Flow
<1>3. \A i \in 1 .. read : ~Decisive(said[i])
  BY <1>1 DEF IInv, Flow, Undecided
<1>4. Verdict' = Verdict /\ Announced' = Announced
  BY <1>1, Mapping, MappingNext DEF AnnouncedOf
<1>5. CASE ~Decisive(line)
  <2>1. answer' = answer
    BY <1>5 DEF getline, Decisive
  <2> QED BY <1>1, <1>4, <2>1 DEF StartStep, S!startVars
<1>6. CASE Decisive(line)
  <2>1. /\ inputs' = inputs
        /\ answer' = IF line.kind = "RUNNING" THEN "ok" ELSE "error"
    BY <1>2, <1>6, LineKinds DEF getline, Decisive
  <2>2. DecidedAt(said, read + 1)
    BY <1>2, <1>3, <1>6 DEF DecidedAt
  <2>3. /\ Before(said) = 1 .. read
        /\ Before(said) # 1 .. Len(said)
        /\ First(said) = line
    <3>1. (read + 1) - 1 = read
      BY <1>2
    <3> QED BY <1>2, <2>2, <3>1, OfDecided
  <2>4. Verdict = IF line.kind = "RUNNING" THEN "running" ELSE "bad"
    BY <1>1, <2>3, Mapping DEF VerdictOf
  <2>5. Announced = inputs
    <3>1. Before(said) \cap 1 .. read = Before(said)
      BY <2>3
    <3> QED BY <1>1, <3>1, Mapping DEF AnnouncedOf, IInv, Flow, Recorded
  <2> QED BY <1>1, <1>4, <2>1, <2>4, <2>5
      DEF StartStep, S!StartNext, S!Answer
<1> QED BY <1>5, <1>6

\* The end of the file is the answer only when it is the verdict.
LEMMA AtEofStarts ==
  ASSUME IInv, AtEof
  PROVE  StartStep
<1>1. /\ answer = "pending" /\ answer' = "error"
      /\ UNCHANGED <<said, writers, inputs, cut>>
  BY DEF AtEof, pipeVars
<1>2. Verdict' = Verdict /\ Announced' = Announced
  BY <1>1, Mapping, MappingNext
<1>3. Verdict = "eof"
  <2>1. CASE cut
    BY <2>1, Mapping DEF VerdictOf
  <2>2. CASE ~cut
    <3>1. writers = {} /\ Before(said) = 1 .. Len(said)
      BY <1>1, <2>2, DrainedUndecisive, OfUndecisive DEF AtEof, NobodyWrites
    <3> QED BY <2>2, <3>1, Mapping DEF VerdictOf
  <2> QED BY <2>1, <2>2
<1> QED BY <1>1, <1>2, <1>3 DEF StartStep, S!StartNext, S!Answer

LEMMA InitStarts == Init => S!StartInit
<1> SUFFICES ASSUME Init PROVE S!StartInit
  OBVIOUS
<1>1. said = <<>> /\ ~cut /\ writers # {} /\ answer = "pending"
  BY DEF Init
<1>2. Before(said) = {} /\ 1 .. Len(said) = {}
  BY <1>1 DEF Before
<1>3. \A n : LastOf(said, n, {}) = NoAddr
  BY DEF LastOf, For
<1>4. Verdict = "silent" /\ Announced = [n \in Names |-> NoAddr]
  BY <1>1, <1>2, <1>3, Mapping DEF VerdictOf, AnnouncedOf
<1> QED BY <1>1, <1>4 DEF S!StartInit, S!NoInputs

LEMMA NextStarts == IInv /\ [Next]_vars => [S!StartNext]_S!startVars
<1> SUFFICES ASSUME IInv, [Next]_vars PROVE StartStep
  BY DEF StartStep
<1>1. ASSUME NEW p \in {Worker} \cup Helpers, NEW line \in Lines,
             Write(p, line)
      PROVE  StartStep
  BY <1>1, WriteStarts
<1>2. ASSUME NEW p \in {Worker} \cup Helpers, NEW q \in Helpers,
             Inherit(p, q)
      PROVE  StartStep
  BY <1>2, SameStutters DEF Inherit, readVars
<1>3. ASSUME NEW p \in {Worker} \cup Helpers, CloseEnd(p) PROVE StartStep
  BY <1>3, CloseEndStarts
<1>4. ASSUME NEW n \in 1 .. Capacity, underflow(n) PROVE StartStep
  BY <1>4, SameStutters DEF underflow
<1>5. CASE getline
  BY <1>5, GetlineStarts
<1>6. CASE AtEof
  BY <1>6, AtEofStarts
<1>7. CASE Interrupted
  BY <1>7, InterruptedStarts
<1>8. CASE Over \/ UNCHANGED vars
  BY <1>8, SameStutters DEF Over, vars, pipeVars, readVars
<1> QED
  BY <1>1, <1>2, <1>3, <1>4, <1>5, <1>6, <1>7, <1>8 DEF Next, Reader

\* The reply to create-worker follows the first decisive line the worker
\* wrote, and its "inputs" are the last addresses announced before it,
\* whatever the buffering, the helpers and the signals.
THEOREM StartRefined == Spec => ImplementsStart
<1>1. Spec => []IInv
  BY InitIInv, NextIInv, PTL DEF Spec
<1> QED
  BY <1>1, InitStarts, NextStarts, PTL DEF Spec, ImplementsStart, S!StartSpec

-----------------------------------------------------------------------------
(* Descriptors and children *)

\* open(2) and pipe(2) take descriptors that are free.
LEMMA LowestFree ==
  ASSUME NEW F, F \subseteq Fds, F # {}
  PROVE  Min(F) \in F
<1>1. \E x \in F : \A y \in F : x <= y
  BY LeastNat, LaunchAssumption
<1> QED BY <1>1 DEF Min

LEMMA TwoLowest ==
  ASSUME NEW t, HasTwo(t)
  PROVE  /\ PipeEnds(t) \in [rend : Free(t), wend : Free(t)]
         /\ PipeEnds(t).rend # PipeEnds(t).wend
<1>1. Lowest(t) \in Free(t)
  BY LowestFree DEF Lowest, HasTwo, Free
<1>2. Min(Free(t) \ {Lowest(t)}) \in Free(t) \ {Lowest(t)}
  BY LowestFree DEF HasTwo, Free
<1> QED BY <1>1, <1>2 DEF PipeEnds

\* u is t with the ends of pipe q.
IsPiped(u, t, q) ==
  /\ DOMAIN u = DOMAIN t \cup {PipeEnds(t).rend, PipeEnds(t).wend}
  /\ u[PipeEnds(t).rend] = ReadEnd(q) /\ u[PipeEnds(t).wend] = WriteEnd(q)
  /\ \A d \in DOMAIN t : u[d] = t[d]

LEMMA PipedIs ==
  ASSUME NEW t, NEW q, HasTwo(t)
  PROVE  IsPiped(Piped(t, q), t, q)
<1>1. /\ PipeEnds(t).rend \notin DOMAIN t
      /\ PipeEnds(t).wend \notin DOMAIN t
      /\ PipeEnds(t).rend # PipeEnds(t).wend
  BY TwoLowest DEF Free
<1> QED BY <1>1 DEF IsPiped, Piped, Put

\* Children that are born in turn are counted by the next one.
LEMMA Counted ==
  ASSUME NEW st, NEW n \in 1 .. MaxChildren + 1,
         \A c \in Children : st[c] # "unborn" <=> c < n
  PROVE  1 + Cardinality({c \in Children : st[c] # "unborn"}) = n
<1>1. n \in Nat /\ n >= 1 /\ n - 1 \in Nat /\ MaxChildren \in Nat
  BY LaunchAssumption
<1>2. {c \in Children : st[c] # "unborn"} = 1 .. n - 1
  BY <1>1 DEF Children
<1>3. Cardinality(1 .. n - 1) = n - 1
  BY <1>1, FS_Interval
<1>4. Cardinality({c \in Children : st[c] # "unborn"}) = n - 1
  BY <1>2, <1>3, Zenon
<1> QED BY <1>1, <1>4

-----------------------------------------------------------------------------
(* The descriptors of the service *)

Launches == {"streams", "forked"}

\* The first child of the launch under way, and the place in its plan.
Base == NextChild - Len(cs)
Turn == IF phase = "forked" THEN Len(cs) ELSE Entry

\* The children are born in turn.
Born ==
  /\ stage = [c \in Children |-> stage[c]]
  /\ NextChild \in 1 .. MaxChildren + 1
  /\ \A c \in Children : stage[c] # "unborn" <=> c < NextChild

\* Descriptors of the service have one owner, and its objects' descriptors
\* are pipes of their children.
Owned ==
  /\ table = [p \in {Service} \cup Children |-> table[p]]
  /\ owns = [c \in Children |-> owns[c]]
  /\ DOMAIN original \cap local = {}
  /\ \A c \in Children :
       /\ owns[c] \cap (DOMAIN original \cup local) = {}
       /\ c >= NextChild => owns[c] = {}
       /\ \A d \in owns[c] : table[Service][d][2][1] = c
  /\ DOMAIN table[Service] =
       DOMAIN original \cup local \cup UNION {owns[c] : c \in Children}
  /\ \A d \in DOMAIN original : table[Service][d] = original[d]

\* The ends of the pipes that are not closed yet.
Rends == {k \in DOMAIN pipes : k >= Turn - 1}
Wends == {k \in DOMAIN pipes : k >= Turn}
Held == {pipes[k].rend : k \in Rends} \cup {pipes[k].wend : k \in Wends}

\* A launch under way.
Launching ==
  /\ plan \in Plans
  /\ cs \in Seq(Children) /\ Turn <= Len(plan)
  /\ phase = "forked" => cs # <<>>
  /\ Base + Len(plan) - 1 <= MaxChildren
  /\ \A i \in DOMAIN cs : cs[i] = Base + i - 1
  /\ phase = "forked" => owns[NextChild - 1] = {}
  /\ pipes \in Seq([rend : Fds, wend : Fds]) /\ Len(pipes) < Len(plan)
  /\ phase = "forked" \/ cs # <<>> \/ streams # <<>> => Linked
  /\ \A k \in Rends :
       /\ pipes[k].rend \in local
       /\ table[Service][pipes[k].rend] = ReadEnd(Between(Base + k - 1))
  /\ \A k \in Wends :
       /\ pipes[k].wend \in local
       /\ table[Service][pipes[k].wend] = WriteEnd(Between(Base + k - 1))
  /\ local = Held \cup UNION {Taken(streams[d]) : d \in DOMAIN streams}

\* A stream that was made for behavior b, when the service has the table t
\* and owns the descriptors mine.
IsMade(t, mine, d, b, info, child) ==
  CASE b.type = "capture" ->
         /\ info.type = "use_pipe" /\ info.side = b.side
         /\ {info.theirs, info.ours} \subseteq mine
         /\ t[info.theirs] = Theirs(b.side, Captured(child, d))
         /\ t[info.ours] = Ours(b.side, Captured(child, d))
    [] b.type = "silence" -> info.type = "use_file" /\ info.side = b.side
    [] OTHER -> info = b

Made ==
  \A d \in DOMAIN streams \cap DOMAIN plan[Turn] :
    IsMade(table[Service], local, d, plan[Turn][d], streams[d],
           Base + Turn - 1)

Connected ==
  IF phase = "streams" THEN DOMAIN streams \subseteq DOMAIN plan[Turn]
  ELSE /\ DOMAIN streams = DOMAIN plan[Turn] \cup Links(Turn, Len(plan))
       /\ \A d \in Links(Turn, Len(plan)) :
            streams[d] = [type |-> "use_handle",
                          side |-> IF d = 0 THEN "in" ELSE "out",
                          theirs |-> IF d = 0 THEN pipes[Turn - 1].rend
                                     ELSE pipes[Turn].wend]

ServiceInv ==
  /\ phase \in {"idle", "streams", "forked", "reading", "waiting"}
  /\ Born /\ Owned
  /\ cs \in Seq(Children)
  /\ phase \in Launches => Launching /\ Made /\ Connected
  /\ phase \notin Launches => local = {} /\ pipes = <<>> /\ streams = <<>>
LEMMA InitService == LaunchInit => ServiceInv
<1> SUFFICES ASSUME LaunchInit PROVE ServiceInv
  OBVIOUS
<1>1. 1 \in 1 .. MaxChildren + 1 /\ \A c \in Children : ~(c < 1)
  BY LaunchAssumption DEF Children
<1>2. NextChild = 1
  BY <1>1, Counted DEF NextChild, LaunchInit
<1>3. Born
  BY <1>1, <1>2 DEF Born, LaunchInit
<1>4. Owned
  <2>1. \A c \in Children : owns[c] = {}
    BY DEF LaunchInit
  <2>2. Service \in {Service} \cup Children /\ table[Service] = original
    BY DEF LaunchInit
  <2>3. UNION {owns[c] : c \in Children} = {} /\ local = {}
    BY <2>1 DEF LaunchInit
  <2>4. table = [p \in {Service} \cup Children |-> table[p]]
    BY DEF LaunchInit
  <2>5. owns = [c \in Children |-> owns[c]]
    BY DEF LaunchInit
  <2> QED BY <2>1, <2>2, <2>3, <2>4, <2>5 DEF Owned
<1> QED BY <1>3, <1>4 DEF ServiceInv, LaunchInit, Launches

LEMMA SameBorn ==
  ASSUME Born, stage' = [c \in Children |-> stage'[c]],
         \A c \in Children : stage'[c] # "unborn" <=> stage[c] # "unborn"
  PROVE  Born' /\ NextChild' = NextChild
<1>1. NextChild \in 1 .. MaxChildren + 1
      /\ \A c \in Children : stage'[c] # "unborn" <=> c < NextChild
  BY DEF Born
<1>2. NextChild' = NextChild
  <2>1. 1 + Cardinality({c \in Children : stage'[c] # "unborn"}) = NextChild
    BY <1>1, Counted
  <2> QED BY <2>1 DEF NextChild
<1> QED BY <1>1, <1>2 DEF Born

LEMMA SameStage ==
  ASSUME Born, UNCHANGED stage
  PROVE  Born' /\ NextChild' = NextChild /\ NextChild \in Nat
<1>1. NextChild' = NextChild
  BY DEF NextChild
<1>2. Born'
  BY <1>1 DEF Born
<1>3. NextChild \in Nat
  BY DEF Born
<1> QED BY <1>1, <1>2, <1>3

\* A step that leaves what the service has alone.
LEMMA QuietStep ==
  ASSUME ServiceInv, UNCHANGED <<original, phase, launchVars, owns>>,
         table' = [p \in {Service} \cup Children |-> table'[p]],
         table'[Service] = table[Service],
         stage' = [c \in Children |-> stage'[c]],
         \A c \in Children : stage'[c] # "unborn" <=> stage[c] # "unborn"
  PROVE  ServiceInv'
<1>1. Born' /\ NextChild' = NextChild
  BY SameBorn DEF ServiceInv
<1>2. Owned'
  BY <1>1 DEF Owned, ServiceInv, launchVars
<1>3. Base' = Base /\ Turn' = Turn /\ Rends' = Rends /\ Wends' = Wends
  BY <1>1 DEF Base, Turn, Rends, Wends, launchVars, Entry
<1>4. Held' = Held /\ (Linked <=> Linked')
  BY <1>3 DEF Held, Linked, launchVars
<1>5. phase \in Launches => Launching'
  BY <1>1, <1>3, <1>4 DEF ServiceInv, Launching, launchVars
<1>6. phase \in Launches => Made' /\ Connected'
  BY <1>3 DEF ServiceInv, Made, IsMade, Connected, launchVars
<1> QED BY <1>1, <1>2, <1>5, <1>6 DEF ServiceInv, launchVars

\* Children change their own tables, and are not born twice.
LEMMA ChildStep ==
  ASSUME ServiceInv, NEW c \in Children,
         \/ \E d \in Fds : Setup(c, d)
         \/ Execve(c) \/ Exit(c) \/ Finish(c)
  PROVE  ServiceInv'
<1>1. c # Service
  BY LaunchAssumption DEF Children, Service
<1>2. /\ table = [p \in {Service} \cup Children |-> table[p]]
      /\ stage = [x \in Children |-> stage[x]]
  BY DEF ServiceInv, Owned, Born
<1>3. /\ UNCHANGED <<original, phase, launchVars, owns>>
      /\ stage[c] # "unborn"
      /\ \/ UNCHANGED stage
         \/ \E s \in {"running", "exited"} : stage' = [stage EXCEPT ![c] = s]
      /\ \E t : table' = [table EXCEPT ![c] = t]
  <2>1. ASSUME End(c)
        PROVE  /\ UNCHANGED <<original, phase, launchVars, owns>>
               /\ stage' = [stage EXCEPT ![c] = "exited"]
               /\ table' = [table EXCEPT ![c] = <<>>]
    BY <2>1 DEF End
  <2>2. CASE \E d \in Fds : Setup(c, d)
    <3>1. PICK d \in Fds : Setup(c, d)
      BY <2>2
    <3>2. CASE End(c)
      BY <2>1, <3>1, <3>2 DEF Setup
    <3>3. CASE /\ table' = [table EXCEPT
                              ![c] = SetupStream(@, d, memory[c][d])]
               /\ UNCHANGED <<original, phase, launchVars, owns, stage>>
      BY <3>1, <3>3 DEF Setup
    <3> QED BY <3>1, <3>2, <3>3 DEF Setup
  <2>3. CASE Execve(c)
    BY <2>3 DEF Execve
  <2>4. CASE Exit(c)
    BY <2>1, <2>4 DEF Exit
  <2>5. CASE Finish(c)
    BY <2>1, <2>5 DEF Finish
  <2> QED BY <2>2, <2>3, <2>4, <2>5
<1>4. /\ table' = [p \in {Service} \cup Children |-> table'[p]]
      /\ table'[Service] = table[Service]
  BY <1>1, <1>2, <1>3
<1>5. /\ stage' = [x \in Children |-> stage'[x]]
      /\ \A x \in Children : stage'[x] # "unborn" <=> stage[x] # "unborn"
  BY <1>2, <1>3
<1> QED BY <1>3, <1>4, <1>5, QuietStep

\* Descriptors of the service that are closed, or change their owner.
LEMMA Closes ==
  ASSUME Owned, NEW closed,
         table' = [table EXCEPT ![Service] = Close(@, closed)],
         original' = original,
         owns' = [c \in Children |-> owns'[c]],
         local' \cup UNION {owns'[c] : c \in Children}
           = (local \cup UNION {owns[c] : c \in Children}) \ closed,
         closed \subseteq local \cup UNION {owns[c] : c \in Children},
         \A c \in Children :
           /\ owns'[c] \cap local' = {}
           /\ c >= NextChild' => owns'[c] = {}
           /\ \A d \in owns'[c] : table[Service][d][2][1] = c
  PROVE  Owned'
<1> DEFINE O == local \cup UNION {owns[c] : c \in Children}
<1> DEFINE P == local' \cup UNION {owns'[c] : c \in Children}
<1>1. /\ table' = [p \in {Service} \cup Children |-> table'[p]]
      /\ table'[Service] = Close(table[Service], closed)
  BY DEF Owned
<1>2. DOMAIN original \cap O = {}
  BY DEF Owned
<1>3. P = O \ closed /\ closed \subseteq O
  OBVIOUS
<1>4. DOMAIN table[Service] = DOMAIN original \cup O
  BY DEF Owned
<1>5. /\ DOMAIN table'[Service] = DOMAIN original \cup P
      /\ \A d \in DOMAIN original \cup P :
           table'[Service][d] = table[Service][d]
  <2> HIDE DEF O, P
  <2> QED BY <1>1, <1>2, <1>3, <1>4 DEF Close
<1>6. local' \subseteq P /\ \A c \in Children : owns'[c] \subseteq P
  OBVIOUS
<1>7. /\ DOMAIN original \cap local' = {}
      /\ \A c \in Children : owns'[c] \cap (DOMAIN original \cup local') = {}
  <2> HIDE DEF O, P
  <2> QED BY <1>2, <1>3, <1>6
<1>8. \A c \in Children : \A d \in owns'[c] : table'[Service][d][2][1] = c
  BY <1>5, <1>6
<1>9. \A d \in DOMAIN original : table'[Service][d] = original[d]
  BY <1>5 DEF Owned
<1> QED BY <1>1, <1>5, <1>7, <1>8, <1>9 DEF Owned

\* The service closes descriptors of its children while it launches none.
LEMMA DisownStep ==
  ASSUME ServiceInv, phase \notin Launches, NEW fds,
         fds \subseteq UNION {owns[c] : c \in Children}, Disown(fds),
         phase' \in {"idle", "reading", "waiting"},
         UNCHANGED <<original, launchVars, stage>>
  PROVE  ServiceInv'
<1>1. Born' /\ NextChild' = NextChild
  BY DEF ServiceInv, Born, NextChild
<1>2. /\ table' = [table EXCEPT ![Service] = Close(@, fds)]
      /\ owns' = [c \in Children |-> owns[c] \ fds]
      /\ \A c \in Children : owns'[c] = owns[c] \ fds
  BY DEF Disown
<1>3. local' = {} /\ local = {}
  BY DEF ServiceInv, launchVars
<1>4. UNION {owns'[c] : c \in Children}
        = (UNION {owns[c] : c \in Children}) \ fds
  BY <1>2
<1>5. Owned'
  <2>1. \A c \in Children :
          /\ owns'[c] \cap local' = {}
          /\ c >= NextChild' => owns'[c] = {}
          /\ \A d \in owns'[c] : table[Service][d][2][1] = c
    BY <1>1, <1>2, <1>3 DEF ServiceInv, Owned
  <2>2. Owned /\ owns' = [c \in Children |-> owns'[c]]
    BY <1>2 DEF ServiceInv
  <2> QED BY <1>2, <1>3, <1>4, <2>1, <2>2, Closes
<1> QED BY <1>1, <1>3, <1>5 DEF ServiceInv, launchVars, Launches

LEMMA OfChildren ==
  ASSUME ServiceInv
  PROVE  /\ Range(cs) \subseteq Children
         /\ OwnInputs \cup OwnOutputs
              \subseteq UNION {owns[c] : c \in Children}
<1>1. \A i \in DOMAIN cs : cs[i] \in Children
  BY DEF ServiceInv
<1>2. Range(cs) \subseteq Children
  BY <1>1 DEF Range
<1> QED BY <1>2 DEF OwnInputs, OwnOutputs

LEMMA ReadingStep ==
  ASSUME ServiceInv, CloseInputs \/ ReadToTheEnd
  PROVE  ServiceInv'
<1>1. CASE CloseInputs
  BY <1>1, OfChildren, DisownStep DEF CloseInputs, childVars, Launches
<1>2. CASE ReadToTheEnd
  BY <1>2, OfChildren, DisownStep DEF ReadToTheEnd, childVars, Launches
<1> QED BY <1>1, <1>2

LEMMA WaitStep ==
  ASSUME ServiceInv, wait_children
  PROVE  ServiceInv'
<1>1. /\ stage = [c \in Children |-> stage[c]] /\ cs \in Seq(Children)
      /\ cs # <<>> => Head(cs) \in Children /\ Tail(cs) \in Seq(Children)
  BY DEF ServiceInv, Born
<1>2. /\ stage' = [c \in Children |-> stage'[c]] /\ cs' \in Seq(Children)
      /\ \A c \in Children : stage'[c] # "unborn" <=> stage[c] # "unborn"
      /\ phase' \in {"idle", "waiting"}
  BY <1>1 DEF wait_children
<1>3. Born' /\ NextChild' = NextChild
  BY <1>2, SameBorn DEF ServiceInv
<1>4. Owned'
  BY <1>3 DEF ServiceInv, Owned, wait_children
<1> QED BY <1>2, <1>3, <1>4 DEF ServiceInv, wait_children, Launches

LEMMA LaunchStep ==
  ASSUME ServiceInv, NEW p \in Plans, Launch(p)
  PROVE  ServiceInv'
<1>1. /\ p \in Seq(Range(p)) /\ p # <<>> /\ Len(p) \in Nat /\ Len(p) > 0
      /\ phase = "idle" /\ phase' = "streams" /\ plan' = p /\ cs' = <<>>
      /\ pipes' = <<>> /\ streams' = <<>> /\ local' = {}
      /\ UNCHANGED <<original, table, local, owns, stage>>
  BY LaunchAssumption DEF Launch, ServiceInv, Launches, childVars
<1>2. Born' /\ NextChild' = NextChild
  BY <1>1 DEF ServiceInv, Born, NextChild
<1>3. Owned'
  <2>1. Owned /\ UNCHANGED <<original, table, local, owns>>
    BY <1>1 DEF ServiceInv
  <2> QED BY <1>2, <2>1 DEF Owned
<1>4. Turn' = 1 /\ Base' = NextChild /\ NextChild \in Nat
  BY <1>1, <1>2 DEF Turn, Base, Entry, ServiceInv, Born
<1>5. Held' = {}
  BY <1>1 DEF Held, Rends, Wends
<1>6. Launching'
  BY <1>1, <1>4, <1>5 DEF Launching, Rends, Wends, Linked, Launch
<1>7. Made' /\ Connected'
  BY <1>1 DEF Made, Connected
<1> QED BY <1>1, <1>2, <1>3, <1>6, <1>7 DEF ServiceInv, Launches

\* Whatever fails, what the launch has made is closed with it.
LEMMA ThrowStep ==
  ASSUME ServiceInv, Throw
  PROVE  ServiceInv'
<1> DEFINE mine == UNION {owns[c] : c \in Range(cs)}
<1>1. Born' /\ NextChild' = NextChild
  BY DEF ServiceInv, Born, NextChild, Throw, childVars
<1>2. /\ table' = [table EXCEPT ![Service] = Close(@, local \cup mine)]
      /\ original' = original /\ local' = {}
      /\ owns' = [c \in Children |-> IF c \in Range(cs) THEN {} ELSE owns[c]]
      /\ \A c \in Children : owns'[c] = IF c \in Range(cs) THEN {} ELSE owns[c]
  BY DEF Throw
<1>3. Range(cs) \subseteq Children
  BY OfChildren
<1>4. \A c, e \in Children : c # e => owns[c] \cap owns[e] = {}
  BY DEF ServiceInv, Owned
<1>5. UNION {owns'[c] : c \in Children}
        = (UNION {owns[c] : c \in Children}) \ (local \cup mine)
  <2>1. ASSUME NEW c \in Children, NEW d \in owns'[c]
        PROVE  d \in owns[c] /\ d \notin local \cup mine
    <3>1. c \notin Range(cs) /\ d \in owns[c]
      BY <1>2, <2>1
    <3>2. d \notin mine
      BY <1>3, <1>4, <3>1
    <3>3. d \notin local
      BY <3>1 DEF ServiceInv, Owned
    <3> QED BY <3>1, <3>2, <3>3
  <2>2. ASSUME NEW c \in Children, NEW d \in owns[c], d \notin local \cup mine
        PROVE  d \in owns'[c]
    BY <1>2, <2>2
  <2> QED BY <2>1, <2>2
<1>6. Owned'
  <2>1. \A c \in Children :
          /\ owns'[c] \cap local' = {}
          /\ c >= NextChild' => owns'[c] = {}
          /\ \A d \in owns'[c] : table[Service][d][2][1] = c
    BY <1>1, <1>2 DEF ServiceInv, Owned
  <2>2. Owned /\ owns' = [c \in Children |-> owns'[c]]
    BY <1>2 DEF ServiceInv
  <2>3. local \cup mine \subseteq local \cup UNION {owns[c] : c \in Children}
    BY <1>3
  <2>4. local' \cup UNION {owns'[c] : c \in Children}
          = (local \cup UNION {owns[c] : c \in Children}) \ (local \cup mine)
    BY <1>2, <1>5
  <2> HIDE DEF mine
  <2> QED BY <1>2, <2>1, <2>2, <2>3, <2>4, Closes
<1> QED BY <1>1, <1>6 DEF ServiceInv, Throw, Launches

-----------------------------------------------------------------------------
(* Pipes and streams are made *)

LEMMA MakePipeStep ==
  ASSUME Owned, NEW q, MakePipe(q), UNCHANGED <<original, owns>>,
         NextChild' = NextChild
  PROVE  LET r == PipeEnds(table[Service]).rend
             w == PipeEnds(table[Service]).wend
         IN /\ Owned'
            /\ r \in Fds /\ w \in Fds /\ local' = local \cup {r, w}
            /\ table'[Service][r] = ReadEnd(q)
            /\ table'[Service][w] = WriteEnd(q)
            /\ \A d \in local : table'[Service][d] = table[Service][d]
<1> DEFINE t == table[Service]
           u == table'[Service]
           r == PipeEnds(t).rend
           w == PipeEnds(t).wend
           O == UNION {owns[c] : c \in Children}
<1>1. HasTwo(t) /\ local' = local \cup {r, w}
  BY DEF MakePipe
<1>2. /\ table' = [p \in {Service} \cup Children |-> table'[p]]
      /\ u = Piped(t, q)
  BY DEF Owned, MakePipe
<1>3. /\ r \in Fds \ DOMAIN t /\ w \in Fds \ DOMAIN t
  BY <1>1, TwoLowest DEF Free
<1>4. /\ DOMAIN u = DOMAIN t \cup {r, w}
      /\ u[r] = ReadEnd(q) /\ u[w] = WriteEnd(q)
      /\ \A d \in DOMAIN t : u[d] = t[d]
  <2>1. IsPiped(u, t, q)
    BY <1>1, <1>2, PipedIs
  <2> QED BY <2>1 DEF IsPiped
<1>5. DOMAIN t = DOMAIN original \cup local \cup O
  BY DEF Owned
<1>6. \A c \in Children : owns[c] \subseteq O /\ owns[c] \subseteq DOMAIN t
  BY <1>5
<1>7. DOMAIN original \subseteq DOMAIN t /\ local \subseteq DOMAIN t
  BY <1>5
<1>8. DOMAIN u = DOMAIN original \cup local' \cup O
  <2> HIDE DEF O, r, w, t, u
  <2> QED BY <1>1, <1>4, <1>5
<1>9. /\ DOMAIN original \cap local' = {}
      /\ \A c \in Children :
           /\ owns[c] \cap (DOMAIN original \cup local') = {}
           /\ \A d \in owns[c] : u[d][2][1] = c
      /\ \A d \in DOMAIN original : u[d] = original[d]
  <2>1. /\ DOMAIN original \cap local = {}
        /\ \A c \in Children :
             /\ owns[c] \cap (DOMAIN original \cup local) = {}
             /\ \A d \in owns[c] : t[d][2][1] = c
        /\ \A d \in DOMAIN original : t[d] = original[d]
    BY DEF Owned
  <2> HIDE DEF O, r, w, t, u
  <2> QED BY <1>1, <1>3, <1>4, <1>6, <1>7, <2>1
<1>10. Owned'
  <2>1. \A c \in Children : c >= NextChild' => owns'[c] = {}
    BY DEF Owned
  <2>2. owns' = [c \in Children |-> owns'[c]]
    BY DEF Owned
  <2> QED BY <1>2, <1>8, <1>9, <2>1, <2>2 DEF Owned
<1> QED BY <1>1, <1>3, <1>4, <1>7, <1>10

LEMMA MakeLinkStep ==
  ASSUME ServiceInv, MakeLink
  PROVE  ServiceInv'
<1> DEFINE ends == PipeEnds(table[Service])
           q == Between(NextChild + Len(pipes))
<1> SUFFICES ASSUME MakePipe(q), pipes' = Append(pipes, ends),
                    UNCHANGED <<original, phase, plan, cs, streams,
                                owns, childVars>>
             PROVE  ServiceInv'
  BY ThrowStep DEF MakeLink
<1>1. /\ phase = "streams" /\ ~Linked /\ phase' = "streams"
      /\ cs = <<>> /\ streams = <<>> /\ cs' = <<>> /\ streams' = <<>>
      /\ plan' = plan /\ Launching
      /\ UNCHANGED <<original, owns, stage>>
  BY DEF MakeLink, ServiceInv, Launches, Launching, childVars
<1>2. Born' /\ NextChild' = NextChild /\ NextChild \in Nat
  BY <1>1, SameStage DEF ServiceInv
<1>3. /\ Owned' /\ ends.rend \in Fds /\ ends.wend \in Fds
      /\ local' = local \cup {ends.rend, ends.wend}
      /\ table'[Service][ends.rend] = ReadEnd(q)
      /\ table'[Service][ends.wend] = WriteEnd(q)
      /\ \A d \in local : table'[Service][d] = table[Service][d]
  BY <1>1, <1>2, MakePipeStep DEF ServiceInv
<1>4. /\ pipes \in Seq([rend : Fds, wend : Fds]) /\ Len(pipes) \in Nat
      /\ plan \in Seq(Range(plan)) /\ Len(plan) \in Nat
      /\ Len(pipes) + 1 < Len(plan)
  BY <1>1, LaunchAssumption DEF Launching, Linked
<1>5. PipeEnds(table[Service]) = [rend |-> ends.rend, wend |-> ends.wend]
  BY DEF PipeEnds
<1>6. /\ pipes' \in Seq([rend : Fds, wend : Fds])
      /\ Len(pipes') = Len(pipes) + 1
      /\ DOMAIN pipes = 1 .. Len(pipes) /\ DOMAIN pipes' = 1 .. Len(pipes) + 1
      /\ \A k \in DOMAIN pipes : pipes'[k] = pipes[k]
      /\ pipes'[Len(pipes) + 1] = ends
  <2> DEFINE e == [rend |-> ends.rend, wend |-> ends.wend]
  <2>1. e \in [rend : Fds, wend : Fds] /\ pipes' = Append(pipes, e) /\ e = ends
    BY <1>3, <1>5
  <2> HIDE DEF e, ends
  <2> QED BY <1>4, <2>1
<1>7. /\ Turn = 1 /\ Turn' = 1 /\ Base = NextChild /\ Base' = NextChild
  BY <1>1, <1>2 DEF Turn, Base, Entry
<1>8. /\ Rends = DOMAIN pipes /\ Wends = DOMAIN pipes
      /\ Rends' = DOMAIN pipes' /\ Wends' = DOMAIN pipes'
      /\ DOMAIN pipes' = DOMAIN pipes \cup {Len(pipes) + 1}
  <2> HIDE DEF ends, q
  <2> QED BY <1>4, <1>6, <1>7 DEF Rends, Wends
<1>9. Held' = Held \cup {ends.rend, ends.wend}
  <2> HIDE DEF ends
  <2> QED BY <1>6, <1>8 DEF Held
<1>10. Launching'
  <2>1. /\ local = Held
        /\ \A k \in DOMAIN pipes :
             /\ pipes[k].rend \in local /\ pipes[k].wend \in local
             /\ table[Service][pipes[k].rend]
                  = ReadEnd(Between(NextChild + k - 1))
             /\ table[Service][pipes[k].wend]
                  = WriteEnd(Between(NextChild + k - 1))
    BY <1>1, <1>7, <1>8 DEF Launching
  <2>2. local' = Held' \cup UNION {Taken(streams'[d]) : d \in DOMAIN streams'}
    BY <1>1, <1>3, <1>9, <2>1
  <2>3. ASSUME NEW k \in DOMAIN pipes'
        PROVE  /\ pipes'[k].rend \in local' /\ pipes'[k].wend \in local'
               /\ table'[Service][pipes'[k].rend]
                    = ReadEnd(Between(NextChild + k - 1))
               /\ table'[Service][pipes'[k].wend]
                    = WriteEnd(Between(NextChild + k - 1))
    <3>1. CASE k \in DOMAIN pipes
      <4> HIDE DEF ends
      <4> QED BY <1>3, <1>6, <2>1, <3>1
    <3>2. CASE k = Len(pipes) + 1
      <4>1. q = Between(NextChild + k - 1)
        BY <1>2, <1>4, <3>2
      <4> HIDE DEF ends, q
      <4> QED BY <1>3, <1>6, <3>2, <4>1
    <3> QED BY <1>8, <3>1, <3>2
  <2> QED BY <1>1, <1>4, <1>6, <1>7, <1>8, <2>2, <2>3 DEF Launching
<1>11. Made' /\ Connected'
  BY <1>1 DEF Made, Connected
<1> QED BY <1>1, <1>2, <1>3, <1>10, <1>11 DEF ServiceInv, Launches

LEMMA Planned ==
  ASSUME ServiceInv, phase \in Launches
  PROVE  /\ plan \in Seq(Range(plan)) /\ Len(plan) \in Nat
         /\ Turn \in 1 .. Len(plan) /\ Turn \in DOMAIN plan
         /\ IsContext(plan[Turn], Turn, Len(plan))
         /\ Len(cs) \in Nat /\ Len(pipes) \in Nat
         /\ NextChild \in Nat /\ Base \in Nat
<1>1. /\ plan \in Plans /\ cs \in Seq(Children) /\ Turn <= Len(plan)
      /\ pipes \in Seq([rend : Fds, wend : Fds])
      /\ phase = "forked" => cs # <<>>
      /\ NextChild \in Nat
      /\ Base + Len(plan) - 1 <= MaxChildren
      /\ \A i \in DOMAIN cs : cs[i] = Base + i - 1
  BY DEF ServiceInv, Launching, Born
<1>2. /\ plan \in Seq(Range(plan)) /\ Len(plan) \in Nat
      /\ \A i \in DOMAIN plan : IsContext(plan[i], i, Len(plan))
  BY <1>1, LaunchAssumption
<1>3. Len(cs) \in Nat /\ Turn \in Nat /\ Turn >= 1
  BY <1>1 DEF Turn, Entry
<1>4. Turn \in 1 .. Len(plan) /\ Turn \in DOMAIN plan
  BY <1>1, <1>2, <1>3
<1>5. Base \in Nat
  <2>1. CASE cs = <<>>
    BY <1>1, <2>1 DEF Base
  <2>2. CASE cs # <<>>
    <3>1. 1 \in DOMAIN cs /\ cs[1] \in Children /\ cs[1] = Base
      BY <1>1, <1>3, <2>2 DEF Base
    <3> QED BY <3>1, LaunchAssumption DEF Children
  <2> QED BY <2>1, <2>2
<1> QED BY <1>1, <1>2, <1>3, <1>4, <1>5

\* A stream is made: what was made before is where it was.
LEMMA Added ==
  ASSUME ServiceInv, phase = "streams", Linked,
         NEW d \in Unmade, NEW info,
         UNCHANGED <<original, phase, plan, cs, pipes, owns, stage>>,
         streams' = Put(streams, d, info),
         Owned', local' = local \cup Taken(info),
         \A x \in local : table'[Service][x] = table[Service][x],
         IsMade(table'[Service], local', d, plan[Turn][d], info,
                Base + Turn - 1)
  PROVE  ServiceInv'
<1>1. Born' /\ NextChild' = NextChild
  BY SameStage DEF ServiceInv
<1>2. /\ Turn' = Turn /\ Turn = Entry /\ Base' = Base
      /\ Rends' = Rends /\ Wends' = Wends
  BY <1>1 DEF Turn, Base, Rends, Wends, Entry
<1>3. Held' = Held /\ Linked'
  BY <1>2 DEF Held, Linked
<1>4. /\ d \in DOMAIN plan[Turn] /\ d \notin DOMAIN streams
      /\ DOMAIN streams' = DOMAIN streams \cup {d} /\ streams'[d] = info
      /\ \A e \in DOMAIN streams : streams'[e] = streams[e]
  BY <1>2 DEF Unmade, Put
<1>5. Launching /\ Made /\ Connected
  BY DEF ServiceInv, Launches
<1>6. Launching'
  <2>1. UNION {Taken(streams'[e]) : e \in DOMAIN streams'}
          = (UNION {Taken(streams[e]) : e \in DOMAIN streams}) \cup Taken(info)
    BY <1>4
  <2>2. local' = Held' \cup UNION {Taken(streams'[e]) : e \in DOMAIN streams'}
    BY <1>3, <1>5, <2>1 DEF Launching
  <2>3. \A k \in Rends :
          /\ pipes[k].rend \in local'
          /\ table'[Service][pipes[k].rend] = ReadEnd(Between(Base + k - 1))
    BY <1>5 DEF Launching
  <2>4. \A k \in Wends :
          /\ pipes[k].wend \in local'
          /\ table'[Service][pipes[k].wend] = WriteEnd(Between(Base + k - 1))
    BY <1>5 DEF Launching
  <2> QED BY <1>1, <1>2, <1>3, <1>5, <2>2, <2>3, <2>4 DEF Launching
<1>7. Made'
  <2> SUFFICES ASSUME NEW e \in DOMAIN streams' \cap DOMAIN plan[Turn]
               PROVE  IsMade(table'[Service], local', e, plan[Turn][e],
                             streams'[e], Base + Turn - 1)
    BY <1>2 DEF Made
  <2>1. CASE e = d
    BY <1>4, <2>1
  <2>2. CASE e # d
    <3>1. IsMade(table[Service], local, e, plan[Turn][e], streams[e],
                 Base + Turn - 1)
      BY <1>4, <1>5, <2>2 DEF Made
    <3>2. streams'[e] = streams[e] /\ local \subseteq local'
      BY <1>4, <2>2
    <3> QED BY <1>2, <3>1, <3>2 DEF IsMade
  <2> QED BY <2>1, <2>2
<1>8. Connected'
  BY <1>2, <1>4, <1>5 DEF Connected
<1> QED BY <1>1, <1>6, <1>7, <1>8 DEF ServiceInv, Launches

LEMMA MakeStreamStep ==
  ASSUME ServiceInv, NEW d \in Fds, MakeStream(d)
  PROVE  ServiceInv'
<1> DEFINE b == plan[Entry][d]
           ends == PipeEnds(table[Service])
           info == stream_info(b, ends)
<1>1. /\ phase = "streams" /\ Linked /\ d \in Unmade
      /\ d \in DOMAIN plan[Entry]
      /\ Turn = Entry /\ Base + Turn - 1 = NextChild
      /\ b.type \in {"capture", "silence", "inherit", "redirect"}
      /\ b.side \in {"in", "out"}
  <2>1. phase = "streams" /\ Linked /\ d \in Unmade /\ Turn = Entry
    BY DEF MakeStream, InTurn, Turn
  <2>2. Base + Turn - 1 = NextChild /\ IsContext(plan[Turn], Turn, Len(plan))
    BY <2>1, Planned DEF Launches, Base, Turn, Entry
  <2> QED BY <2>1, <2>2 DEF Unmade, IsContext
<1> SUFFICES ASSUME \/ b.type = "capture" /\ MakePipe(Captured(NextChild, d))
                    \/ b.type # "capture" /\ UNCHANGED <<table, local>>,
                    streams' = Put(streams, d, info),
                    UNCHANGED <<original, phase, plan, cs, pipes,
                                owns, childVars>>
             PROVE  ServiceInv'
  BY ThrowStep DEF MakeStream
<1>2. UNCHANGED <<original, phase, plan, cs, pipes, owns, stage>>
  BY DEF childVars
<1>3. NextChild' = NextChild /\ Owned
  BY <1>2, SameStage DEF ServiceInv
<1>4. plan[Turn][d] = b
  BY <1>1
<1>5. CASE b.type = "capture"
  <2>1. /\ Owned' /\ local' = local \cup {ends.rend, ends.wend}
        /\ table'[Service][ends.rend] = ReadEnd(Captured(NextChild, d))
        /\ table'[Service][ends.wend] = WriteEnd(Captured(NextChild, d))
        /\ \A x \in local : table'[Service][x] = table[Service][x]
    BY <1>2, <1>3, <1>5, MakePipeStep
  <2>2. /\ info.type = "use_pipe" /\ info.side = b.side
        /\ info.theirs = IF b.side = "in" THEN ends.rend ELSE ends.wend
        /\ info.ours = IF b.side = "in" THEN ends.wend ELSE ends.rend
    BY <1>5 DEF stream_info
  <2>3. Taken(info) = {ends.rend, ends.wend}
    BY <1>1, <2>2 DEF Taken
  <2>4. /\ {info.theirs, info.ours} \subseteq local'
        /\ table'[Service][info.theirs]
             = Theirs(b.side, Captured(NextChild, d))
        /\ table'[Service][info.ours] = Ours(b.side, Captured(NextChild, d))
    <3> HIDE DEF ends, info, b
    <3> QED BY <1>1, <2>1, <2>2 DEF Theirs, Ours
  <2>5. IsMade(table'[Service], local', d, plan[Turn][d], info,
               Base + Turn - 1)
    <3> HIDE DEF info, b
    <3> QED BY <1>1, <1>4, <1>5, <2>2, <2>4 DEF IsMade
  <2>6. local' = local \cup Taken(info)
    BY <2>1, <2>3
  <2> HIDE DEF info, b, ends
  <2> QED BY <1>1, <1>2, <2>1, <2>5, <2>6, Added
<1>6. CASE b.type # "capture"
  <2>1. Owned' /\ \A x \in local : table'[Service][x] = table[Service][x]
    BY <1>2, <1>3, <1>6 DEF Owned
  <2>2. IF b.type = "silence" THEN info.type = "use_file" /\ info.side = b.side
        ELSE info = b
    BY <1>6 DEF stream_info
  <2>3. local' = local \cup Taken(info)
    BY <1>1, <1>6, <2>2 DEF Taken
  <2>4. IsMade(table'[Service], local', d, plan[Turn][d], info,
               Base + Turn - 1)
    <3> HIDE DEF info, b
    <3> QED BY <1>4, <1>6, <2>2 DEF IsMade
  <2> HIDE DEF info, b, ends
  <2> QED BY <1>1, <1>2, <2>1, <2>3, <2>4, Added
<1> QED BY <1>5, <1>6

-----------------------------------------------------------------------------
(* Around a fork *)

LEMMA ForkStep ==
  ASSUME ServiceInv, Fork
  PROVE  ServiceInv'
<1> DEFINE c == NextChild
           L == Links(Turn, Len(plan))
<1>1. /\ phase = "streams" /\ Linked /\ Unmade = {} /\ phase' = "forked"
      /\ cs' = Append(cs, c)
      /\ streams' = WithHandles(streams, Handles(Entry))
      /\ stage' = [stage EXCEPT ![c] = "forked"]
      /\ table' = [table EXCEPT ![c] = table[Service]]
      /\ UNCHANGED <<original, plan, pipes, local, owns>>
  BY DEF Fork, Forks
<1>2. Launching /\ Made /\ Connected /\ Owned /\ Born /\ cs \in Seq(Children)
  BY <1>1 DEF ServiceInv, Launches
<1>3. /\ Turn = Entry /\ Turn = Len(cs) + 1 /\ Turn \in 1 .. Len(plan)
      /\ Base \in Nat /\ Base + Turn - 1 = c /\ c \in Children
      /\ Len(cs) \in Nat /\ Len(plan) \in Nat /\ c \in Nat
  <2>1. /\ Turn = Entry /\ Turn = Len(cs) + 1 /\ Turn \in 1 .. Len(plan)
        /\ Base \in Nat /\ Len(cs) \in Nat /\ Len(plan) \in Nat /\ c \in Nat
        /\ Base = c - Len(cs)
    BY <1>1, Planned DEF Launches, Turn, Entry, Base
  <2>2. c <= MaxChildren /\ c >= 1
    <3>1. Base + Len(plan) - 1 <= MaxChildren /\ MaxChildren \in Nat
      BY <1>2, LaunchAssumption DEF Launching
    <3>2. c >= 1
      BY <1>2 DEF Born
    <3> HIDE DEF c
    <3> QED BY <2>1, <3>1, <3>2
  <2> QED BY <2>1, <2>2, LaunchAssumption DEF Children
<1>4. NextChild' = c + 1 /\ Born'
  <2>1. /\ \A x \in Children : stage'[x] # "unborn" <=> x < c + 1
        /\ c + 1 \in 1 .. MaxChildren + 1
    BY <1>1, <1>2, <1>3, LaunchAssumption DEF Born, Children
  <2>2. NextChild' = c + 1
    <3>1. 1 + Cardinality({x \in Children : stage'[x] # "unborn"}) = c + 1
      BY <2>1, Counted
    <3> QED BY <3>1 DEF NextChild
  <2>3. stage' = [x \in Children |-> stage'[x]]
    BY <1>1, <1>2 DEF Born
  <2> QED BY <2>1, <2>2, <2>3 DEF Born
<1>5. /\ cs' \in Seq(Children) /\ Len(cs') = Turn /\ cs' # <<>>
      /\ \A i \in DOMAIN cs' : cs'[i] = Base + i - 1
  <2>1. \A i \in DOMAIN cs : cs[i] = Base + i - 1
    BY <1>2 DEF Launching
  <2> QED BY <1>1, <1>2, <1>3, <2>1
<1>6. /\ Turn' = Turn /\ Base' = Base
  BY <1>1, <1>3, <1>4, <1>5 DEF Turn, Base
<1>7. /\ Rends' = Rends /\ Wends' = Wends /\ Held' = Held /\ Linked'
  BY <1>1, <1>6 DEF Rends, Wends, Held, Linked
<1>8. table'[Service] = table[Service]
      /\ table' = [p \in {Service} \cup Children |-> table'[p]]
  BY <1>1, <1>2, <1>3, LaunchAssumption DEF Owned, Children, Service
<1>9. Owned'
  <2>1. \A x \in Children : x >= NextChild' => owns'[x] = {}
    <3> SUFFICES ASSUME NEW x \in Children, x >= NextChild' PROVE owns'[x] = {}
      OBVIOUS
    <3>1. x >= NextChild
      BY <1>3, <1>4 DEF Children
    <3> QED BY <1>1, <1>2, <3>1 DEF Owned
  <2>2. Owned /\ UNCHANGED <<original, local, owns>>
    BY <1>1, <1>2
  <2> QED BY <1>8, <2>1, <2>2 DEF Owned
<1>10. /\ DOMAIN streams = DOMAIN plan[Turn]
       /\ DOMAIN streams' = DOMAIN plan[Turn] \cup L
       /\ \A d \in DOMAIN plan[Turn] : streams'[d] = streams[d]
       /\ \A d \in L \ DOMAIN plan[Turn] :
            streams'[d] = [type |-> "use_handle",
                           side |-> IF d = 0 THEN "in" ELSE "out",
                           theirs |-> IF d = 0 THEN pipes[Turn - 1].rend
                                      ELSE pipes[Turn].wend]
  BY <1>1, <1>2, <1>3 DEF Connected, Unmade, WithHandles, Handles
<1>11. L \cap DOMAIN plan[Turn] = {}
  BY <1>1, Planned DEF IsContext, Launches
<1>12. Connected'
  BY <1>1, <1>6, <1>10, <1>11 DEF Connected
<1>13. Made'
  <2>1. \A d \in DOMAIN plan[Turn] :
          IsMade(table[Service], local, d, plan[Turn][d], streams[d],
                 Base + Turn - 1)
    BY <1>2, <1>10 DEF Made
  <2> QED BY <1>1, <1>6, <1>8, <1>10, <2>1 DEF Made
<1>14. Launching'
  <2>1. \A d \in L : Taken(streams'[d]) \subseteq Held
    <3> SUFFICES ASSUME NEW d \in L PROVE Taken(streams'[d]) \subseteq Held
      OBVIOUS
    <3>1. /\ Len(pipes) = Len(plan) - 1
          /\ pipes \in Seq([rend : Fds, wend : Fds])
          /\ DOMAIN pipes = 1 .. Len(plan) - 1
      BY <1>1, <1>2 DEF Launching, Linked
    <3>2. Taken(streams'[d])
            = {IF d = 0 THEN pipes[Turn - 1].rend ELSE pipes[Turn].wend}
      BY <1>10, <1>11 DEF Taken
    <3>3. CASE d = 0
      <4>1. Turn > 1 /\ Turn - 1 \in Rends
        BY <1>3, <3>1, <3>3 DEF Links, Rends
      <4> QED BY <3>2, <3>3, <4>1 DEF Held
    <3>4. CASE d # 0
      <4>1. Turn < Len(plan) /\ Turn \in Wends
        BY <1>3, <3>1, <3>4 DEF Links, Wends
      <4> QED BY <3>2, <3>4, <4>1 DEF Held
    <3> QED BY <3>3, <3>4
  <2>2. local' = Held' \cup UNION {Taken(streams'[d]) : d \in DOMAIN streams'}
    <3>1. local = Held \cup UNION {Taken(streams[d]) : d \in DOMAIN streams}
      BY <1>2 DEF Launching
    <3>2. UNION {Taken(streams'[d]) : d \in DOMAIN streams'}
            = (UNION {Taken(streams[d]) : d \in DOMAIN streams})
              \cup UNION {Taken(streams'[d]) : d \in L}
      <4>1. /\ DOMAIN streams' = DOMAIN streams \cup L
            /\ \A d \in DOMAIN streams : Taken(streams'[d]) = Taken(streams[d])
        BY <1>10
      <4> HIDE DEF L
      <4>2. \A x : (\E d \in DOMAIN streams' : x \in Taken(streams'[d]))
                 <=> \/ \E d \in DOMAIN streams : x \in Taken(streams[d])
                     \/ \E d \in L : x \in Taken(streams'[d])
        BY <4>1, Zenon
      <4> QED BY <4>2
    <3>3. UNION {Taken(streams'[d]) : d \in L} \subseteq Held
      BY <2>1
    <3> QED BY <1>1, <1>7, <3>1, <3>2, <3>3
  <2>3. owns'[NextChild' - 1] = {}
    <3>1. NextChild' - 1 = c /\ c >= NextChild
      BY <1>3, <1>4
    <3>2. \A x \in Children : x >= NextChild => owns[x] = {}
      BY <1>2 DEF Owned
    <3>3. owns[c] = {}
      <4> HIDE DEF c
      <4> QED BY <1>3, <3>1, <3>2
    <3> QED BY <1>1, <3>1, <3>3
  <2>4. /\ plan' \in Plans /\ Turn' <= Len(plan')
        /\ Base' + Len(plan') - 1 <= MaxChildren
        /\ pipes' \in Seq([rend : Fds, wend : Fds]) /\ Len(pipes') < Len(plan')
    BY <1>1, <1>2, <1>6 DEF Launching
  <2>5. /\ \A k \in Rends' :
             /\ pipes'[k].rend \in local'
             /\ table'[Service][pipes'[k].rend]
                  = ReadEnd(Between(Base' + k - 1))
        /\ \A k \in Wends' :
             /\ pipes'[k].wend \in local'
             /\ table'[Service][pipes'[k].wend]
                  = WriteEnd(Between(Base' + k - 1))
    BY <1>1, <1>2, <1>6, <1>7, <1>8 DEF Launching
  <2> QED BY <1>5, <1>6, <1>7, <2>2, <2>3, <2>4, <2>5 DEF Launching
<1> QED BY <1>1, <1>4, <1>5, <1>9, <1>12, <1>13, <1>14 DEF ServiceInv, Launches

\* The ends that the next children of a pipeline need.
Later ==
  {pipes[k].rend : k \in {i \in DOMAIN pipes : i >= Turn}}
    \cup {pipes[k].wend : k \in {i \in DOMAIN pipes : i >= Turn + 1}}

\* What the service has after a fork: different ends are on different
\* descriptors, because they are of different files.
LEMMA ForkedEnds ==
  ASSUME ServiceInv, phase = "forked"
  PROVE  LET t == table[Service]
             last == NextChild - 1
         IN /\ last \in Children /\ cs[Len(cs)] = last /\ owns[last] = {}
            /\ Len(cs) = Turn /\ Base + Turn - 1 = last
            /\ \A d \in Pipes :
                 LET info == streams[d]
                 IN /\ info.theirs \in local /\ info.ours \in local
                    /\ t[info.ours][2] = Captured(last, d)
                    /\ t[info.theirs][2] = Captured(last, d)
                    /\ t[info.ours][1] # t[info.theirs][1]
                    /\ Taken(info) = {info.ours, info.theirs}
            /\ \A d \in DOMAIN streams \ Pipes :
                 Taken(streams[d])
                   = IF d \in Given THEN {streams[d].theirs} ELSE {}
            /\ Given = Links(Turn, Len(plan))
            /\ \A d \in Given :
                 streams[d].theirs = IF d = 0 THEN pipes[Turn - 1].rend
                                     ELSE pipes[Turn].wend
            /\ Held = EndsOf(Given, "theirs") \cup Later
<1> DEFINE t == table[Service]
           last == NextChild - 1
           L == Links(Turn, Len(plan))
<1>1. Launching /\ Made /\ Connected /\ phase \in Launches
  BY DEF ServiceInv, Launches
<1>2. /\ Turn \in 1 .. Len(plan) /\ Len(plan) \in Nat /\ Len(cs) \in Nat
      /\ NextChild \in Nat /\ IsContext(plan[Turn], Turn, Len(plan))
  BY <1>1, Planned
<1>3. Len(cs) = Turn /\ Base + Turn - 1 = last
  <2>1. Len(cs) = Turn
    BY DEF Turn
  <2> QED BY <1>2, <2>1 DEF Base
<1>4. last \in Children /\ cs[Len(cs)] = last /\ owns[last] = {}
  <2>1. cs \in Seq(Children) /\ \A i \in DOMAIN cs : cs[i] = Base + i - 1
    BY <1>1 DEF Launching
  <2>2. Len(cs) \in DOMAIN cs
    BY <1>2, <1>3, <2>1
  <2>3. cs[Len(cs)] = last
    BY <1>3, <2>1, <2>2
  <2>4. owns[last] = {}
    BY <1>1 DEF Launching
  <2> QED BY <2>1, <2>2, <2>3, <2>4
<1>5. /\ DOMAIN streams = DOMAIN plan[Turn] \cup L
      /\ DOMAIN plan[Turn] \cap L = {}
      /\ \A d \in L : streams[d] = [type |-> "use_handle",
                                    side |-> IF d = 0 THEN "in" ELSE "out",
                                    theirs |-> IF d = 0
                                               THEN pipes[Turn - 1].rend
                                               ELSE pipes[Turn].wend]
  BY <1>1, <1>2 DEF Connected, IsContext
<1>6. \A d \in DOMAIN plan[Turn] :
        LET b == plan[Turn][d]
        IN /\ b.type \in {"capture", "silence", "inherit", "redirect"}
           /\ b.side \in {"in", "out"}
           /\ IsMade(t, local, d, b, streams[d], last)
  BY <1>1, <1>2, <1>3, <1>5 DEF Made, IsContext
<1>7. \A d \in DOMAIN plan[Turn] :
        /\ streams[d].type # "use_handle"
        /\ streams[d].type = "use_pipe" <=> plan[Turn][d].type = "capture"
  BY <1>6 DEF IsMade
<1>8. /\ Given = L
      /\ Pipes = {d \in DOMAIN plan[Turn] : plan[Turn][d].type = "capture"}
  BY <1>5, <1>7 DEF Given, Pipes
<1>9. ASSUME NEW d \in Pipes
      PROVE  LET info == streams[d]
             IN /\ info.theirs \in local /\ info.ours \in local
                /\ t[info.ours][2] = Captured(last, d)
                /\ t[info.theirs][2] = Captured(last, d)
                /\ t[info.ours][1] # t[info.theirs][1]
                /\ Taken(info) = {info.ours, info.theirs}
  <2> DEFINE b == plan[Turn][d]
             info == streams[d]
             q == Captured(last, d)
  <2>1. /\ b.side \in {"in", "out"} /\ info.type = "use_pipe"
        /\ info.theirs \in local /\ info.ours \in local
        /\ t[info.theirs] = Theirs(b.side, q) /\ t[info.ours] = Ours(b.side, q)
    BY <1>6, <1>7, <1>8 DEF IsMade
  <2>2. Taken(info) = {info.ours, info.theirs}
    BY <2>1 DEF Taken
  <2>3. \/ t[info.theirs] = <<"read", q>> /\ t[info.ours] = <<"write", q>>
        \/ t[info.theirs] = <<"write", q>> /\ t[info.ours] = <<"read", q>>
    BY <2>1 DEF Theirs, Ours, ReadEnd, WriteEnd
  <2>4. /\ t[info.ours][2] = q /\ t[info.theirs][2] = q
        /\ t[info.ours][1] # t[info.theirs][1]
    <3> HIDE DEF q, info, t
    <3> QED BY <2>3
  <2> QED BY <2>1, <2>2, <2>4
<1>10. \A d \in DOMAIN streams \ Pipes :
         Taken(streams[d]) = IF d \in Given THEN {streams[d].theirs} ELSE {}
  BY DEF Taken, Given, Pipes
<1>11. Held = EndsOf(Given, "theirs") \cup Later
  <2>1. DOMAIN pipes = 1 .. Len(plan) - 1 /\ Len(pipes) = Len(plan) - 1
    BY <1>1 DEF Launching, Linked
  <2>2. EndsOf(Given, "theirs")
          = {pipes[k].rend : k \in {i \in DOMAIN pipes : i = Turn - 1}}
            \cup {pipes[k].wend : k \in {i \in DOMAIN pipes : i = Turn}}
    <3>1. EndsOf(L, "theirs") = {streams[d].theirs : d \in L}
      BY DEF EndsOf
    <3>2. 0 \in L <=> Turn - 1 \in DOMAIN pipes
      BY <1>2, <2>1 DEF Links
    <3>3. 1 \in L <=> Turn \in DOMAIN pipes
      BY <1>2, <2>1 DEF Links
    <3>4. L \subseteq {0, 1}
      BY DEF Links
    <3>5. \A d \in L : streams[d].theirs = IF d = 0 THEN pipes[Turn - 1].rend
                                           ELSE pipes[Turn].wend
      BY <1>5
    <3> HIDE DEF L
    <3> QED BY <1>8, <3>1, <3>2, <3>3, <3>4, <3>5
  <2>3. /\ Rends = {i \in DOMAIN pipes : i = Turn - 1}
                     \cup {i \in DOMAIN pipes : i >= Turn}
        /\ Wends = {i \in DOMAIN pipes : i = Turn}
                     \cup {i \in DOMAIN pipes : i >= Turn + 1}
    BY <1>2, <2>1 DEF Rends, Wends
  <2> QED BY <2>2, <2>3 DEF Held, Later
<1>12. \A d \in Given : streams[d].theirs = IF d = 0 THEN pipes[Turn - 1].rend
                                           ELSE pipes[Turn].wend
  BY <1>5, <1>8
<1> QED BY <1>3, <1>4, <1>8, <1>9, <1>10, <1>11, <1>12

\* What is closed after a fork, what its child object gets and what the next
\* children need are different descriptors, and all the service has made.
LEMMA Parted ==
  ASSUME ServiceInv, phase = "forked"
  PROVE  LET C == ClosedAfterFork
             O == EndsOf(Located, "ours")
         IN /\ C \cup O \cup Later = local
            /\ C \cap O = {} /\ C \cap Later = {} /\ O \cap Later = {}
            /\ \A x \in O : table[Service][x][2][1] = NextChild - 1
<1> DEFINE t == table[Service]
           last == NextChild - 1
           C == ClosedAfterFork
           O == EndsOf(Located, "ours")
           G == EndsOf(Given, "theirs")
           P == EndsOf(Pipes, "theirs")
           Q == EndsOf(Pipes, "ours")
           R == EndsOf(Pipes \ Located, "ours")
<1>1. Launching /\ phase \in Launches
  BY DEF ServiceInv, Launches
<1>2. /\ Turn \in 1 .. Len(plan) /\ Len(plan) \in Nat /\ Base \in Nat
      /\ DOMAIN pipes = 1 .. Len(plan) - 1
  <2>1. /\ pipes \in Seq([rend : Fds, wend : Fds]) /\ Linked
    BY <1>1 DEF Launching
  <2> QED BY <1>1, <2>1, Planned DEF Linked
<1>3. Located \subseteq Pipes /\ Pipes \subseteq DOMAIN streams
  BY DEF Located, Pipes
<1>4. C = P \cup R \cup G /\ Q = O \cup R
  BY <1>3 DEF ClosedAfterFork, ClosedByPipe, EndsOf
<1>5. \A d \in Pipes :
        /\ t[streams[d].ours][2] = Captured(last, d)
        /\ t[streams[d].theirs][2] = Captured(last, d)
        /\ t[streams[d].ours][1] # t[streams[d].theirs][1]
        /\ Taken(streams[d]) = {streams[d].ours, streams[d].theirs}
  BY ForkedEnds
<1>6. local = G \cup Later \cup P \cup Q
  <2>1. local = Held \cup UNION {Taken(streams[d]) : d \in DOMAIN streams}
    BY <1>1 DEF Launching
  <2>2. Held = G \cup Later
    BY ForkedEnds
  <2>3. \A d \in DOMAIN streams \ Pipes :
          Taken(streams[d]) = IF d \in Given THEN {streams[d].theirs} ELSE {}
    BY ForkedEnds
  <2>4. Given \subseteq DOMAIN streams /\ Given \cap Pipes = {}
    BY DEF Given, Pipes
  <2>5. UNION {Taken(streams[d]) : d \in DOMAIN streams} = G \cup P \cup Q
    BY <1>3, <1>5, <2>3, <2>4 DEF EndsOf
  <2> QED BY <2>1, <2>2, <2>5
<1>7. ASSUME NEW x \in O
      PROVE  /\ t[x][2][1] = last /\ t[x][2][2] # {}
             /\ x \notin P /\ x \notin R
  <2>1. PICK d \in Located : x = streams[d].ours
    BY DEF EndsOf
  <2>2. t[x][2] = <<last, {d}>> /\ d \in Pipes
    BY <1>3, <1>5, <2>1 DEF Captured
  <2>3. ASSUME NEW e \in Pipes, x = streams[e].theirs \/ x = streams[e].ours
        PROVE  e = d /\ x # streams[e].theirs
    <3>1. t[x][2] = <<last, {e}>>
      BY <1>5, <2>3 DEF Captured
    <3>2. e = d
      <4> HIDE DEF last, t
      <4> QED BY <2>2, <3>1
    <3> QED BY <1>5, <2>1, <2>2, <3>2
  <2>4. x \notin P /\ x \notin R
    BY <2>1, <2>3 DEF EndsOf
  <2>5. t[x][2][1] = last /\ t[x][2][2] # {}
    <3> HIDE DEF last, t
    <3> QED BY <2>2
  <2> QED BY <2>4, <2>5
<1>8. \A x \in P \cup R : t[x][2][2] # {}
  <2> SUFFICES ASSUME NEW x \in P \cup R PROVE t[x][2][2] # {}
    OBVIOUS
  <2>1. PICK d \in Pipes : t[x][2] = <<last, {d}>>
    BY <1>5 DEF EndsOf, Captured
  <2> HIDE DEF last, t
  <2> QED BY <2>1
<1>9. /\ \A k \in Rends : t[pipes[k].rend] = <<"read", <<Base + k - 1, {}>>>>
      /\ \A k \in Wends : t[pipes[k].wend] = <<"write", <<Base + k - 1, {}>>>>
  BY <1>1 DEF Launching, ReadEnd, WriteEnd, Between
<1>10. \A x \in Later :
         /\ t[x][2][2] = {}
         /\ \/ t[x][1] = "read" /\ t[x][2][1] >= Base + Turn - 1
            \/ t[x][1] = "write" /\ t[x][2][1] >= Base + Turn
  <2> SUFFICES ASSUME NEW x \in Later
               PROVE  /\ t[x][2][2] = {}
                      /\ \/ t[x][1] = "read" /\ t[x][2][1] >= Base + Turn - 1
                         \/ t[x][1] = "write" /\ t[x][2][1] >= Base + Turn
    OBVIOUS
  <2>1. CASE \E k \in DOMAIN pipes : k >= Turn /\ x = pipes[k].rend
    <3>1. PICK k \in DOMAIN pipes : k >= Turn /\ x = pipes[k].rend
      BY <2>1
    <3>2. k \in Rends
      BY <1>2, <3>1 DEF Rends
    <3>3. t[x] = <<"read", <<Base + k - 1, {}>>>>
      BY <1>9, <3>1, <3>2
    <3> HIDE DEF t
    <3> QED BY <1>2, <3>1, <3>3
  <2>2. CASE \E k \in DOMAIN pipes : k >= Turn + 1 /\ x = pipes[k].wend
    <3>1. PICK k \in DOMAIN pipes : k >= Turn + 1 /\ x = pipes[k].wend
      BY <2>2
    <3>2. k \in Wends
      BY <1>2, <3>1 DEF Wends
    <3>3. t[x] = <<"write", <<Base + k - 1, {}>>>>
      BY <1>9, <3>1, <3>2
    <3> HIDE DEF t
    <3> QED BY <1>2, <3>1, <3>3
  <2> QED BY <2>1, <2>2 DEF Later
<1>11. \A x \in G :
         /\ t[x][2][2] = {}
         /\ \/ t[x][1] = "read" /\ t[x][2][1] = Base + Turn - 2
            \/ t[x][1] = "write" /\ t[x][2][1] = Base + Turn - 1
  <2> SUFFICES ASSUME NEW d \in Given
               PROVE  LET x == streams[d].theirs
                      IN /\ t[x][2][2] = {}
                         /\ \/ t[x][1] = "read" /\ t[x][2][1] = Base + Turn - 2
                            \/ /\ t[x][1] = "write"
                               /\ t[x][2][1] = Base + Turn - 1
    BY DEF EndsOf
  <2>1. /\ Given = Links(Turn, Len(plan))
        /\ streams[d].theirs = IF d = 0 THEN pipes[Turn - 1].rend
                               ELSE pipes[Turn].wend
    BY ForkedEnds
  <2>2. CASE d = 0
    <3>1. Turn - 1 \in Rends
      BY <1>2, <2>1, <2>2 DEF Links, Rends
    <3>2. t[streams[d].theirs] = <<"read", <<Base + (Turn - 1) - 1, {}>>>>
      BY <1>9, <2>1, <2>2, <3>1
    <3> HIDE DEF t
    <3> QED BY <1>2, <3>2
  <2>3. CASE d # 0
    <3>1. Turn \in Wends
      BY <1>2, <2>1, <2>3 DEF Links, Wends
    <3>2. t[streams[d].theirs] = <<"write", <<Base + Turn - 1, {}>>>>
      BY <1>9, <2>1, <2>3, <3>1
    <3> HIDE DEF t
    <3> QED BY <1>2, <3>2
  <2> QED BY <2>2, <2>3
<1>12. G \cap Later = {}
  <2> HIDE DEF t, G
  <2> QED BY <1>2, <1>10, <1>11
<1>13. C \cap O = {}
  <2> HIDE DEF t, P, R, G, C, O
  <2> QED BY <1>4, <1>7, <1>11
<1>14. C \cap Later = {} /\ O \cap Later = {}
  <2> HIDE DEF t, P, R, G, C, O
  <2> QED BY <1>4, <1>7, <1>8, <1>10, <1>12
<1>15. C \cup O \cup Later = local
  <2> HIDE DEF t, P, Q, R, G, C, O
  <2> QED BY <1>4, <1>6
<1> QED BY <1>7, <1>13, <1>14, <1>15

LEMMA ReturnStep ==
  ASSUME ServiceInv, Return
  PROVE  ServiceInv'
<1> DEFINE last == NextChild - 1
           C == ClosedAfterFork
           O == EndsOf(Located, "ours")
<1>1. /\ phase = "forked" /\ phase \in Launches
      /\ table' = [table EXCEPT ![Service] = Close(@, C)]
      /\ owns' = [owns EXCEPT ![cs[Len(cs)]] = O]
      /\ local' = local \ (C \cup O) /\ streams' = <<>>
      /\ UNCHANGED <<original, plan, cs, stage>>
      /\ \/ Len(cs) = Len(plan) /\ phase' = "idle" /\ pipes' = <<>>
         \/ Len(cs) # Len(plan) /\ phase' = "streams" /\ UNCHANGED pipes
  BY DEF Return, childVars, Launches
<1>2. Launching /\ Owned /\ cs \in Seq(Children)
  BY <1>1 DEF ServiceInv
<1>3. Born' /\ NextChild' = NextChild /\ NextChild \in Nat
  BY <1>1, SameStage DEF ServiceInv
<1>4. /\ last \in Children /\ cs[Len(cs)] = last /\ owns[last] = {}
      /\ Len(cs) = Turn /\ Turn \in 1 .. Len(plan) /\ Len(plan) \in Nat
  BY <1>1, ForkedEnds, Planned
<1>5. /\ C \cup O \cup Later = local
      /\ C \cap O = {} /\ C \cap Later = {} /\ O \cap Later = {}
      /\ \A x \in O : table[Service][x][2][1] = last
  BY <1>1, Parted
<1>6. local' = Later
  <2> HIDE DEF C, O
  <2> QED BY <1>1, <1>5
<1>7. /\ owns' = [c \in Children |-> owns'[c]]
      /\ owns'[last] = O /\ \A c \in Children \ {last} : owns'[c] = owns[c]
  <2> HIDE DEF O, last
  <2> QED BY <1>1, <1>2, <1>4 DEF Owned
<1>8. \A c \in Children : /\ owns[c] \cap local = {}
                          /\ c >= NextChild => owns[c] = {}
  BY <1>2 DEF Owned
<1>9. Owned'
  <2>1. local' \cup UNION {owns'[c] : c \in Children}
          = (local \cup UNION {owns[c] : c \in Children}) \ C
    <3>1. UNION {owns'[c] : c \in Children}
            = O \cup UNION {owns[c] : c \in Children \ {last}}
      <4> HIDE DEF O, last
      <4> QED BY <1>4, <1>7
    <3>2. UNION {owns[c] : c \in Children}
            = UNION {owns[c] : c \in Children \ {last}}
      <4> HIDE DEF last
      <4> QED BY <1>4
    <3>3. \A c \in Children : owns[c] \cap C = {}
      <4> HIDE DEF C, O
      <4> QED BY <1>5, <1>8
    <3> HIDE DEF C, O, last
    <3> QED BY <1>5, <1>6, <3>1, <3>2, <3>3
  <2>2. C \subseteq local \cup UNION {owns[c] : c \in Children}
    <3> HIDE DEF C, O
    <3> QED BY <1>5
  <2>3. ASSUME NEW c \in Children
        PROVE  /\ owns'[c] \cap local' = {}
               /\ c >= NextChild' => owns'[c] = {}
               /\ \A d \in owns'[c] : table[Service][d][2][1] = c
    <3>1. CASE c = last
      <4>1. ~(c >= NextChild')
        BY <1>3, <3>1
      <4> HIDE DEF O, last, C
      <4> QED BY <1>5, <1>6, <1>7, <3>1, <4>1
    <3>2. CASE c # last
      <4>1. \A d \in owns[c] : table[Service][d][2][1] = c
        BY <1>2 DEF Owned
      <4> HIDE DEF O, last, C
      <4> QED BY <1>3, <1>5, <1>6, <1>7, <1>8, <3>2, <4>1
    <3> QED BY <3>1, <3>2
  <2>4. original' = original
    BY <1>1
  <2> HIDE DEF C, O
  <2> QED BY <1>1, <1>2, <1>7, <2>1, <2>2, <2>3, <2>4, Closes
<1>10. CASE phase' = "idle"
  <2>1. Len(cs) = Len(plan) /\ pipes' = <<>>
    BY <1>1, <1>10
  <2>2. DOMAIN pipes = 1 .. Len(plan) - 1
    BY <1>2, <1>1 DEF Launching, Linked
  <2>3. Later = {}
    BY <1>4, <2>1, <2>2 DEF Later
  <2> QED BY <1>1, <1>2, <1>3, <1>6, <1>9, <1>10, <2>1, <2>3
          DEF ServiceInv, Launches
<1>11. CASE phase' = "streams"
  <2>1. Len(cs) # Len(plan) /\ pipes' = pipes
    BY <1>1, <1>11
  <2>2. Turn' = Turn + 1 /\ Base' = Base
    BY <1>1, <1>3, <1>4, <1>11 DEF Turn, Base, Entry
  <2>3. /\ Rends' = {i \in DOMAIN pipes : i >= Turn}
        /\ Wends' = {i \in DOMAIN pipes : i >= Turn + 1}
        /\ Rends' \subseteq Rends /\ Wends' \subseteq Wends
    <3>1. DOMAIN pipes = 1 .. Len(plan) - 1
      BY <1>2, <1>1 DEF Launching, Linked
    <3> QED BY <1>4, <2>1, <2>2, <3>1 DEF Rends, Wends
  <2>4. Held' = Later
    BY <2>1, <2>3 DEF Held, Later
  <2>5. \A x \in Later : table'[Service][x] = table[Service][x]
    <3>1. table'[Service] = Close(table[Service], C)
      BY <1>1, <1>2 DEF Owned
    <3>2. Later \subseteq DOMAIN table[Service] \ C
      <4> HIDE DEF C, O
      <4> QED BY <1>2, <1>5 DEF Owned
    <3> QED BY <3>1, <3>2 DEF Close
  <2>6. /\ \A k \in Rends' :
             /\ pipes[k].rend \in Later
             /\ table[Service][pipes[k].rend] = ReadEnd(Between(Base + k - 1))
        /\ \A k \in Wends' :
             /\ pipes[k].wend \in Later
             /\ table[Service][pipes[k].wend] = WriteEnd(Between(Base + k - 1))
    BY <1>2, <2>3 DEF Launching, Later
  <2>7. local' = Held' \cup UNION {Taken(streams'[d]) : d \in DOMAIN streams'}
    BY <1>1, <1>6, <2>4
  <2>8. Launching'
    <3>1. /\ plan' \in Plans /\ cs' \in Seq(Children) /\ Turn' <= Len(plan')
          /\ phase' # "forked"
          /\ Base' + Len(plan') - 1 <= MaxChildren
          /\ \A i \in DOMAIN cs' : cs'[i] = Base' + i - 1
          /\ pipes' \in Seq([rend : Fds, wend : Fds])
          /\ Len(pipes') < Len(plan')
          /\ Linked'
      BY <1>1, <1>2, <1>4, <1>11, <2>1, <2>2 DEF Launching, Linked
    <3>2. /\ \A k \in Rends' :
               /\ pipes'[k].rend \in local'
               /\ table'[Service][pipes'[k].rend]
                    = ReadEnd(Between(Base' + k - 1))
          /\ \A k \in Wends' :
               /\ pipes'[k].wend \in local'
               /\ table'[Service][pipes'[k].wend]
                    = WriteEnd(Between(Base' + k - 1))
      BY <1>6, <2>1, <2>2, <2>5, <2>6
    <3> QED BY <2>7, <3>1, <3>2 DEF Launching
  <2>9. Made' /\ Connected'
    BY <1>1, <1>11 DEF Made, Connected
  <2> QED BY <1>1, <1>2, <1>3, <1>9, <1>11, <2>8, <2>9 DEF ServiceInv, Launches
<1> QED BY <1>1, <1>10, <1>11

LEMMA NextService == ServiceInv /\ [LaunchNext]_processVars => ServiceInv'
<1> SUFFICES ASSUME ServiceInv, [LaunchNext]_processVars
             PROVE  ServiceInv'
  OBVIOUS
<1>1. CASE UNCHANGED processVars
  <2>1. /\ table = [p \in {Service} \cup Children |-> table[p]]
        /\ stage = [c \in Children |-> stage[c]]
    BY DEF ServiceInv, Owned, Born
  <2> QED BY <1>1, <2>1, QuietStep DEF processVars, childVars
<1>2. CASE ForkFails
  BY <1>2, ThrowStep DEF ForkFails
<1> QED BY <1>1, <1>2, LaunchStep, MakeLinkStep, MakeStreamStep, ForkStep,
           ReturnStep, ReadingStep, WaitStep, ChildStep DEF LaunchNext

\* Whatever fails, at any place of a launch: the service has the descriptors
\* it began with, and the others it has open are owned by the launch under
\* way or by the object of the child they lead to (file_handle, pipe,
\* posix_start, launch_pipeline).
THEOREM LaunchesLeakNothing == LaunchSpec => []NoneLeaks
<1>1. ServiceInv => NoneLeaks
  <2> SUFFICES ASSUME ServiceInv PROVE NoneLeaks
    OBVIOUS
  <2>1. DOMAIN table[Service]
          = DOMAIN original \cup (local \cup UNION {owns[c] : c \in Children})
    BY DEF ServiceInv, Owned
  <2> QED BY <2>1 DEF ServiceInv, Owned, NoneLeaks, Launches
<1>2. LaunchSpec => []ServiceInv
  BY InitService, NextService, PTL DEF LaunchSpec
<1> QED BY <1>1, <1>2, PTL

-----------------------------------------------------------------------------
(* Children *)

Moved == {"use_pipe", "use_handle", "use_file"}

\* What the maps of a child are, whose streams are apart.
Maps(m, w) ==
  /\ w = [d \in DOMAIN w |-> w[d]] /\ DOMAIN w \subseteq DOMAIN m
  /\ \A d \in DOMAIN m :
       /\ m[d].type \in Moved \cup {"inherit", "redirect"}
       /\ m[d].side \in {"in", "out"}
       /\ m[d].type \in Moved => d \in DOMAIN w
       /\ m[d].type = "use_pipe" => m[d].ours # m[d].theirs
       /\ m[d].type = "use_file" => w[d] = Device(m[d].side)
       /\ m[d].type = "redirect" =>
            /\ m[d].to \in DOMAIN m /\ m[m[d].to].type # "redirect"
            /\ d \in DOMAIN w <=> m[d].to \in DOMAIN w
            /\ d \in DOMAIN w => w[d] = w[m[d].to]
  /\ \A d, e \in DOMAIN m :
       /\ d # e => Taken(m[d]) \cap Taken(m[e]) = {}
       /\ d \in Taken(m[e]) /\ d \in DOMAIN w =>
            d = e \/ m[d].type = "redirect"

\* How far its streams are set up.
SetUp(m, w, t, todo) ==
  /\ todo \subseteq DOMAIN m /\ \A d \in todo : m[d].type # "inherit"
  /\ \A d \in todo : m[d].type \in {"use_pipe", "use_handle"} =>
       m[d].theirs \in DOMAIN t /\ t[m[d].theirs] = w[d]
  /\ \A d \in DOMAIN m \ todo :
       /\ m[d].type = "redirect" =>
            /\ \A e \in todo : m[e].type = "redirect"
            /\ d \in DOMAIN t \cap DOMAIN w /\ t[d] = w[d]
       /\ m[d].type # "redirect" =>
            IF d \in DOMAIN w THEN d \in DOMAIN t /\ t[d] = w[d]
            ELSE d \in DOMAIN t => \E e \in todo : d \in Taken(m[e])

\* A child whose streams are apart, up to its execve and after it.
Begun(c) ==
  /\ stage[c] # "unborn"
  /\ stage[c] = "forked" => /\ Maps(memory[c], want[c])
                            /\ SetUp(memory[c], want[c], table[c], left[c])
  /\ stage[c] = "running" => table[c] = want[c]

ChildInv ==
  /\ apart \subseteq Children
  /\ memory = [c \in Children |-> memory[c]]
  /\ left = [c \in Children |-> left[c]]
  /\ want = [c \in Children |-> want[c]]
  /\ \A c \in apart : Begun(c)

-----------------------------------------------------------------------------
(* Streams are set up one after the other *)

\* u is t without gone, and with x at e.
IsPlaced(u, t, gone, e, x) ==
  /\ DOMAIN u = (DOMAIN t \ gone) \cup {e}
  /\ u[e] = x
  /\ \A d \in DOMAIN u \ {e} : u[d] = t[d]

\* A file just opened is put where it belongs (file_handle::posix_remap).
LEMMA Remapped ==
  ASSUME NEW t, NEW f, NEW l, l \notin DOMAIN t, NEW e
  PROVE  IsPlaced(posix_remap(Put(t, l, f), l, e), t, {}, e, f)
<1> DEFINE u == posix_remap(Put(t, l, f), l, e)
<1>1. CASE l = e
  BY <1>1 DEF posix_remap, Put, IsPlaced
<1>2. CASE l # e
  <2> DEFINE v == Put(t, l, f)
             y == Put(v, e, v[l])
  <2>1. /\ DOMAIN v = DOMAIN t \cup {l} /\ v[l] = f
        /\ \A x \in DOMAIN t : v[x] = t[x]
    BY DEF Put
  <2>2. /\ DOMAIN y = DOMAIN t \cup {l, e} /\ y[e] = f
        /\ \A x \in DOMAIN t \ {e} : y[x] = t[x]
    <3> HIDE DEF v
    <3> QED BY <1>2, <2>1 DEF Put
  <2>3. posix_remap(v, l, e) = [x \in DOMAIN y \ {l} |-> y[x]]
    BY <1>2 DEF posix_remap, Dup2, Close
  <2>4. DOMAIN y \ {l} = DOMAIN t \cup {e}
    BY <1>2, <2>2
  <2> HIDE DEF y
  <2>5. /\ DOMAIN u = DOMAIN t \cup {e} /\ u[e] = f
        /\ \A x \in DOMAIN t \ {e} : u[x] = t[x]
    BY <2>2, <2>3, <2>4
  <2> QED BY <2>5 DEF IsPlaced
<1> QED BY <1>1, <1>2

\* A stream gets to its place and leaves the descriptors it was made with.
LEMMA Placed ==
  ASSUME NEW m, NEW w, NEW t, NEW todo, Maps(m, w), SetUp(m, w, t, todo),
         NEW e \in todo, m[e].type \in Moved, ~SetupFails(t, e, m[e])
  PROVE  IsPlaced(SetupStream(t, e, m[e]), t, Taken(m[e]), e, w[e])
<1> DEFINE info == m[e]
           u == SetupStream(t, e, info)
<1>1. e \in DOMAIN m
  BY DEF SetUp
<1>2. CASE info.type = "use_file"
  <2>1. /\ w[e] = Device(info.side) /\ Free(t) # {}
    BY <1>1, <1>2 DEF Maps, SetupFails
  <2>2. Lowest(t) \notin DOMAIN t
    BY <2>1, LowestFree DEF Lowest, Free
  <2>3. u = posix_remap(Put(t, Lowest(t), w[e]), Lowest(t), e)
    BY <1>2, <2>1 DEF SetupStream, Open
  <2>4. Taken(info) = {}
    BY <1>2 DEF Taken
  <2> QED BY <2>2, <2>3, <2>4, Remapped
<1>3. CASE info.type \in {"use_handle", "use_pipe"}
  <2>1. info.theirs \in DOMAIN t /\ t[info.theirs] = w[e]
    BY <1>3 DEF SetUp
  <2>2. info.type = "use_pipe" => info.ours # info.theirs
    BY <1>1 DEF Maps
  <2>3. PICK v : /\ u = posix_remap(v, info.theirs, e)
                 /\ DOMAIN v = DOMAIN t \ (Taken(info) \ {info.theirs})
                 /\ \A x \in DOMAIN v : v[x] = t[x]
    <3>1. CASE info.type = "use_handle"
      <4>1. Taken(info) \ {info.theirs} = {}
        BY <3>1 DEF Taken
      <4>2. u = posix_remap(t, info.theirs, e)
        BY <3>1 DEF SetupStream
      <4> QED BY <4>1, <4>2
    <3>2. CASE info.type = "use_pipe"
      <4>1. Taken(info) \ {info.theirs} = {info.ours}
        BY <2>2, <3>2 DEF Taken
      <4>2. u = posix_remap(Close(t, {info.ours}), info.theirs, e)
        BY <3>2 DEF SetupStream
      <4> HIDE DEF u, info
      <4> QED BY <4>1, <4>2 DEF Close
    <3> QED BY <1>3, <3>1, <3>2
  <2>4. info.theirs \in Taken(info)
    BY <1>3 DEF Taken
  <2>5. /\ DOMAIN v = DOMAIN t \ (Taken(info) \ {info.theirs})
        /\ \A x \in DOMAIN v : v[x] = t[x]
    BY <2>3
  <2>6. info.theirs \in DOMAIN v /\ v[info.theirs] = w[e]
    BY <2>1, <2>5
  <2>7. CASE info.theirs = e
    <3>1. u = v
      BY <2>3, <2>7 DEF posix_remap
    <3> HIDE DEF u, info
    <3>2. /\ DOMAIN u = (DOMAIN t \ Taken(info)) \cup {e} /\ u[e] = w[e]
          /\ \A x \in DOMAIN u \ {e} : u[x] = t[x]
      BY <2>4, <2>5, <2>6, <2>7, <3>1
    <3> QED BY <3>2 DEF u, info, IsPlaced
  <2>8. CASE info.theirs # e
    <3>1. u = Close(Put(v, e, v[info.theirs]), {info.theirs})
      BY <2>3, <2>8 DEF posix_remap, Dup2
    <3> HIDE DEF u, info
    <3>2. /\ DOMAIN u = (DOMAIN v \ {info.theirs}) \cup {e} /\ u[e] = w[e]
          /\ \A x \in DOMAIN u \ {e} : u[x] = v[x]
      BY <2>6, <2>8, <3>1 DEF Close, Put
    <3>3. DOMAIN u = (DOMAIN t \ Taken(info)) \cup {e}
      BY <2>4, <2>5, <3>2
    <3>4. \A x \in DOMAIN u \ {e} : u[x] = t[x]
      BY <2>5, <3>2
    <3> QED BY <3>2, <3>3, <3>4 DEF u, info, IsPlaced
  <2> QED BY <2>7, <2>8
<1> QED BY <1>2, <1>3 DEF Moved

LEMMA SetupMoved ==
  ASSUME NEW m, NEW w, NEW t, NEW todo, Maps(m, w), SetUp(m, w, t, todo),
         NEW e \in todo, m[e].type \in Moved, ~SetupFails(t, e, m[e])
  PROVE  SetUp(m, w, SetupStream(t, e, m[e]), todo \ {e})
<1> DEFINE u == SetupStream(t, e, m[e])
<1>1. IsPlaced(u, t, Taken(m[e]), e, w[e])
  BY Placed
<1> HIDE DEF u
<1>2. /\ DOMAIN u = (DOMAIN t \ Taken(m[e])) \cup {e} /\ u[e] = w[e]
      /\ \A d \in DOMAIN u \ {e} : u[d] = t[d]
  BY <1>1 DEF IsPlaced
<1>3. todo \subseteq DOMAIN m /\ \A d \in todo : m[d].type # "inherit"
  BY DEF SetUp
<1>4. e \in DOMAIN m /\ e \in DOMAIN w /\ m[e].type # "redirect"
  BY <1>3 DEF Maps, Moved
<1>5. ASSUME NEW d \in todo \ {e}, m[d].type \in {"use_pipe", "use_handle"}
      PROVE  m[d].theirs \in DOMAIN u /\ u[m[d].theirs] = w[d]
  <2> DEFINE x == m[d].theirs
  <2>1. x \in DOMAIN t /\ t[x] = w[d]
    BY <1>5 DEF SetUp
  <2>2. x \in Taken(m[d])
    BY <1>5 DEF Taken
  <2>3. x \notin Taken(m[e])
    BY <1>3, <1>4, <2>2 DEF Maps
  <2>4. x # e
    BY <1>3, <1>4, <2>2 DEF Maps
  <2> QED BY <1>2, <2>1, <2>3, <2>4
<1>6. ASSUME NEW d \in DOMAIN m \ todo
      PROVE  /\ m[d].type # "redirect"
             /\ IF d \in DOMAIN w THEN d \in DOMAIN u /\ u[d] = w[d]
                ELSE d \in DOMAIN u => \E x \in todo \ {e} : d \in Taken(m[x])
  <2>1. m[d].type # "redirect"
    BY <1>4 DEF SetUp
  <2>2. IF d \in DOMAIN w THEN d \in DOMAIN t /\ t[d] = w[d]
        ELSE d \in DOMAIN t => \E x \in todo : d \in Taken(m[x])
    BY <2>1 DEF SetUp
  <2>3. d \in DOMAIN w => d \notin Taken(m[e])
    BY <1>4, <2>1 DEF Maps
  <2> QED BY <1>2, <2>1, <2>2, <2>3
<1>7. \A d \in DOMAIN m \ (todo \ {e}) : d = e \/ d \in DOMAIN m \ todo
  OBVIOUS
<1> QED BY <1>2, <1>3, <1>4, <1>5, <1>6, <1>7 DEF SetUp, u

\* What is redirected is so when the others are in their places.
LEMMA SetupRedirected ==
  ASSUME NEW m, NEW w, NEW t, NEW todo, Maps(m, w), SetUp(m, w, t, todo),
         \A d \in todo : m[d].type = "redirect",
         NEW e \in todo, ~SetupFails(t, e, m[e])
  PROVE  SetUp(m, w, SetupStream(t, e, m[e]), todo \ {e})
<1> DEFINE u == SetupStream(t, e, m[e])
<1>1. todo \subseteq DOMAIN m /\ m[e].type = "redirect"
  BY DEF SetUp
<1> DEFINE o == m[e].to
<1>2. /\ o \in DOMAIN m \ todo /\ m[o].type # "redirect"
      /\ e \in DOMAIN w <=> o \in DOMAIN w
      /\ e \in DOMAIN w => w[e] = w[o]
  BY <1>1 DEF Maps
<1>3. u = Put(t, e, t[o]) /\ o \in DOMAIN t
  BY <1>1 DEF SetupStream, SetupFails, Dup2
<1> HIDE DEF u
<1>4. /\ DOMAIN u = DOMAIN t \cup {e} /\ u[e] = t[o]
      /\ \A d \in DOMAIN t \ {e} : u[d] = t[d]
  BY <1>3 DEF Put
<1>5. ~ \E x \in todo : o \in Taken(m[x])
  BY DEF Taken
<1>6. IF o \in DOMAIN w THEN o \in DOMAIN t /\ t[o] = w[o]
      ELSE o \in DOMAIN t => \E x \in todo : o \in Taken(m[x])
  BY <1>2 DEF SetUp
<1>7. e \in DOMAIN w /\ u[e] = w[e]
  BY <1>2, <1>3, <1>4, <1>5, <1>6
<1>8. ASSUME NEW d \in DOMAIN m \ todo
      PROVE  /\ m[d].type = "redirect" =>
                  d \in DOMAIN u \cap DOMAIN w /\ u[d] = w[d]
             /\ m[d].type # "redirect" =>
                  IF d \in DOMAIN w THEN d \in DOMAIN u /\ u[d] = w[d]
                  ELSE d \notin DOMAIN u
  <2>1. m[d].type = "redirect" => d \in DOMAIN t \cap DOMAIN w /\ t[d] = w[d]
    BY DEF SetUp
  <2>2. m[d].type # "redirect" =>
          IF d \in DOMAIN w THEN d \in DOMAIN t /\ t[d] = w[d]
          ELSE d \in DOMAIN t => \E x \in todo : d \in Taken(m[x])
    BY DEF SetUp
  <2>3. ~ \E x \in todo : d \in Taken(m[x])
    BY DEF Taken
  <2> QED BY <1>4, <2>1, <2>2, <2>3
<1>9. \A d \in DOMAIN m \ (todo \ {e}) : d = e \/ d \in DOMAIN m \ todo
  OBVIOUS
<1> QED BY <1>1, <1>4, <1>7, <1>8, <1>9 DEF SetUp, u

\* Every stream is in its place: what is in no map is closed.
LEMMA AllSetUp ==
  ASSUME NEW m, NEW w, NEW t, Maps(m, w), SetUp(m, w, t, {})
  PROVE  CloseOthers(t, m) = w
<1>1. \A d \in DOMAIN m :
        IF d \in DOMAIN w THEN d \in DOMAIN t /\ t[d] = w[d]
        ELSE d \notin DOMAIN t
  BY DEF SetUp
<1>2. w = [d \in DOMAIN w |-> w[d]] /\ DOMAIN w \subseteq DOMAIN m
  BY DEF Maps
<1>3. DOMAIN t \ (DOMAIN t \ DOMAIN m) = DOMAIN w
  BY <1>1, <1>2
<1>4. CloseOthers(t, m) = [d \in DOMAIN w |-> t[d]]
  BY <1>3 DEF CloseOthers, Close
<1> QED BY <1>1, <1>2, <1>4

-----------------------------------------------------------------------------
(* What a child begins with *)

\* What streams m of a child are, when it is promised w and begins with the
\* table t of the service, in which the launch owns mine.
AsAsked(m, w, t, mine) ==
  /\ w = [d \in DOMAIN w |-> w[d]] /\ DOMAIN w \subseteq DOMAIN m
  /\ mine \subseteq DOMAIN t
  /\ \A d \in DOMAIN m :
       /\ m[d].type \in Moved \cup {"inherit", "redirect"}
       /\ m[d].side \in {"in", "out"}
       /\ Taken(m[d]) \subseteq mine
       /\ m[d].type \in Moved => d \in DOMAIN w
       /\ m[d].type \in {"use_pipe", "use_handle"} => t[m[d].theirs] = w[d]
       /\ m[d].type = "use_pipe" => m[d].ours # m[d].theirs
       /\ m[d].type = "use_file" => w[d] = Device(m[d].side)
       /\ m[d].type = "inherit" =>
            /\ d \in DOMAIN w <=> d \in DOMAIN t \ mine
            /\ d \in DOMAIN w => w[d] = t[d]
       /\ m[d].type = "redirect" =>
            /\ m[d].to \in DOMAIN m /\ m[m[d].to].type # "redirect"
            /\ d \in DOMAIN w <=> m[d].to \in DOMAIN w
            /\ d \in DOMAIN w => w[d] = w[m[d].to]
  /\ \A d, e \in DOMAIN m : d # e => Taken(m[d]) \cap Taken(m[e]) = {}

\* Such a child can set up its streams.
LEMMA CanSetUp ==
  ASSUME NEW m, NEW w, NEW t, NEW mine, AsAsked(m, w, t, mine), Apart(m, mine)
  PROVE  /\ Maps(m, w)
         /\ SetUp(m, w, t, {d \in DOMAIN m : m[d].type # "inherit"})
<1> DEFINE todo == {d \in DOMAIN m : m[d].type # "inherit"}
<1>1. \A d, e \in DOMAIN m :
        m[d].type \in Moved /\ m[e].type \in Moved /\ d \in Taken(m[e])
          => d = e
  BY DEF Apart, Moved
<1>2. \A d \in DOMAIN m \cap mine : m[d].type = "inherit" =>
        \E e \in DOMAIN m : m[e].type \in Moved /\ d \in Taken(m[e])
  BY DEF Apart, Moved
<1>3. \A e \in DOMAIN m : Taken(m[e]) # {} => m[e].type \in Moved
  BY DEF Taken, Moved
<1>4. ASSUME NEW d \in DOMAIN m, NEW e \in DOMAIN m,
             d \in Taken(m[e]), d \in DOMAIN w
      PROVE  d = e \/ m[d].type = "redirect"
  <2>1. m[d].type # "inherit"
    BY <1>4 DEF AsAsked
  <2> QED BY <1>1, <1>3, <1>4, <2>1 DEF AsAsked
<1>5. Maps(m, w)
  BY <1>4 DEF AsAsked, Maps
<1>6. ASSUME NEW d \in todo, m[d].type \in {"use_pipe", "use_handle"}
      PROVE  m[d].theirs \in DOMAIN t /\ t[m[d].theirs] = w[d]
  <2>1. m[d].theirs \in Taken(m[d])
    BY <1>6 DEF Taken
  <2> QED BY <1>6, <2>1 DEF AsAsked
<1>7. ASSUME NEW d \in DOMAIN m \ todo
      PROVE  /\ m[d].type = "inherit"
             /\ IF d \in DOMAIN w THEN d \in DOMAIN t /\ t[d] = w[d]
                ELSE d \in DOMAIN t => \E e \in todo : d \in Taken(m[e])
  <2>1. m[d].type = "inherit"
    OBVIOUS
  <2>2. CASE d \in DOMAIN w
    BY <2>1, <2>2 DEF AsAsked
  <2>3. CASE d \notin DOMAIN w /\ d \in DOMAIN t
    <3>1. d \in mine
      BY <2>1, <2>3 DEF AsAsked
    <3>2. PICK e \in DOMAIN m : m[e].type \in Moved /\ d \in Taken(m[e])
      BY <1>2, <2>1, <3>1
    <3>3. e \in todo
      BY <3>2 DEF Moved
    <3> QED BY <2>1, <2>3, <3>2, <3>3
  <2> QED BY <2>1, <2>2, <2>3
<1>8. todo \subseteq DOMAIN m /\ \A d \in todo : m[d].type # "inherit"
  OBVIOUS
<1> HIDE DEF todo
<1>9. SetUp(m, w, t, todo)
  BY <1>6, <1>7, <1>8 DEF SetUp
<1> QED BY <1>5, <1>9 DEF todo

\* The handles of a child of a pipeline are ends of the pipes beside it.
LEMMA GivenAre ==
  ASSUME ServiceInv, phase = "forked", NEW d \in Given
  PROVE  LET x == streams[d].theirs
         IN /\ d \in {0, 1} /\ x \in local
            /\ table[Service][x]
                 = IF d = 0 THEN ReadEnd(Between(Base + Turn - 2))
                                   ELSE WriteEnd(Between(Base + Turn - 1))
<1> DEFINE x == streams[d].theirs
           t == table[Service]
<1>1. Launching
  BY DEF ServiceInv, Launches
<1>2. /\ d \in Links(Turn, Len(plan)) /\ d \in {0, 1}
      /\ x = IF d = 0 THEN pipes[Turn - 1].rend ELSE pipes[Turn].wend
  BY ForkedEnds DEF Links
<1>3. /\ Turn \in 1 .. Len(plan) /\ Len(plan) \in Nat /\ Base \in Nat
      /\ DOMAIN pipes = 1 .. Len(plan) - 1
  <2>1. Turn \in 1 .. Len(plan) /\ Len(plan) \in Nat /\ Base \in Nat
    BY Planned DEF Launches
  <2>2. Linked /\ pipes \in Seq([rend : Fds, wend : Fds])
    BY <1>1 DEF Launching
  <2> QED BY <2>1, <2>2 DEF Linked
<1>4. CASE d = 0
  <2>1. Turn - 1 \in Rends
    BY <1>2, <1>3, <1>4 DEF Links, Rends
  <2>2. x \in local /\ t[x] = ReadEnd(Between(Base + (Turn - 1) - 1))
    BY <1>1, <1>2, <1>4, <2>1 DEF Launching
  <2>3. Base + (Turn - 1) - 1 = Base + Turn - 2
    BY <1>3
  <2> QED BY <1>2, <1>4, <2>2, <2>3
<1>5. CASE d # 0
  <2>1. Turn \in Wends
    BY <1>2, <1>3, <1>5 DEF Links, Wends
  <2>2. x \in local /\ t[x] = WriteEnd(Between(Base + Turn - 1))
    BY <1>1, <1>2, <1>5, <2>1 DEF Launching
  <2> QED BY <1>2, <1>5, <2>2
<1> QED BY <1>4, <1>5

\* Ends of different streams are on different descriptors.
LEMMA TakenOnce ==
  ASSUME ServiceInv, phase = "forked"
  PROVE  /\ \A d \in DOMAIN streams : Taken(streams[d]) \subseteq local
         /\ \A d, e \in DOMAIN streams :
              d # e => Taken(streams[d]) \cap Taken(streams[e]) = {}
<1> DEFINE t == table[Service]
           last == NextChild - 1
<1>1. \A y : y \in Given => y \in {0, 1}
  BY GivenAre
<1>2. Given \subseteq {0, 1} /\ Given \cap Pipes = {}
  BY <1>1 DEF Given, Pipes
<1>3. ASSUME NEW d \in DOMAIN streams, NEW x \in Taken(streams[d])
      PROVE  /\ d \in Pipes \cup Given /\ x \in local
             /\ d \in Pipes => t[x][2] = Captured(last, d)
             /\ d \in Given =>
                  t[x] = IF d = 0 THEN ReadEnd(Between(Base + Turn - 2))
                         ELSE WriteEnd(Between(Base + Turn - 1))
  <2>1. CASE d \in Pipes
    <3>1. /\ streams[d].theirs \in local /\ streams[d].ours \in local
          /\ t[streams[d].ours][2] = Captured(last, d)
          /\ t[streams[d].theirs][2] = Captured(last, d)
          /\ Taken(streams[d]) = {streams[d].ours, streams[d].theirs}
      BY <2>1, ForkedEnds
    <3> QED BY <1>2, <1>3, <2>1, <3>1
  <2>2. CASE d \notin Pipes
    <3>1. Taken(streams[d]) = IF d \in Given THEN {streams[d].theirs} ELSE {}
      BY <2>2, ForkedEnds
    <3>2. d \in Given /\ x = streams[d].theirs
      BY <1>3, <3>1
    <3> QED BY <1>2, <3>2, GivenAre
  <2> QED BY <2>1, <2>2
<1>4. ASSUME NEW d \in DOMAIN streams, NEW e \in DOMAIN streams, d # e,
             NEW x \in Taken(streams[d]) \cap Taken(streams[e])
      PROVE  FALSE
  <2>1. x \in Taken(streams[d]) /\ x \in Taken(streams[e])
    BY <1>4
  <2>2. d \in Pipes \cup Given /\ e \in Pipes \cup Given
    BY <1>3, <2>1
  <2>3. \A a, b : Captured(last, a) # Between(b)
    BY DEF Captured, Between
  <2>4. \A a, b : Captured(last, a) = Captured(last, b) => a = b
    BY DEF Captured
  <2>5. ASSUME NEW y \in Given, NEW z, x \in Taken(streams[y])
        PROVE  t[x][2] # Captured(last, z)
    <3>1. y \in DOMAIN streams
      BY DEF Given
    <3>2. \E b : t[x][2] = Between(b)
      BY <1>3, <2>5, <3>1 DEF ReadEnd, WriteEnd
    <3> QED BY <2>3, <3>2
  <2>6. CASE d \in Pipes /\ e \in Pipes
    BY <1>3, <1>4, <2>1, <2>4, <2>6
  <2>7. CASE d \in Pipes /\ e \in Given
    BY <1>3, <2>1, <2>5, <2>7
  <2>8. CASE d \in Given /\ e \in Pipes
    BY <1>3, <2>1, <2>5, <2>8
  <2>9. CASE d \in Given /\ e \in Given
    <3>1. t[x][1] = (IF d = 0 THEN "read" ELSE "write")
      BY <1>3, <2>1, <2>9 DEF ReadEnd, WriteEnd
    <3>2. t[x][1] = (IF e = 0 THEN "read" ELSE "write")
      BY <1>3, <2>1, <2>9 DEF ReadEnd, WriteEnd
    <3> QED BY <1>2, <1>4, <2>9, <3>1, <3>2
  <2> QED BY <2>2, <2>6, <2>7, <2>8, <2>9
<1> QED BY <1>3, <1>4

\* What the child just forked is promised.
Due == Promised(NextChild - 1, plan[Turn], Links(Turn, Len(plan)),
                table[Service], local)

\* What a child is promised for each stream of its context.
LEMMA PromisedFor ==
  ASSUME ServiceInv, phase = "forked"
  PROVE  LET w == Due
             ctx == plan[Turn]
             t == table[Service]
         IN /\ w = [d \in DOMAIN w |-> w[d]]
            /\ DOMAIN w \subseteq DOMAIN streams
            /\ \A d \in DOMAIN ctx :
                 /\ ctx[d].type \in {"capture", "silence"} => d \in DOMAIN w
                 /\ ctx[d].type = "capture" =>
                      w[d] = Theirs(ctx[d].side, Captured(NextChild - 1, d))
                 /\ ctx[d].type = "silence" => w[d] = Device(ctx[d].side)
                 /\ ctx[d].type = "inherit" =>
                      /\ d \in DOMAIN w <=> d \in DOMAIN t \ local
                      /\ d \in DOMAIN w => w[d] = t[d]
                 /\ ctx[d].type = "redirect"
                      /\ (ctx[d].to \in DOMAIN ctx =>
                            ctx[ctx[d].to].type # "redirect") =>
                      /\ d \in DOMAIN w <=> ctx[d].to \in DOMAIN w
                      /\ d \in DOMAIN w => w[d] = w[ctx[d].to]
            /\ \A d \in Links(Turn, Len(plan)) :
                 /\ d \in DOMAIN w
                 /\ w[d] = IF d = 0 THEN ReadEnd(Between(NextChild - 1 - 1))
                           ELSE WriteEnd(Between(NextChild - 1))
<1> DEFINE c == NextChild - 1
           w == Due
           ctx == plan[Turn]
           t == table[Service]
           L == Links(Turn, Len(plan))
           inherited == {d \in DOMAIN ctx : /\ ctx[d].type = "inherit"
                                            /\ d \in DOMAIN t \ local}
           given == {d \in DOMAIN ctx : ctx[d].type \in {"capture", "silence"}}
                      \cup inherited \cup L
           file(d) == CASE d \notin DOMAIN ctx ->
                             IF d = 0 THEN ReadEnd(Between(c - 1))
                             ELSE WriteEnd(Between(c))
                        [] d \in inherited -> t[d]
                        [] d \in DOMAIN ctx /\ ctx[d].type = "capture" ->
                             Theirs(ctx[d].side, Captured(c, d))
                        [] OTHER -> Device(ctx[d].side)
           redirected == {d \in DOMAIN ctx : /\ ctx[d].type = "redirect"
                                             /\ ctx[d].to \in given}
<1>1. DOMAIN streams = DOMAIN ctx \cup L /\ DOMAIN ctx \cap L = {}
  <2>1. Connected
    BY DEF ServiceInv, Launches
  <2>2. IsContext(ctx, Turn, Len(plan))
    BY Planned DEF Launches
  <2> QED BY <2>1, <2>2 DEF Connected, IsContext
<1>2. w = [d \in given \cup redirected |->
             file(IF d \in redirected THEN ctx[d].to ELSE d)]
  BY DEF Due, Promised
<1> DEFINE g == given
           r == redirected
           f(d) == file(d)
<1>3. /\ g = {d \in DOMAIN ctx : \/ ctx[d].type \in {"capture", "silence"}
                                 \/ /\ ctx[d].type = "inherit"
                                    /\ d \in DOMAIN t \ local} \cup L
      /\ r = {d \in DOMAIN ctx : ctx[d].type = "redirect" /\ ctx[d].to \in g}
  OBVIOUS
<1>4. /\ \A d \in L : f(d) = IF d = 0 THEN ReadEnd(Between(c - 1))
                             ELSE WriteEnd(Between(c))
      /\ \A d \in DOMAIN ctx :
           /\ ctx[d].type = "inherit" /\ d \in DOMAIN t \ local => f(d) = t[d]
           /\ ctx[d].type = "capture" =>
                f(d) = Theirs(ctx[d].side, Captured(c, d))
           /\ ctx[d].type = "silence" => f(d) = Device(ctx[d].side)
  BY <1>1
<1>5. w = [d \in g \cup r |-> f(IF d \in r THEN ctx[d].to ELSE d)]
  BY <1>2
<1> HIDE DEF w, ctx, t, L, g, r, f
<1>6. /\ DOMAIN w = g \cup r
      /\ \A d \in g : w[d] = f(d)
      /\ \A d \in r : w[d] = f(ctx[d].to)
  BY <1>1, <1>3, <1>5
<1>7. w = [d \in DOMAIN w |-> w[d]] /\ DOMAIN w \subseteq DOMAIN streams
  BY <1>1, <1>3, <1>5, <1>6
<1>8. ASSUME NEW d \in DOMAIN ctx
      PROVE  /\ ctx[d].type \in {"capture", "silence"} => d \in DOMAIN w
             /\ ctx[d].type = "capture" =>
                  w[d] = Theirs(ctx[d].side, Captured(c, d))
             /\ ctx[d].type = "silence" => w[d] = Device(ctx[d].side)
             /\ ctx[d].type = "inherit" =>
                  /\ d \in DOMAIN w <=> d \in DOMAIN t \ local
                  /\ d \in DOMAIN w => w[d] = t[d]
  BY <1>1, <1>3, <1>4, <1>6
<1>9. ASSUME NEW d \in DOMAIN ctx, ctx[d].type = "redirect",
             ctx[d].to \in DOMAIN ctx => ctx[ctx[d].to].type # "redirect"
      PROVE  /\ d \in DOMAIN w <=> ctx[d].to \in DOMAIN w
             /\ d \in DOMAIN w => w[d] = w[ctx[d].to]
  <2>1. d \notin g /\ ctx[d].to \notin r
    BY <1>1, <1>3, <1>9
  <2> QED BY <1>3, <1>6, <1>9, <2>1
<1>10. ASSUME NEW d \in L
       PROVE  /\ d \in DOMAIN w
              /\ w[d] = IF d = 0 THEN ReadEnd(Between(c - 1))
                        ELSE WriteEnd(Between(c))
  BY <1>3, <1>4, <1>6
<1> QED BY <1>7, <1>8, <1>9, <1>10 DEF w, ctx, t, L

\* posix_start gives a child its streams as they are promised.
LEMMA Forked ==
  ServiceInv /\ phase = "forked" /\ Apart(streams, local)
    => AsAsked(streams, Due, table[Service], local)
<1> SUFFICES ASSUME ServiceInv, phase = "forked", Apart(streams, local)
             PROVE  AsAsked(streams, Due, table[Service], local)
  OBVIOUS
<1> DEFINE c == NextChild - 1
           w == Due
           ctx == plan[Turn]
           t == table[Service]
           L == Links(Turn, Len(plan))
<1>1. /\ Turn \in 1 .. Len(plan) /\ NextChild \in Nat /\ Base \in Nat
      /\ IsContext(ctx, Turn, Len(plan)) /\ Base + Turn - 1 = c
  BY Planned, ForkedEnds DEF Launches
<1>2. /\ DOMAIN streams = DOMAIN ctx \cup L /\ L = Given
      /\ DOMAIN ctx \cap L = {}
      /\ \A d \in DOMAIN ctx : IsMade(t, local, d, ctx[d], streams[d], c)
      /\ \A d \in L : /\ streams[d].type = "use_handle"
                      /\ streams[d].side \in {"in", "out"}
  <2>1. Connected /\ Made
    BY DEF ServiceInv, Launches
  <2>2. L = Given
    BY ForkedEnds
  <2> QED BY <1>1, <2>1, <2>2 DEF Connected, Made, IsContext
<1>3. local \subseteq DOMAIN t
  BY DEF ServiceInv, Owned
<1>4. /\ w = [d \in DOMAIN w |-> w[d]]
      /\ DOMAIN w \subseteq DOMAIN streams
  BY PromisedFor
<1>5. ASSUME NEW d \in L
      PROVE  /\ streams[d].type = "use_handle"
             /\ streams[d].side \in {"in", "out"}
             /\ d \in DOMAIN w /\ t[streams[d].theirs] = w[d]
  <2>1. t[streams[d].theirs] = IF d = 0 THEN ReadEnd(Between(Base + Turn - 2))
                               ELSE WriteEnd(Between(Base + Turn - 1))
    BY <1>2, GivenAre
  <2>2. /\ d \in DOMAIN w
        /\ w[d] = IF d = 0 THEN ReadEnd(Between(NextChild - 1 - 1))
                  ELSE WriteEnd(Between(NextChild - 1))
    BY PromisedFor
  <2>3. Base + Turn - 2 = NextChild - 1 - 1 /\ Base + Turn - 1 = NextChild - 1
    BY <1>1
  <2> QED BY <1>2, <2>1, <2>2, <2>3
<1>6. ASSUME NEW d \in DOMAIN ctx
      PROVE  LET info == streams[d]
             IN /\ info.type
                     \in {"use_pipe", "use_file", "inherit", "redirect"}
                /\ info.side \in {"in", "out"}
                /\ info.type \in Moved => d \in DOMAIN w
                /\ info.type = "use_pipe" =>
                     t[info.theirs] = w[d] /\ info.ours # info.theirs
                /\ info.type = "use_file" => w[d] = Device(info.side)
                /\ info.type = "inherit" =>
                     /\ d \in DOMAIN w <=> d \in DOMAIN t \ local
                     /\ d \in DOMAIN w => w[d] = t[d]
                /\ info.type = "redirect" =>
                     /\ info.to \in DOMAIN streams
                     /\ streams[info.to].type # "redirect"
                     /\ d \in DOMAIN w <=> info.to \in DOMAIN w
                     /\ d \in DOMAIN w => w[d] = w[info.to]
  <2> DEFINE b == ctx[d]
             info == streams[d]
  <2>1. /\ b.type \in {"capture", "silence", "inherit", "redirect"}
        /\ b.side \in {"in", "out"}
        /\ IsMade(t, local, d, b, info, c) /\ d \in DOMAIN streams
    BY <1>1, <1>2 DEF IsContext
  <2>2. CASE b.type = "capture"
    <3>1. /\ info.type = "use_pipe" /\ info.side = b.side
          /\ t[info.theirs] = Theirs(b.side, Captured(c, d))
      BY <2>1, <2>2 DEF IsMade
    <3>2. d \in DOMAIN w /\ w[d] = Theirs(b.side, Captured(c, d))
      BY <2>2, PromisedFor
    <3>3. info.ours # info.theirs
      <4>1. d \in Pipes
        BY <2>1, <3>1 DEF Pipes
      <4>2. t[info.ours][1] # t[info.theirs][1]
        BY <4>1, ForkedEnds
      <4> QED BY <4>2
    <3> QED BY <2>1, <3>1, <3>2, <3>3
  <2>3. CASE b.type = "silence"
    <3>1. info.type = "use_file" /\ info.side = b.side
      BY <2>1, <2>3 DEF IsMade
    <3>2. d \in DOMAIN w /\ w[d] = Device(b.side)
      BY <2>3, PromisedFor
    <3> QED BY <2>1, <3>1, <3>2
  <2>4. CASE b.type = "inherit"
    <3>1. info.type = "inherit" /\ info.side = b.side
      BY <2>1, <2>4 DEF IsMade
    <3>2. /\ d \in DOMAIN w <=> d \in DOMAIN t \ local
          /\ d \in DOMAIN w => w[d] = t[d]
      BY <2>4, PromisedFor
    <3> QED BY <2>1, <3>1, <3>2 DEF Moved
  <2>5. CASE b.type = "redirect"
    <3>1. info = b
      BY <2>1, <2>5 DEF IsMade
    <3>2. info.to \in DOMAIN streams /\ streams[info.to].type # "redirect"
      BY <2>1, <2>5, <3>1 DEF Apart
    <3>3. b.to \in DOMAIN ctx => ctx[b.to].type # "redirect"
      BY <1>2, <3>1, <3>2 DEF IsMade
    <3>4. /\ d \in DOMAIN w <=> b.to \in DOMAIN w
          /\ d \in DOMAIN w => w[d] = w[b.to]
      BY <2>5, <3>3, PromisedFor
    <3> QED BY <2>1, <2>5, <3>1, <3>2, <3>4 DEF Moved
  <2> QED BY <2>1, <2>2, <2>3, <2>4, <2>5
<1>7. /\ \A d \in DOMAIN streams : Taken(streams[d]) \subseteq local
      /\ \A d, e \in DOMAIN streams :
           d # e => Taken(streams[d]) \cap Taken(streams[e]) = {}
  BY TakenOnce
<1> HIDE DEF w, ctx, t, L
<1> QED BY <1>2, <1>3, <1>4, <1>5, <1>6, <1>7 DEF AsAsked, Moved, w, t, c

-----------------------------------------------------------------------------
(* Programs begin with what was asked *)

LEMMA InitChildren == LaunchInit => ChildInv
BY DEF LaunchInit, ChildInv

\* A step that leaves children as they are, or ends them.
LEMMA UndisturbedStep ==
  ASSUME ChildInv, UNCHANGED <<memory, want, apart>>,
         left' = [c \in Children |-> left'[c]],
         \A c \in apart :
           \/ stage'[c] \in {"exited", "reaped"}
           \/ /\ stage'[c] = stage[c]
              /\ left'[c] = left[c] /\ table'[c] = table[c]
  PROVE  ChildInv'
<1>1. ASSUME NEW c \in apart PROVE Begun(c)'
  <2>1. CASE stage'[c] \in {"exited", "reaped"}
    BY <2>1 DEF Begun
  <2>2. CASE stage'[c] = stage[c] /\ left'[c] = left[c] /\ table'[c] = table[c]
    BY <2>2 DEF ChildInv, Begun
  <2> QED BY <2>1, <2>2
<1> QED BY <1>1 DEF ChildInv

\* What the service does to its own table.
LEMMA ServiceStep ==
  ASSUME ServiceInv, ChildInv, UNCHANGED childVars,
         \/ UNCHANGED table
         \/ \E t : table' = [table EXCEPT ![Service] = t]
  PROVE  ChildInv'
<1>1. \A c \in Children : c # Service
  BY LaunchAssumption DEF Children, Service
<1>2. \A c \in Children : table'[c] = table[c]
  BY <1>1 DEF ServiceInv, Owned
<1>3. apart \subseteq Children /\ left = [c \in Children |-> left[c]]
  BY DEF ChildInv
<1> QED BY <1>2, <1>3, UndisturbedStep DEF childVars

LEMMA EndStep ==
  ASSUME ServiceInv, ChildInv, NEW c \in Children, End(c)
  PROVE  ChildInv'
<1>1. /\ stage' = [stage EXCEPT ![c] = "exited"]
      /\ table' = [table EXCEPT ![c] = <<>>]
      /\ left' = [left EXCEPT ![c] = {}]
      /\ UNCHANGED <<memory, want, apart>>
  BY DEF End
<1>2. /\ stage = [x \in Children |-> stage[x]]
      /\ table = [p \in {Service} \cup Children |-> table[p]]
      /\ left = [x \in Children |-> left[x]] /\ apart \subseteq Children
  BY DEF ServiceInv, Owned, Born, ChildInv
<1>3. left' = [x \in Children |-> left'[x]]
  BY <1>1, <1>2
<1>4. \A x \in apart :
        \/ stage'[x] \in {"exited", "reaped"}
        \/ stage'[x] = stage[x] /\ left'[x] = left[x] /\ table'[x] = table[x]
  BY <1>1, <1>2
<1> QED BY <1>1, <1>3, <1>4, UndisturbedStep

\* One stream of a child is set up.
LEMMA SetupStep ==
  ASSUME ServiceInv, ChildInv, NEW c \in Children, NEW d \in Fds, Setup(c, d)
  PROVE  ChildInv'
<1> DEFINE m == memory[c]
           w == want[c]
           todo == left[c]
<1>1. stage[c] = "forked" /\ d \in SetupFirst(m, todo)
  BY DEF Setup, InTurn
<1> SUFFICES ASSUME ~SetupFails(table[c], d, m[d]),
                    table' = [table EXCEPT ![c] = SetupStream(@, d, m[d])],
                    left' = [left EXCEPT ![c] = @ \ {d}],
                    UNCHANGED <<stage, memory, want, apart>>
             PROVE  ChildInv'
  BY EndStep DEF Setup
<1>2. /\ table = [p \in {Service} \cup Children |-> table[p]]
      /\ left = [x \in Children |-> left[x]] /\ apart \subseteq Children
  BY DEF ServiceInv, Owned, ChildInv
<1>3. /\ table'[c] = SetupStream(table[c], d, m[d]) /\ left'[c] = todo \ {d}
      /\ \A x \in Children \ {c} : table'[x] = table[x] /\ left'[x] = left[x]
  BY <1>2
<1>4. ASSUME c \in apart PROVE Begun(c)'
  <2>1. Maps(m, w) /\ SetUp(m, w, table[c], todo)
    BY <1>1, <1>4 DEF ChildInv, Begun
  <2>2. d \in todo /\ m[d].type \in Moved \cup {"redirect"}
    BY <1>1, <2>1 DEF SetupFirst, SetUp, Maps
  <2>3. SetUp(m, w, SetupStream(table[c], d, m[d]), todo \ {d})
    <3>1. CASE m[d].type \in Moved
      <4> HIDE DEF m, w, todo
      <4> QED BY <2>1, <2>2, <3>1, SetupMoved
    <3>2. CASE m[d].type = "redirect"
      <4>1. \A e \in todo : m[e].type = "redirect"
        BY <1>1, <3>2 DEF SetupFirst
      <4> HIDE DEF m, w, todo
      <4> QED BY <2>1, <2>2, <4>1, SetupRedirected
    <3> QED BY <2>2, <3>1, <3>2
  <2> QED BY <1>1, <1>3, <2>1, <2>3 DEF Begun
<1>5. ASSUME NEW x \in apart, x # c PROVE Begun(x)'
  <2>1. table'[x] = table[x] /\ left'[x] = left[x] /\ Begun(x)
    BY <1>2, <1>3, <1>5 DEF ChildInv
  <2> QED BY <2>1 DEF Begun
<1>6. left' = [x \in Children |-> left'[x]]
  BY <1>2
<1> QED BY <1>4, <1>5, <1>6 DEF ChildInv

\* Its program begins with what it was promised.
LEMMA ExecveStep ==
  ASSUME ServiceInv, ChildInv, NEW c \in Children, Execve(c)
  PROVE  ChildInv'
<1>1. /\ stage[c] = "forked" /\ left[c] = {}
      /\ stage' = [stage EXCEPT ![c] = "running"]
      /\ table' = [table EXCEPT ![c] = CloseOthers(@, memory[c])]
      /\ UNCHANGED <<memory, left, want, apart>>
  BY DEF Execve
<1>2. /\ table = [p \in {Service} \cup Children |-> table[p]]
      /\ stage = [x \in Children |-> stage[x]] /\ apart \subseteq Children
  BY DEF ServiceInv, Owned, Born, ChildInv
<1>3. /\ table'[c] = CloseOthers(table[c], memory[c]) /\ stage'[c] = "running"
      /\ \A x \in Children \ {c} : table'[x] = table[x] /\ stage'[x] = stage[x]
  BY <1>1, <1>2
<1>4. ASSUME c \in apart PROVE Begun(c)'
  <2>1. Maps(memory[c], want[c]) /\ SetUp(memory[c], want[c], table[c], {})
    BY <1>1, <1>4 DEF ChildInv, Begun
  <2>2. CloseOthers(table[c], memory[c]) = want[c]
    BY <2>1, AllSetUp
  <2> QED BY <1>1, <1>3, <2>2 DEF Begun
<1>5. ASSUME NEW x \in apart, x # c PROVE Begun(x)'
  <2>1. table'[x] = table[x] /\ stage'[x] = stage[x] /\ Begun(x)
    BY <1>2, <1>3, <1>5 DEF ChildInv
  <2> QED BY <1>1, <2>1 DEF Begun
<1> QED BY <1>1, <1>4, <1>5 DEF ChildInv

\* A child begins with the table of the service and the streams made for it.
LEMMA ForkedStep ==
  ServiceInv /\ ChildInv /\ Fork => ChildInv'
<1> SUFFICES ASSUME ServiceInv, ChildInv, Fork, NEW c, c = NextChild
             PROVE  ChildInv'
  OBVIOUS
<1> DEFINE infos == WithHandles(streams, Handles(Entry))
           w == Promised(c, plan[Entry], Links(Entry, Len(plan)),
                         table[Service], local)
           todo == {d \in DOMAIN infos : infos[d].type # "inherit"}
<1>1. /\ phase = "streams" /\ phase' = "forked" /\ cs' = Append(cs, c)
      /\ stage' = [stage EXCEPT ![c] = "forked"]
      /\ table' = [table EXCEPT ![c] = table[Service]]
      /\ streams' = infos
      /\ memory' = [memory EXCEPT ![c] = infos]
      /\ left' = [left EXCEPT ![c] = todo]
      /\ want' = [want EXCEPT ![c] = w]
      /\ apart' = IF Apart(infos, local) THEN apart \cup {c} ELSE apart
      /\ UNCHANGED <<plan, pipes, local>>
  BY DEF Fork, Forks
<1>2. /\ table = [p \in {Service} \cup Children |-> table[p]]
      /\ stage = [x \in Children |-> stage[x]]
      /\ memory = [x \in Children |-> memory[x]]
      /\ left = [x \in Children |-> left[x]]
      /\ want = [x \in Children |-> want[x]] /\ apart \subseteq Children
      /\ cs \in Seq(Children)
  BY DEF ServiceInv, Owned, Born, ChildInv
<1>3. ServiceInv'
  BY ForkStep
<1>4. /\ c \in Children /\ stage[c] = "unborn" /\ c \notin apart /\ c # Service
      /\ NextChild' - 1 = c /\ Turn' = Entry
  <2>1. Len(cs') \in DOMAIN cs' /\ cs' \in Seq(Children) /\ cs'[Len(cs')] = c
    <3>1. cs' \in Seq(Children)
      BY <1>3 DEF ServiceInv
    <3> QED BY <1>1, <1>2, <3>1
  <2>2. c \in Children
    BY <2>1
  <2>3. c \in Nat /\ stage[c] = "unborn"
    BY <2>2 DEF ServiceInv, Born
  <2>4. c # Service
    BY <2>2, LaunchAssumption DEF Children, Service
  <2>5. NextChild' = c + 1
    <3>1. /\ \A x \in Children : stage'[x] # "unborn" <=> x < c + 1
          /\ c + 1 \in 1 .. MaxChildren + 1
      BY <1>1, <1>2, <2>2, LaunchAssumption DEF ServiceInv, Born, Children
    <3>2. 1 + Cardinality({x \in Children : stage'[x] # "unborn"}) = c + 1
      BY <3>1, Counted
    <3> QED BY <3>2 DEF NextChild
  <2>6. Turn' = Entry
    BY <1>1, <1>2 DEF Turn, Entry
  <2>7. c \notin apart
    BY <2>3 DEF ChildInv, Begun
  <2> QED BY <2>2, <2>3, <2>4, <2>5, <2>6, <2>7
<1>5. /\ table'[c] = table[Service] /\ table'[Service] = table[Service]
      /\ stage'[c] = "forked" /\ memory'[c] = infos /\ left'[c] = todo
      /\ want'[c] = w
      /\ \A x \in Children \ {c} :
           /\ table'[x] = table[x] /\ stage'[x] = stage[x]
           /\ memory'[x] = memory[x] /\ left'[x] = left[x]
           /\ want'[x] = want[x]
  BY <1>1, <1>2, <1>4
<1>6. ASSUME Apart(infos, local) PROVE Begun(c)'
  <2>1. AsAsked(streams, Due, table[Service], local)'
    <3>1. (ServiceInv /\ phase = "forked" /\ Apart(streams, local))'
      BY <1>1, <1>3, <1>6 DEF Apart
    <3> QED BY <3>1, Forked, PTL
  <2>2. Due' = w
    BY <1>1, <1>4, <1>5 DEF Due
  <2>3. AsAsked(infos, w, table[Service], local)
    BY <1>1, <1>5, <2>1, <2>2 DEF AsAsked
  <2>4. /\ Maps(infos, w)
        /\ SetUp(infos, w, table[Service], todo)
    BY <1>6, <2>3, CanSetUp
  <2> QED BY <1>5, <2>4 DEF Begun
<1>7. ASSUME NEW x \in apart PROVE Begun(x)'
  <2>1. x \in Children \ {c} /\ Begun(x)
    BY <1>2, <1>4 DEF ChildInv
  <2> QED BY <1>5, <2>1 DEF Begun
<1>8. /\ memory' = [x \in Children |-> memory'[x]]
      /\ left' = [x \in Children |-> left'[x]]
      /\ want' = [x \in Children |-> want'[x]]
  BY <1>1, <1>2
<1>9. apart' \subseteq Children
  BY <1>1, <1>2, <1>4
<1> HIDE DEF infos, todo, w
<1> QED BY <1>1, <1>6, <1>7, <1>8, <1>9 DEF ChildInv

LEMMA NextChildren ==
  ServiceInv /\ ChildInv /\ [LaunchNext]_processVars => ChildInv'
<1> SUFFICES ASSUME ServiceInv, ChildInv, [LaunchNext]_processVars
             PROVE  ChildInv'
  OBVIOUS
<1>1. CASE UNCHANGED processVars
  BY <1>1, ServiceStep DEF processVars
<1>2. ASSUME NEW p \in Plans, Launch(p) PROVE ChildInv'
  BY <1>2, ServiceStep DEF Launch
<1>3. ASSUME Throw PROVE ChildInv'
  BY <1>3, ServiceStep DEF Throw
<1>4. CASE MakeLink
  BY <1>3, <1>4, ServiceStep DEF MakeLink, MakePipe
<1>5. ASSUME NEW d \in Fds, MakeStream(d) PROVE ChildInv'
  BY <1>3, <1>5, ServiceStep DEF MakeStream, MakePipe
<1>6. CASE Fork
  BY <1>6, ForkedStep
<1>7. CASE ForkFails
  BY <1>3, <1>7 DEF ForkFails
<1>8. CASE Return
  BY <1>8, ServiceStep DEF Return
<1>9. CASE CloseInputs \/ ReadToTheEnd
  BY <1>9, ServiceStep DEF CloseInputs, ReadToTheEnd, Disown
<1>10. CASE wait_children
  <2>1. /\ left = [c \in Children |-> left[c]] /\ apart \subseteq Children
        /\ stage = [c \in Children |-> stage[c]]
        /\ UNCHANGED <<table, memory, left, want, apart>>
    BY <1>10 DEF wait_children, ServiceInv, Born, ChildInv
  <2>2. cs # <<>> => Head(cs) \in Children
    BY DEF ServiceInv
  <2>3. \A c \in Children : stage'[c] \in {stage[c], "reaped"}
    BY <1>10, <2>1, <2>2 DEF wait_children
  <2> QED BY <2>1, <2>3, UndisturbedStep
<1>11. ASSUME NEW c \in Children,
              \/ \E d \in Fds : Setup(c, d)
              \/ Execve(c) \/ Exit(c) \/ Finish(c)
       PROVE  ChildInv'
  BY <1>11, SetupStep, ExecveStep, EndStep DEF Exit, Finish
<1> QED BY <1>1, <1>2, <1>4, <1>5, <1>6, <1>7, <1>8, <1>9, <1>10, <1>11
     DEF LaunchNext

\* However the service and its children take turns, a program begins with the
\* descriptors its context asks for and no other, if its streams are not put
\* on each other's descriptors: streams are set up in an order in which none
\* destroys what a later one needs, and redirected when the others are in
\* their places (setup_input, setup_output, posix_start).
THEOREM ProgramsGetWhatWasAsked == LaunchSpec => []GetsWhatWasAsked
<1>1. ChildInv => GetsWhatWasAsked
  BY DEF ChildInv, Begun, GetsWhatWasAsked
<1>2. LaunchSpec => [](ServiceInv /\ ChildInv)
  BY InitService, NextService, InitChildren, NextChildren, PTL DEF LaunchSpec
<1> QED BY <1>1, <1>2, PTL
=============================================================================
