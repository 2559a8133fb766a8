------------------------------ MODULE DiffProofs ------------------------------
(***************************************************************************)
(* What Transform promises of any two chunks: it never makes a chunk the   *)
(* server would have refused, and it does not matter which of two chunks   *)
(* the server takes first, unless both insert at one place or one inserts  *)
(* inside what the other removes.                                          *)
(***************************************************************************)
EXTENDS Diff, SequenceTheorems, TLAPS

\* The chunks onChunkMessage lets through.
Accepted == {chunk \in Chunk : ValidChunk(chunk)}

LEMMA AcceptedFields ==
  ASSUME NEW op \in Accepted
  PROVE  /\ op \in [type : {"add", "remove"}, position : Int, text : Seq(Char), len : Int]
         /\ op.position \in Nat /\ op.len \in Nat
         /\ op.type \in {"add", "remove"} /\ op.text \in Seq(Char)
         /\ op.type = "add" => op.len = Len(op.text)
BY DEF Accepted, Chunk, ValidChunk

LEMMA MovedAccepted ==
  ASSUME NEW op \in Accepted, NEW p \in Nat, NEW l \in Nat,
         op.type = "add" => l = op.len
  PROVE  Moved(op, p, l) \in Accepted
<1>1. /\ op.type \in {"add", "remove"} /\ op.text \in Seq(Char)
      /\ op.type = "add" => op.len = Len(op.text)
  BY AcceptedFields
<1>2. Moved(op, p, l) \in Chunk
  BY <1>1 DEF Moved, Chunk
<1>3. ValidChunk(Moved(op, p, l))
  BY <1>1 DEF Moved, ValidChunk
<1> QED BY <1>2, <1>3 DEF Accepted

LEMMA MovedNowhere ==
  ASSUME NEW op \in Accepted
  PROVE  op = Moved(op, op.position, op.len)
BY AcceptedFields DEF Moved

\* What Transform makes of a chunk: the same one, moved.
LEMMA TransformMoves ==
  ASSUME NEW op1 \in Accepted, NEW op2 \in Accepted
  PROVE  \E p, l \in Nat : /\ op2.type = "add" => l = op2.len
                           /\ Transform(op1, op2) = Moved(op2, p, l)
<1>1. /\ op1.position \in Nat /\ op1.len \in Nat /\ op1.type \in {"add", "remove"}
      /\ op2.position \in Nat /\ op2.len \in Nat /\ op2.type \in {"add", "remove"}
  BY AcceptedFields
<1>2. ShiftedBack(op1, op2) \in Nat
  BY <1>1 DEF ShiftedBack, Smaller
<1>3. op2.len - Overlap(op1, op2) \in Nat
  BY <1>1 DEF Overlap, Smaller, Larger
<1>4. CASE op1.type = "add" /\ op1.position <= op2.position
  <2>1. Transform(op1, op2) = Moved(op2, op2.position + op1.len, op2.len)
    BY <1>4 DEF Transform
  <2>2. op2.position + op1.len \in Nat
    BY <1>1
  <2> QED BY <1>1, <2>1, <2>2
<1>5. CASE /\ op1.type = "add" /\ op2.type = "remove"
           /\ op2.position < op1.position /\ op1.position < op2.position + op2.len
  <2>1. Transform(op1, op2) = Moved(op2, op2.position, op2.len + op1.len)
    BY <1>1, <1>5 DEF Transform
  <2>2. op2.len + op1.len \in Nat
    BY <1>1
  <2> QED BY <1>1, <1>5, <2>1, <2>2
<1>6. CASE /\ op1.type = "add" /\ ~(op1.position <= op2.position)
           /\ ~(op2.type = "remove" /\ op1.position < op2.position + op2.len)
  <2>1. Transform(op1, op2) = op2
    BY <1>6 DEF Transform
  <2> QED BY <1>1, <2>1, MovedNowhere
<1>7. CASE op1.type = "remove" /\ op2.type = "add"
  <2>1. Transform(op1, op2) = Moved(op2, ShiftedBack(op1, op2), op2.len)
    BY <1>7 DEF Transform
  <2> QED BY <1>1, <1>2, <2>1
<1>8. CASE op1.type = "remove" /\ op2.type = "remove"
  <2>1. Transform(op1, op2)
          = Moved(op2, ShiftedBack(op1, op2), op2.len - Overlap(op1, op2))
    BY <1>8 DEF Transform
  <2> QED BY <1>2, <1>3, <1>8, <2>1
<1> QED BY <1>1, <1>4, <1>5, <1>6, <1>7, <1>8

\* Transforming an accepted chunk across an accepted chunk gives an accepted
\* chunk of the same type and text: positions and lengths never go negative,
\* and an insertion keeps the length of its text (Transform, ValidateChunks).
THEOREM TransformAccepted ==
  ASSUME NEW op1 \in Accepted, NEW op2 \in Accepted
  PROVE  /\ Transform(op1, op2) \in Accepted
         /\ Transform(op1, op2).type = op2.type
         /\ Transform(op1, op2).text = op2.text
<1>1. PICK p \in Nat, l \in Nat : /\ op2.type = "add" => l = op2.len
                                  /\ Transform(op1, op2) = Moved(op2, p, l)
  BY TransformMoves
<1>2. Transform(op1, op2) \in Accepted
  BY <1>1, MovedAccepted
<1>3. Transform(op1, op2).type = op2.type /\ Transform(op1, op2).text = op2.text
  BY <1>1 DEF Moved
<1> QED BY <1>2, <1>3

\* Two chunks for one text give the same one whichever is accepted first and
\* the other transformed across it.
Converge(text, op1, op2) ==
  Apply(Apply(text, op1), Transform(op1, op2)) = Apply(Apply(text, op2), Transform(op2, op1))

LEMMA TwoParts ==
  ASSUME NEW a \in Seq(Char), NEW b \in Seq(Char)
  PROVE  /\ a \o b \in Seq(Char)
         /\ Len(a \o b) = Len(a) + Len(b)
         /\ \A i \in 1..(Len(a) + Len(b)) :
              (a \o b)[i] = IF i <= Len(a) THEN a[i] ELSE b[i - Len(a)]
OBVIOUS

LEMMA ThreeParts ==
  ASSUME NEW a \in Seq(Char), NEW b \in Seq(Char), NEW c \in Seq(Char)
  PROVE  /\ a \o b \o c \in Seq(Char)
         /\ Len(a \o b \o c) = Len(a) + Len(b) + Len(c)
         /\ \A i \in 1..(Len(a) + Len(b) + Len(c)) :
              (a \o b \o c)[i] = IF i <= Len(a) THEN a[i]
                                 ELSE IF i <= Len(a) + Len(b) THEN b[i - Len(a)]
                                 ELSE c[i - Len(a) - Len(b)]
<1> DEFINE d == a \o b
<1>1. /\ d \in Seq(Char) /\ Len(d) = Len(a) + Len(b)
      /\ \A i \in 1..(Len(a) + Len(b)) : d[i] = IF i <= Len(a) THEN a[i] ELSE b[i - Len(a)]
  BY TwoParts
<1> HIDE DEF d
<1>2. /\ d \o c \in Seq(Char) /\ Len(d \o c) = Len(d) + Len(c)
      /\ \A i \in 1..(Len(d) + Len(c)) : (d \o c)[i] = IF i <= Len(d) THEN d[i] ELSE c[i - Len(d)]
  BY <1>1, TwoParts
<1>3. ASSUME NEW i \in 1..(Len(a) + Len(b) + Len(c))
      PROVE  (d \o c)[i] = IF i <= Len(a) THEN a[i]
                           ELSE IF i <= Len(a) + Len(b) THEN b[i - Len(a)]
                           ELSE c[i - Len(a) - Len(b)]
  <2>1. Len(a) \in Nat /\ Len(b) \in Nat /\ Len(c) \in Nat
    OBVIOUS
  <2>2. CASE i <= Len(d)
    BY <1>1, <1>2, <2>1, <2>2
  <2>3. CASE ~(i <= Len(d))
    BY <1>1, <1>2, <2>1, <2>3
  <2> QED BY <2>2, <2>3
<1>4. /\ d \o c \in Seq(Char) /\ Len(d \o c) = Len(a) + Len(b) + Len(c)
  BY <1>1, <1>2
<1> QED BY <1>3, <1>4 DEF d

\* The characters of a text after an insertion into it.
LEMMA Insertion ==
  ASSUME NEW text \in Seq(Char), NEW op \in Accepted,
         op.type = "add", op.position <= Len(text)
  PROVE  /\ Apply(text, op) \in Seq(Char)
         /\ Len(Apply(text, op)) = Len(text) + op.len
         /\ \A i \in 1..(Len(text) + op.len) :
              Apply(text, op)[i] = IF i <= op.position THEN text[i]
                                   ELSE IF i <= op.position + op.len
                                     THEN op.text[i - op.position]
                                     ELSE text[i - op.len]
<1> DEFINE p == op.position
           x == op.text
           a == SubSeq(text, 1, p)
           c == SubSeq(text, p + 1, Len(text))
<1>1. p \in Nat /\ x \in Seq(Char) /\ op.len = Len(x) /\ Len(x) \in Nat /\ Len(text) \in Nat
  BY AcceptedFields
<1>2. p <= Len(text)
  OBVIOUS
<1>3. Apply(text, op) = a \o x \o c
  <2>1. Smaller(Larger(op.position, 0), Len(text)) = p
    BY <1>1, <1>2 DEF Smaller, Larger
  <2> HIDE DEF p
  <2> QED BY <2>1 DEF Apply
<1> HIDE DEF p, x
<1>4. /\ a \in Seq(Char) /\ Len(a) = p
      /\ \A i \in 1..p : a[i] = text[i]
  BY <1>1, <1>2
<1>5. /\ c \in Seq(Char) /\ Len(c) = Len(text) - p
      /\ \A i \in 1..(Len(text) - p) : c[i] = text[i + p]
  BY <1>1, <1>2
<1> HIDE DEF a, c
<1>6. Apply(text, op) \in Seq(Char) /\ Len(Apply(text, op)) = Len(text) + Len(x)
  <2>1. /\ a \o x \o c \in Seq(Char)
        /\ Len(a \o x \o c) = Len(a) + Len(x) + Len(c)
    <3>1. a \in Seq(Char) /\ x \in Seq(Char) /\ c \in Seq(Char)
      BY <1>1, <1>4, <1>5
    <3> DEFINE d == a \o x
    <3>2. d \in Seq(Char) /\ Len(d) = Len(a) + Len(x)
      BY <3>1
    <3> HIDE DEF d
    <3>3. d \o c \in Seq(Char) /\ Len(d \o c) = Len(d) + Len(c)
      BY <3>1, <3>2, TwoParts
    <3> QED BY <3>2, <3>3 DEF d
  <2>2. p + Len(x) + (Len(text) - p) = Len(text) + Len(x)
    BY <1>1
  <2> QED BY <1>3, <1>4, <1>5, <2>1, <2>2
<1>7. ASSUME NEW i \in 1..(Len(text) + Len(x))
      PROVE  Apply(text, op)[i] = IF i <= p THEN text[i]
                                  ELSE IF i <= p + Len(x) THEN x[i - p]
                                  ELSE text[i - Len(x)]
  <2>1. (a \o x \o c)[i] = IF i <= p THEN a[i]
                           ELSE IF i <= p + Len(x) THEN x[i - p]
                           ELSE c[i - p - Len(x)]
    <3>1. i \in 1..(Len(a) + Len(x) + Len(c))
      BY <1>1, <1>2, <1>4, <1>5
    <3>2. \A j \in 1..(Len(a) + Len(x) + Len(c)) :
            (a \o x \o c)[j] = IF j <= Len(a) THEN a[j]
                               ELSE IF j <= Len(a) + Len(x) THEN x[j - Len(a)]
                               ELSE c[j - Len(a) - Len(x)]
      <4>1. a \in Seq(Char) /\ x \in Seq(Char) /\ c \in Seq(Char)
        BY <1>1, <1>4, <1>5
      <4> QED BY <4>1, ThreeParts
    <3> QED BY <1>4, <3>1, <3>2
  <2>2. i <= p => a[i] = text[i]
    BY <1>1, <1>4
  <2>3. ~(i <= p + Len(x)) => c[i - p - Len(x)] = text[i - Len(x)]
    <3> SUFFICES ASSUME ~(i <= p + Len(x))
                 PROVE  c[i - p - Len(x)] = text[i - Len(x)]
      OBVIOUS
    <3> DEFINE j == i - p - Len(x)
    <3>1. j \in 1..(Len(text) - p) /\ j + p = i - Len(x)
      BY <1>1, <1>2
    <3> HIDE DEF j
    <3>2. c[j] = text[i - Len(x)]
      BY <1>5, <3>1
    <3> QED BY <3>2 DEF j
  <2> QED BY <1>1, <1>3, <2>1, <2>2, <2>3
<1> QED BY <1>1, <1>6, <1>7 DEF p, x

\* Of two insertions into one text at different places, the server may take
\* either first: transforming the other across it gives the same text
\* (Transform, the Add+Add case; two at one place keep the order of arrival).
THEOREM InsertionsConverge ==
  ASSUME NEW text \in Seq(Char), NEW op1 \in Accepted, NEW op2 \in Accepted,
         op1.type = "add", op2.type = "add",
         op1.position < op2.position, op2.position <= Len(text)
  PROVE  Converge(text, op1, op2)
<1> DEFINE p1 == op1.position
           l1 == op1.len
           x1 == op1.text
           p2 == op2.position
           l2 == op2.len
           x2 == op2.text
           n  == Len(text)
           late  == Transform(op1, op2)
           one   == Apply(text, op1)
           two   == Apply(text, op2)
           left  == Apply(one, late)
           right == Apply(two, op1)
<1>1. /\ p1 \in Nat /\ l1 \in Nat /\ p2 \in Nat /\ l2 \in Nat /\ n \in Nat
      /\ p1 < p2 /\ p2 <= n
  BY AcceptedFields
<1>2. Transform(op2, op1) = op1
  BY <1>1 DEF Transform
<1>3. /\ late \in Accepted /\ late.type = "add" /\ late.text = x2
      /\ late.position = p2 + l1 /\ late.len = l2
  <2>1. late = Moved(op2, p2 + l1, l2)
    BY <1>1 DEF Transform
  <2>2. late \in Accepted
    BY TransformAccepted
  <2> QED BY <2>1, <2>2 DEF Moved
<1> HIDE DEF late
<1>4. /\ one \in Seq(Char) /\ Len(one) = n + l1
      /\ \A i \in 1..(n + l1) :
           one[i] = IF i <= p1 THEN text[i]
                    ELSE IF i <= p1 + l1 THEN x1[i - p1] ELSE text[i - l1]
  <2>1. op1.position <= Len(text)
    BY <1>1
  <2> QED BY <2>1, Insertion
<1>5. /\ two \in Seq(Char) /\ Len(two) = n + l2
      /\ \A i \in 1..(n + l2) :
           two[i] = IF i <= p2 THEN text[i]
                    ELSE IF i <= p2 + l2 THEN x2[i - p2] ELSE text[i - l2]
  BY Insertion
<1> HIDE DEF one, two, n
<1>6. /\ left \in Seq(Char) /\ Len(left) = n + l1 + l2
      /\ \A i \in 1..(n + l1 + l2) :
           left[i] = IF i <= p2 + l1 THEN one[i]
                     ELSE IF i <= p2 + l1 + l2 THEN x2[i - (p2 + l1)] ELSE one[i - l2]
  <2>1. late.position <= Len(one)
    BY <1>1, <1>3, <1>4
  <2>2. /\ left \in Seq(Char) /\ Len(left) = Len(one) + late.len
        /\ \A i \in 1..(Len(one) + late.len) :
             left[i] = IF i <= late.position THEN one[i]
                       ELSE IF i <= late.position + late.len
                         THEN late.text[i - late.position]
                         ELSE one[i - late.len]
    BY <1>3, <1>4, <2>1, Insertion
  <2> QED BY <1>3, <1>4, <2>2
<1>7. /\ right \in Seq(Char) /\ Len(right) = n + l1 + l2
      /\ \A i \in 1..(n + l1 + l2) :
           right[i] = IF i <= p1 THEN two[i]
                      ELSE IF i <= p1 + l1 THEN x1[i - p1] ELSE two[i - l1]
  <2>1. op1.position <= Len(two)
    BY <1>1, <1>5
  <2>2. /\ right \in Seq(Char) /\ Len(right) = Len(two) + op1.len
        /\ \A i \in 1..(Len(two) + op1.len) :
             right[i] = IF i <= p1 THEN two[i]
                        ELSE IF i <= p1 + l1 THEN x1[i - p1] ELSE two[i - l1]
    <3>1. /\ two \in Seq(Char) /\ op1 \in Accepted /\ op1.type = "add"
      BY <1>5
    <3> QED BY <2>1, <3>1, Insertion
  <2>3. Len(two) + op1.len = n + l1 + l2
    <3>1. n + l2 + l1 = n + l1 + l2
      BY <1>1
    <3> QED BY <1>5, <3>1
  <2> QED BY <2>2, <2>3
<1> HIDE DEF left, right, p1, l1, x1, p2, l2, x2
<1>8. ASSUME NEW i \in 1..(n + l1 + l2)
      PROVE  left[i] = right[i]
  <2>1. CASE i <= p1
    <3>1. left[i] = one[i] /\ one[i] = text[i]
      BY <1>1, <1>4, <1>6, <2>1
    <3>2. right[i] = two[i] /\ two[i] = text[i]
      BY <1>1, <1>5, <1>7, <2>1
    <3> QED BY <3>1, <3>2
  <2>2. CASE p1 < i /\ i <= p1 + l1
    <3>1. left[i] = one[i] /\ one[i] = x1[i - p1]
      BY <1>1, <1>4, <1>6, <2>2
    <3>2. right[i] = x1[i - p1]
      BY <1>1, <1>7, <2>2
    <3> QED BY <3>1, <3>2
  <2>3. CASE p1 + l1 < i /\ i <= p2 + l1
    <3>1. left[i] = one[i] /\ one[i] = text[i - l1]
      BY <1>1, <1>4, <1>6, <2>3
    <3>2. i - l1 \in 1..(n + l2) /\ i - l1 <= p2
      BY <1>1, <2>3
    <3>3. right[i] = two[i - l1]
      BY <1>1, <1>7, <2>3
    <3>4. two[i - l1] = text[i - l1]
      BY <1>5, <3>2
    <3> QED BY <3>1, <3>3, <3>4
  <2>4. CASE p2 + l1 < i /\ i <= p2 + l1 + l2
    <3>1. left[i] = x2[i - (p2 + l1)]
      BY <1>1, <1>6, <2>4
    <3>2. /\ i - l1 \in 1..(n + l2) /\ p2 < i - l1 /\ i - l1 <= p2 + l2
          /\ i - l1 - p2 = i - (p2 + l1)
      BY <1>1, <2>4
    <3>3. right[i] = two[i - l1]
      BY <1>1, <1>7, <2>4
    <3>4. two[i - l1] = x2[i - l1 - p2]
      <4>1. ~(i - l1 <= p2)
        BY <1>1, <2>4
      <4> QED BY <1>5, <3>2, <4>1
    <3> QED BY <3>1, <3>2, <3>3, <3>4
  <2>5. CASE p2 + l1 + l2 < i
    <3>1. /\ i - l2 \in 1..(n + l1) /\ p1 + l1 < i - l2
          /\ i - l1 \in 1..(n + l2) /\ p2 + l2 < i - l1
          /\ i - l2 - l1 = i - l1 - l2
      BY <1>1, <2>5
    <3>2. left[i] = one[i - l2]
      BY <1>1, <1>6, <2>5
    <3>3. one[i - l2] = text[i - l2 - l1]
      <4>1. ~(i - l2 <= p1) /\ ~(i - l2 <= p1 + l1)
        BY <1>1, <2>5
      <4> QED BY <1>4, <3>1, <4>1
    <3>4. right[i] = two[i - l1]
      BY <1>1, <1>7, <2>5
    <3>5. two[i - l1] = text[i - l1 - l2]
      <4>1. ~(i - l1 <= p2) /\ ~(i - l1 <= p2 + l2)
        BY <1>1, <2>5
      <4> QED BY <1>5, <3>1, <4>1
    <3> QED BY <3>1, <3>2, <3>3, <3>4, <3>5
  <2> QED BY <1>1, <2>1, <2>2, <2>3, <2>4, <2>5
<1>9. left = right
  BY <1>1, <1>6, <1>7, <1>8
<1> QED BY <1>2, <1>9 DEF Converge, left, right, one, two, late

--------------------------------------------------------------------------------
(* Removals *)

\* How many of n characters are left when up to l of them are removed from p
\* on, and which of them is then the i-th.
Left(n, p, l) == IF n <= p THEN n ELSE IF n <= p + l THEN p ELSE n - l
Source(p, l, i) == IF i <= p THEN i ELSE i + l

LEMMA LeftBounds ==
  ASSUME NEW n \in Nat, NEW p \in Nat, NEW l \in Nat
  PROVE  /\ Left(n, p, l) \in Nat
         /\ \A i \in 1..Left(n, p, l) : Source(p, l, i) \in 1..n
BY DEF Left, Source

\* The part of n characters a removal takes, from one end to the other.
LEMMA LeftParts ==
  ASSUME NEW n \in Nat, NEW p \in Nat, NEW l \in Nat
  PROVE  /\ Smaller(p, n) \in 0..n /\ Smaller(p + l, n) \in Smaller(p, n)..n
         /\ Smaller(p, n) + (n - Smaller(p + l, n)) = Left(n, p, l)
         /\ \A i \in 1..Left(n, p, l) :
              Source(p, l, i) = IF i <= Smaller(p, n) THEN i
                                ELSE i - Smaller(p, n) + Smaller(p + l, n)
<1>1. CASE n <= p
  <2>1. Smaller(p, n) = n /\ Smaller(p + l, n) = n
    BY <1>1 DEF Smaller
  <2> QED BY <1>1, <2>1 DEF Left, Source
<1>2. CASE p < n /\ n <= p + l
  <2>1. Smaller(p, n) = p /\ Smaller(p + l, n) = n
    BY <1>2 DEF Smaller
  <2> QED BY <1>2, <2>1 DEF Left, Source
<1>3. CASE p + l < n
  <2>1. Smaller(p, n) = p /\ Smaller(p + l, n) = p + l
    BY <1>3 DEF Smaller
  <2> QED BY <1>3, <2>1 DEF Left, Source
<1> QED BY <1>1, <1>2, <1>3

\* The characters of a text after a removal from it.
LEMMA Removal ==
  ASSUME NEW text \in Seq(Char), NEW p \in Nat, NEW l \in Nat
  PROVE  /\ Apply(text, RemoveChunk(p, l)) \in Seq(Char)
         /\ Len(Apply(text, RemoveChunk(p, l))) = Left(Len(text), p, l)
         /\ \A i \in 1..Left(Len(text), p, l) :
              Apply(text, RemoveChunk(p, l))[i] = text[Source(p, l, i)]
<1> DEFINE n == Len(text)
           start == Smaller(p, n)
           end   == Smaller(p + l, n)
           a == SubSeq(text, 1, start)
           c == SubSeq(text, end + 1, n)
<1>1. n \in Nat
  OBVIOUS
<1>2. /\ start \in 0..n /\ end \in start..n /\ start + (n - end) = Left(n, p, l)
      /\ \A i \in 1..Left(n, p, l) : Source(p, l, i) = IF i <= start THEN i ELSE i - start + end
  <2> HIDE DEF n
  <2> QED BY <1>1, LeftParts
<1>4. Apply(text, RemoveChunk(p, l)) = a \o <<>> \o c
  <2>1. Smaller(Larger(p, 0), n) = start /\ Smaller(start + l, n) = end
    BY <1>1 DEF Smaller, Larger
  <2> HIDE DEF start, end
  <2> QED BY <2>1 DEF Apply, RemoveChunk
<1> HIDE DEF start, end
<1>5. /\ a \in Seq(Char) /\ Len(a) = start
      /\ \A i \in 1..start : a[i] = text[i]
  BY <1>1, <1>2
<1>6. /\ c \in Seq(Char) /\ Len(c) = n - end
      /\ \A i \in 1..(n - end) : c[i] = text[i + end]
  BY <1>1, <1>2
<1> HIDE DEF a, c, n
<1>7. a \o <<>> = a
  BY <1>5, ConcatEmptySeq
<1>8. /\ a \o c \in Seq(Char) /\ Len(a \o c) = Left(n, p, l)
      /\ \A i \in 1..Left(n, p, l) : (a \o c)[i] = IF i <= start THEN a[i] ELSE c[i - start]
  <2>1. /\ a \o c \in Seq(Char) /\ Len(a \o c) = Len(a) + Len(c)
        /\ \A i \in 1..(Len(a) + Len(c)) :
             (a \o c)[i] = IF i <= Len(a) THEN a[i] ELSE c[i - Len(a)]
    BY <1>5, <1>6, TwoParts, Zenon
  <2> QED BY <1>2, <1>5, <1>6, <2>1
<1>9. ASSUME NEW i \in 1..Left(n, p, l) PROVE (a \o c)[i] = text[Source(p, l, i)]
  <2>1. i \in 1..(start + (n - end)) /\ i \in Int /\ start \in Nat /\ end \in Nat
    BY <1>1, <1>2
  <2>2. CASE i <= start
    <3>1. (a \o c)[i] = a[i] /\ i \in 1..start
      BY <1>8, <2>1, <2>2
    <3>2. Source(p, l, i) = i
      BY <1>2, <2>2
    <3> QED BY <1>5, <3>1, <3>2
  <2>3. CASE ~(i <= start)
    <3>1. (a \o c)[i] = c[i - start]
      BY <1>8, <2>3
    <3>2. i - start \in 1..(n - end)
      BY <1>1, <2>1, <2>3
    <3>3. Source(p, l, i) = i - start + end
      BY <1>2, <2>3
    <3>4. c[i - start] = text[i - start + end]
      BY <1>6, <3>2
    <3> QED BY <3>1, <3>3, <3>4
  <2> QED BY <2>2, <2>3
<1> QED BY <1>4, <1>7, <1>8, <1>9 DEF n

BothRemoved(text, p, l, q, m) == Apply(Apply(text, RemoveChunk(p, l)), RemoveChunk(q, m))

\* Where two removals leave the characters of a text, one after the other.
Remains(text, p, l, q, m) ==
  /\ BothRemoved(text, p, l, q, m) \in Seq(Char)
  /\ Len(BothRemoved(text, p, l, q, m)) = Left(Left(Len(text), p, l), q, m)
  /\ \A i \in 1..Left(Left(Len(text), p, l), q, m) :
       BothRemoved(text, p, l, q, m)[i] = text[Source(p, l, Source(q, m, i))]

LEMMA TwoRemovals ==
  ASSUME NEW text \in Seq(Char), NEW p \in Nat, NEW l \in Nat, NEW q \in Nat, NEW m \in Nat
  PROVE  Remains(text, p, l, q, m)
<1> DEFINE one  == Apply(text, RemoveChunk(p, l))
           both == Apply(one, RemoveChunk(q, m))
<1>1. /\ one \in Seq(Char) /\ Len(one) = Left(Len(text), p, l)
      /\ \A i \in 1..Len(one) : one[i] = text[Source(p, l, i)]
  <2>1. /\ Apply(text, RemoveChunk(p, l)) \in Seq(Char)
        /\ Len(Apply(text, RemoveChunk(p, l))) = Left(Len(text), p, l)
        /\ \A i \in 1..Left(Len(text), p, l) :
             Apply(text, RemoveChunk(p, l))[i] = text[Source(p, l, i)]
    BY Removal
  <2> QED BY <2>1
<1> HIDE DEF one
<1>2. /\ both \in Seq(Char) /\ Len(both) = Left(Len(one), q, m)
      /\ \A i \in 1..Left(Len(one), q, m) : both[i] = one[Source(q, m, i)]
  BY <1>1, Removal
<1> HIDE DEF both
<1>3. ASSUME NEW i \in 1..Left(Len(one), q, m)
      PROVE  both[i] = text[Source(p, l, Source(q, m, i))]
  <2>1. Source(q, m, i) \in 1..Len(one)
    <3>1. Len(one) \in Nat
      BY <1>1, LenProperties
    <3> QED BY <3>1, LeftBounds
  <2> QED BY <1>1, <1>2, <2>1
<1>4. BothRemoved(text, p, l, q, m) = both
  BY DEF BothRemoved, one, both
<1> QED BY <1>1, <1>2, <1>3, <1>4 DEF Remains

\* Of two removals the one that begins later is moved back by what the other
\* takes before it, and each leaves out what both take.
Back(p, l, q) == q - Smaller(l, q - p)
Both(p, l, q, m) == Larger(0, Smaller(p + l, q + m) - q)

LEMMA BackAndBoth ==
  ASSUME NEW p \in Nat, NEW l \in Nat, NEW q \in Nat, NEW m \in Nat, p <= q
  PROVE  /\ Back(p, l, q) \in Nat
         /\ m - Both(p, l, q, m) \in Nat /\ l - Both(p, l, q, m) \in Nat
         /\ p + l <= q => Back(p, l, q) = q - l /\ Both(p, l, q, m) = 0
         /\ q < p + l => Back(p, l, q) = p
         /\ q < p + l /\ p + l <= q + m => Both(p, l, q, m) = p + l - q
         /\ q + m < p + l => Both(p, l, q, m) = m
BY DEF Back, Both, Smaller, Larger

SameLeft(n, p, l, q, m) ==
  LET back == Back(p, l, q)
      both == Both(p, l, q, m)
  IN  /\ Left(Left(n, p, l), back, m - both) = Left(Left(n, q, m), p, l - both)
      /\ \A i \in Nat : Source(p, l, Source(back, m - both, i))
                          = Source(q, m, Source(p, l - both, i))

LEMMA LeftTwice ==
  ASSUME NEW n \in Nat, NEW p \in Nat, NEW l \in Nat, NEW q \in Nat, NEW m \in Nat, p <= q
  PROVE  SameLeft(n, p, l, q, m)
<1> DEFINE back == Back(p, l, q)
           both == Both(p, l, q, m)
<1>1. /\ p + l <= q => back = q - l /\ both = 0
      /\ q < p + l => back = p
      /\ q < p + l /\ p + l <= q + m => both = p + l - q
      /\ q + m < p + l => both = m
  BY BackAndBoth
<1> HIDE DEF back, both
<1>2. Left(Left(n, p, l), back, m - both) = Left(Left(n, q, m), p, l - both)
  <2>1. CASE p + l <= q
    BY <1>1, <2>1 DEF Left
  <2>2. CASE q < p + l /\ p + l <= q + m
    BY <1>1, <2>2 DEF Left
  <2>3. CASE q + m < p + l
    <3>1. back = p /\ m - both = 0 /\ l - both = l - m /\ p <= q
      BY <1>1, <2>3
    <3>2. Left(Left(n, p, l), p, 0) = Left(n, p, l)
      BY DEF Left
    <3>3. Left(n, p, l) = Left(Left(n, q, m), p, l - m)
      BY <2>3, <3>1 DEF Left
    <3> QED BY <3>1, <3>2, <3>3
  <2> QED BY <2>1, <2>2, <2>3
<1>3. ASSUME NEW i \in Nat
      PROVE  Source(p, l, Source(back, m - both, i)) = Source(q, m, Source(p, l - both, i))
  <2>1. CASE p + l <= q
    BY <1>1, <2>1 DEF Source
  <2>2. CASE q < p + l /\ p + l <= q + m
    BY <1>1, <2>2 DEF Source
  <2>3. CASE q + m < p + l
    BY <1>1, <2>3 DEF Source
  <2> QED BY <2>1, <2>2, <2>3
<1> QED BY <1>2, <1>3 DEF SameLeft, back, both

\* What Transform makes of a removal across another.
LEMMA RemovalAcross ==
  ASSUME NEW p \in Nat, NEW l \in Nat, NEW q \in Nat, NEW m \in Nat, p <= q
  PROVE  /\ Transform(RemoveChunk(p, l), RemoveChunk(q, m))
              = RemoveChunk(Back(p, l, q), m - Both(p, l, q, m))
         /\ Transform(RemoveChunk(q, m), RemoveChunk(p, l))
              = RemoveChunk(p, l - Both(p, l, q, m))
<1> DEFINE first == RemoveChunk(p, l)
           second == RemoveChunk(q, m)
           back == Back(p, l, q)
           both == Both(p, l, q, m)
<1>1. /\ first.type = "remove" /\ first.position = p /\ first.len = l /\ first.text = <<>>
      /\ second.type = "remove" /\ second.position = q /\ second.len = m /\ second.text = <<>>
  BY DEF RemoveChunk
<1> HIDE DEF first, second
<1>2. ShiftedBack(first, second) = back /\ ShiftedBack(second, first) = p
  BY <1>1 DEF ShiftedBack, Back, Smaller
<1>3. Overlap(first, second) = both /\ Overlap(second, first) = both
  BY <1>1 DEF Overlap, Both, Smaller, Larger
<1> HIDE DEF back, both
<1>4. Transform(first, second) = Moved(second, back, m - both)
  BY <1>1, <1>2, <1>3 DEF Transform
<1>5. Transform(second, first) = Moved(first, p, l - both)
  BY <1>1, <1>2, <1>3 DEF Transform
<1>6. /\ Moved(second, back, m - both) = RemoveChunk(back, m - both)
      /\ Moved(first, p, l - both) = RemoveChunk(p, l - both)
  BY <1>1 DEF Moved, RemoveChunk
<1> QED BY <1>4, <1>5, <1>6 DEF first, second, back, both

LEMMA RemovalsOrdered ==
  ASSUME NEW text \in Seq(Char), NEW p \in Nat, NEW l \in Nat, NEW q \in Nat, NEW m \in Nat,
         p <= q
  PROVE  Converge(text, RemoveChunk(p, l), RemoveChunk(q, m))
<1> DEFINE back == Back(p, l, q)
           ofFirst == l - Both(p, l, q, m)
           ofSecond == m - Both(p, l, q, m)
           n == Len(text)
           left  == BothRemoved(text, p, l, back, ofSecond)
           right == BothRemoved(text, q, m, p, ofFirst)
           size  == Left(Left(n, p, l), back, ofSecond)
<1>1. /\ Transform(RemoveChunk(p, l), RemoveChunk(q, m)) = RemoveChunk(back, ofSecond)
      /\ Transform(RemoveChunk(q, m), RemoveChunk(p, l)) = RemoveChunk(p, ofFirst)
  BY RemovalAcross
<1>2. back \in Nat /\ ofSecond \in Nat /\ ofFirst \in Nat
  BY BackAndBoth
<1>3. n \in Nat
  OBVIOUS
<1>4. /\ size = Left(Left(n, q, m), p, ofFirst)
      /\ \A i \in Nat : Source(p, l, Source(back, ofSecond, i))
                          = Source(q, m, Source(p, ofFirst, i))
  <2>1. SameLeft(n, p, l, q, m)
    BY <1>3, LeftTwice
  <2> HIDE DEF n
  <2> QED BY <2>1 DEF SameLeft
<1>5. size \in Nat
  <2> HIDE DEF n, back, ofFirst, ofSecond
  <2> QED BY <1>2, <1>3, LeftBounds
<1> HIDE DEF back, ofFirst, ofSecond
<1>6. /\ left \in Seq(Char) /\ Len(left) = size
      /\ \A i \in 1..size : left[i] = text[Source(p, l, Source(back, ofSecond, i))]
  <2>1. Remains(text, p, l, back, ofSecond)
    BY <1>2, TwoRemovals
  <2> QED BY <2>1 DEF Remains
<1>7. /\ right \in Seq(Char) /\ Len(right) = Left(Left(n, q, m), p, ofFirst)
      /\ \A i \in 1..Left(Left(n, q, m), p, ofFirst) :
           right[i] = text[Source(q, m, Source(p, ofFirst, i))]
  <2>1. Remains(text, q, m, p, ofFirst)
    BY <1>2, TwoRemovals
  <2> QED BY <2>1 DEF Remains
<1> HIDE DEF left, right, n, size
<1>8. Len(left) = Len(right) /\ \A i \in 1..Len(left) : left[i] = right[i]
  BY <1>4, <1>5, <1>6, <1>7
<1>9. left = right
  BY <1>6, <1>7, <1>8, SeqEqual
<1> QED BY <1>1, <1>9 DEF Converge, BothRemoved, left, right

\* Of any two removals, apart, overlapping or one inside the other, within the
\* text or beyond its end, the server may take either first: what both remove
\* is removed once (Transform, the Remove+Remove case).
THEOREM RemovalsConverge ==
  ASSUME NEW text \in Seq(Char), NEW p \in Nat, NEW l \in Nat, NEW q \in Nat, NEW m \in Nat
  PROVE  Converge(text, RemoveChunk(p, l), RemoveChunk(q, m))
<1>1. CASE p <= q
  BY <1>1, RemovalsOrdered
<1>2. CASE q <= p
  <2>1. Converge(text, RemoveChunk(q, m), RemoveChunk(p, l))
    BY <1>2, RemovalsOrdered
  <2> QED BY <2>1 DEF Converge
<1> QED BY <1>1, <1>2

--------------------------------------------------------------------------------
(* An insertion and a removal *)

\* The insertion comes first in the text.
LEMMA InsertionBefore ==
  ASSUME NEW text \in Seq(Char), NEW op \in Accepted, NEW q \in Nat, NEW m \in Nat,
         op.type = "add", op.position <= Len(text), op.position <= q
  PROVE  Converge(text, op, RemoveChunk(q, m))
<1> DEFINE a == op.position
           k == op.len
           x == op.text
           n == Len(text)
           cut == RemoveChunk(q, m)
           inserted == Apply(text, op)
           removed  == Apply(text, cut)
           left  == Apply(inserted, RemoveChunk(q + k, m))
           right == Apply(removed, op)
           rest  == Left(n, q, m)
<1>1. a \in Nat /\ k \in Nat /\ n \in Nat /\ a <= n /\ a <= q
  BY AcceptedFields
<1>2. cut.type = "remove" /\ cut.position = q /\ cut.len = m /\ cut.text = <<>>
  BY DEF RemoveChunk
<1>3. Transform(op, cut) = RemoveChunk(q + k, m)
  <2>1. Transform(op, cut) = Moved(cut, q + k, m)
    BY <1>1, <1>2 DEF Transform
  <2> QED BY <1>2, <2>1 DEF Moved, RemoveChunk
<1>4. Transform(cut, op) = op
  <2>1. ShiftedBack(cut, op) = a
    BY <1>1, <1>2 DEF ShiftedBack
  <2>2. Transform(cut, op) = Moved(op, a, k)
    BY <1>1, <1>2, <2>1 DEF Transform
  <2> QED BY <2>2, MovedNowhere
<1> HIDE DEF cut
<1>5. /\ inserted \in Seq(Char) /\ Len(inserted) = n + k
      /\ \A i \in 1..(n + k) : inserted[i] = IF i <= a THEN text[i]
                                             ELSE IF i <= a + k THEN x[i - a] ELSE text[i - k]
  BY Insertion
<1>6. /\ removed \in Seq(Char) /\ Len(removed) = rest
      /\ \A i \in 1..rest : removed[i] = text[Source(q, m, i)]
  BY Removal DEF cut
<1>7. rest \in Nat /\ a <= rest /\ Left(n + k, q + k, m) = rest + k
  <2> HIDE DEF n, a, k
  <2> QED BY <1>1 DEF Left
<1> HIDE DEF inserted, removed, n, rest
<1>8. /\ left \in Seq(Char) /\ Len(left) = rest + k
      /\ \A i \in 1..(rest + k) : left[i] = inserted[Source(q + k, m, i)]
  <2>1. q + k \in Nat
    BY <1>1
  <2>2. /\ Apply(inserted, RemoveChunk(q + k, m)) \in Seq(Char)
        /\ Len(Apply(inserted, RemoveChunk(q + k, m))) = Left(Len(inserted), q + k, m)
        /\ \A i \in 1..Left(Len(inserted), q + k, m) :
             Apply(inserted, RemoveChunk(q + k, m))[i] = inserted[Source(q + k, m, i)]
    <3> DEFINE place == q + k
    <3>1. place \in Nat
      BY <2>1
    <3> HIDE DEF place
    <3>2. /\ Apply(inserted, RemoveChunk(place, m)) \in Seq(Char)
          /\ Len(Apply(inserted, RemoveChunk(place, m))) = Left(Len(inserted), place, m)
          /\ \A i \in 1..Left(Len(inserted), place, m) :
               Apply(inserted, RemoveChunk(place, m))[i] = inserted[Source(place, m, i)]
      BY <1>5, <3>1, Removal
    <3> QED BY <3>2 DEF place
  <2> QED BY <1>5, <1>7, <2>2
<1>9. /\ right \in Seq(Char) /\ Len(right) = rest + k
      /\ \A i \in 1..(rest + k) : right[i] = IF i <= a THEN removed[i]
                                             ELSE IF i <= a + k THEN x[i - a] ELSE removed[i - k]
  BY <1>6, <1>7, Insertion
<1> HIDE DEF left, right, a, k, x
<1>10. ASSUME NEW i \in 1..(rest + k) PROVE left[i] = right[i]
  <2>1. CASE i <= a
    <3>1. Source(q + k, m, i) = i /\ Source(q, m, i) = i
      BY <1>1, <2>1 DEF Source
    <3>2. i \in 1..(n + k) /\ i \in 1..rest
      BY <1>1, <1>7, <2>1
    <3> QED BY <1>5, <1>6, <1>8, <1>9, <2>1, <3>1, <3>2
  <2>2. CASE a < i /\ i <= a + k
    <3>1. Source(q + k, m, i) = i
      BY <1>1, <2>2 DEF Source
    <3>2. i \in 1..(n + k) /\ ~(i <= a)
      BY <1>1, <2>2
    <3> QED BY <1>5, <1>8, <1>9, <2>2, <3>1, <3>2
  <2>3. CASE a + k < i
    <3> DEFINE j == Source(q + k, m, i)
    <3>1. i - k \in 1..rest /\ j - k = Source(q, m, i - k) /\ a + k < j
      BY <1>1, <1>7, <2>3 DEF Source
    <3>2. j \in 1..(n + k)
      <4>1. n + k \in Nat /\ q + k \in Nat
        BY <1>1
      <4> QED BY <1>7, <4>1, LeftBounds
    <3>3. left[i] = inserted[j]
      BY <1>8
    <3> HIDE DEF j
    <3>4. ~(j <= a) /\ ~(j <= a + k) /\ ~(i <= a) /\ ~(i <= a + k)
      BY <1>1, <2>3, <3>1, <3>2
    <3>5. inserted[j] = text[j - k]
      BY <1>5, <3>2, <3>4
    <3>6. right[i] = removed[i - k]
      BY <1>9, <3>4
    <3>7. removed[i - k] = text[Source(q, m, i - k)]
      BY <1>6, <3>1
    <3> QED BY <3>1, <3>3, <3>5, <3>6, <3>7
  <2> QED BY <1>1, <1>7, <2>1, <2>2, <2>3
<1>11. left = right
  BY <1>8, <1>9, <1>10, SeqEqual
<1> QED BY <1>3, <1>4, <1>11 DEF Converge, cut, left, right, inserted, removed, k

\* The insertion comes after what is removed.
LEMMA InsertionAfter ==
  ASSUME NEW text \in Seq(Char), NEW op \in Accepted, NEW q \in Nat, NEW m \in Nat,
         op.type = "add", op.position <= Len(text), q < op.position, q + m <= op.position
  PROVE  Converge(text, op, RemoveChunk(q, m))
<1> DEFINE a == op.position
           k == op.len
           x == op.text
           n == Len(text)
           cut == RemoveChunk(q, m)
           late == Transform(cut, op)
           inserted == Apply(text, op)
           removed  == Apply(text, cut)
           left  == Apply(inserted, cut)
           right == Apply(removed, late)
<1>1. a \in Nat /\ k \in Nat /\ n \in Nat /\ a <= n /\ q < a /\ q + m <= a
  BY AcceptedFields
<1>2. /\ cut.type = "remove" /\ cut.position = q /\ cut.len = m /\ cut.text = <<>>
      /\ cut \in Accepted
  <2>1. cut.type = "remove" /\ cut.position = q /\ cut.len = m /\ cut.text = <<>>
    BY DEF RemoveChunk
  <2>2. cut \in Chunk
    BY DEF RemoveChunk, Chunk
  <2> QED BY <2>1, <2>2 DEF Accepted, ValidChunk
<1>3. Transform(op, cut) = cut
  BY <1>1, <1>2 DEF Transform
<1>4. /\ late \in Accepted /\ late.type = "add" /\ late.text = x
      /\ late.position = a - m /\ late.len = k
  <2>1. ShiftedBack(cut, op) = a - m
    BY <1>1, <1>2 DEF ShiftedBack, Smaller
  <2>2. late = Moved(op, a - m, k)
    BY <1>1, <1>2, <2>1 DEF Transform
  <2>3. late \in Accepted
    BY <1>2, TransformAccepted
  <2> QED BY <2>2, <2>3 DEF Moved
<1> HIDE DEF late, cut
<1>5. /\ inserted \in Seq(Char) /\ Len(inserted) = n + k
      /\ \A i \in 1..(n + k) : inserted[i] = IF i <= a THEN text[i]
                                             ELSE IF i <= a + k THEN x[i - a] ELSE text[i - k]
  BY Insertion
<1>6. /\ removed \in Seq(Char) /\ Len(removed) = n - m
      /\ \A i \in 1..(n - m) : removed[i] = text[Source(q, m, i)]
  <2>1. /\ removed \in Seq(Char) /\ Len(removed) = Left(n, q, m)
        /\ \A i \in 1..Left(n, q, m) : removed[i] = text[Source(q, m, i)]
    BY Removal DEF cut
  <2> HIDE DEF n, removed
  <2>2. Left(n, q, m) = n - m
    BY <1>1 DEF Left
  <2> QED BY <2>1, <2>2
<1> HIDE DEF inserted, removed, n
<1>7. /\ left \in Seq(Char) /\ Len(left) = n + k - m
      /\ \A i \in 1..(n + k - m) : left[i] = inserted[Source(q, m, i)]
  <2>1. /\ left \in Seq(Char) /\ Len(left) = Left(n + k, q, m)
        /\ \A i \in 1..Left(n + k, q, m) : left[i] = inserted[Source(q, m, i)]
    <3>1. /\ left \in Seq(Char) /\ Len(left) = Left(Len(inserted), q, m)
          /\ \A i \in 1..Left(Len(inserted), q, m) : left[i] = inserted[Source(q, m, i)]
      BY <1>5, Removal DEF cut
    <3> HIDE DEF left
    <3> QED BY <1>5, <3>1
  <2>2. Left(n + k, q, m) = n + k - m
    BY <1>1 DEF Left
  <2> QED BY <2>1, <2>2
<1>8. /\ right \in Seq(Char) /\ Len(right) = n + k - m
      /\ \A i \in 1..(n + k - m) :
           right[i] = IF i <= a - m THEN removed[i]
                      ELSE IF i <= a - m + k THEN x[i - (a - m)] ELSE removed[i - k]
  <2>1. late.position <= Len(removed)
    BY <1>1, <1>4, <1>6
  <2>2. /\ right \in Seq(Char) /\ Len(right) = Len(removed) + late.len
        /\ \A i \in 1..(Len(removed) + late.len) :
             right[i] = IF i <= late.position THEN removed[i]
                        ELSE IF i <= late.position + late.len
                          THEN late.text[i - late.position]
                          ELSE removed[i - late.len]
    BY <1>4, <1>6, <2>1, Insertion
  <2>3. Len(removed) + late.len = n + k - m
    BY <1>1, <1>4, <1>6
  <2> QED BY <1>4, <2>2, <2>3
<1> HIDE DEF left, right, a, k, x
<1>9. ASSUME NEW i \in 1..(n + k - m) PROVE left[i] = right[i]
  <2>0. i \in Int /\ 1 <= i /\ i <= n + k - m
    BY <1>1
  <2>1. CASE i <= a - m
    <3> DEFINE j == Source(q, m, i)
    <3>1. j \in 1..(n + k) /\ j <= a /\ i \in 1..(n - m)
      BY <1>1, <2>0, <2>1 DEF Source
    <3>2. left[i] = inserted[j] /\ removed[i] = text[j]
      BY <1>6, <1>7, <3>1
    <3> HIDE DEF j
    <3>3. inserted[j] = text[j]
      BY <1>5, <3>1
    <3>4. right[i] = removed[i]
      BY <1>8, <2>1
    <3> QED BY <3>2, <3>3, <3>4
  <2>2. CASE a - m < i /\ i <= a - m + k
    <3> DEFINE j == i + m
    <3>1. /\ Source(q, m, i) = j /\ j \in 1..(n + k)
          /\ ~(j <= a) /\ j <= a + k /\ j - a = i - (a - m) /\ ~(i <= a - m)
      BY <1>1, <2>0, <2>2 DEF Source
    <3> HIDE DEF j
    <3>2. left[i] = inserted[j]
      BY <1>7, <3>1
    <3>3. inserted[j] = x[j - a]
      BY <1>5, <3>1
    <3>4. right[i] = x[i - (a - m)]
      BY <1>8, <2>2, <3>1
    <3> QED BY <3>1, <3>2, <3>3, <3>4
  <2>3. CASE a - m + k < i
    <3> DEFINE j == i + m
    <3>1. /\ Source(q, m, i) = j /\ j \in 1..(n + k)
          /\ ~(j <= a) /\ ~(j <= a + k)
          /\ ~(i <= a - m) /\ ~(i <= a - m + k)
          /\ i - k \in 1..(n - m) /\ Source(q, m, i - k) = j - k
      BY <1>1, <2>0, <2>3 DEF Source
    <3> HIDE DEF j
    <3>2. left[i] = inserted[j]
      BY <1>7, <3>1
    <3>3. inserted[j] = text[j - k]
      BY <1>5, <3>1
    <3>4. right[i] = removed[i - k]
      BY <1>8, <3>1
    <3>5. removed[i - k] = text[j - k]
      BY <1>6, <3>1
    <3> QED BY <3>2, <3>3, <3>4, <3>5
  <2> QED BY <1>1, <2>0, <2>1, <2>2, <2>3
<1>10. left = right
  <2>1. Len(left) = Len(right) /\ \A i \in 1..Len(left) : left[i] = right[i]
    BY <1>7, <1>8, <1>9
  <2> QED BY <1>7, <1>8, <2>1, SeqEqual
<1> QED BY <1>3, <1>10 DEF Converge, left, right, inserted, removed, late, cut

\* An insertion and a removal that does not reach across the place of the
\* insertion give the same text whichever the server takes first (Transform,
\* the Add+Remove and Remove+Add cases).  Inside the removed range they do
\* not: the removal takes along an insertion it meets, one that comes later
\* stays.
THEOREM InsertionAndRemovalConverge ==
  ASSUME NEW text \in Seq(Char), NEW op \in Accepted, NEW q \in Nat, NEW m \in Nat,
         op.type = "add", op.position <= Len(text),
         op.position <= q \/ q + m <= op.position
  PROVE  Converge(text, op, RemoveChunk(q, m))
<1>1. op.position \in Nat
  BY AcceptedFields
<1>2. CASE op.position <= q
  BY <1>2, InsertionBefore
<1>3. CASE q < op.position /\ q + m <= op.position
  BY <1>3, InsertionAfter
<1> QED BY <1>1, <1>2, <1>3
================================================================================
