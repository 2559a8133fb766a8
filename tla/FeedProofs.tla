----------------------------- MODULE FeedProofs -----------------------------
(***************************************************************************)
(* Every step of Hub is a step of Feed, for any number of connections and  *)
(* messages: nobody is sent a version twice or out of order, and whoever   *)
(* is not given up is sent all of them.                                    *)
(***************************************************************************)
EXTENDS HubProofs

(* Rising sequences *)

Below(p, q) == \A i \in DOMAIN p, j \in DOMAIN q : p[i] < q[j]

\* The elements of two sequences put together.
LEMMA ConcatElements ==
  ASSUME NEW p \in Seq(Int), NEW q \in Seq(Int)
  PROVE  /\ Len(p) \in Nat /\ Len(q) \in Nat
         /\ DOMAIN p = 1..Len(p) /\ DOMAIN q = 1..Len(q)
         /\ p \o q \in Seq(Int) /\ DOMAIN (p \o q) = 1..(Len(p) + Len(q))
         /\ \A i \in 1..Len(p) : (p \o q)[i] = p[i]
         /\ \A j \in 1..Len(q) : (p \o q)[Len(p) + j] = q[j]
<1>1. /\ Len(p) \in Nat /\ Len(q) \in Nat
      /\ DOMAIN p = 1..Len(p) /\ DOMAIN q = 1..Len(q)
  BY LenProperties
<1>2. /\ p \o q \in Seq(Int) /\ Len(p \o q) = Len(p) + Len(q)
      /\ \A i \in 1..(Len(p) + Len(q)) : (p \o q)[i] = IF i <= Len(p) THEN p[i] ELSE q[i - Len(p)]
  BY ConcatProperties
<1>3. DOMAIN (p \o q) = 1..(Len(p) + Len(q))
  BY <1>2, LenProperties
<1>4. ASSUME NEW i \in 1..Len(p) PROVE (p \o q)[i] = p[i]
  <2>1. i \in 1..(Len(p) + Len(q)) /\ i <= Len(p)
    BY <1>1
  <2> QED BY <1>2, <2>1
<1>5. ASSUME NEW j \in 1..Len(q) PROVE (p \o q)[Len(p) + j] = q[j]
  <2>1. /\ Len(p) + j \in 1..(Len(p) + Len(q)) /\ ~(Len(p) + j <= Len(p))
        /\ (Len(p) + j) - Len(p) = j
    BY <1>1
  <2> QED BY <1>2, <2>1
<1> QED BY <1>1, <1>2, <1>3, <1>4, <1>5

\* Two sequences put together rise if both do and the second comes above.
LEMMA RisingConcat ==
  ASSUME NEW p \in Seq(Int), NEW q \in Seq(Int)
  PROVE  Rising(p \o q) <=> Rising(p) /\ Rising(q) /\ Below(p, q)
<1> DEFINE n == Len(p)
           m == Len(q)
           r == p \o q
<1>1. /\ n \in Nat /\ m \in Nat /\ DOMAIN p = 1..n /\ DOMAIN q = 1..m /\ DOMAIN r = 1..(n + m)
      /\ \A i \in 1..n : r[i] = p[i]
      /\ \A j \in 1..m : r[n + j] = q[j]
  BY ConcatElements
<1> HIDE DEF n, m, r
<1>2. ASSUME Rising(r) PROVE Rising(p) /\ Rising(q) /\ Below(p, q)
  <2>1. \A i, j \in 1..(n + m) : i < j => r[i] < r[j]
    BY <1>1, <1>2 DEF Rising
  <2>2. ASSUME NEW i \in 1..n, NEW j \in 1..n, i < j PROVE p[i] < p[j]
    <3>1. i \in 1..(n + m) /\ j \in 1..(n + m)
      BY <1>1
    <3>2. r[i] < r[j]
      BY <2>1, <2>2, <3>1
    <3> QED BY <1>1, <3>2
  <2>3. ASSUME NEW i \in 1..m, NEW j \in 1..m, i < j PROVE q[i] < q[j]
    <3>1. n + i \in 1..(n + m) /\ n + j \in 1..(n + m) /\ n + i < n + j
      BY <1>1, <2>3
    <3>2. r[n + i] < r[n + j]
      BY <2>1, <3>1
    <3> QED BY <1>1, <3>2
  <2>4. ASSUME NEW i \in 1..n, NEW j \in 1..m PROVE p[i] < q[j]
    <3>1. i \in 1..(n + m) /\ n + j \in 1..(n + m) /\ i < n + j
      BY <1>1
    <3>2. r[i] < r[n + j]
      BY <2>1, <3>1
    <3> QED BY <1>1, <3>2
  <2> QED BY <1>1, <2>2, <2>3, <2>4 DEF Rising, Below
<1>3. ASSUME Rising(p), Rising(q), Below(p, q) PROVE Rising(r)
  <2> SUFFICES ASSUME NEW i \in 1..(n + m), NEW j \in 1..(n + m), i < j PROVE r[i] < r[j]
    BY <1>1 DEF Rising
  <2>1. CASE j \in 1..n
    <3>1. i \in 1..n
      BY <1>1, <2>1
    <3>2. p[i] < p[j]
      BY <1>1, <1>3, <2>1, <3>1 DEF Rising
    <3> QED BY <1>1, <2>1, <3>1, <3>2
  <2>2. CASE j \notin 1..n
    <3>1. j - n \in 1..m /\ n + (j - n) = j
      BY <1>1, <2>2
    <3>2. r[j] = q[j - n]
      BY <1>1, <3>1
    <3>3. CASE i \in 1..n
      <4>1. p[i] < q[j - n]
        BY <1>1, <1>3, <3>1, <3>3 DEF Below
      <4> QED BY <1>1, <3>2, <3>3, <4>1
    <3>4. CASE i \notin 1..n
      <4>1. i - n \in 1..m /\ n + (i - n) = i /\ i - n < j - n
        BY <1>1, <3>4
      <4>2. r[i] = q[i - n]
        BY <1>1, <4>1
      <4>3. q[i - n] < q[j - n]
        BY <1>1, <1>3, <3>1, <4>1 DEF Rising
      <4> QED BY <3>2, <4>2, <4>3
    <3> QED BY <3>3, <3>4
  <2> QED BY <2>1, <2>2
<1> QED BY <1>2, <1>3 DEF r

\* A sequence put together from two is below what both are below.
LEMMA BelowConcat ==
  ASSUME NEW p \in Seq(Int), NEW q \in Seq(Int), NEW r
  PROVE  Below(p \o q, r) <=> Below(p, r) /\ Below(q, r)
<1> DEFINE n == Len(p)
           m == Len(q)
           l == p \o q
<1>1. /\ n \in Nat /\ m \in Nat /\ DOMAIN p = 1..n /\ DOMAIN q = 1..m /\ DOMAIN l = 1..(n + m)
      /\ \A i \in 1..n : l[i] = p[i]
      /\ \A j \in 1..m : l[n + j] = q[j]
  BY ConcatElements
<1> HIDE DEF n, m, l
<1>2. ASSUME Below(l, r) PROVE Below(p, r) /\ Below(q, r)
  <2>1. ASSUME NEW i \in 1..n, NEW j \in DOMAIN r PROVE p[i] < r[j]
    <3>1. i \in 1..(n + m)
      BY <1>1
    <3> QED BY <1>1, <1>2, <3>1 DEF Below
  <2>2. ASSUME NEW i \in 1..m, NEW j \in DOMAIN r PROVE q[i] < r[j]
    <3>1. n + i \in 1..(n + m)
      BY <1>1
    <3>2. l[n + i] < r[j]
      BY <1>1, <1>2, <3>1 DEF Below
    <3> QED BY <1>1, <3>2
  <2> QED BY <1>1, <2>1, <2>2 DEF Below
<1>3. ASSUME Below(p, r), Below(q, r) PROVE Below(l, r)
  <2> SUFFICES ASSUME NEW i \in 1..(n + m), NEW j \in DOMAIN r PROVE l[i] < r[j]
    BY <1>1 DEF Below
  <2>1. CASE i \in 1..n
    BY <1>1, <1>3, <2>1 DEF Below
  <2>2. CASE i \notin 1..n
    <3>1. i - n \in 1..m /\ n + (i - n) = i
      BY <1>1, <2>2
    <3>2. l[i] = q[i - n]
      BY <1>1, <3>1
    <3> QED BY <1>1, <1>3, <3>1, <3>2 DEF Below
  <2> QED BY <2>1, <2>2
<1> QED BY <1>2, <1>3 DEF l

\* A sequence of one element.
LEMMA Singles ==
  ASSUME NEW a \in Int
  PROVE  <<a>> \in Seq(Int) /\ DOMAIN <<a>> = {1} /\ <<a>>[1] = a /\ Rising(<<a>>)
<1>1. <<a>> \in Seq(Int) /\ <<a>>[1] = a /\ DOMAIN <<a>> = {1}
  <2>1. DOMAIN <<a>> = 1..1
    OBVIOUS
  <2> QED BY <2>1
<1>2. Rising(<<a>>)
  BY <1>1 DEF Rising
<1> QED BY <1>1, <1>2

\* And none.
LEMMA Nothing ==
  /\ <<>> \in Seq(Int) /\ Rising(<<>>)
  /\ \A p : Below(<<>>, p) /\ Below(p, <<>>)
<1>1. DOMAIN <<>> = {} /\ <<>> \in Seq(Int)
  OBVIOUS
<1> QED BY <1>1 DEF Rising, Below

LEMMA Regroup ==
  ASSUME NEW p \in Seq(Int), NEW q \in Seq(Int), NEW r \in Seq(Int)
  PROVE  (p \o q) \o r = p \o (q \o r)
OBVIOUS

\* What it takes for a line of one, three sequences, and one, to rise.
Aligned(a, p, h, q, b) ==
  /\ Rising(p) /\ Rising(h) /\ Rising(q)
  /\ Below(<<a>>, p) /\ Below(<<a>>, h) /\ Below(<<a>>, q) /\ Below(<<a>>, <<b>>)
  /\ Below(p, h) /\ Below(p, q) /\ Below(p, <<b>>)
  /\ Below(h, q) /\ Below(h, <<b>>) /\ Below(q, <<b>>)

LEMMA RisingLine ==
  ASSUME NEW a \in Int, NEW p \in Seq(Int), NEW h \in Seq(Int), NEW q \in Seq(Int),
         NEW b \in Int
  PROVE  Rising(<<a>> \o p \o h \o q \o <<b>>) <=> Aligned(a, p, h, q, b)
<1> DEFINE x == <<a>> \o p
           y == x \o h
           z == y \o q
<1>1. /\ <<a>> \in Seq(Int) /\ Rising(<<a>>) /\ <<b>> \in Seq(Int) /\ Rising(<<b>>)
  BY Singles
<1>2. x \in Seq(Int) /\ y \in Seq(Int) /\ z \in Seq(Int)
  BY <1>1, ConcatElements
<1>3. /\ Rising(x) <=> Rising(p) /\ Below(<<a>>, p)
      /\ \A r : Below(x, r) <=> Below(<<a>>, r) /\ Below(p, r)
  BY <1>1, RisingConcat, BelowConcat
<1> HIDE DEF x
<1>4. /\ Rising(y) <=> Rising(x) /\ Rising(h) /\ Below(x, h)
      /\ \A r : Below(y, r) <=> Below(x, r) /\ Below(h, r)
  BY <1>2, RisingConcat, BelowConcat
<1> HIDE DEF y
<1>5. /\ Rising(z) <=> Rising(y) /\ Rising(q) /\ Below(y, q)
      /\ \A r : Below(z, r) <=> Below(y, r) /\ Below(q, r)
  BY <1>2, RisingConcat, BelowConcat
<1> HIDE DEF z
<1>6. Rising(z \o <<b>>) <=> Rising(z) /\ Below(z, <<b>>)
  BY <1>1, <1>2, RisingConcat
<1>7. <<a>> \o p \o h \o q \o <<b>> = z \o <<b>>
  BY DEF x, y, z
<1> QED BY <1>3, <1>4, <1>5, <1>6, <1>7, Zenon DEF Aligned

\* A queue is its first message and the rest.
LEMMA HeadAndTail ==
  ASSUME NEW q \in Seq(Int), q # <<>>
  PROVE  Head(q) \in Int /\ Tail(q) \in Seq(Int) /\ <<Head(q)>> \o Tail(q) = q
<1> DEFINE r == <<Head(q)>> \o Tail(q)
<1>1. /\ Head(q) \in Int /\ Tail(q) \in Seq(Int) /\ Len(Tail(q)) = Len(q) - 1
      /\ \A i \in 1..Len(Tail(q)) : Tail(q)[i] = q[i + 1]
      /\ Head(q) = q[1] /\ Len(q) \in Nat /\ Len(q) # 0
  BY HeadTailProperties, LenProperties, EmptySeq
<1>2. /\ <<Head(q)>> \in Seq(Int) /\ Len(<<Head(q)>>) = 1 /\ <<Head(q)>>[1] = Head(q)
  BY <1>1
<1>3. /\ r \in Seq(Int) /\ Len(r) = 1 + Len(Tail(q))
      /\ \A i \in 1..(1 + Len(Tail(q))) :
           r[i] = IF i <= 1 THEN <<Head(q)>>[i] ELSE Tail(q)[i - 1]
  BY <1>1, <1>2, ConcatProperties
<1> HIDE DEF r
<1>4. Len(r) = Len(q)
  BY <1>1, <1>3
<1>5. ASSUME NEW i \in 1..Len(q) PROVE r[i] = q[i]
  <2>1. CASE i = 1
    BY <1>1, <1>2, <1>3, <2>1
  <2>2. CASE i # 1
    <3>1. /\ i \in 1..(1 + Len(Tail(q))) /\ ~(i <= 1)
          /\ i - 1 \in 1..Len(Tail(q)) /\ (i - 1) + 1 = i
      BY <1>1, <2>2
    <3> QED BY <1>1, <1>3, <3>1
  <2> QED BY <2>1, <2>2
<1>6. r = q
  BY <1>3, <1>4, <1>5, SeqEqual
<1> QED BY <1>1, <1>6 DEF r

-------------------------------------------------------------------------------
(* Nobody is sent a version from before the last one *)

LEMMA LineTypes ==
  ASSUME TypeOK, NEW t \in Subs
  PROVE  /\ first[t] - 1 \in Int /\ Fanned + 1 \in Int /\ writer[t].version \in Int
         /\ seen[t] \in Seq(Int) /\ Hand(t) \in Seq(Int) /\ queue[t]["chunk"] \in Seq(Int)
<1>1. first[t] \in Nat /\ version \in Nat /\ writer[t].version \in Nat
  BY DEF TypeOK, WriterState
<1>2. seen[t] \in Seq(Nat) /\ queue[t]["chunk"] \in Seq(Nat)
  BY KindsAssumption DEF TypeOK
<1>3. Hand(t) \in Seq(Int)
  BY <1>1, EmptySeq DEF Hand
<1>4. seen[t] \in Seq(Int) /\ queue[t]["chunk"] \in Seq(Int)
  BY <1>2, SeqMonotonic
<1>5. Fanned + 1 \in Int
  BY <1>1 DEF Fanned
<1> QED BY <1>1, <1>3, <1>4, <1>5

\* What Line(t) speaks of.
LEMMA LineFrame ==
  ASSUME NEW t \in Subs, Fanned' = Fanned, first'[t] = first[t], seen'[t] = seen[t],
         writer'[t] = writer[t], queue'[t]["chunk"] = queue[t]["chunk"]
  PROVE  Line(t)' = Line(t)
BY DEF Line, Hand, InHand

\* A message changes its place in the line when the writer takes it or has
\* sent it.
LEMMA WriteKeepsLine ==
  ASSUME TypeOK, NEW s \in Subs, NEW t \in Subs,
         (\E k \in Kinds : Dequeue(s, k)) \/ WriteMessage(s)
  PROVE  Line(t)' = Line(t)
<1> DEFINE a == <<first[t] - 1>>
           p == seen[t]
           q == queue[t]["chunk"]
           b == <<Fanned + 1>>
<1>1. /\ a \in Seq(Int) /\ p \in Seq(Int) /\ q \in Seq(Int) /\ writer[t].version \in Int
      /\ a \o p \in Seq(Int)
  BY LineTypes, Singles, ConcatElements
<1>2. first' = first /\ Fanned' = Fanned
  BY DEF Dequeue, WriteMessage, server, Fanned
<1>3. ASSUME NEW k \in Kinds, Dequeue(s, k) PROVE Line(t)' = Line(t)
  <2>1. CASE t # s \/ k # "chunk"
    <3>1. seen' = seen /\ queue'[t]["chunk"] = queue[t]["chunk"] /\ Hand(t)' = Hand(t)
      BY <1>3, <2>1 DEF Dequeue, Hand, InHand, TypeOK
    <3> QED BY <1>2, <3>1 DEF Line
  <2>2. CASE t = s /\ k = "chunk"
    <3>1. seen' = seen /\ queue'[t]["chunk"] = Tail(q) /\ Hand(t) = <<>>
          /\ Hand(t)' = <<Head(q)>> /\ q # <<>>
      BY <1>3, <2>2 DEF Dequeue, Hand, InHand, TypeOK
    <3>2. <<Head(q)>> \in Seq(Int) /\ Tail(q) \in Seq(Int) /\ <<Head(q)>> \o Tail(q) = q
      BY <1>1, <3>1, HeadAndTail, Singles
    <3>3. a \o p \o <<>> = a \o p
      BY <1>1, ConcatEmptySeq
    <3>4. (a \o p \o <<Head(q)>>) \o Tail(q) = a \o p \o q
      <4>1. \A x \in Seq(Int) : (x \o <<Head(q)>>) \o Tail(q) = x \o q
        <5> SUFFICES ASSUME NEW x \in Seq(Int) PROVE (x \o <<Head(q)>>) \o Tail(q) = x \o q
          OBVIOUS
        <5>1. (x \o <<Head(q)>>) \o Tail(q) = x \o (<<Head(q)>> \o Tail(q))
          BY <3>2, Regroup, Zenon
        <5> QED BY <3>2, <5>1
      <4> QED BY <1>1, <4>1, Zenon
    <3>5. Line(t) = a \o p \o <<>> \o q \o b
      BY <3>1 DEF Line
    <3>6. Line(t)' = a \o p \o <<Head(q)>> \o Tail(q) \o b
      BY <1>2, <3>1 DEF Line
    <3> QED BY <3>3, <3>4, <3>5, <3>6
  <2> QED BY <2>1, <2>2
<1>4. CASE WriteMessage(s)
  <2>1. CASE t # s \/ writer[s].kind # "chunk"
    <3>1. seen'[t] = seen[t] /\ queue' = queue /\ Hand(t)' = Hand(t)
      BY <1>4, <2>1 DEF WriteMessage, Selecting, Idle, Hand, InHand, TypeOK
    <3> QED BY <1>2, <3>1 DEF Line
  <2>2. CASE t = s /\ writer[s].kind = "chunk"
    <3> DEFINE w == writer[t].version
    <3>1. seen'[t] = Append(p, w) /\ queue' = queue /\ Hand(t) = <<w>> /\ Hand(t)' = <<>>
      BY <1>4, <2>2 DEF WriteMessage, Selecting, Idle, Hand, InHand, TypeOK
    <3>2. Append(p, w) = p \o <<w>> /\ <<w>> \in Seq(Int)
      BY <1>1, AppendIsConcat, Singles
    <3>3. a \o (p \o <<w>>) = (a \o p) \o <<w>> /\ p \o <<w>> \in Seq(Int)
      <4> HIDE DEF a, p, w
      <4>1. a \o (p \o <<w>>) = (a \o p) \o <<w>>
        <5>1. \A c \in Seq(Int) : (a \o p) \o c = a \o (p \o c)
          BY <1>1, Regroup
        <5> QED BY <3>2, <5>1
      <4>2. p \o <<w>> \in Seq(Int)
        BY <1>1, <3>2, ConcatElements, Zenon
      <4> QED BY <4>1, <4>2, Zenon
    <3>4. (a \o (p \o <<w>>)) \o <<>> = a \o (p \o <<w>>)
      BY <1>1, <3>3, ConcatElements, ConcatEmptySeq
    <3>5. Line(t) = a \o p \o <<w>> \o q \o b
      BY <3>1 DEF Line
    <3>6. Line(t)' = a \o (p \o <<w>>) \o <<>> \o q \o b
      <4>1. queue'[t]["chunk"] = q /\ seen'[t] = p \o <<w>>
        BY <3>1, <3>2
      <4>2. Line(t)' = a \o seen'[t] \o Hand(t)' \o queue'[t]["chunk"] \o b
        BY <1>2 DEF Line
      <4> QED BY <3>1, <4>1, <4>2
    <3> QED BY <3>3, <3>4, <3>5, <3>6
  <2> QED BY <2>1, <2>2
<1> QED BY <1>3, <1>4

\* What a writer leaves behind, it leaves out.
LEMMA LineShortened ==
  ASSUME TypeOK, NEW t \in Subs, Rising(Line(t)),
         Fanned' = Fanned, first'[t] = first[t], seen'[t] = seen[t], Hand(t)' = <<>>,
         queue'[t]["chunk"] \in {queue[t]["chunk"], <<>>}
  PROVE  Rising(Line(t))'
<1>1. <<>> \in Seq(Int) /\ Rising(<<>>) /\ \A p : Below(<<>>, p) /\ Below(p, <<>>)
  BY Nothing
<1>2. PICK q \in {queue[t]["chunk"], <<>>} : q = queue'[t]["chunk"]
  OBVIOUS
<1>3. q \in Seq(Int)
  BY <1>1, LineTypes
<1>4. Line(t)' = <<first[t] - 1>> \o seen[t] \o <<>> \o q \o <<Fanned + 1>>
  BY <1>2 DEF Line
<1> DEFINE p == seen[t]
           h == Hand(t)
           w == queue[t]["chunk"]
           a == first[t] - 1
           b == Fanned + 1
<1>5. a \in Int /\ b \in Int /\ p \in Seq(Int) /\ h \in Seq(Int) /\ w \in Seq(Int)
  BY LineTypes
<1>6. Aligned(a, p, h, w, b)
  BY <1>5, RisingLine DEF Line
<1> HIDE DEF p, h, w, a, b
<1>7. Aligned(a, p, <<>>, w, b) /\ Aligned(a, p, <<>>, <<>>, b)
  BY <1>1, <1>6 DEF Aligned
<1>8. Rising(<<a>> \o p \o <<>> \o q \o <<b>>)
  <2>1. Aligned(a, p, <<>>, q, b)
    BY <1>2, <1>7 DEF w
  <2> QED BY <1>1, <1>3, <1>5, <2>1, RisingLine, Zenon
<1> QED BY <1>4, <1>8 DEF p, a, b

\* A version that is broadcast is above all there is, whether it finds room in
\* the queue or not.
LEMMA LineLengthened ==
  ASSUME TypeOK, NEW t \in Subs, Rising(Line(t)),
         Fanned' = Fanned + 1, first'[t] = first[t], seen'[t] = seen[t],
         writer'[t] = writer[t],
         queue'[t]["chunk"] \in {queue[t]["chunk"], Append(queue[t]["chunk"], Fanned + 1)}
  PROVE  Rising(Line(t))'
<1> DEFINE b == Fanned + 1
           x == <<first[t] - 1>> \o seen[t] \o Hand(t)
           w == queue[t]["chunk"]
           l == x \o w
<1>1. b \in Int /\ b + 1 \in Int /\ x \in Seq(Int) /\ w \in Seq(Int) /\ l \in Seq(Int)
  BY LineTypes, Singles, ConcatElements
<1>2. /\ <<b>> \in Seq(Int) /\ <<b>>[1] = b /\ DOMAIN <<b>> = {1} /\ Rising(<<b>>)
      /\ <<b + 1>> \in Seq(Int) /\ <<b + 1>>[1] = b + 1 /\ DOMAIN <<b + 1>> = {1}
      /\ Rising(<<b + 1>>)
  BY <1>1, Singles
<1>3. Rising(l) /\ Below(l, <<b>>)
  BY <1>1, <1>2, RisingConcat DEF Line
<1>4. Line(t)' = x \o queue'[t]["chunk"] \o <<b + 1>>
  BY DEF Line, Hand, InHand
<1> HIDE DEF x, b, w
<1>5. Below(l, <<b + 1>>)
  <2>1. ASSUME NEW i \in DOMAIN l PROVE l[i] < b + 1
    <3>1. l[i] \in Int
      BY <1>1, ElementOfSeq, LenProperties
    <3>2. l[i] < b
      BY <1>2, <1>3 DEF Below
    <3> QED BY <1>1, <3>1, <3>2
  <2> QED BY <1>2, <2>1 DEF Below
<1>6. Below(<<b>>, <<b + 1>>)
  BY <1>1, <1>2 DEF Below
<1>7. Rising(l \o <<b + 1>>)
  BY <1>1, <1>2, <1>3, <1>5, RisingConcat
<1>8. Rising((l \o <<b>>) \o <<b + 1>>)
  <2>1. l \o <<b>> \in Seq(Int) /\ Rising(l \o <<b>>)
    BY <1>1, <1>2, <1>3, RisingConcat, ConcatElements
  <2>2. Below(l \o <<b>>, <<b + 1>>)
    BY <1>1, <1>2, <1>5, <1>6, BelowConcat
  <2> QED BY <1>2, <2>1, <2>2, RisingConcat
<1>9. x \o Append(w, b) = l \o <<b>>
  <2>1. Append(w, b) = w \o <<b>>
    BY <1>1, AppendIsConcat
  <2>2. <<b>> \in Seq(Int)
    BY <1>1, Singles
  <2>3. (x \o w) \o <<b>> = x \o (w \o <<b>>)
    <3>1. \A c \in Seq(Int) : (x \o w) \o c = x \o (w \o c)
      BY <1>1, Regroup
    <3> QED BY <2>2, <3>1
  <2> QED BY <1>2, <2>1, <2>3
<1> QED BY <1>4, <1>7, <1>8, <1>9 DEF b, w

\* What the loop of broadcastMessage does to a line.
LEMMA BroadcastLine ==
  ASSUME HubInv, NEW s \in Subs, NEW t \in Subs, Rising(Line(t)), Broadcast(s)
  PROVE  Rising(Line(t))'
<1> DEFINE k == reader[s].kind
           m == reader[s].version
<1>1. first' = first /\ seen' = seen /\ writer' = writer /\ version' = version
  BY DEF Broadcast
<1>2. k \in Kinds /\ queue[t] \in [Kinds -> Seq(Nat)] /\ "chunk" \in Kinds
  BY KindsAssumption DEF HubInv, TypeOK, ReaderState
<1>3. queue'[t] = queue[t] \/ queue'[t] = [queue[t] EXCEPT ![k] = Append(@, m)]
  BY DEF Broadcast, Send
<1>4. CASE k = "chunk"
  <2>1. mut = s /\ m = version /\ version # 0 /\ mut' = NoSub /\ mut # NoSub
    BY <1>4, SubsAssumption DEF HubInv, HeldByPublisher, Broadcast, HandlerReturns
  <2>2. version \in Nat
    BY DEF HubInv, TypeOK
  <2>3. Fanned' = Fanned + 1 /\ m = Fanned + 1
    BY <1>1, <2>1, <2>2 DEF Fanned
  <2>4. queue'[t]["chunk"] \in {queue[t]["chunk"], Append(queue[t]["chunk"], m)}
    BY <1>2, <1>3, <1>4
  <2> QED BY <1>1, <2>3, <2>4, LineLengthened DEF HubInv
<1>5. CASE k # "chunk"
  <2>1. mut # s
    BY <1>5 DEF HubInv, HeldByPublisher
  <2>2. Fanned' = Fanned
    BY <1>1, <2>1 DEF Broadcast, HandlerReturns, Fanned
  <2>3. queue'[t]["chunk"] = queue[t]["chunk"]
    BY <1>2, <1>3, <1>5
  <2>4. Line(t)' = Line(t)
    BY <1>1, <2>2, <2>3, LineFrame
  <2> QED BY <2>4 DEF Rising
<1> QED BY <1>4, <1>5

\* Between two versions that follow each other nothing is left out.
LEMMA EmptyLine ==
  ASSUME NEW n \in Int PROVE Rising(<<n>> \o <<>> \o <<>> \o <<>> \o <<n + 1>>)
<1> DEFINE none == <<>>
           next == n + 1
<1>1. /\ DOMAIN <<n>> = {1} /\ DOMAIN <<next>> = {1} /\ next \in Int
      /\ <<n>>[1] = n /\ <<next>>[1] = next /\ n < next
  BY Singles
<1>2. none \in Seq(Int) /\ Rising(none) /\ \A p : Below(none, p) /\ Below(p, none)
  BY Nothing
<1> HIDE DEF none, next
<1>3. Aligned(n, none, none, none, next)
  <2>1. Below(<<n>>, <<next>>)
    BY <1>1 DEF Below
  <2> QED BY <1>2, <2>1 DEF Aligned
<1>4. Rising(<<n>> \o none \o none \o none \o <<next>>)
  BY <1>1, <1>2, <1>3, RisingLine
<1> QED BY <1>4 DEF none, next

\* A client that joins begins at the version to come.
LEMMA NewLine ==
  ASSUME HubInv, NEW s \in Subs, NEW t \in Subs, Rising(Line(t)), AddSubscriber(s)
  PROVE  Rising(Line(t))'
<1>1. Fanned' = Fanned /\ seen' = seen /\ queue' = queue
  BY DEF AddSubscriber, server, Fanned
<1>2. CASE t = s
  <2>1. seen'[t] = <<>> /\ queue'[t]["chunk"] = <<>>
    BY <1>1, <1>2 DEF AddSubscriber, HubInv, NothingYet
  <2>2. first'[t] = Fanned + 1 /\ Hand(t)' = <<>>
    BY <1>2 DEF AddSubscriber, HubInv, TypeOK, Selecting, Idle, Hand, InHand
  <2>3. PICK n \in Int : n = Fanned
    BY DEF HubInv, TypeOK, Fanned
  <2>4. Line(t)' = <<n>> \o <<>> \o <<>> \o <<>> \o <<n + 1>>
    BY <1>1, <2>1, <2>2, <2>3 DEF Line
  <2>5. Rising(<<n>> \o <<>> \o <<>> \o <<>> \o <<n + 1>>)
    BY EmptyLine
  <2> QED BY <2>4, <2>5 DEF Rising
<1>3. CASE t # s
  <2>1. first'[t] = first[t] /\ writer'[t] = writer[t]
    BY <1>3 DEF AddSubscriber, HubInv, TypeOK
  <2>2. Line(t)' = Line(t)
    BY <1>1, <2>1, LineFrame
  <2> QED BY <2>2 DEF Rising
<1> QED BY <1>2, <1>3

\* A writer that returns, or drops a message it could not send.
LEMMA LeavingLine ==
  ASSUME TypeOK, NEW s \in Subs, NEW t \in Subs, Rising(Line(t)), WriteFails(s) \/ WriterEnds(s)
  PROVE  Rising(Line(t))'
<1>1. Fanned' = Fanned /\ first' = first /\ seen' = seen
  BY DEF WriteFails, WriterEnds, server, Fanned
<1>2. CASE t = s
  <2>1. Hand(t)' = <<>> /\ queue'[t]["chunk"] \in {queue[t]["chunk"], <<>>}
    BY <1>2, KindsAssumption
       DEF WriteFails, WriterEnds, WriterReturns, Selecting, Idle, Hand, InHand, TypeOK
  <2> QED BY <1>1, <2>1, LineShortened
<1>3. CASE t # s
  <2>1. writer'[t] = writer[t] /\ queue'[t] = queue[t]
    BY <1>3 DEF WriteFails, WriterEnds, WriterReturns, TypeOK
  <2>2. Line(t)' = Line(t)
    BY <1>1, <2>1, LineFrame
  <2> QED BY <2>2 DEF Rising
<1> QED BY <1>2, <1>3

\* No step makes a line fall.
LEMMA NeverBackStep ==
  ASSUME HubInv, NeverBack, [Next]_vars PROVE NeverBack'
<1> SUFFICES ASSUME NEW t \in Subs PROVE Rising(Line(t))'
  BY DEF NeverBack
<1>0. Rising(Line(t))
  BY DEF NeverBack
<1>1. ASSUME NEW s \in Subs, Broadcast(s) PROVE Rising(Line(t))'
  BY <1>0, <1>1, BroadcastLine
<1>2. ASSUME NEW s \in Subs, AddSubscriber(s) PROVE Rising(Line(t))'
  BY <1>0, <1>2, NewLine
<1>3. ASSUME NEW s \in Subs, WriteFails(s) \/ WriterEnds(s) PROVE Rising(Line(t))'
  BY <1>0, <1>3, LeavingLine DEF HubInv
<1>4. ASSUME NEW s \in Subs, (\E k \in Kinds : Dequeue(s, k)) \/ WriteMessage(s)
      PROVE  Rising(Line(t))'
  <2>1. Line(t)' = Line(t)
    BY <1>4, WriteKeepsLine DEF HubInv
  <2> QED BY <1>0, <2>1 DEF Rising
<1>5. ASSUME NEW s \in Subs, HandleChunk(s) PROVE Rising(Line(t))'
  <2>1. Line(t)' = Line(t)
    BY <1>5, AcceptedNotFanned, LineFrame DEF HandleChunk, conns, HubInv
  <2> QED BY <1>0, <2>1 DEF Rising
<1>6. ASSUME NEW s \in Subs, \/ Subscribe(s) \/ ListenReturns(s) \/ ReaderEnds(s)
                             \/ (\E k \in Kinds : HandleOther(s, k))
                             \/ CloseSlow(s) \/ Disconnect(s)
      PROVE  Rising(Line(t))'
  <2>1. UNCHANGED <<mut, version, first, seen, writer, queue>>
    BY <1>6 DEF Subscribe, ListenReturns, ReaderEnds, HandleOther, CloseSlow, Disconnect,
                server, conns
  <2>2. Line(t)' = Line(t)
    BY <2>1, LineFrame DEF Fanned
  <2> QED BY <1>0, <2>2 DEF Rising
<1>7. ASSUME Stop \/ UNCHANGED vars PROVE Rising(Line(t))'
  <2>1. UNCHANGED <<mut, version, first, seen, writer, queue>>
    BY <1>7 DEF Stop, vars, server, conns
  <2>2. Line(t)' = Line(t)
    BY <2>1, LineFrame DEF Fanned
  <2> QED BY <1>0, <2>2 DEF Rising
<1> QED
  BY <1>1, <1>2, <1>3, <1>4, <1>5, <1>6, <1>7 DEF Next, Write

\* Whatever a full queue, a writer that fails or a stop has dropped, no client
\* is sent a version twice, out of order or from before it joined.
THEOREM ClientsNeverGoBack == Spec => []NeverBack
<1>1. Init => NeverBack
  <2> SUFFICES ASSUME Init, NEW t \in Subs PROVE Rising(Line(t))
    BY DEF NeverBack
  <2>1. Line(t) = <<0>> \o <<>> \o <<>> \o <<>> \o <<0 + 1>>
    BY SubsAssumption, KindsAssumption DEF Init, Line, Hand, InHand, Fanned, Idle
  <2> QED BY <2>1, EmptyLine
<1>2. HubInv /\ NeverBack /\ [Next]_vars => NeverBack'
  BY NeverBackStep
<1> QED
  BY <1>1, <1>2, HubInvariant, PTL DEF Spec

-------------------------------------------------------------------------------
(* The steps of Feed *)

\* How the goroutines of a connection and its WebSocket end together, and where
\* a connection that was stopped stands.
EndsInv ==
  \A s \in Subs :
    /\ handler[s].pc = "add" => connected[s]
    /\ handler[s].pc # "none" => link[s] # "none"
    /\ handler[s].pc \in {"listen", "returned"} /\ ~connected[s] => link[s] = "shut"
    /\ s \in members => handler[s].pc = "listen"
    /\ first[s] # 0

\* A handler that has returned leaves a writer that still sends what is queued:
\* without a gap, up to the version at which it was forgotten.
LeftInv ==
  \A s \in Subs :
    handler[s].pc = "returned" /\ connected[s] /\ link[s] # "shut" /\ s \notin closers =>
      \E last \in 0..Fanned : Gapless(s, last)

FeedInv == HubInv /\ NeverBack /\ EndsInv /\ LeftInv

LEMMA FannedType == ASSUME HubInv PROVE Fanned \in Nat
<1>1. version \in Nat /\ (mut # NoSub => version # 0)
  BY DEF HubInv, TypeOK, HeldByPublisher
<1> QED BY <1>1 DEF Fanned

LEMMA EndsStep == ASSUME HubInv, EndsInv, [Next]_vars PROVE EndsInv'
<1>0. TypeOK /\ OneRoom /\ Fanned \in Nat
  BY FannedType DEF HubInv
<1>1. ASSUME NEW s \in Subs, Subscribe(s) PROVE EndsInv'
  <2>1. /\ handler'[s].pc = "add" /\ connected'[s] /\ link'[s] = "open" /\ s \notin members
        /\ UNCHANGED <<members, first>>
    BY <1>0, <1>1 DEF TypeOK, Subscribe, EndsInv
  <2>2. \A t \in Subs \ {s} :
          handler'[t] = handler[t] /\ connected'[t] = connected[t] /\ link'[t] = link[t]
    BY <1>0, <1>1 DEF TypeOK, Subscribe
  <2> QED BY <2>1, <2>2 DEF EndsInv
<1>2. ASSUME NEW s \in Subs, AddSubscriber(s) PROVE EndsInv'
  <2>1. /\ handler[s].pc = "add" /\ handler'[s].pc = "listen" /\ connected'[s] /\ first'[s] # 0
        /\ members' = members \cup {s} /\ UNCHANGED <<connected, link>>
    BY <1>0, <1>2 DEF TypeOK, AddSubscriber, EndsInv
  <2>2. \A t \in Subs \ {s} : handler'[t] = handler[t] /\ first'[t] = first[t]
    BY <1>0, <1>2 DEF TypeOK, AddSubscriber
  <2> QED BY <2>1, <2>2 DEF EndsInv
<1>3. ASSUME NEW s \in Subs, ListenReturns(s) PROVE EndsInv'
  <2>1. /\ handler'[s].pc = "returned" /\ handler[s].pc = "listen"
        /\ members' = members \ {s} /\ UNCHANGED <<connected, link, first>>
    BY <1>0, <1>3 DEF TypeOK, OneRoom, ListenReturns, conns
  <2>2. \A t \in Subs \ {s} : handler'[t] = handler[t]
    BY <1>0, <1>3 DEF TypeOK, ListenReturns
  <2> QED BY <2>1, <2>2 DEF EndsInv
<1>4. ASSUME NEW s \in Subs, HandleChunk(s) \/ (\E k \in Kinds : HandleOther(s, k))
      PROVE  EndsInv'
  BY <1>4 DEF HandleChunk, HandleOther, conns, EndsInv
<1>5. ASSUME NEW s \in Subs, Broadcast(s) PROVE EndsInv'
  BY <1>5 DEF Broadcast, EndsInv
<1>6. ASSUME NEW s \in Subs, ReaderEnds(s) PROVE EndsInv'
  <2>1. handler[s].pc # "add"
    BY <1>6 DEF ReaderEnds, HubInv, NothingYet
  <2> QED BY <1>0, <1>6, <2>1 DEF TypeOK, ReaderEnds, Shut, server, EndsInv
<1>7. ASSUME NEW s \in Subs, Write(s) \/ WriterEnds(s) PROVE EndsInv'
  <2>1. handler[s].pc # "add"
    BY <1>7 DEF Write, Dequeue, WriteMessage, WriteFails, WriterEnds, HubInv, NothingYet
  <2>2. UNCHANGED <<members, handler, first>>
    BY <1>7 DEF Write, Dequeue, WriteMessage, WriteFails, WriterEnds
  <2>3. \/ UNCHANGED <<connected, link>>
        \/ link' = [link EXCEPT ![s] = "shut"]
           /\ (connected' = connected \/ connected' = [connected EXCEPT ![s] = FALSE])
    BY <1>7 DEF Write, Dequeue, WriteMessage, WriteFails, WriterEnds, WriterReturns, Shut
  <2> QED BY <1>0, <2>1, <2>2, <2>3 DEF TypeOK, EndsInv
<1>8. ASSUME NEW s \in Subs, CloseSlow(s) \/ Disconnect(s) PROVE EndsInv'
  BY <1>0, <1>8 DEF TypeOK, CloseSlow, Disconnect, Shut, EndsInv
<1>9. ASSUME Stop \/ UNCHANGED vars PROVE EndsInv'
  BY <1>9 DEF Stop, vars, conns, EndsInv
<1> QED
  BY <1>1, <1>2, <1>3, <1>4, <1>5, <1>6, <1>7, <1>8, <1>9 DEF Next

LEMMA LeftStep == ASSUME HubInv, EndsInv, LeftInv, [Next]_vars PROVE LeftInv'
<1> SUFFICES ASSUME NEW t \in Subs, handler'[t].pc = "returned", connected'[t],
                    link'[t] # "shut", t \notin closers'
             PROVE  (\E last \in 0..Fanned : Gapless(t, last))'
  BY DEF LeftInv
<1>0. TypeOK /\ Fanned \in Nat
  BY FannedType DEF HubInv
\* Whoever stays where it was.
<1>a. ASSUME handler[t].pc = "returned", connected[t], link[t] # "shut", t \notin closers,
             Fanned' \in Nat, Fanned <= Fanned', first'[t] = first[t],
             \/ /\ seen'[t] = seen[t] /\ writer'[t] = writer[t]
                /\ queue'[t]["chunk"] = queue[t]["chunk"]
             \/ \E s \in Subs : (\E k \in Kinds : Dequeue(s, k)) \/ WriteMessage(s)
      PROVE  (\E last \in 0..Fanned : Gapless(t, last))'
  <2>1. PICK last \in 0..Fanned : Gapless(t, last)
    BY <1>a DEF LeftInv
  <2>2. last \in 0..Fanned' /\ last \in Int
    BY <1>0, <1>a, <2>1
  <2>3. Gapless(t, last)'
    BY <1>0, <1>a, <2>1, <2>2, GaplessFrame, WriteGapless
  <2> QED BY <2>2, <2>3
<1>1. ASSUME NEW s \in Subs, Subscribe(s) \/ AddSubscriber(s)
      PROVE  (\E last \in 0..Fanned : Gapless(t, last))'
  <2>1. t # s
    <3>1. handler'[s].pc \in {"add", "listen"}
      BY <1>0, <1>1 DEF TypeOK, HandlerState, Subscribe, AddSubscriber
    <3> QED BY <3>1
  <2>2. handler'[t] = handler[t] /\ connected'[t] = connected[t] /\ link'[t] = link[t]
        /\ closers' = closers /\ Fanned' = Fanned /\ first'[t] = first[t]
        /\ seen' = seen /\ writer'[t] = writer[t] /\ queue' = queue
    BY <1>0, <1>1, <2>1 DEF TypeOK, Subscribe, AddSubscriber, server, Fanned
  <2> QED BY <1>0, <1>a, <2>2
<1>2. ASSUME NEW s \in Subs, ListenReturns(s)
      PROVE  (\E last \in 0..Fanned : Gapless(t, last))'
  <2>1. UNCHANGED <<mut, version, connected, link, closers, queue, first, seen, writer>>
    BY <1>2 DEF ListenReturns, server, conns
  <2>2. Fanned' = Fanned
    BY <2>1 DEF Fanned
  <2>3. CASE t = s
    <3>1. Following(t)
      <4>1. handler[t].pc = "listen" /\ link[t] # "none"
        BY <1>2, <2>3 DEF ListenReturns, EndsInv
      <4> QED BY <2>1, <4>1, <1>0 DEF Following, TypeOK
    <3>2. PICK last \in 0..Fanned : last = Fanned /\ Gapless(t, last)
      BY <1>0, <3>1 DEF HubInv, MissesNothing, NothingMissed
    <3>3. Gapless(t, last)'
      BY <2>1, <3>2, GaplessFrame
    <3> QED BY <2>2, <3>2, <3>3
  <2>4. CASE t # s
    <3>1. handler'[t] = handler[t]
      BY <1>0, <1>2, <2>4 DEF TypeOK, ListenReturns
    <3> QED BY <1>0, <1>a, <2>1, <2>2, <3>1
  <2> QED BY <2>3, <2>4
<1>3. ASSUME NEW s \in Subs, HandleChunk(s) \/ (\E k \in Kinds : HandleOther(s, k))
      PROVE  (\E last \in 0..Fanned : Gapless(t, last))'
  <2>1. Fanned' = Fanned
    BY <1>0, <1>3, AcceptedNotFanned DEF HandleOther, Fanned
  <2> QED BY <1>0, <1>a, <1>3, <2>1 DEF HandleChunk, HandleOther, conns
<1>4. ASSUME NEW s \in Subs, Broadcast(s) PROVE (\E last \in 0..Fanned : Gapless(t, last))'
  <2>1. /\ UNCHANGED <<version, handler, writer, connected, link, first, seen>>
        /\ closers \subseteq closers'
    BY <1>4 DEF Broadcast
  <2>2. t \notin members
    BY <2>1 DEF EndsInv
  <2>3. queue'[t] = queue[t]
    BY <1>4, <2>2 DEF Broadcast, Send, For, InRoom
  <2>4. Fanned' \in Nat /\ Fanned <= Fanned'
    <3>1. version \in Nat /\ (mut' = mut \/ mut' = NoSub)
      BY <1>0, <1>4 DEF TypeOK, Broadcast, HandlerReturns
    <3> QED BY <1>0, <2>1, <3>1 DEF Fanned
  <2> QED BY <1>a, <2>1, <2>3, <2>4
<1>5. ASSUME NEW s \in Subs, \/ ReaderEnds(s) \/ WriteFails(s) \/ WriterEnds(s)
                             \/ CloseSlow(s) \/ Disconnect(s)
      PROVE  (\E last \in 0..Fanned : Gapless(t, last))'
  <2>1. link' = [link EXCEPT ![s] = "shut"] /\ closers' = closers \ {s}
    BY <1>5 DEF ReaderEnds, WriteFails, WriterEnds, CloseSlow, Disconnect, Shut
  <2>2. t # s
    BY <1>0, <2>1 DEF TypeOK
  <2>3. /\ UNCHANGED <<mut, version, handler, first, seen>>
        /\ connected'[t] = connected[t] /\ writer'[t] = writer[t] /\ queue'[t] = queue[t]
    BY <1>0, <1>5, <2>2 DEF TypeOK, ReaderEnds, WriteFails, WriterEnds, WriterReturns,
                            CloseSlow, Disconnect, server
  <2>4. link'[t] = link[t] /\ t \notin closers /\ Fanned' = Fanned
    BY <1>0, <2>1, <2>2, <2>3 DEF TypeOK, Fanned
  <2> QED BY <1>0, <1>a, <2>3, <2>4
<1>6. ASSUME NEW s \in Subs, (\E k \in Kinds : Dequeue(s, k)) \/ WriteMessage(s)
      PROVE  (\E last \in 0..Fanned : Gapless(t, last))'
  <2>1. UNCHANGED <<mut, version, handler, connected, link, closers, first>>
    BY <1>6 DEF Dequeue, WriteMessage, server
  <2>2. Fanned' = Fanned
    BY <2>1 DEF Fanned
  <2> QED BY <1>0, <1>a, <1>6, <2>1, <2>2
<1>7. ASSUME Stop \/ UNCHANGED vars PROVE (\E last \in 0..Fanned : Gapless(t, last))'
  <2>1. UNCHANGED <<mut, version, handler, writer, connected, link, closers, queue, first, seen>>
    BY <1>7 DEF Stop, vars, server, conns
  <2>2. Fanned' = Fanned
    BY <2>1 DEF Fanned
  <2> QED BY <1>0, <1>a, <2>1, <2>2
<1> QED
  BY <1>1, <1>2, <1>3, <1>4, <1>5, <1>6, <1>7 DEF Next, Write

\* What Status(s) comes from.
StatusIs(s) ==
  /\ handler[s].pc \in {"none", "add", "listen", "returned"}
  /\ handler[s].pc \in {"none", "add"} => Status(s) = "away"
  /\ handler[s].pc \in {"listen", "returned"} =>
       Status(s) = IF ~connected[s] THEN "ended"
                   ELSE IF link[s] = "shut" \/ s \in closers THEN "doomed" ELSE "following"

LEMMA StatusCases == TypeOK => \A s \in Subs : StatusIs(s)
<1> SUFFICES ASSUME TypeOK, NEW s \in Subs PROVE StatusIs(s)
  OBVIOUS
<1>1. handler[s].pc \in {"none", "add", "listen", "returned"}
  BY DEF TypeOK, HandlerState
<1>2. CASE handler[s].pc \in {"none", "add"}
  BY <1>2 DEF Status, StatusIs
<1>3. CASE handler[s].pc \in {"listen", "returned"} /\ ~connected[s]
  BY <1>3 DEF Status, StatusIs
<1>4. CASE handler[s].pc \in {"listen", "returned"} /\ connected[s]
  BY <1>4 DEF Status, StatusIs
<1> QED BY <1>1, <1>2, <1>3, <1>4

\* Before a step and after it.
LEMMA StatusBeforeAndAfter ==
  TypeOK /\ TypeOK' => \A s \in Subs : StatusIs(s) /\ StatusIs(s)'
<1>1. (TypeOK => \A s \in Subs : StatusIs(s))'
  BY StatusCases, PTL
<1> QED BY StatusCases, <1>1

LEMMA StatusFrame ==
  ASSUME NEW s \in Subs, handler'[s] = handler[s], connected'[s] = connected[s],
         link'[s] = link[s], s \in closers' <=> s \in closers
  PROVE  Status(s)' = Status(s)
BY DEF Status

\* A step at which some may be given up, and no more happens to a connection.
Dropping == \A s \in Subs : \/ Status(s)' = Status(s)
                            \/ Status(s) = "following" /\ Status(s)' = "doomed"

LEMMA DroppingDrops == ASSUME Dropping PROVE F!Drop
<1> DEFINE slow == {s \in Subs : Status(s) = "following" /\ Status(s)' = "doomed"}
<1>1. ASSUME NEW s \in Subs PROVE Status(s)' = IF s \in slow THEN "doomed" ELSE Status(s)
  BY DEF Dropping
<1>2. [s \in Subs |-> Status(s)'] = [s \in Subs |-> IF s \in slow THEN "doomed" ELSE Status(s)]
  BY <1>1
<1>3. slow \in SUBSET {s \in Subs : Status(s) = "following"}
  OBVIOUS
<1> HIDE DEF slow
<1> QED BY <1>2, <1>3 DEF F!Drop

FeedStep == [F!Next]_(F!vars)

\* Nothing but the statuses changes.
Silent == Fanned' = Fanned /\ first' = first /\ seen' = seen

LEMMA QuietStep == ASSUME Silent, Dropping PROVE FeedStep
BY DroppingDrops DEF Silent, FeedStep, F!Next, F!GiveUp

LEMMA EndStep ==
  ASSUME Silent, NEW s \in Subs, Status(s) \in {"following", "doomed", "ended"},
         Status(s)' = "ended", \A t \in Subs \ {s} : Status(t)' = Status(t)
  PROVE  FeedStep
<1>1. CASE Status(s) = "ended"
  <2>1. Dropping
    BY <1>1 DEF Dropping
  <2> QED BY <2>1, QuietStep
<1>2. CASE Status(s) # "ended"
  <2> DEFINE st == [t \in Subs |-> Status(t)]
  <2>1. st[s] \in {"following", "doomed"}
    BY <1>2
  <2>2. [t \in Subs |-> Status(t)'] = [st EXCEPT ![s] = "ended"]
    OBVIOUS
  <2>3. F!End(s)
    BY <2>1, <2>2 DEF F!End, Silent
  <2> QED BY <2>3 DEF FeedStep, F!Next
<1> QED BY <1>1, <1>2

\* Actions of the hub at which nobody is sent anything.
LEMMA HiddenSteps ==
  ASSUME FeedInv, TypeOK', NEW s \in Subs,
         \/ Subscribe(s) \/ ListenReturns(s)
         \/ HandleChunk(s) \/ (\E k \in Kinds : HandleOther(s, k))
         \/ (\E k \in Kinds : Dequeue(s, k)) \/ CloseSlow(s) \/ Disconnect(s)
  PROVE  FeedStep
<1>0. TypeOK /\ \A t \in Subs : StatusIs(t) /\ StatusIs(t)'
  BY StatusBeforeAndAfter DEF FeedInv, HubInv
<1>1. Silent
  BY <1>0, AcceptedNotFanned
     DEF Silent, Subscribe, ListenReturns, HandleChunk, HandleOther, Dequeue, CloseSlow,
         Disconnect, server, conns, Fanned
<1>2. ASSUME Subscribe(s) \/ ListenReturns(s) PROVE Dropping
  <2>1. /\ \A t \in Subs \ {s} : /\ handler'[t] = handler[t] /\ connected'[t] = connected[t]
                                 /\ link'[t] = link[t]
        /\ closers' = closers
    BY <1>0, <1>2 DEF TypeOK, Subscribe, ListenReturns, conns
  <2>2. \A t \in Subs \ {s} : Status(t)' = Status(t)
    BY <2>1, StatusFrame
  <2>3. Status(s)' = Status(s)
    <3>1. CASE Subscribe(s)
      <4>1. handler[s].pc = "none" /\ handler'[s].pc = "add"
        BY <1>0, <3>1 DEF TypeOK, Subscribe
      <4> QED BY <1>0, <4>1 DEF StatusIs
    <3>2. CASE ListenReturns(s)
      <4>1. /\ handler[s].pc = "listen" /\ handler'[s].pc = "returned"
            /\ UNCHANGED <<connected, link, closers>>
        BY <1>0, <3>2 DEF TypeOK, HandlerState, ListenReturns, conns
      <4> QED BY <1>0, <4>1 DEF StatusIs
    <3> QED BY <1>2, <3>1, <3>2
  <2> QED BY <2>2, <2>3 DEF Dropping
<1>3. ASSUME \/ HandleChunk(s) \/ (\E k \in Kinds : HandleOther(s, k))
             \/ (\E k \in Kinds : Dequeue(s, k))
      PROVE  Dropping
  <2>1. UNCHANGED <<handler, connected, link, closers>>
    BY <1>3 DEF HandleChunk, HandleOther, Dequeue, conns
  <2>2. \A t \in Subs : Status(t)' = Status(t)
    BY <2>1, StatusFrame
  <2> QED BY <2>2 DEF Dropping
<1>4. ASSUME CloseSlow(s) \/ Disconnect(s) PROVE Dropping
  <2>1. /\ UNCHANGED <<handler, connected>> /\ link'[s] = "shut"
        /\ \A t \in Subs \ {s} : link'[t] = link[t] /\ (t \in closers' <=> t \in closers)
    BY <1>0, <1>4 DEF TypeOK, CloseSlow, Disconnect, Shut
  <2>2. \A t \in Subs \ {s} : Status(t)' = Status(t)
    BY <2>1, StatusFrame
  <2>3. Status(s)' = Status(s) \/ (Status(s) = "following" /\ Status(s)' = "doomed")
    BY <1>0, <2>1 DEF StatusIs
  <2> QED BY <2>2, <2>3 DEF Dropping
<1>5. Dropping
  BY <1>2, <1>3, <1>4
<1> QED BY <1>1, <1>5, QuietStep

\* The end of a reader or a writer, as seen by its client.
LEMMA EndingSteps ==
  ASSUME FeedInv, TypeOK', NEW s \in Subs, ReaderEnds(s) \/ WriteFails(s) \/ WriterEnds(s)
  PROVE  FeedStep
<1>0. TypeOK /\ \A t \in Subs : StatusIs(t) /\ StatusIs(t)'
  BY StatusBeforeAndAfter DEF FeedInv, HubInv
<1>1. Silent
  BY DEF Silent, ReaderEnds, WriteFails, WriterEnds, server, Fanned
<1>2. handler' = handler /\ handler[s].pc \in {"listen", "returned"}
  BY <1>0 DEF ReaderEnds, WriteFails, WriterEnds, FeedInv, HubInv, NothingYet, StatusIs
<1>3. /\ link'[s] = "shut" /\ \A t \in Subs \ {s} : /\ link'[t] = link[t]
                                                    /\ t \in closers' <=> t \in closers
      /\ connected' = connected \/ connected' = [connected EXCEPT ![s] = FALSE]
  <2>1. Shut(s)
    BY DEF ReaderEnds, WriteFails, WriterEnds
  <2>2. connected' = connected \/ connected' = [connected EXCEPT ![s] = FALSE]
    BY DEF ReaderEnds, WriteFails, WriterEnds, WriterReturns
  <2>3. link \in [Subs -> {"none", "open", "shut"}]
    BY <1>0 DEF TypeOK
  <2> QED BY <2>1, <2>2, <2>3 DEF Shut
<1>4. \A t \in Subs \ {s} : Status(t)' = Status(t)
  BY <1>0, <1>2, <1>3, StatusFrame DEF TypeOK
<1>5. CASE ~connected'[s]
  <2>1. Status(s)' = "ended" /\ Status(s) \in {"following", "doomed", "ended"}
    BY <1>0, <1>2, <1>5 DEF StatusIs
  <2> QED BY <1>1, <1>4, <2>1, EndStep
<1>6. CASE connected'[s]
  <2>1. connected[s]
    BY <1>0, <1>3, <1>6 DEF TypeOK
  <2>2. Status(s)' = "doomed" /\ Status(s) \in {"following", "doomed"}
    BY <1>0, <1>2, <1>3, <1>6, <2>1 DEF StatusIs
  <2>3. Dropping
    BY <1>4, <2>2 DEF Dropping
  <2> QED BY <1>1, <2>3, QuietStep
<1> QED BY <1>5, <1>6

\* addSubscriber is Join, with a connection that may be lost already.
LEMMA JoinStep ==
  ASSUME FeedInv, TypeOK', NEW s \in Subs, AddSubscriber(s) PROVE FeedStep
<1>0. TypeOK /\ \A t \in Subs : StatusIs(t) /\ StatusIs(t)'
  BY StatusBeforeAndAfter DEF FeedInv, HubInv
<1>1. /\ Fanned' = Fanned /\ seen' = seen /\ first' = [first EXCEPT ![s] = Fanned + 1]
      /\ UNCHANGED <<connected, link, closers>>
      /\ handler[s].pc = "add" /\ handler' = [handler EXCEPT ![s].pc = "listen"]
  BY DEF AddSubscriber, server, Fanned
<1>2. handler'[s].pc = "listen" /\ \A t \in Subs \ {s} : handler'[t] = handler[t]
  BY <1>0, <1>1 DEF TypeOK, HandlerState
<1>3. connected'[s]
  BY <1>1 DEF FeedInv, EndsInv
<1>4. Status(s) = "away" /\ Status(s)' \in {"following", "doomed"}
  BY <1>0, <1>1, <1>2, <1>3 DEF StatusIs
<1>5. \A t \in Subs \ {s} : Status(t)' = Status(t)
  BY <1>1, <1>2, StatusFrame
<1> DEFINE st == [t \in Subs |-> Status(t)]
<1>6. PICK new \in {"following", "doomed"} : new = Status(s)'
  BY <1>4
<1>7. [t \in Subs |-> Status(t)'] = [st EXCEPT ![s] = new]
  BY <1>5, <1>6
<1>8. F!Join(s)
  BY <1>1, <1>4, <1>7 DEF F!Join
<1> QED BY <1>8 DEF FeedStep, F!Next

\* A broadcast is Publish, or gives up those with no room for a message of
\* another kind.
LEMMA PublishStep ==
  ASSUME FeedInv, TypeOK', NEW s \in Subs, Broadcast(s) PROVE FeedStep
<1>0. TypeOK /\ HubInv /\ \A t \in Subs : StatusIs(t) /\ StatusIs(t)'
  BY StatusBeforeAndAfter DEF FeedInv, HubInv
<1> DEFINE k == reader[s].kind
<1>1. /\ UNCHANGED <<version, handler, connected, link, first, seen>>
      /\ closers' = closers \cup Slow(s, k)
  BY DEF Broadcast
<1>2. ASSUME NEW t \in Subs
      PROVE  Status(t)' = Status(t) \/ (Status(t) = "following" /\ Status(t)' = "doomed")
  <2>1. CASE t \notin Slow(s, k)
    BY <1>1, <2>1, StatusFrame
  <2>2. CASE t \in Slow(s, k)
    <3>1. connected[t] /\ handler[t].pc \in {"listen", "returned"}
      BY <1>0, <2>2 DEF Slow, For, InRoom, HubInv, Registered
    <3> QED BY <1>0, <1>1, <2>2, <3>1 DEF StatusIs
  <2> QED BY <2>1, <2>2
<1>3. Dropping
  BY <1>2 DEF Dropping
<1>4. CASE k = "chunk"
  <2>1. mut = s /\ version # 0 /\ mut' = NoSub /\ mut # NoSub
    BY <1>0, <1>4, SubsAssumption DEF HubInv, HeldByPublisher, Broadcast, HandlerReturns
  <2>2. Fanned' = Fanned + 1
    BY <1>0, <1>1, <2>1 DEF Fanned, TypeOK
  <2>3. F!Publish
    BY <1>1, <1>3, <2>2, DroppingDrops DEF F!Publish
  <2> QED BY <2>3 DEF FeedStep, F!Next
<1>5. CASE k # "chunk"
  <2>1. mut # s
    BY <1>0, <1>5 DEF HubInv, HeldByPublisher
  <2>2. Silent
    BY <1>1, <2>1 DEF Broadcast, HandlerReturns, Fanned, Silent
  <2> QED BY <1>3, <2>2, QuietStep
<1> QED BY <1>4, <1>5

\* What the writer has in hand is the next version of whoever is followed, and
\* a later one for whoever is given up.
LEMMA HandIsNext ==
  ASSUME FeedInv, NEW s \in Subs, Status(s) = "following", InHand(s) = 1
  PROVE  writer[s].version = first[s] + Len(seen[s]) /\ writer[s].version <= Fanned
<1>0. TypeOK /\ StatusIs(s) /\ Fanned \in Nat
  BY StatusCases, FannedType DEF FeedInv, HubInv
<1>1. /\ connected[s] /\ link[s] # "shut" /\ s \notin closers
      /\ handler[s].pc \in {"listen", "returned"}
  BY <1>0 DEF StatusIs
<1>2. PICK last \in 0..Fanned : Gapless(s, last)
  <2>1. CASE handler[s].pc = "listen"
    <3>1. Following(s)
      BY <1>0, <1>1, <2>1 DEF Following, TypeOK, FeedInv, EndsInv
    <3>2. NothingMissed(s)
      BY <3>1 DEF FeedInv, HubInv, MissesNothing
    <3> QED BY <1>0, <3>2 DEF NothingMissed
  <2>2. CASE handler[s].pc = "returned"
    BY <1>1, <2>2 DEF FeedInv, LeftInv
  <2> QED BY <1>1, <2>1, <2>2
<1> DEFINE next == first[s] + Len(seen[s])
           n == Len(queue[s]["chunk"])
<1>3. writer[s].version = next /\ next + 1 + n = last + 1
  BY <1>2 DEF Gapless
<1>4. next \in Nat /\ n \in Nat /\ last \in Nat /\ last <= Fanned
  <2>1. seen[s] \in Seq(Nat) /\ queue[s]["chunk"] \in Seq(Nat) /\ first[s] \in Nat
    BY <1>0, KindsAssumption DEF TypeOK
  <2> QED BY <1>0, <1>2, <2>1, LenProperties
<1> HIDE DEF next, n
<1>5. next <= Fanned
  BY <1>0, <1>3, <1>4
<1> QED BY <1>3, <1>5 DEF next

LEMMA HandIsLater ==
  ASSUME FeedInv, NEW s \in Subs, InHand(s) = 1
  PROVE  /\ writer[s].version \in 1..Fanned
         /\ \A i \in DOMAIN seen[s] : seen[s][i] < writer[s].version
<1>0. TypeOK /\ Fanned \in Nat
  BY FannedType DEF FeedInv, HubInv
<1> DEFINE w == writer[s].version
           a == first[s] - 1
           b == Fanned + 1
<1>1. /\ a \in Int /\ b \in Int /\ w \in Int /\ a >= 0
      /\ seen[s] \in Seq(Int) /\ Hand(s) \in Seq(Int) /\ queue[s]["chunk"] \in Seq(Int)
  <2>1. first[s] \in Nat /\ first[s] # 0
    BY <1>0 DEF TypeOK, FeedInv, EndsInv
  <2> QED BY <1>0, <2>1, LineTypes
<1>2. Rising(Line(s))
  BY DEF FeedInv, NeverBack
<1>3. Hand(s) = <<w>>
  BY DEF Hand
<1>4. /\ Below(<<a>>, <<w>>) /\ Below(<<w>>, <<b>>) /\ Below(seen[s], <<w>>)
  <2>1. Aligned(a, seen[s], Hand(s), queue[s]["chunk"], b)
    BY <1>1, <1>2, RisingLine DEF Line
  <2> QED BY <1>3, <2>1, Zenon DEF Aligned
<1>5. a < w /\ w < b /\ \A i \in DOMAIN seen[s] : seen[s][i] < w
  <2>1. /\ DOMAIN <<a>> = {1} /\ DOMAIN <<w>> = {1} /\ DOMAIN <<b>> = {1}
        /\ <<a>>[1] = a /\ <<w>>[1] = w /\ <<b>>[1] = b
    BY <1>1, Singles
  <2> QED BY <1>4, <2>1 DEF Below
<1> QED BY <1>0, <1>1, <1>5

\* A message that is written is Deliver or DeliverLate.
LEMMA DeliverStep ==
  ASSUME FeedInv, TypeOK', NEW s \in Subs, WriteMessage(s) PROVE FeedStep
<1>0. TypeOK /\ \A t \in Subs : StatusIs(t)
  BY StatusBeforeAndAfter DEF FeedInv, HubInv
<1>1. /\ UNCHANGED <<handler, connected, link, closers, first>> /\ Fanned' = Fanned
      /\ link[s] = "open" /\ writer[s].pc = "write"
  BY DEF WriteMessage, server, Fanned
<1>2. \A t \in Subs : Status(t)' = Status(t)
  BY <1>1, StatusFrame
<1>3. Status(s) \in {"following", "doomed"}
  <2>1. handler[s].pc \in {"listen", "returned"}
    BY <1>0, <1>1 DEF FeedInv, HubInv, NothingYet, StatusIs
  <2>2. connected[s]
    BY <1>1, <2>1 DEF FeedInv, EndsInv
  <2> QED BY <1>0, <2>1, <2>2 DEF StatusIs
<1>4. CASE writer[s].kind # "chunk"
  <2>1. Silent /\ Dropping
    BY <1>1, <1>2, <1>4 DEF WriteMessage, Silent, Dropping
  <2> QED BY <2>1, QuietStep
<1>5. CASE writer[s].kind = "chunk"
  <2> DEFINE w == writer[s].version
  <2>1. InHand(s) = 1 /\ seen' = [seen EXCEPT ![s] = Append(@, w)]
    BY <1>1, <1>5 DEF WriteMessage, InHand
  <2>2. [t \in Subs |-> Status(t)'] = [t \in Subs |-> Status(t)]
    BY <1>2
  <2>3. CASE Status(s) = "following"
    <3>1. w = first[s] + Len(seen[s]) /\ w <= Fanned
      BY <2>1, <2>3, HandIsNext
    <3>2. F!Deliver(s)
      BY <1>1, <2>1, <2>2, <2>3, <3>1 DEF F!Deliver, F!NextFor
    <3> QED BY <3>2 DEF FeedStep, F!Next
  <2>4. CASE Status(s) = "doomed"
    <3>1. w \in 1..Fanned /\ \A i \in DOMAIN seen[s] : seen[s][i] < w
      BY <2>1, HandIsLater
    <3>2. F!DeliverLate(s)
      BY <1>1, <2>1, <2>2, <2>4, <3>1 DEF F!DeliverLate
    <3> QED BY <3>2 DEF FeedStep, F!Next
  <2> QED BY <1>3, <2>3, <2>4
<1> QED BY <1>4, <1>5

\* Every step of the hub is a step of Feed or leaves it as it is: a broadcast
\* publishes its version and may give up those who are too slow, addSubscriber
\* joins, a writer delivers what is next, or, once its connection is given up,
\* what is later.
THEOREM ImplementsFeedSteps == Spec => F!Init /\ [][F!Next]_(F!vars)
<1>1. Init => F!Init
  <2> SUFFICES ASSUME Init PROVE F!Init
    OBVIOUS
  <2>1. \A s \in Subs : Status(s) = "away"
    BY DEF Init, Status
  <2>2. Fanned = 0
    BY DEF Init, Fanned
  <2> QED BY <2>1, <2>2 DEF Init, F!Init
<1>2. Init => EndsInv /\ LeftInv
  BY DEF Init, EndsInv, LeftInv
<1>3. HubInv /\ EndsInv /\ LeftInv /\ [Next]_vars => EndsInv' /\ LeftInv'
  BY EndsStep, LeftStep
<1>4. FeedInv /\ TypeOK' /\ [Next]_vars => FeedStep
  <2> SUFFICES ASSUME FeedInv, TypeOK', [Next]_vars PROVE FeedStep
    OBVIOUS
  <2>1. ASSUME Stop \/ UNCHANGED vars PROVE FeedStep
    <3>1. /\ UNCHANGED <<handler, connected, link, closers>> /\ Silent
      BY <2>1 DEF Stop, vars, server, conns, Silent, Fanned
    <3>2. Dropping
      BY <3>1, StatusFrame DEF Dropping
    <3> QED BY <3>1, <3>2, QuietStep
  <2> QED
    BY <2>1, HiddenSteps, EndingSteps, JoinStep, PublishStep, DeliverStep DEF Next, Write
<1>5. HubInv => TypeOK
  BY DEF HubInv
<1>6. HubInv /\ NeverBack /\ EndsInv /\ LeftInv => FeedInv
  BY DEF FeedInv
<1>7. FeedStep => [F!Next]_(F!vars)
  BY DEF FeedStep
<1> QED
  BY <1>1, <1>2, <1>3, <1>4, <1>5, <1>6, <1>7, HubInvariant, ClientsNeverGoBack, PTL
     DEF Spec
==============================================================================
