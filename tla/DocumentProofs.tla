---------------------------- MODULE DocumentProofs ----------------------------
(***************************************************************************)
(* A message does to the current text what its client meant it to do to    *)
(* the text it had, for texts, histories and insertions of any length: a   *)
(* chunk moved across what was recorded since stands between the same      *)
(* characters as the one that was sent.  What is recorded stays within the *)
(* text it is applied to.  And a removal takes along nothing others        *)
(* inserted but what they put between two characters of it.                *)
(***************************************************************************)
EXTENDS Document, DiffProofs, FoldLemmas

\* The chunks a message is made of: a removal carries no text.
Edits == {op \in Accepted : op.type = "remove" => op.text = <<>>}

\* A chunk moved across another keeps what it is and what it inserts.
LEMMA TransformEdits ==
  ASSUME NEW op1 \in Edits, NEW op2 \in Edits
  PROVE  /\ Transform(op1, op2) \in Edits
         /\ Transform(op1, op2).type = op2.type
         /\ Transform(op1, op2).text = op2.text
<1>1. op1 \in Accepted /\ op2 \in Accepted
  BY DEF Edits
<1>2. /\ Transform(op1, op2) \in Accepted
      /\ Transform(op1, op2).type = op2.type
      /\ Transform(op1, op2).text = op2.text
  BY <1>1, TransformAccepted
<1> QED BY <1>2 DEF Edits

\* The fields of a chunk, and what they say of each other.
LEMMA EditForms ==
  ASSUME NEW op \in Edits
  PROVE  /\ op \in Accepted /\ op.position \in Nat /\ op.len \in Nat /\ op.text \in Seq(Char)
         /\ op.type \in {"add", "remove"}
         /\ op.type = "add" => op.len = Len(op.text)
         /\ op.type = "remove" => op = RemoveChunk(op.position, op.len)
<1>1. op \in Accepted /\ (op.type = "remove" => op.text = <<>>)
  BY DEF Edits
<1>2. /\ op \in [type : {"add", "remove"}, position : Int, text : Seq(Char), len : Int]
      /\ op.position \in Nat /\ op.len \in Nat
      /\ op.type \in {"add", "remove"} /\ op.text \in Seq(Char)
      /\ op.type = "add" => op.len = Len(op.text)
  BY <1>1, AcceptedFields
<1> QED BY <1>1, <1>2 DEF RemoveChunk

\* One chunk against the chunks of an earlier message, as in TransformMultiple.
Across(list, op) == FoldLeft(LAMBDA op2, op1 : Transform(op1, op2), op, list)

\* What a chunk goes through on its way across a list.
LEMMA AcrossStages ==
  ASSUME NEW op \in Edits, NEW list \in Seq(Edits)
  PROVE  \E stage \in [0..Len(list) -> Edits] :
           /\ stage[0] = op
           /\ \A i \in 1..Len(list) : stage[i] = Transform(list[i], stage[i - 1])
           /\ Across(list, op) = stage[Len(list)]
<1> DEFINE n == Len(list)
           step == [p \in Edits \X Edits |-> Transform(p[2], p[1])]
           rec(f) == [S \in SUBSET DOMAIN list |->
                        IF S = {} THEN op
                        ELSE Transform(list[Max(S)], f[S \ {Max(S)}])]
           iter == CHOOSE f : f = rec(f)
<1>1. n \in Nat /\ DOMAIN list = 1..n /\ list \in [1..n -> Edits]
  OBVIOUS
<1>2. \A a \in Edits, e \in Edits : Transform(e, a) \in Edits
  BY TransformEdits
<1>3. step \in [Edits \X Edits -> Edits]
  BY <1>2
<1>4. \A a \in Edits, e \in Edits : step[<<a, e>>] = Transform(e, a)
  OBVIOUS
<1>5. \A S \in SUBSET (1..n) : S # {} => Max(S) \in 1..n
  BY <1>1, Top
<1>6. iter = rec(iter)
  <2>1. PICK g \in [SUBSET (1..n) -> Edits] : Unrolls(g, n, op, list, step)
    <3> HIDE DEF n, step
    <3> QED BY <1>1, <1>3, FoldExists
  <2>2. ASSUME NEW S \in SUBSET (1..n)
        PROVE  g[S] = IF S = {} THEN op ELSE Transform(list[Max(S)], g[S \ {Max(S)}])
    <3>1. g[S] = IF S = {} THEN op ELSE step[<<g[S \ {Max(S)}], list[Max(S)]>>]
      BY <2>1 DEF Unrolls
    <3>2. CASE S # {}
      <4>1. list[Max(S)] \in Edits /\ g[S \ {Max(S)}] \in Edits
        BY <1>1, <1>5, <3>2
      <4> HIDE DEF step
      <4> QED BY <1>4, <3>1, <3>2, <4>1
    <3> QED BY <3>1, <3>2
  <2>3. g = rec(g)
    BY <1>1, <2>2
  <2> HIDE DEF rec
  <2> QED BY <2>3
<1>7. Across(list, op) = iter[1..n]
  <2>1. Across(list, op) = iter[DOMAIN list]
    BY DEF Across, FoldLeft, MapThenFoldSet
  <2> QED BY <1>1, <2>1
<1>8. iter[{}] = op
  BY <1>6
<1>9. ASSUME NEW S \in SUBSET (1..n), S # {}, iter[S \ {Max(S)}] \in Edits
      PROVE  iter[S] = step[<<iter[S \ {Max(S)}], list[Max(S)]>>]
  <2>1. iter[S] = Transform(list[Max(S)], iter[S \ {Max(S)}])
    <3> HIDE DEF iter
    <3> QED BY <1>1, <1>6, <1>9
  <2>2. list[Max(S)] \in Edits
    BY <1>1, <1>5, <1>9
  <2> HIDE DEF step, iter
  <2> QED BY <1>4, <1>9, <2>1, <2>2
<1>10. PICK stage \in [0..n -> Edits] :
         Stages(stage, n, op, list, step) /\ stage[n] = iter[1..n]
  <2>1. Iterates(iter, n, Edits, op, list, step)
    <3> HIDE DEF step, iter
    <3> QED BY <1>8, <1>9 DEF Iterates
  <2>2. RunsTo(n, Edits, op, list, step, iter[1..n])
    <3> HIDE DEF step, n, iter
    <3> QED BY <1>1, <1>3, <2>1, FoldStages
  <2> HIDE DEF step, n, iter
  <2> QED BY <2>2 DEF RunsTo
<1>11. ASSUME NEW i \in 1..n
       PROVE  stage[i] = Transform(list[i], stage[i - 1])
  <2>1. stage[i] = step[<<stage[i - 1], list[i]>>]
    BY <1>10 DEF Stages
  <2>2. stage[i - 1] \in Edits /\ list[i] \in Edits
    <3>1. i - 1 \in 0..n
      BY <1>1
    <3> HIDE DEF n, iter, step
    <3> QED BY <1>1, <3>1
  <2> HIDE DEF step
  <2> QED BY <1>4, <2>1, <2>2
<1>12. stage[0] = op
  BY <1>10 DEF Stages
<1> HIDE DEF iter
<1> QED BY <1>7, <1>10, <1>11, <1>12

\* The chunks of a message go across an earlier one each on its own.
LEMMA TransformMultipleEdits ==
  ASSUME NEW list \in Seq(Edits), NEW chunks \in Seq(Edits)
  PROVE  /\ TransformMultiple(list, chunks) \in Seq(Edits)
         /\ Len(TransformMultiple(list, chunks)) = Len(chunks)
         /\ \A i \in 1..Len(chunks) : TransformMultiple(list, chunks)[i] = Across(list, chunks[i])
<1>1. TransformMultiple(list, chunks) = [i \in 1..Len(chunks) |-> Across(list, chunks[i])]
  BY DEF TransformMultiple, Across
<1>2. \A op \in Edits : Across(list, op) \in Edits
  <2> SUFFICES ASSUME NEW op \in Edits PROVE Across(list, op) \in Edits
    OBVIOUS
  <2>1. PICK stage \in [0..Len(list) -> Edits] : Across(list, op) = stage[Len(list)]
    BY AcrossStages
  <2> QED BY <2>1
<1> QED BY <1>1, <1>2

\* A message against the messages since, as in TransformStaleChunks.
AcrossAll(history, chunks) ==
  FoldLeft(LAMBDA transformed, op : TransformMultiple(op, transformed), chunks, history)

\* What a message goes through on its way across a history.
LEMMA AcrossAllStages ==
  ASSUME NEW chunks \in Seq(Edits), NEW history \in Seq(Seq(Edits))
  PROVE  \E stage \in [0..Len(history) -> Seq(Edits)] :
           /\ stage[0] = chunks
           /\ \A i \in 1..Len(history) : stage[i] = TransformMultiple(history[i], stage[i - 1])
           /\ AcrossAll(history, chunks) = stage[Len(history)]
<1> DEFINE n == Len(history)
           step == [p \in Seq(Edits) \X Seq(Edits) |-> TransformMultiple(p[2], p[1])]
           rec(f) == [S \in SUBSET DOMAIN history |->
                        IF S = {} THEN chunks
                        ELSE TransformMultiple(history[Max(S)], f[S \ {Max(S)}])]
           iter == CHOOSE f : f = rec(f)
<1>1. n \in Nat /\ DOMAIN history = 1..n /\ history \in [1..n -> Seq(Edits)]
  OBVIOUS
<1>2. \A a \in Seq(Edits), e \in Seq(Edits) : TransformMultiple(e, a) \in Seq(Edits)
  BY TransformMultipleEdits
<1>3. step \in [Seq(Edits) \X Seq(Edits) -> Seq(Edits)]
  BY <1>2
<1>4. \A a \in Seq(Edits), e \in Seq(Edits) : step[<<a, e>>] = TransformMultiple(e, a)
  OBVIOUS
<1>5. \A S \in SUBSET (1..n) : S # {} => Max(S) \in 1..n
  BY <1>1, Top
<1>6. iter = rec(iter)
  <2>1. PICK g \in [SUBSET (1..n) -> Seq(Edits)] : Unrolls(g, n, chunks, history, step)
    <3> HIDE DEF n, step
    <3> QED BY <1>1, <1>3, FoldExists
  <2>2. ASSUME NEW S \in SUBSET (1..n)
        PROVE  g[S] = IF S = {} THEN chunks ELSE TransformMultiple(history[Max(S)], g[S \ {Max(S)}])
    <3>1. g[S] = IF S = {} THEN chunks ELSE step[<<g[S \ {Max(S)}], history[Max(S)]>>]
      BY <2>1 DEF Unrolls
    <3>2. CASE S # {}
      <4>1. history[Max(S)] \in Seq(Edits) /\ g[S \ {Max(S)}] \in Seq(Edits)
        BY <1>1, <1>5, <3>2
      <4> HIDE DEF step
      <4> QED BY <1>4, <3>1, <3>2, <4>1
    <3> QED BY <3>1, <3>2
  <2>3. g = rec(g)
    BY <1>1, <2>2
  <2> HIDE DEF rec
  <2> QED BY <2>3
<1>7. AcrossAll(history, chunks) = iter[1..n]
  <2>1. AcrossAll(history, chunks) = iter[DOMAIN history]
    BY DEF AcrossAll, FoldLeft, MapThenFoldSet
  <2> QED BY <1>1, <2>1
<1>8. iter[{}] = chunks
  BY <1>6
<1>9. ASSUME NEW S \in SUBSET (1..n), S # {}, iter[S \ {Max(S)}] \in Seq(Edits)
      PROVE  iter[S] = step[<<iter[S \ {Max(S)}], history[Max(S)]>>]
  <2>1. iter[S] = TransformMultiple(history[Max(S)], iter[S \ {Max(S)}])
    <3> HIDE DEF iter
    <3> QED BY <1>1, <1>6, <1>9
  <2>2. history[Max(S)] \in Seq(Edits)
    BY <1>1, <1>5, <1>9
  <2> HIDE DEF step, iter
  <2> QED BY <1>4, <1>9, <2>1, <2>2
<1>10. PICK stage \in [0..n -> Seq(Edits)] :
         Stages(stage, n, chunks, history, step) /\ stage[n] = iter[1..n]
  <2>1. Iterates(iter, n, Seq(Edits), chunks, history, step)
    <3> HIDE DEF step, iter
    <3> QED BY <1>8, <1>9 DEF Iterates
  <2>2. RunsTo(n, Seq(Edits), chunks, history, step, iter[1..n])
    <3> HIDE DEF step, n, iter
    <3> QED BY <1>1, <1>3, <2>1, FoldStages
  <2> HIDE DEF step, n, iter
  <2> QED BY <2>2 DEF RunsTo
<1>11. ASSUME NEW i \in 1..n
       PROVE  stage[i] = TransformMultiple(history[i], stage[i - 1])
  <2>1. stage[i] = step[<<stage[i - 1], history[i]>>]
    BY <1>10 DEF Stages
  <2>2. stage[i - 1] \in Seq(Edits) /\ history[i] \in Seq(Edits)
    <3>1. i - 1 \in 0..n
      BY <1>1
    <3> HIDE DEF n, iter, step
    <3> QED BY <1>1, <3>1
  <2> HIDE DEF step
  <2> QED BY <1>4, <2>1, <2>2
<1>12. stage[0] = chunks
  BY <1>10 DEF Stages
<1> HIDE DEF iter
<1> QED BY <1>7, <1>10, <1>11, <1>12

\* A chunk makes a text of a text.
LEMMA ApplyType ==
  ASSUME NEW text \in Seq(Char), NEW op \in Edits
  PROVE  Apply(text, op) \in Seq(Char)
<1> DEFINE start == Smaller(Larger(op.position, 0), Len(text))
           end   == IF op.type = "add" THEN start ELSE Smaller(start + op.len, Len(text))
           a == SubSeq(text, 1, start)
           b == op.text
           c == SubSeq(text, end + 1, Len(text))
<1>1. /\ op.position \in Nat /\ op.len \in Nat /\ b \in Seq(Char)
      /\ op.type \in {"add", "remove"}
  BY EditForms
<1>2. start \in 0..Len(text)
  BY <1>1 DEF Smaller, Larger
<1>3. end \in 0..Len(text)
  <2> HIDE DEF start
  <2> QED BY <1>1, <1>2 DEF Smaller
<1>4. Apply(text, op) = (a \o b) \o c
  BY DEF Apply
<1> HIDE DEF start, end
<1>5. a \in Seq(Char) /\ c \in Seq(Char)
  BY <1>2, <1>3
<1> HIDE DEF a, b, c
<1>6. a \o b \in Seq(Char)
  BY <1>1, <1>5, TwoParts
<1> QED BY <1>4, <1>5, <1>6, TwoParts

\* The texts the chunks of a message go through.
LEMMA ApplyStages ==
  ASSUME NEW text \in Seq(Char), NEW list \in Seq(Edits)
  PROVE  \E stage \in [0..Len(list) -> Seq(Char)] :
           /\ stage[0] = text
           /\ \A i \in 1..Len(list) : stage[i] = Apply(stage[i - 1], list[i])
           /\ ApplyMultiple(text, list) = stage[Len(list)]
<1> DEFINE n == Len(list)
           step == [p \in Seq(Char) \X Edits |-> Apply(p[1], p[2])]
           rec(f) == [S \in SUBSET DOMAIN list |->
                        IF S = {} THEN text
                        ELSE Apply(f[S \ {Max(S)}], list[Max(S)])]
           iter == CHOOSE f : f = rec(f)
<1>1. n \in Nat /\ DOMAIN list = 1..n /\ list \in [1..n -> Edits]
  OBVIOUS
<1>2. \A a \in Seq(Char), e \in Edits : Apply(a, e) \in Seq(Char)
  BY ApplyType
<1>3. step \in [Seq(Char) \X Edits -> Seq(Char)]
  BY <1>2
<1>4. \A a \in Seq(Char), e \in Edits : step[<<a, e>>] = Apply(a, e)
  OBVIOUS
<1>5. \A S \in SUBSET (1..n) : S # {} => Max(S) \in 1..n
  BY <1>1, Top
<1>6. iter = rec(iter)
  <2>1. PICK g \in [SUBSET (1..n) -> Seq(Char)] : Unrolls(g, n, text, list, step)
    <3> HIDE DEF n, step
    <3> QED BY <1>1, <1>3, FoldExists
  <2>2. ASSUME NEW S \in SUBSET (1..n)
        PROVE  g[S] = IF S = {} THEN text ELSE Apply(g[S \ {Max(S)}], list[Max(S)])
    <3>1. g[S] = IF S = {} THEN text ELSE step[<<g[S \ {Max(S)}], list[Max(S)]>>]
      BY <2>1 DEF Unrolls
    <3>2. CASE S # {}
      <4>1. list[Max(S)] \in Edits /\ g[S \ {Max(S)}] \in Seq(Char)
        BY <1>1, <1>5, <3>2
      <4> HIDE DEF step
      <4> QED BY <1>4, <3>1, <3>2, <4>1
    <3> QED BY <3>1, <3>2
  <2>3. g = rec(g)
    BY <1>1, <2>2
  <2> HIDE DEF rec
  <2> QED BY <2>3
<1>7. ApplyMultiple(text, list) = iter[1..n]
  <2>1. ApplyMultiple(text, list) = iter[DOMAIN list]
    BY DEF ApplyMultiple, FoldLeft, MapThenFoldSet
  <2> QED BY <1>1, <2>1
<1>8. iter[{}] = text
  BY <1>6
<1>9. ASSUME NEW S \in SUBSET (1..n), S # {}, iter[S \ {Max(S)}] \in Seq(Char)
      PROVE  iter[S] = step[<<iter[S \ {Max(S)}], list[Max(S)]>>]
  <2>1. iter[S] = Apply(iter[S \ {Max(S)}], list[Max(S)])
    <3> HIDE DEF iter
    <3> QED BY <1>1, <1>6, <1>9
  <2>2. list[Max(S)] \in Edits
    BY <1>1, <1>5, <1>9
  <2> HIDE DEF step, iter
  <2> QED BY <1>4, <1>9, <2>1, <2>2
<1>10. PICK stage \in [0..n -> Seq(Char)] :
         Stages(stage, n, text, list, step) /\ stage[n] = iter[1..n]
  <2>1. Iterates(iter, n, Seq(Char), text, list, step)
    <3> HIDE DEF step, iter
    <3> QED BY <1>8, <1>9 DEF Iterates
  <2>2. RunsTo(n, Seq(Char), text, list, step, iter[1..n])
    <3> HIDE DEF step, n, iter
    <3> QED BY <1>1, <1>3, <2>1, FoldStages
  <2> HIDE DEF step, n, iter
  <2> QED BY <2>2 DEF RunsTo
<1>11. ASSUME NEW i \in 1..n
       PROVE  stage[i] = Apply(stage[i - 1], list[i])
  <2>1. stage[i] = step[<<stage[i - 1], list[i]>>]
    BY <1>10 DEF Stages
  <2>2. stage[i - 1] \in Seq(Char) /\ list[i] \in Edits
    <3>1. i - 1 \in 0..n
      BY <1>1
    <3> HIDE DEF n, iter, step
    <3> QED BY <1>1, <3>1
  <2> HIDE DEF step
  <2> QED BY <1>4, <2>1, <2>2
<1>12. stage[0] = text
  BY <1>10 DEF Stages
<1> HIDE DEF iter
<1> QED BY <1>7, <1>10, <1>11, <1>12
--------------------------------------------------------------------------------
(* What is recorded *)

\* Two insertions a message, and never more characters than there are.
LEMMA SpentGrows ==
  ASSUME NEW v \in 0..MaxEdits
  PROVE  /\ Spent(v) \in Nat /\ Spent(v) <= Spent(MaxEdits)
         /\ Spent(v + 1) = Spent(v) + 2 * InsertLength
<1>1. InitialLength \in Nat /\ InsertLength \in Nat /\ MaxEdits \in Nat /\ v \in Nat
  BY Bounds
<1>2. Spent(v + 1) = Spent(v) + 2 * InsertLength
  BY <1>1 DEF Spent
<1>3. 2 * InsertLength * v \in Nat /\ 2 * InsertLength * (MaxEdits - v) \in Nat
  BY <1>1
<1>4. 2 * InsertLength * MaxEdits = 2 * InsertLength * v + 2 * InsertLength * (MaxEdits - v)
  BY <1>1
<1> QED BY <1>1, <1>2, <1>3, <1>4 DEF Spent

\* Where a chunk stops, and one that stays within the text.
End(op) == IF op.type = "add" THEN op.position ELSE op.position + op.len
Goes(text, op) == End(op) <= Len(text)

\* The text a chunk inserts is numbered from n + 1 to m, each character once.
Brings(op, n, m) == ToSet(op.text) \subseteq (n + 1)..m /\ IsInjective(op.text)

\* A chunk of Chunks that fits its text.
LEMMA ChunkIs ==
  ASSUME NEW text \in Seq(Char), NEW n \in Nat, (n + 1)..(n + InsertLength) \subseteq Char,
         NEW op \in Chunks(text, n), Fits(text, op)
  PROVE  op \in Edits /\ Goes(text, op) /\ Brings(op, n, n + InsertLength)
<1>0. InsertLength \in Nat /\ Len(text) \in Nat
  BY Bounds
<1>1. CASE \E p \in 0..Len(text) : op = AddChunk(p, [i \in 1..InsertLength |-> n + i])
  <2> DEFINE new == [i \in 1..InsertLength |-> n + i]
  <2>1. PICK p \in 0..Len(text) : op = AddChunk(p, new)
    BY <1>1
  <2>2. \A i \in 1..InsertLength : n + i \in (n + 1)..(n + InsertLength)
    BY <1>0
  <2>3. new \in Seq(Char) /\ Len(new) = InsertLength
    BY <1>0, <2>2
  <2>4. ToSet(new) \subseteq (n + 1)..(n + InsertLength) /\ IsInjective(new)
    BY <1>0, <2>2 DEF ToSet, IsInjective
  <2> HIDE DEF new
  <2>5. op.type = "add" /\ op.position = p /\ op.text = new /\ op.len = Len(new)
    BY <2>1 DEF AddChunk
  <2>6. op \in Accepted
    BY <1>0, <2>1, <2>3, <2>5 DEF Accepted, Chunk, ValidChunk, AddChunk
  <2> QED BY <1>0, <2>4, <2>5, <2>6 DEF Edits, Goes, End, Brings
<1>2. CASE \E p \in 0..Len(text), k \in 1..Len(text) : op = RemoveChunk(p, k)
  <2>1. PICK p \in 0..Len(text), k \in 1..Len(text) : op = RemoveChunk(p, k)
    BY <1>2
  <2>2. op.type = "remove" /\ op.position = p /\ op.text = <<>> /\ op.len = k
    BY <2>1 DEF RemoveChunk
  <2>3. op \in Accepted
    BY <1>0, <2>1, <2>2 DEF Accepted, Chunk, ValidChunk, RemoveChunk
  <2>4. ToSet(op.text) = {} /\ IsInjective(op.text)
    BY <2>2 DEF ToSet, IsInjective
  <2> QED BY <1>0, <2>2, <2>3, <2>4 DEF Edits, Goes, End, Brings, Fits
<1> QED BY <1>1, <1>2 DEF Chunks

\* The two forms of a message.
OneChunk(chunks, text, n) ==
  \E a \in Edits : /\ chunks = <<a>>
                   /\ Goes(text, a) /\ Brings(a, n, n + InsertLength)
TwoChunks(chunks, text, n) ==
  \E a, b \in Edits :
    /\ chunks = <<a, b>> /\ Follows(a, b)
    /\ Goes(text, a) /\ Brings(a, n, n + InsertLength)
    /\ Goes(Apply(text, a), b) /\ Brings(b, n + InsertLength, n + 2 * InsertLength)

\* A message of Messages, in the form it has.
LEMMA MessageIs ==
  ASSUME NEW text \in Seq(Char), NEW n \in Nat, (n + 1)..(n + 2 * InsertLength) \subseteq Char,
         NEW count, NEW chunks \in Messages(text, n, count)
  PROVE  /\ chunks \in Seq(Edits)
         /\ OneChunk(chunks, text, n) \/ (TwoChunks(chunks, text, n) /\ ~(count < 2))
<1> DEFINE first == {a \in Chunks(text, n) : Fits(text, a)}
           next(a) == {b \in Chunks(Apply(text, a), n + InsertLength) :
                         Fits(Apply(text, a), b) /\ Follows(a, b)}
<1>1. /\ InsertLength \in Nat /\ n + InsertLength \in Nat
      /\ (n + InsertLength) + InsertLength = n + 2 * InsertLength
      /\ (n + 1)..(n + InsertLength) \subseteq (n + 1)..(n + 2 * InsertLength)
      /\ ((n + InsertLength) + 1)..(n + 2 * InsertLength) \subseteq (n + 1)..(n + 2 * InsertLength)
  BY Bounds
<1>2. \A a \in first : a \in Edits /\ Goes(text, a) /\ Brings(a, n, n + InsertLength)
  BY <1>1, ChunkIs
<1>3. \A a \in first : \A b \in next(a) :
        /\ b \in Edits /\ Goes(Apply(text, a), b) /\ Follows(a, b)
        /\ Brings(b, n + InsertLength, n + 2 * InsertLength)
  <2> SUFFICES ASSUME NEW a \in first, NEW b \in next(a)
               PROVE  /\ b \in Edits /\ Goes(Apply(text, a), b) /\ Follows(a, b)
                      /\ Brings(b, n + InsertLength, n + 2 * InsertLength)
    OBVIOUS
  <2> DEFINE t == Apply(text, a)
             m == n + InsertLength
  <2>1. t \in Seq(Char)
    BY <1>2, ApplyType
  <2>2. b \in Chunks(t, m) /\ Fits(t, b) /\ Follows(a, b)
    OBVIOUS
  <2>3. m \in Nat /\ (m + 1)..(m + InsertLength) \subseteq Char /\ m + InsertLength = n + 2 * InsertLength
    BY <1>1
  <2> HIDE DEF t, m
  <2>4. b \in Edits /\ Goes(t, b) /\ Brings(b, m, m + InsertLength)
    BY <2>1, <2>2, <2>3, ChunkIs
  <2> QED BY <2>2, <2>3, <2>4 DEF t, m
<1>4. \/ chunks \in {<<a>> : a \in first}
      \/ ~(count < 2) /\ \E a \in first : chunks \in {<<a, b>> : b \in next(a)}
  BY DEF Messages
<1> HIDE DEF first, next
<1>5. CASE chunks \in {<<a>> : a \in first}
  <2>1. PICK a \in first : chunks = <<a>>
    BY <1>5
  <2>2. a \in Edits /\ Goes(text, a) /\ Brings(a, n, n + InsertLength)
    BY <1>2
  <2>3. OneChunk(chunks, text, n)
    BY <2>1, <2>2 DEF OneChunk
  <2>4. chunks \in Seq(Edits)
    BY <2>1, <2>2
  <2> QED BY <2>3, <2>4
<1>6. CASE ~(count < 2) /\ \E a \in first : chunks \in {<<a, b>> : b \in next(a)}
  <2>1. PICK a \in first : chunks \in {<<a, b>> : b \in next(a)}
    BY <1>6
  <2>2. PICK b \in next(a) : chunks = <<a, b>>
    BY <2>1
  <2>3. /\ a \in Edits /\ Goes(text, a) /\ Brings(a, n, n + InsertLength)
        /\ b \in Edits /\ Goes(Apply(text, a), b) /\ Follows(a, b)
        /\ Brings(b, n + InsertLength, n + 2 * InsertLength)
    BY <1>2, <1>3
  <2>4. TwoChunks(chunks, text, n)
    BY <2>2, <2>3 DEF TwoChunks
  <2>5. chunks \in Seq(Edits)
    BY <2>2, <2>3
  <2> QED BY <1>6, <2>4, <2>5
<1> QED BY <1>4, <1>5, <1>6

\* What is recorded is made of edits, and a text is kept for each version.
Written ==
  /\ ops \in Seq(Seq(Edits))
  /\ texts \in Seq(Seq(Char)) /\ Len(texts) = Version + 1 /\ Version \in 0..MaxEdits
  /\ sent.base \in 0..Version /\ sent.chunks \in Seq(Edits)

\* There is a text at each version.
LEMMA TextType ==
  ASSUME Written, NEW v \in 0..Version
  PROVE  /\ v \in Nat /\ v + 1 \in DOMAIN texts
         /\ TextAt(v) \in Seq(Char) /\ TextAt(v) = texts[v + 1]
<1>1. v \in Nat /\ v + 1 \in DOMAIN texts
  BY Bounds DEF Written
<1>2. texts[v + 1] \in Seq(Char)
  BY <1>1 DEF Written
<1> QED BY <1>1, <1>2 DEF TextAt

\* The first text is numbered from 1 on.
LEMMA FirstType ==
  Init => /\ ops = <<>> /\ Version = 0 /\ DOMAIN texts = {1} /\ texts[1] \in Seq(Char)
          /\ \A i \in DOMAIN texts[1] : texts[1][i] = i
          /\ ToSet(texts[1]) \subseteq 1..Spent(0)
<1> SUFFICES ASSUME Init
             PROVE  /\ ops = <<>> /\ Version = 0 /\ DOMAIN texts = {1} /\ texts[1] \in Seq(Char)
                    /\ \A i \in DOMAIN texts[1] : texts[1][i] = i
                    /\ ToSet(texts[1]) \subseteq 1..Spent(0)
  OBVIOUS
<1> DEFINE first == [i \in 1..InitialLength |-> i]
<1>1. texts = <<first>> /\ ops = <<>>
  BY DEF Init
<1>2. InitialLength \in Nat /\ 0 \in 0..MaxEdits /\ InsertLength \in Nat
  BY Bounds
<1>3. Spent(0) = InitialLength
  BY <1>2 DEF Spent
<1>4. Spent(0) <= Spent(MaxEdits) /\ Spent(MaxEdits) \in Nat
  <2>1. MaxEdits \in 0..MaxEdits
    BY Bounds
  <2> QED BY <1>2, <2>1, SpentGrows
<1>5. 1..InitialLength \subseteq Char
  BY <1>2, <1>3, <1>4, Bounds
<1>6. first \in Seq(Char)
  BY <1>2, <1>5
<1>7. ToSet(first) \subseteq 1..Spent(0) /\ \A i \in DOMAIN first : first[i] = i
  BY <1>3 DEF ToSet
<1>8. DOMAIN texts = {1} /\ texts[1] = first
  BY <1>1
<1> HIDE DEF first
<1> QED BY <1>1, <1>6, <1>7, <1>8 DEF Version

\* It is so before the first message.
LEMMA WrittenInit == Init => Written
<1> SUFFICES ASSUME Init PROVE Written
  OBVIOUS
<1>1. /\ ops = <<>> /\ Version = 0 /\ DOMAIN texts = {1} /\ texts[1] \in Seq(Char)
      /\ ToSet(texts[1]) \subseteq 1..Spent(0)
  BY FirstType
<1>2. texts \in Seq(Seq(Char)) /\ Len(texts) = 1
  <2> DEFINE first == texts[1]
             T == Seq(Char)
  <2>1. texts = <<first>> /\ first \in T
    BY <1>1 DEF Init
  <2> HIDE DEF first, T
  <2>2. texts \in Seq(T) /\ Len(texts) = 1
    BY <2>1
  <2> QED BY <2>2 DEF T
<1>3. 0 \in 0..MaxEdits
  BY Bounds
<1>4. sent.base = 0 /\ sent.chunks = <<>>
  BY DEF Init
<1> QED BY <1>1, <1>2, <1>3, <1>4 DEF Written

\* A step that is not a stutter.
Message(base, chunks) ==
  /\ Version < MaxEdits
  /\ base \in 0..Version
  /\ chunks \in Messages(TextAt(base), Spent(Version),
                         IF base = Version THEN FreshChunks ELSE StaleChunks)
  /\ OnChunkMessage(base, chunks)

\* Every step is a message.
LEMMA NextIs == Next => \E base, chunks : Message(base, chunks)
BY DEF Next, Message

\* The characters of the next message are there to be used.
LEMMA NewCharacters ==
  ASSUME Written, Version < MaxEdits
  PROVE  /\ Version \in Nat /\ Spent(Version) \in Nat /\ InsertLength \in Nat
         /\ Spent(Version + 1) = Spent(Version) + 2 * InsertLength
         /\ (Spent(Version) + 1)..(Spent(Version) + 2 * InsertLength) \subseteq Char
<1>1. Version \in 0..MaxEdits /\ Version + 1 \in 0..MaxEdits /\ MaxEdits \in Nat
  BY Bounds DEF Written
<1> DEFINE v == Version
<1>2. v \in 0..MaxEdits /\ v + 1 \in 0..MaxEdits
  BY <1>1
<1> HIDE DEF v
<1>3. /\ Spent(v) \in Nat /\ Spent(v + 1) = Spent(v) + 2 * InsertLength
      /\ Spent(v + 1) <= Spent(MaxEdits) /\ Spent(v + 1) \in Nat
  BY <1>2, SpentGrows
<1>4. Spent(MaxEdits) \in Nat
  <2>1. MaxEdits \in 0..MaxEdits
    BY <1>1
  <2> QED BY <2>1, SpentGrows
<1>5. (Spent(v) + 1)..(Spent(v) + 2 * InsertLength) \subseteq 1..Spent(MaxEdits)
  BY <1>3, <1>4, Bounds
<1> QED BY <1>1, <1>3, <1>5, Bounds DEF v

\* A message has one chunk or two, of characters no text has had.
LEMMA MessageType ==
  ASSUME Written, NEW base, NEW chunks, Message(base, chunks)
  PROVE  /\ base \in 0..Version /\ chunks \in Seq(Edits)
         /\ \/ OneChunk(chunks, TextAt(base), Spent(Version))
            \/ /\ TwoChunks(chunks, TextAt(base), Spent(Version))
               /\ ~((IF base = Version THEN FreshChunks ELSE StaleChunks) < 2)
<1>1. /\ base \in 0..Version
      /\ chunks \in Messages(TextAt(base), Spent(Version),
                             IF base = Version THEN FreshChunks ELSE StaleChunks)
  BY DEF Message
<1>2. TextAt(base) \in Seq(Char)
  BY <1>1, TextType
<1>3. /\ Spent(Version) \in Nat
      /\ (Spent(Version) + 1)..(Spent(Version) + 2 * InsertLength) \subseteq Char
  BY NewCharacters DEF Message
<1> DEFINE text == TextAt(base)
           n == Spent(Version)
           count == IF base = Version THEN FreshChunks ELSE StaleChunks
<1>4. /\ text \in Seq(Char) /\ n \in Nat /\ (n + 1)..(n + 2 * InsertLength) \subseteq Char
      /\ chunks \in Messages(text, n, count)
  BY <1>1, <1>2, <1>3
<1> HIDE DEF text, n, count
<1>5. /\ chunks \in Seq(Edits)
      /\ OneChunk(chunks, text, n) \/ (TwoChunks(chunks, text, n) /\ ~(count < 2))
  BY <1>4, MessageIs
<1> QED BY <1>1, <1>5 DEF text, n, count

\* The operations since a version.
Since(base) == SubSeq(ops, base + 1, Version)

\* How many operations there are since a version, and which.
LEMMA SinceType ==
  ASSUME Written, NEW base \in 0..Version
  PROVE  /\ Since(base) \in Seq(Seq(Edits)) /\ Len(Since(base)) = Version - base
         /\ \A i \in 1..(Version - base) : Since(base)[i] = ops[base + i]
<1>1. ops \in Seq(Seq(Edits)) /\ Version = Len(ops) /\ Len(ops) \in Nat
  BY DEF Written, Version
<1> DEFINE E == Seq(Edits)
<1>2. ops \in Seq(E)
  BY <1>1
<1> HIDE DEF E
<1>3. /\ SubSeq(ops, base + 1, Len(ops)) \in Seq(E)
      /\ Len(SubSeq(ops, base + 1, Len(ops))) = Len(ops) - base
      /\ \A i \in 1..(Len(ops) - base) : SubSeq(ops, base + 1, Len(ops))[i] = ops[base + i]
  BY <1>1, <1>2
<1> QED BY <1>1, <1>3 DEF E, Since

\* What a message is moved across is what was recorded since its base.
LEMMA TransformedType ==
  ASSUME Written, NEW base \in 0..Version, NEW chunks \in Seq(Edits)
  PROVE  /\ TransformStaleChunks(base, chunks) = AcrossAll(Since(base), chunks)
         /\ TransformStaleChunks(base, chunks) \in Seq(Edits)
<1>1. TransformStaleChunks(base, chunks) = AcrossAll(Since(base), chunks)
  BY DEF TransformStaleChunks, AcrossAll, Since
<1>2. Since(base) \in Seq(Seq(Edits))
  BY SinceType
<1> DEFINE h == Since(base)
<1>3. h \in Seq(Seq(Edits)) /\ Len(h) \in Nat
  BY <1>2
<1> HIDE DEF h
<1>4. PICK stage \in [0..Len(h) -> Seq(Edits)] : AcrossAll(h, chunks) = stage[Len(h)]
  BY <1>3, AcrossAllStages
<1>5. Len(h) \in 0..Len(h)
  BY <1>3
<1>6. AcrossAll(h, chunks) \in Seq(Edits)
  BY <1>4, <1>5
<1> QED BY <1>1, <1>6 DEF h

\* A message makes a text of a text.
LEMMA ApplyMultipleType ==
  ASSUME NEW text \in Seq(Char), NEW list \in Seq(Edits)
  PROVE  ApplyMultiple(text, list) \in Seq(Char)
<1>1. PICK stage \in [0..Len(list) -> Seq(Char)] : ApplyMultiple(text, list) = stage[Len(list)]
  BY ApplyStages
<1>2. Len(list) \in 0..Len(list)
  OBVIOUS
<1> QED BY <1>1, <1>2

\* What a message leaves: one more operation and one more text.
LEMMA MessageWrites ==
  ASSUME Written, NEW base, NEW chunks, Message(base, chunks)
  PROVE  LET toApply == TransformStaleChunks(base, chunks)
             after   == ApplyMultiple(TextAt(Version), toApply)
         IN  /\ toApply \in Seq(Edits) /\ after \in Seq(Char)
             /\ ops' = Append(ops, toApply) /\ texts' = Append(texts, after)
             /\ sent' = [base |-> base, chunks |-> chunks]
             /\ Version \in Nat /\ Version' = Version + 1
             /\ \A v \in 0..Version : TextAt(v)' = TextAt(v)
             /\ texts'[Version + 2] = after
             /\ \A v \in 1..Version : ops'[v] = ops[v]
             /\ ops'[Version + 1] = toApply
<1> DEFINE toApply == TransformStaleChunks(base, chunks)
           after   == ApplyMultiple(TextAt(Version), toApply)
           E == Seq(Edits)
           T == Seq(Char)
<1>1. base \in 0..Version /\ chunks \in Seq(Edits)
  BY MessageType
<1>2. toApply \in E
  BY <1>1, TransformedType
<1>3. Version \in 0..Version /\ Version \in Nat
  BY Bounds DEF Written
<1>4. after \in T
  <2>1. TextAt(Version) \in Seq(Char)
    BY <1>3, TextType
  <2> HIDE DEF toApply
  <2> QED BY <1>2, <2>1, ApplyMultipleType
<1>5. ops' = Append(ops, toApply) /\ texts' = Append(texts, after)
  BY DEF Message, OnChunkMessage
<1>6. sent' = [base |-> base, chunks |-> chunks]
  BY DEF Message, OnChunkMessage
<1>7. ops \in Seq(E) /\ texts \in Seq(T) /\ Len(texts) = Version + 1 /\ Version = Len(ops)
  BY DEF Written, Version
<1> HIDE DEF toApply, after, E, T
<1>8. Version' = Version + 1
  <2>1. Version' = Len(ops')
    BY DEF Version
  <2> QED BY <1>2, <1>5, <1>7, <2>1
<1>9. \A v \in 0..Version : TextAt(v)' = TextAt(v)
  <2> SUFFICES ASSUME NEW v \in 0..Version PROVE TextAt(v)' = TextAt(v)
    OBVIOUS
  <2>1. TextAt(v)' = texts'[v + 1] /\ TextAt(v) = texts[v + 1]
    BY DEF TextAt
  <2>2. v + 1 \in 1..Len(texts)
    BY <1>3, <1>7
  <2>3. texts'[v + 1] = texts[v + 1]
    BY <1>4, <1>5, <1>7, <2>2
  <2> QED BY <2>1, <2>3
<1>10. texts'[Version + 2] = after
  BY <1>4, <1>5, <1>7
<1>11. \A v \in 1..Version : ops'[v] = ops[v]
  BY <1>2, <1>5, <1>7
<1>12. ops'[Version + 1] = toApply
  BY <1>2, <1>5, <1>7
<1> QED BY <1>2, <1>3, <1>4, <1>5, <1>6, <1>8, <1>9, <1>10, <1>11, <1>12 DEF toApply, after, E, T

\* It stays so.
LEMMA WrittenStep == Written /\ [Next]_vars => Written'
<1>1. ASSUME Written, UNCHANGED vars PROVE Written'
  BY <1>1 DEF vars, Written, Version
<1>2. ASSUME Written, NEW base, NEW chunks, Message(base, chunks) PROVE Written'
  <2> DEFINE toApply == TransformStaleChunks(base, chunks)
             after   == ApplyMultiple(TextAt(Version), toApply)
             E == Seq(Edits)
             T == Seq(Char)
  <2>1. /\ toApply \in E /\ after \in T
        /\ ops' = Append(ops, toApply) /\ texts' = Append(texts, after)
        /\ sent' = [base |-> base, chunks |-> chunks]
        /\ Version' = Version + 1
    BY <1>2, MessageWrites
  <2>2. base \in 0..Version /\ chunks \in Seq(Edits)
    BY <1>2, MessageType
  <2>3. ops \in Seq(E) /\ texts \in Seq(T) /\ Len(texts) = Version + 1 /\ Version \in 0..MaxEdits
    BY <1>2 DEF Written
  <2>4. Version < MaxEdits /\ MaxEdits \in Nat
    BY <1>2, Bounds DEF Message
  <2> HIDE DEF toApply, after, E, T
  <2>5. ops' \in Seq(E)
    BY <2>1, <2>3
  <2>6. texts' \in Seq(T) /\ Len(texts') = Version' + 1
    BY <2>1, <2>3
  <2>7. Version' \in 0..MaxEdits
    BY <2>1, <2>3, <2>4
  <2>8. sent'.base \in 0..Version' /\ sent'.chunks \in Seq(Edits)
    BY <2>1, <2>2, <2>3
  <2> QED BY <2>5, <2>6, <2>7, <2>8 DEF Written, E, T
<1> QED BY <1>1, <1>2, NextIs

--------------------------------------------------------------------------------
(* Where the characters of a text go *)

\* The place the i-th character of a text has after a chunk that leaves it.
Becomes(op, i, k) ==
  IF op.type = "add"
    THEN k = (IF i <= op.position THEN i ELSE i + op.len)
    ELSE (i <= op.position /\ k = i) \/ (op.position + op.len < i /\ k = i - op.len)

Taken(op, i) == op.type = "remove" /\ op.position < i /\ i <= op.position + op.len

Traced(text, op, after) ==
  /\ Len(after) = IF op.type = "add" THEN Len(text) + op.len ELSE Len(text) - op.len
  /\ \A k \in 1..Len(after) :
       \/ \E i \in 1..Len(text) : Becomes(op, i, k) /\ after[k] = text[i]
       \/ op.type = "add" /\ \E m \in 1..op.len : k = op.position + m /\ after[k] = op.text[m]
  /\ \A i \in 1..Len(text) :
       Taken(op, i) \/ \E k \in 1..Len(after) : Becomes(op, i, k) /\ after[k] = text[i]
  /\ op.type = "add" =>
       \A m \in 1..op.len : /\ op.position + m \in 1..Len(after)
                            /\ after[op.position + m] = op.text[m]

\* Apply puts every character where Becomes says, takes none but those
\* Taken, and adds none but those the chunk inserts.
LEMMA ApplyTraced ==
  ASSUME NEW text \in Seq(Char), NEW op \in Edits, Goes(text, op)
  PROVE  Traced(text, op, Apply(text, op))
<1> DEFINE p == op.position
           l == op.len
           x == op.text
           n == Len(text)
           after == Apply(text, op)
<1>1. /\ op \in Accepted /\ p \in Nat /\ l \in Nat /\ x \in Seq(Char) /\ n \in Nat
      /\ op.type \in {"add", "remove"}
      /\ op.type = "remove" => op = RemoveChunk(p, l)
  BY EditForms
<1>2. CASE op.type = "add"
  <2>1. p <= n
    BY <1>2 DEF Goes, End
  <2>2. /\ Len(after) = n + l
        /\ \A k \in 1..(n + l) : after[k] = IF k <= p THEN text[k]
                                            ELSE IF k <= p + l THEN x[k - p] ELSE text[k - l]
    BY <1>1, <1>2, <2>1, Insertion
  <2> HIDE DEF p, l, x, n, after
  <2>3. ASSUME NEW k \in 1..Len(after)
        PROVE  \/ \E i \in 1..n : k = (IF i <= p THEN i ELSE i + l) /\ after[k] = text[i]
               \/ \E m \in 1..l : k = p + m /\ after[k] = x[m]
    <3>1. CASE k <= p
      <4>1. k \in 1..n /\ after[k] = text[k]
        BY <1>1, <2>1, <2>2, <3>1
      <4> QED BY <3>1, <4>1
    <3>2. CASE p < k /\ k <= p + l
      <4> DEFINE m == k - p
      <4>1. m \in 1..l /\ k = p + m /\ after[k] = x[k - p]
        BY <1>1, <2>1, <2>2, <3>2
      <4>2. after[k] = x[m]
        BY <4>1
      <4> HIDE DEF m
      <4> QED BY <4>1, <4>2
    <3>3. CASE p + l < k
      <4> DEFINE i == k - l
      <4>1. i \in 1..n /\ ~(i <= p) /\ k = i + l /\ after[k] = text[k - l]
        BY <1>1, <2>1, <2>2, <3>3
      <4>2. after[k] = text[i]
        BY <4>1
      <4> HIDE DEF i
      <4> QED BY <4>1, <4>2
    <3> QED BY <1>1, <2>2, <3>1, <3>2, <3>3
  <2>4. ASSUME NEW i \in 1..n
        PROVE  \E k \in 1..Len(after) : k = (IF i <= p THEN i ELSE i + l) /\ after[k] = text[i]
    <3>1. CASE i <= p
      <4>1. i \in 1..Len(after) /\ after[i] = text[i]
        BY <1>1, <2>1, <2>2, <3>1
      <4> QED BY <3>1, <4>1
    <3>2. CASE p < i
      <4> DEFINE k == i + l
      <4>1. k \in 1..Len(after) /\ ~(k <= p) /\ ~(k <= p + l) /\ k - l = i /\ ~(i <= p) /\ k \in 1..(n + l)
        BY <1>1, <2>1, <2>2, <3>2
      <4>2. k = (IF i <= p THEN i ELSE i + l)
        BY <4>1
      <4> HIDE DEF k
      <4>3. after[k] = text[k - l]
        BY <2>2, <4>1
      <4>4. after[k] = text[i]
        BY <4>1, <4>3
      <4> QED BY <4>1, <4>2, <4>4
    <3> QED BY <1>1, <3>1, <3>2
  <2>5. ASSUME NEW m \in 1..l
        PROVE  p + m \in 1..Len(after) /\ after[p + m] = x[m]
    <3> DEFINE k == p + m
    <3>1. k \in 1..(n + l) /\ ~(k <= p) /\ k <= p + l /\ k - p = m
      BY <1>1, <2>1
    <3> HIDE DEF k
    <3>2. after[k] = x[k - p]
      BY <2>2, <3>1
    <3>3. after[k] = x[m] /\ k \in 1..Len(after)
      BY <2>2, <3>1, <3>2
    <3> QED BY <3>3 DEF k
  <2>6. Traced(text, op, after)
    BY <1>2, <2>2, <2>3, <2>4, <2>5 DEF Traced, Becomes, p, l, x, n
  <2> QED BY <2>6 DEF after
<1>3. CASE op.type = "remove"
  <2>1. p + l <= n
    BY <1>3 DEF Goes, End
  <2>2. /\ Len(Apply(text, RemoveChunk(p, l))) = Left(n, p, l)
        /\ \A k \in 1..Left(n, p, l) : Apply(text, RemoveChunk(p, l))[k] = text[Source(p, l, k)]
    BY <1>1, Removal
  <2>3. Left(n, p, l) = n - l
    BY <1>1, <2>1 DEF Left
  <2>4. after = Apply(text, RemoveChunk(p, l))
    BY <1>1, <1>3
  <2> HIDE DEF p, l, x, n, after
  <2>5. /\ Len(after) = n - l
        /\ \A k \in 1..(n - l) : after[k] = text[Source(p, l, k)]
    BY <2>2, <2>3, <2>4
  <2>6. ASSUME NEW k \in 1..Len(after)
        PROVE  \E i \in 1..n : /\ (i <= p /\ k = i) \/ (p + l < i /\ k = i - l)
                               /\ after[k] = text[i]
    <3> DEFINE i == Source(p, l, k)
    <3>1. i \in 1..n /\ ((i <= p /\ k = i) \/ (p + l < i /\ k = i - l))
      BY <1>1, <2>1, <2>5 DEF Source
    <3>2. after[k] = text[i]
      BY <2>5
    <3> HIDE DEF i
    <3> QED BY <3>1, <3>2
  <2>7. ASSUME NEW i \in 1..n, ~(p < i /\ i <= p + l)
        PROVE  \E k \in 1..Len(after) : /\ (i <= p /\ k = i) \/ (p + l < i /\ k = i - l)
                                        /\ after[k] = text[i]
    <3> DEFINE k == IF i <= p THEN i ELSE i - l
    <3>1. /\ k \in 1..(n - l) /\ Source(p, l, k) = i
          /\ (i <= p /\ k = i) \/ (p + l < i /\ k = i - l)
      BY <1>1, <2>1, <2>7 DEF Source
    <3> HIDE DEF k
    <3>2. after[k] = text[i]
      BY <2>5, <3>1
    <3>3. k \in 1..Len(after)
      BY <2>5, <3>1
    <3> QED BY <3>1, <3>2, <3>3
  <2>8. Traced(text, op, after)
    BY <1>3, <2>5, <2>6, <2>7 DEF Traced, Becomes, Taken, p, l, x, n
  <2> QED BY <2>8 DEF after
<1> QED BY <1>1, <1>2, <1>3

\* A chunk moved across another stands between the same characters.
LEMMA MovesAlong ==
  ASSUME NEW op1 \in Edits, NEW op2 \in Edits, NEW n \in Nat,
         End(op1) <= n, End(op2) <= n
  PROVE  /\ End(Transform(op1, op2)) <= IF op1.type = "add" THEN n + op1.len ELSE n - op1.len
         /\ \A i \in 1..n, k \in Nat : Becomes(op1, i, k) =>
              /\ k <= Transform(op1, op2).position <=> i <= op2.position
              /\ k <= End(Transform(op1, op2)) <=> i <= End(op2)
<1> DEFINE p1 == op1.position
           l1 == op1.len
           p2 == op2.position
           l2 == op2.len
<1>1. /\ p1 \in Nat /\ l1 \in Nat /\ op1.type \in {"add", "remove"}
      /\ p2 \in Nat /\ l2 \in Nat /\ op2.type \in {"add", "remove"}
  BY EditForms
<1>2. CASE op1.type = "add" /\ p1 <= p2
  <2>1. /\ Transform(op1, op2).type = op2.type
        /\ Transform(op1, op2).position = p2 + l1 /\ Transform(op1, op2).len = l2
    BY <1>2 DEF Transform, Moved
  <2> QED BY <1>1, <1>2, <2>1 DEF End, Becomes
<1>3. CASE op1.type = "add" /\ p2 < p1 /\ op2.type = "remove" /\ p1 < p2 + l2
  <2>1. /\ Transform(op1, op2).type = op2.type
        /\ Transform(op1, op2).position = p2 /\ Transform(op1, op2).len = l2 + l1
    BY <1>1, <1>3 DEF Transform, Moved
  <2> QED BY <1>1, <1>3, <2>1 DEF End, Becomes
<1>4. CASE op1.type = "add" /\ p2 < p1 /\ ~(op2.type = "remove" /\ p1 < p2 + l2)
  <2>1. Transform(op1, op2) = op2
    BY <1>1, <1>4 DEF Transform
  <2> QED BY <1>1, <1>4, <2>1 DEF End, Becomes
<1>5. CASE op1.type = "remove" /\ op2.type = "add"
  <2>1. /\ Transform(op1, op2).type = op2.type
        /\ Transform(op1, op2).position = ShiftedBack(op1, op2) /\ Transform(op1, op2).len = l2
    BY <1>5 DEF Transform, Moved
  <2>2. ShiftedBack(op1, op2) = IF p2 <= p1 THEN p2 ELSE IF p2 <= p1 + l1 THEN p1 ELSE p2 - l1
    BY <1>1 DEF ShiftedBack, Smaller
  <2> QED BY <1>1, <1>5, <2>1, <2>2 DEF End, Becomes
<1>6. CASE op1.type = "remove" /\ op2.type = "remove"
  <2>1. /\ Transform(op1, op2).type = op2.type
        /\ Transform(op1, op2).position = ShiftedBack(op1, op2)
        /\ Transform(op1, op2).len = l2 - Overlap(op1, op2)
    BY <1>6 DEF Transform, Moved
  <2>2. ShiftedBack(op1, op2) = IF p2 <= p1 THEN p2 ELSE IF p2 <= p1 + l1 THEN p1 ELSE p2 - l1
    BY <1>1 DEF ShiftedBack, Smaller
  <2>3. ShiftedBack(op1, op2) + (l2 - Overlap(op1, op2))
          = IF p2 + l2 <= p1 THEN p2 + l2
            ELSE IF p2 + l2 <= p1 + l1 THEN IF p2 <= p1 THEN p1 ELSE p1
            ELSE p2 + l2 - l1
    BY <1>1 DEF ShiftedBack, Overlap, Smaller, Larger
  <2> QED BY <1>1, <1>6, <2>1, <2>2, <2>3 DEF End, Becomes
<1> QED BY <1>1, <1>2, <1>3, <1>4, <1>5, <1>6

\* d is chunk c, made on the text seen, as it has to be on another text: it
\* stands between the same characters of those the two texts share.
Carries(seen, c, text, d) ==
  /\ d \in Edits /\ d.type = c.type /\ d.text = c.text /\ Goes(text, d)
  /\ \A i \in 1..Len(text), j \in 1..Len(seen) : text[i] = seen[j] =>
       /\ i <= d.position <=> j <= c.position
       /\ i <= End(d) <=> j <= End(c)

\* On the text it was made on a chunk has nothing to be moved across.
LEMMA CarriesItself ==
  ASSUME NEW seen \in Seq(Char), IsInjective(seen), NEW c \in Edits, Goes(seen, c)
  PROVE  Carries(seen, c, seen, c)
<1>1. \A i, j \in 1..Len(seen) : seen[i] = seen[j] => i = j
  BY DEF IsInjective
<1> QED BY <1>1 DEF Carries

\* A chunk that stands right on a text stands right on what another chunk
\* makes of it, once it is moved across the other (Transform).
LEMMA CarriesOn ==
  ASSUME NEW seen \in Seq(Char), NEW c, NEW text \in Seq(Char), NEW d, NEW op \in Edits,
         Carries(seen, c, text, d), Goes(text, op), ToSet(op.text) \cap ToSet(seen) = {}
  PROVE  Carries(seen, c, Apply(text, op), Transform(op, d))
<1> DEFINE after == Apply(text, op)
           e == Transform(op, d)
           n == Len(text)
<1>1. d \in Edits /\ d.type = c.type /\ d.text = c.text /\ End(d) <= n
  BY DEF Carries, Goes
<1>2. n \in Nat /\ End(op) <= n /\ after \in Seq(Char)
  BY ApplyType DEF Goes
<1>3. Traced(text, op, after)
  BY ApplyTraced
<1>4. e \in Edits /\ e.type = c.type /\ e.text = c.text
  BY <1>1, TransformEdits
<1>5. /\ End(e) <= IF op.type = "add" THEN n + op.len ELSE n - op.len
      /\ \A i \in 1..n, k \in Nat : Becomes(op, i, k) =>
           /\ k <= e.position <=> i <= d.position
           /\ k <= End(e) <=> i <= End(d)
  <2> HIDE DEF n
  <2> QED BY <1>1, <1>2, MovesAlong
<1> HIDE DEF after, e
<1>6. Goes(after, e)
  BY <1>3, <1>5 DEF Goes, Traced
<1>7. ASSUME NEW k \in 1..Len(after), NEW j \in 1..Len(seen), after[k] = seen[j]
      PROVE  /\ k <= e.position <=> j <= c.position
             /\ k <= End(e) <=> j <= End(c)
  <2>1. ~(\E m \in 1..op.len : op.type = "add" /\ after[k] = op.text[m])
    <3>1. op.type = "add" => op.len = Len(op.text) /\ op.text \in Seq(Char)
      BY EditForms
    <3> QED BY <1>7, <3>1 DEF ToSet
  <2>2. PICK i \in 1..n : Becomes(op, i, k) /\ after[k] = text[i]
    BY <1>3, <2>1 DEF Traced
  <2>3. k \in Nat
    BY <1>2
  <2>4. /\ k <= e.position <=> i <= d.position
        /\ k <= End(e) <=> i <= End(d)
    BY <1>5, <2>2, <2>3
  <2>5. text[i] = seen[j]
    BY <1>7, <2>2
  <2>6. /\ i <= d.position <=> j <= c.position
        /\ i <= End(d) <=> j <= End(c)
    BY <2>5 DEF Carries
  <2> QED BY <2>4, <2>6
<1>8. Carries(seen, c, after, e)
  BY <1>4, <1>6, <1>7 DEF Carries
<1> QED BY <1>8 DEF after, e

--------------------------------------------------------------------------------
(* The order of the characters *)

\* The places a chunk gives to what it leaves keep their order.
LEMMA InPlace ==
  ASSUME NEW op \in Edits, NEW i \in Nat, NEW j \in Nat, NEW k \in Nat, NEW l \in Nat,
         Becomes(op, i, k), Becomes(op, j, l)
  PROVE  /\ i < j <=> k < l
         /\ i = j <=> k = l
<1>1. op.position \in Nat /\ op.len \in Nat /\ op.type \in {"add", "remove"}
  BY EditForms
<1> QED BY <1>1 DEF Becomes

\* A text of different characters is in its own order.
LEMMA OrderItself ==
  ASSUME NEW s \in Seq(Char), IsInjective(s)
  PROVE  SameOrder(s, s)
BY DEF SameOrder, IsInjective

\* To be in the same order goes both ways.
LEMMA OrderBack ==
  ASSUME NEW s \in Seq(Char), NEW t \in Seq(Char), SameOrder(s, t)
  PROVE  SameOrder(t, s)
BY DEF SameOrder

\* To be in the same order is passed on by a text that has all the others share.
LEMMA OrderOn ==
  ASSUME NEW s \in Seq(Char), NEW t \in Seq(Char), NEW u \in Seq(Char),
         SameOrder(s, t), SameOrder(t, u), ToSet(s) \cap ToSet(u) \subseteq ToSet(t)
  PROVE  SameOrder(s, u)
<1> SUFFICES ASSUME NEW i \in DOMAIN s, NEW k \in DOMAIN u, s[i] = u[k],
                    NEW j \in DOMAIN s, NEW l \in DOMAIN u, s[j] = u[l]
             PROVE  i < j <=> k < l
  BY DEF SameOrder
<1>1. s[i] \in ToSet(t) /\ s[j] \in ToSet(t)
  BY DEF ToSet
<1>2. PICK a \in DOMAIN t : t[a] = s[i]
  BY <1>1 DEF ToSet
<1>3. PICK b \in DOMAIN t : t[b] = s[j]
  BY <1>1 DEF ToSet
<1>4. i < j <=> a < b
  BY <1>2, <1>3 DEF SameOrder
<1>5. a < b <=> k < l
  BY <1>2, <1>3 DEF SameOrder
<1> QED BY <1>4, <1>5

\* The characters a chunk inserts are none of the text's, and each is there once.
New(text, op) == ToSet(op.text) \cap ToSet(text) = {} /\ IsInjective(op.text)

\* What a chunk of new characters does to a text.
Keeps(text, op, after) ==
  /\ after \in Seq(Char) /\ IsInjective(after) /\ SameOrder(text, after)
  /\ ToSet(after) \subseteq ToSet(text) \cup ToSet(op.text)

\* Where a chunk stands, how long it is and what it inserts.
LEMMA InsertedText ==
  ASSUME NEW op \in Edits
  PROVE  /\ op.position \in Nat /\ op.len \in Nat /\ op.text \in Seq(Char)
         /\ op.type = "add" => DOMAIN op.text = 1..op.len
BY EditForms

\* Apply keeps the order of what it leaves, with the new characters among it.
LEMMA ApplyKeeps ==
  ASSUME NEW text \in Seq(Char), IsInjective(text),
         NEW op \in Edits, Goes(text, op), New(text, op)
  PROVE  Keeps(text, op, Apply(text, op))
<1> DEFINE after == Apply(text, op)
           x == op.text
           p == op.position
           Old(k) == \E i \in 1..Len(text) : Becomes(op, i, k) /\ after[k] = text[i]
           Fresh(k) == /\ op.type = "add"
                       /\ \E m \in 1..op.len : k = p + m /\ after[k] = x[m]
<1>1. after \in Seq(Char)
  BY ApplyType
<1>2. Traced(text, op, after)
  BY ApplyTraced
<1>3. /\ p \in Nat /\ op.len \in Nat /\ x \in Seq(Char)
      /\ op.type = "add" => DOMAIN x = 1..op.len
  BY InsertedText
<1> HIDE DEF after, x
<1>4. \A k \in 1..Len(after) : Old(k) \/ Fresh(k)
  BY <1>2 DEF Traced, x
<1>5. \A m \in 1..op.len, i \in 1..Len(text) : op.type = "add" => x[m] # text[i]
  <2> SUFFICES ASSUME NEW m \in 1..op.len, NEW i \in 1..Len(text), op.type = "add", x[m] = text[i]
               PROVE  FALSE
    OBVIOUS
  <2>1. x[m] \in ToSet(x) /\ text[i] \in ToSet(text)
    BY <1>3 DEF ToSet
  <2> QED BY <2>1 DEF New, x
<1>6. \A m1, m2 \in 1..op.len : op.type = "add" /\ x[m1] = x[m2] => m1 = m2
  BY <1>3 DEF New, IsInjective, x
<1>7. \A i, j \in 1..Len(text) : text[i] = text[j] => i = j
  BY DEF IsInjective
<1>8. ASSUME NEW k \in 1..Len(after), NEW l \in 1..Len(after), after[k] = after[l]
      PROVE  k = l
  <2>1. CASE Old(k) /\ Old(l)
    <3>1. PICK i \in 1..Len(text) : Becomes(op, i, k) /\ after[k] = text[i]
      BY <2>1
    <3>2. PICK j \in 1..Len(text) : Becomes(op, j, l) /\ after[l] = text[j]
      BY <2>1
    <3>3. i = j
      BY <1>7, <1>8, <3>1, <3>2
    <3>4. i \in Nat /\ j \in Nat /\ k \in Nat /\ l \in Nat
      BY <1>1
    <3> QED BY <3>1, <3>2, <3>3, <3>4, InPlace
  <2>2. CASE Fresh(k) /\ Fresh(l)
    BY <1>6, <1>8, <2>2
  <2>3. CASE (Old(k) /\ Fresh(l)) \/ (Fresh(k) /\ Old(l))
    BY <1>5, <1>8, <2>3
  <2> QED BY <1>4, <2>1, <2>2, <2>3
<1>9. IsInjective(after)
  <2>1. DOMAIN after = 1..Len(after)
    BY <1>1
  <2> QED BY <1>8, <2>1 DEF IsInjective
<1>10. ASSUME NEW i \in 1..Len(text), NEW k \in 1..Len(after), text[i] = after[k]
       PROVE  Becomes(op, i, k)
  <2>1. Old(k)
    BY <1>4, <1>5, <1>10
  <2> QED BY <1>7, <1>10, <2>1
<1>11. SameOrder(text, after)
  <2> SUFFICES ASSUME NEW i \in DOMAIN text, NEW k \in DOMAIN after, text[i] = after[k],
                      NEW j \in DOMAIN text, NEW l \in DOMAIN after, text[j] = after[l]
               PROVE  i < j <=> k < l
    BY DEF SameOrder
  <2>1. i \in 1..Len(text) /\ j \in 1..Len(text) /\ k \in 1..Len(after) /\ l \in 1..Len(after)
    BY <1>1
  <2>2. Becomes(op, i, k) /\ Becomes(op, j, l)
    BY <1>10, <2>1
  <2>3. i \in Nat /\ j \in Nat /\ k \in Nat /\ l \in Nat
    BY <2>1
  <2> QED BY <2>2, <2>3, InPlace
<1>12. ToSet(after) \subseteq ToSet(text) \cup ToSet(x)
  <2> SUFFICES ASSUME NEW k \in 1..Len(after) PROVE after[k] \in ToSet(text) \cup ToSet(x)
    BY <1>1 DEF ToSet
  <2>1. CASE Old(k)
    BY <2>1 DEF ToSet
  <2>2. CASE Fresh(k)
    BY <1>3, <2>2 DEF ToSet
  <2> QED BY <1>4, <2>1, <2>2
<1>13. Keeps(text, op, after)
  BY <1>1, <1>9, <1>11, <1>12 DEF Keeps, x
<1> QED BY <1>13 DEF after

--------------------------------------------------------------------------------
(* What a client wanted *)

\* IntentPreserved, of any four texts.
Intent(seen, wanted, met, after) ==
  /\ ToSet(after) \cap (ToSet(seen) \ ToSet(wanted)) = {}
  /\ ToSet(wanted) \ ToSet(seen) \subseteq ToSet(after)
  /\ (ToSet(met) \cap ToSet(seen)) \ (ToSet(seen) \ ToSet(wanted)) \subseteq ToSet(after)
  /\ SameOrder(wanted, after)

\* The places of one character in what a chunk makes of the text it was made on
\* and in what the chunk carried from it makes of another.
Places(seen, c, met, d, i, k) ==
  \/ \E a \in 1..Len(seen), b \in 1..Len(met) :
       Becomes(c, a, i) /\ Becomes(d, b, k) /\ seen[a] = met[b]
  \/ c.type = "add" /\ \E m \in 1..c.len : i = c.position + m /\ k = d.position + m

\* A character the two texts share is before both insertions or after both.
LEMMA AroundInsertion ==
  ASSUME NEW c \in Edits, NEW d \in Edits, c.type = "add", d.type = "add", d.len = c.len,
         NEW a \in Nat, NEW b \in Nat, NEW i \in Nat, NEW k \in Nat,
         Becomes(c, a, i), Becomes(d, b, k), b <= d.position <=> a <= c.position
  PROVE  \/ i <= c.position /\ k <= d.position
         \/ c.position + c.len < i /\ d.position + c.len < k
<1>1. c.position \in Nat /\ c.len \in Nat /\ d.position \in Nat
  BY InsertedText
<1> QED BY <1>1 DEF Becomes

\* The same place in two insertions of the same length.
LEMMA AddedInOrder ==
  ASSUME NEW p \in Nat, NEW q \in Nat, NEW l \in Nat, NEW m \in 1..l, NEW n \in 1..l
  PROVE  /\ p + m < p + n <=> q + m < q + n
         /\ p < p + m /\ p + m <= p + l
         /\ q < q + m /\ q + m <= q + l
OBVIOUS

\* A place in an insertion, and one before or after it.
LEMMA AddedApart ==
  ASSUME NEW p \in Nat, NEW r \in Nat, NEW l \in Nat,
         NEW i \in Nat, NEW j \in Nat, NEW k \in Nat, NEW q \in Nat,
         (i <= p /\ k <= r) \/ (p + l < i /\ r + l < k),
         p < j, j <= p + l, r < q, q <= r + l
  PROVE  /\ i < j <=> k < q
         /\ j < i <=> q < k
OBVIOUS

\* The places a chunk gives in its own text and, once carried, in another are
\* in the same order.
LEMMA PlacesInOrder ==
  ASSUME NEW seen \in Seq(Char), NEW met \in Seq(Char), SameOrder(seen, met),
         NEW c \in Edits, NEW d, Carries(seen, c, met, d),
         NEW i \in Nat, NEW j \in Nat, NEW k \in Nat, NEW q \in Nat,
         Places(seen, c, met, d, i, k), Places(seen, c, met, d, j, q)
  PROVE  i < j <=> k < q
<1> DEFINE Kept(r, s) == \E a \in 1..Len(seen), b \in 1..Len(met) :
                           Becomes(c, a, r) /\ Becomes(d, b, s) /\ seen[a] = met[b]
           Added(r, s) == /\ c.type = "add"
                          /\ \E m \in 1..c.len : r = c.position + m /\ s = d.position + m
           p == c.position
           z == d.position
           l == c.len
<1>1. d \in Edits /\ d.type = c.type /\ p \in Nat /\ l \in Nat /\ z \in Nat
  BY InsertedText DEF Carries
<1>2. c.type = "add" => d.len = l
  BY <1>1, EditForms DEF Carries
<1>3. (Kept(i, k) \/ Added(i, k)) /\ (Kept(j, q) \/ Added(j, q))
  BY DEF Places
<1>4. CASE Kept(i, k) /\ Kept(j, q)
  <2>1. PICK a1 \in 1..Len(seen), b1 \in 1..Len(met) :
          Becomes(c, a1, i) /\ Becomes(d, b1, k) /\ seen[a1] = met[b1]
    BY <1>4
  <2>2. PICK a2 \in 1..Len(seen), b2 \in 1..Len(met) :
          Becomes(c, a2, j) /\ Becomes(d, b2, q) /\ seen[a2] = met[b2]
    BY <1>4
  <2>3. a1 \in Nat /\ a2 \in Nat /\ b1 \in Nat /\ b2 \in Nat
    OBVIOUS
  <2>4. /\ a1 \in DOMAIN seen /\ a2 \in DOMAIN seen
        /\ b1 \in DOMAIN met /\ b2 \in DOMAIN met
    OBVIOUS
  <2>5. a1 < a2 <=> b1 < b2
    <3>1. \A x, y \in DOMAIN seen, u, v \in DOMAIN met :
            seen[x] = met[u] /\ seen[y] = met[v] => (x < y <=> u < v)
      BY Zenon DEF SameOrder
    <3> QED BY <2>1, <2>2, <2>4, <3>1, Zenon
  <2>6. a1 < a2 <=> i < j
    <3>1. Becomes(c, a1, i) /\ Becomes(c, a2, j)
      BY <2>1, <2>2
    <3> QED BY <2>3, <3>1, InPlace
  <2>7. b1 < b2 <=> k < q
    <3>1. Becomes(d, b1, k) /\ Becomes(d, b2, q) /\ d \in Edits
      BY <1>1, <2>1, <2>2
    <3> QED BY <2>3, <3>1, InPlace
  <2> QED BY <2>5, <2>6, <2>7, Zenon
<1>5. CASE Added(i, k) /\ Added(j, q)
  <2>1. PICK m1 \in 1..l : i = p + m1 /\ k = z + m1
    BY <1>5
  <2>2. PICK m2 \in 1..l : j = p + m2 /\ q = z + m2
    BY <1>5
  <2> HIDE DEF p, z, l
  <2>3. p + m1 < p + m2 <=> z + m1 < z + m2
    BY <1>1, AddedInOrder
  <2> QED BY <2>1, <2>2, <2>3, Zenon
<1>6. ASSUME NEW r \in Nat, NEW s \in Nat, Kept(r, s), c.type = "add"
      PROVE  \/ r <= p /\ s <= z
             \/ p + l < r /\ z + l < s
  <2>1. PICK a \in 1..Len(seen), b \in 1..Len(met) :
          Becomes(c, a, r) /\ Becomes(d, b, s) /\ seen[a] = met[b]
    BY <1>6
  <2>2. b <= z <=> a <= p
    BY <2>1 DEF Carries, p, z
  <2>3. a \in Nat /\ b \in Nat
    OBVIOUS
  <2>4. d.type = "add" /\ d.len = l
    BY <1>1, <1>2, <1>6
  <2> QED BY <1>1, <1>6, <2>1, <2>2, <2>3, <2>4, AroundInsertion DEF p, z, l
<1>7. ASSUME NEW r \in Nat, NEW s \in Nat, Added(r, s)
      PROVE  /\ p < r /\ r <= p + l
             /\ z < s /\ s <= z + l
  <2>1. PICK m \in 1..l : r = p + m /\ s = z + m
    BY <1>7
  <2> HIDE DEF p, z, l
  <2>2. /\ p < p + m /\ p + m <= p + l
        /\ z < z + m /\ z + m <= z + l
    BY <1>1, AddedInOrder
  <2> QED BY <2>1, <2>2
<1>10. (Added(i, k) \/ Added(j, q)) => c.type = "add"
  OBVIOUS
<1> HIDE DEF p, z, l, Kept, Added
<1>8. CASE Kept(i, k) /\ Added(j, q)
  <2>1. \/ i <= p /\ k <= z
        \/ p + l < i /\ z + l < k
    BY <1>6, <1>8, <1>10
  <2>2. /\ p < j /\ j <= p + l
        /\ z < q /\ q <= z + l
    BY <1>7, <1>8
  <2> QED BY <1>1, <2>1, <2>2, AddedApart
<1>9. CASE Added(i, k) /\ Kept(j, q)
  <2>1. \/ j <= p /\ q <= z
        \/ p + l < j /\ z + l < q
    BY <1>6, <1>9, <1>10
  <2>2. /\ p < i /\ i <= p + l
        /\ z < k /\ k <= z + l
    BY <1>7, <1>9
  <2> QED BY <1>1, <2>1, <2>2, AddedApart
<1> QED BY <1>3, <1>4, <1>5, <1>8, <1>9

\* What has a place after a chunk is not what the chunk takes.
LEMMA LeftAlone ==
  ASSUME NEW op \in Edits, NEW i \in Nat, NEW k, Becomes(op, i, k)
  PROVE  ~Taken(op, i)
<1>1. op.position \in Nat /\ op.len \in Nat
  BY InsertedText
<1> QED BY <1>1 DEF Becomes, Taken

\* A chunk that is carried from the text its client saw to another does to the
\* other what it did to the first.
LEMMA CarriedIntent ==
  ASSUME NEW seen \in Seq(Char), NEW met \in Seq(Char),
         IsInjective(seen), IsInjective(met), SameOrder(seen, met),
         NEW c \in Edits, Goes(seen, c), New(seen, c), New(met, c),
         NEW d, Carries(seen, c, met, d)
  PROVE  Intent(seen, Apply(seen, c), met, Apply(met, d))
<1> DEFINE wanted == Apply(seen, c)
           after == Apply(met, d)
           x == c.text
           l == c.len
           OldW(k) == \E i \in 1..Len(seen) : Becomes(c, i, k) /\ wanted[k] = seen[i]
           NewW(k) == c.type = "add" /\ \E m \in 1..l : k = c.position + m /\ wanted[k] = x[m]
           OldA(k) == \E i \in 1..Len(met) : Becomes(d, i, k) /\ after[k] = met[i]
           NewA(k) == c.type = "add" /\ \E m \in 1..l : k = d.position + m /\ after[k] = x[m]
<1>1. d \in Edits /\ d.type = c.type /\ d.text = x /\ Goes(met, d)
  BY DEF Carries
<1>2. wanted \in Seq(Char) /\ after \in Seq(Char)
  BY <1>1, ApplyType
<1>3. /\ c.position \in Nat /\ l \in Nat /\ x \in Seq(Char)
      /\ c.type = "add" => DOMAIN x = 1..l
      /\ d.position \in Nat /\ d.len \in Nat
      /\ c.type = "add" => d.len = l
      /\ c.type \in {"add", "remove"}
  <2>1. c.type = "add" => d.len = Len(d.text) /\ l = Len(x)
    BY <1>1, EditForms
  <2>2. c.type \in {"add", "remove"}
    BY EditForms
  <2> QED BY <1>1, <2>1, <2>2, InsertedText
<1>4. Traced(seen, c, wanted)
  BY ApplyTraced
<1>5. Traced(met, d, after)
  BY <1>1, ApplyTraced
<1> HIDE DEF wanted, after, x, l
<1>6. \A k \in 1..Len(wanted) : OldW(k) \/ NewW(k)
  BY <1>4 DEF Traced, x, l
<1>7. \A k \in 1..Len(after) : OldA(k) \/ NewA(k)
  BY <1>1, <1>3, <1>5 DEF Traced
<1>8. c.type = "add" => \A m \in 1..l : \E k \in 1..Len(after) : after[k] = x[m]
  BY <1>1, <1>3, <1>5 DEF Traced
<1>9. /\ \A m \in 1..l, i \in 1..Len(seen) : c.type = "add" => x[m] # seen[i]
      /\ \A m \in 1..l, i \in 1..Len(met) : c.type = "add" => x[m] # met[i]
  <2>1. \A m \in 1..l : c.type = "add" => x[m] \in ToSet(x)
    BY <1>3 DEF ToSet
  <2>2. ToSet(x) \cap ToSet(seen) = {} /\ ToSet(x) \cap ToSet(met) = {}
    BY DEF New, x
  <2>3. /\ \A i \in 1..Len(seen) : seen[i] \in ToSet(seen)
        /\ \A i \in 1..Len(met) : met[i] \in ToSet(met)
    BY DEF ToSet
  <2> QED BY <2>1, <2>2, <2>3
<1>10. \A m1, m2 \in 1..l : c.type = "add" /\ x[m1] = x[m2] => m1 = m2
  BY <1>3 DEF New, IsInjective, x
<1>11. /\ \A i, j \in 1..Len(seen) : seen[i] = seen[j] => i = j
       /\ \A i, j \in 1..Len(met) : met[i] = met[j] => i = j
  BY DEF IsInjective
<1>12. \A i \in 1..Len(met), j \in 1..Len(seen) : met[i] = seen[j] =>
         /\ i <= d.position <=> j <= c.position
         /\ i <= End(d) <=> j <= End(c)
  BY DEF Carries
<1>13. \A i \in 1..Len(met), j \in 1..Len(seen) : met[i] = seen[j] => (Taken(d, i) <=> Taken(c, j))
  <2> SUFFICES ASSUME NEW i \in 1..Len(met), NEW j \in 1..Len(seen), met[i] = seen[j]
               PROVE  Taken(d, i) <=> Taken(c, j)
    OBVIOUS
  <2>1. /\ i <= d.position <=> j <= c.position
        /\ i <= End(d) <=> j <= End(c)
    BY <1>12
  <2>2. i \in Nat /\ j \in Nat /\ c.len \in Nat
    BY InsertedText
  <2> QED BY <1>1, <1>3, <2>1, <2>2 DEF Taken, End
<1>15. ToSet(after) \cap (ToSet(seen) \ ToSet(wanted)) = {}
  <2> SUFFICES ASSUME NEW e \in ToSet(after), e \in ToSet(seen) PROVE e \in ToSet(wanted)
    OBVIOUS
  <2>a. PICK k \in 1..Len(after) : e = after[k]
    BY <1>2 DEF ToSet
  <2>b. PICK j \in 1..Len(seen) : e = seen[j]
    BY DEF ToSet
  <2>c. after[k] = seen[j]
    BY <2>a, <2>b
  <2>1. OldA(k)
    BY <1>7, <1>9, <2>c
  <2>2. PICK i \in 1..Len(met) : Becomes(d, i, k) /\ after[k] = met[i]
    BY <2>1
  <2>3. ~Taken(d, i)
    <3>1. i \in Nat
      OBVIOUS
    <3> QED BY <1>1, <2>2, <3>1, LeftAlone
  <2>4. ~Taken(c, j)
    BY <1>13, <2>2, <2>3, <2>c
  <2>5. PICK q \in 1..Len(wanted) : wanted[q] = seen[j]
    BY <1>4, <2>4 DEF Traced
  <2> QED BY <1>2, <2>5, <2>b DEF ToSet
<1>16. ToSet(wanted) \ ToSet(seen) \subseteq ToSet(after)
  <2> SUFFICES ASSUME NEW e \in ToSet(wanted), e \notin ToSet(seen)
               PROVE  e \in ToSet(after)
    OBVIOUS
  <2>a. PICK k \in 1..Len(wanted) : e = wanted[k]
    BY <1>2 DEF ToSet
  <2>1. ~OldW(k)
    BY <2>a DEF ToSet
  <2>2. PICK m \in 1..l : c.type = "add" /\ wanted[k] = x[m]
    BY <1>6, <2>1
  <2>3. PICK q \in 1..Len(after) : after[q] = x[m]
    BY <1>8, <2>2
  <2> QED BY <1>2, <2>2, <2>3, <2>a DEF ToSet
<1>17. (ToSet(met) \cap ToSet(seen)) \ (ToSet(seen) \ ToSet(wanted)) \subseteq ToSet(after)
  <2> SUFFICES ASSUME NEW i \in 1..Len(met), NEW j \in 1..Len(seen), met[i] = seen[j],
                      seen[j] \in ToSet(wanted)
               PROVE  met[i] \in ToSet(after)
    BY DEF ToSet
  <2>1. PICK k \in 1..Len(wanted) : wanted[k] = seen[j]
    BY <1>2 DEF ToSet
  <2>2. OldW(k)
    BY <1>6, <1>9, <2>1
  <2>3. Becomes(c, j, k)
    BY <1>11, <2>1, <2>2
  <2>4. ~Taken(c, j)
    <3>1. j \in Nat
      OBVIOUS
    <3> QED BY <2>3, <3>1, LeftAlone
  <2>5. ~Taken(d, i)
    BY <1>13, <2>4
  <2>6. PICK q \in 1..Len(after) : after[q] = met[i]
    BY <1>5, <2>5 DEF Traced
  <2> QED BY <1>2, <2>6 DEF ToSet
<1>18. ASSUME NEW i \in 1..Len(wanted), NEW k \in 1..Len(after), wanted[i] = after[k]
       PROVE  Places(seen, c, met, d, i, k)
  <2>1. CASE OldW(i) /\ OldA(k)
    BY <1>18, <2>1 DEF Places
  <2>2. CASE NewW(i) /\ NewA(k)
    BY <1>10, <1>18, <2>2 DEF Places, l
  <2>3. CASE (OldW(i) /\ NewA(k)) \/ (NewW(i) /\ OldA(k))
    BY <1>9, <1>18, <2>3
  <2> QED BY <1>6, <1>7, <2>1, <2>2, <2>3
<1>19. SameOrder(wanted, after)
  <2>1. ASSUME NEW i \in DOMAIN wanted, NEW k \in DOMAIN after, wanted[i] = after[k],
               NEW j \in DOMAIN wanted, NEW q \in DOMAIN after, wanted[j] = after[q]
        PROVE  i < j <=> k < q
    <3>1. i \in 1..Len(wanted) /\ j \in 1..Len(wanted) /\ k \in 1..Len(after) /\ q \in 1..Len(after)
      BY <1>2
    <3>2. Places(seen, c, met, d, i, k) /\ Places(seen, c, met, d, j, q)
      BY <1>18, <2>1, <3>1
    <3>3. i \in Nat /\ j \in Nat /\ k \in Nat /\ q \in Nat
      BY <3>1
    <3> QED BY <3>2, <3>3, PlacesInOrder
  <2> QED BY <2>1 DEF SameOrder
<1>20. Intent(seen, wanted, met, after)
  BY <1>15, <1>16, <1>17, <1>19 DEF Intent
<1> QED BY <1>20 DEF wanted, after

--------------------------------------------------------------------------------
(* Through what is recorded *)

\* A list of chunks that makes one text of another and stays within what it meets.
Leads(list, from, to) ==
  \E stage \in [0..Len(list) -> Seq(Char)] :
    /\ stage[0] = from /\ stage[Len(list)] = to
    /\ \A i \in 1..Len(list) :
         Goes(stage[i - 1], list[i]) /\ stage[i] = Apply(stage[i - 1], list[i])

\* The chunks of one difference: one, or two with text between them.
Apart(list) == Len(list) = 1 \/ (Len(list) = 2 /\ Follows(list[1], list[2]))

\* None of what a list of chunks inserts is in a text.
Foreign(list, text) == \A i \in 1..Len(list) : ToSet(list[i].text) \cap ToSet(text) = {}

\* A chunk is carried on by the operation recorded for one version.
LEMMA CarriesAcross ==
  ASSUME NEW seen \in Seq(Char), NEW c, NEW from \in Seq(Char), NEW to, NEW list \in Seq(Edits),
         Leads(list, from, to), Foreign(list, seen), NEW d, Carries(seen, c, from, d)
  PROVE  Carries(seen, c, to, Across(list, d))
<1>1. d \in Edits
  BY DEF Carries
<1>2. PICK stage \in [0..Len(list) -> Seq(Char)] :
        /\ stage[0] = from /\ stage[Len(list)] = to
        /\ \A i \in 1..Len(list) :
             Goes(stage[i - 1], list[i]) /\ stage[i] = Apply(stage[i - 1], list[i])
  BY DEF Leads
<1>3. PICK moved \in [0..Len(list) -> Edits] :
        /\ moved[0] = d
        /\ \A i \in 1..Len(list) : moved[i] = Transform(list[i], moved[i - 1])
        /\ Across(list, d) = moved[Len(list)]
  BY <1>1, AcrossStages
<1> DEFINE n == Len(list)
           T == {i \in 0..n : Carries(seen, c, stage[i], moved[i])}
<1>4. n \in Nat /\ 0 \in T
  BY <1>2, <1>3
<1>5. ASSUME NEW i \in 0..(n - 1), i \in T
      PROVE  i + 1 \in T
  <2> DEFINE j == i + 1
  <2>1. j \in 1..n /\ j - 1 = i /\ i \in 0..n /\ j \in 0..n
    BY <1>4
  <2>2. Carries(seen, c, stage[i], moved[i])
    BY <1>5
  <2> HIDE DEF j
  <2>3. list[j] \in Edits /\ ToSet(list[j].text) \cap ToSet(seen) = {}
    BY <2>1 DEF Foreign
  <2>4. Goes(stage[i], list[j]) /\ stage[j] = Apply(stage[i], list[j])
    BY <1>2, <2>1
  <2>5. moved[j] = Transform(list[j], moved[i])
    BY <1>3, <2>1
  <2>6. stage[i] \in Seq(Char)
    BY <1>2, <2>1
  <2>7. Carries(seen, c, stage[j], moved[j])
    <3> DEFINE text == stage[i]
               e == moved[i]
               op == list[j]
    <3>1. /\ text \in Seq(Char) /\ op \in Edits /\ Carries(seen, c, text, e) /\ Goes(text, op)
          /\ ToSet(op.text) \cap ToSet(seen) = {}
      BY <2>2, <2>3, <2>4, <2>6
    <3>2. stage[j] = Apply(text, op) /\ moved[j] = Transform(op, e)
      BY <2>4, <2>5
    <3> HIDE DEF text, e, op
    <3>3. Carries(seen, c, Apply(text, op), Transform(op, e))
      BY <3>1, CarriesOn
    <3> QED BY <3>2, <3>3
  <2> QED BY <2>1, <2>7 DEF j
<1>6. n \in T
  <2> HIDE DEF T
  <2>1. \A i \in 0..(n - 1) : i \in T => i + 1 \in T
    BY <1>5
  <2>2. 0..n \subseteq T
    BY <1>4, <2>1, UpTo
  <2>3. n \in 0..n
    BY <1>4
  <2> QED BY <2>2, <2>3
<1> QED BY <1>2, <1>3, <1>6

\* The operations of a history, each leading from a text to the next.
Path(history, passage) ==
  /\ passage \in [0..Len(history) -> Seq(Char)]
  /\ \A i \in 1..Len(history) : /\ Leads(history[i], passage[i - 1], passage[i])
                                /\ Foreign(history[i], passage[0])

\* A message of one chunk is carried on through the history.
LEMMA CarriesThrough ==
  ASSUME NEW history \in Seq(Seq(Edits)), NEW passage, Path(history, passage),
         NEW c \in Edits, Carries(passage[0], c, passage[0], c)
  PROVE  \E d \in Edits : /\ AcrossAll(history, <<c>>) = <<d>>
                          /\ Carries(passage[0], c, passage[Len(history)], d)
<1> DEFINE seen == passage[0]
           n == Len(history)
<1>1. /\ n \in Nat /\ passage \in [0..n -> Seq(Char)]
      /\ \A i \in 1..n : /\ Leads(history[i], passage[i - 1], passage[i])
                         /\ Foreign(history[i], passage[0])
  BY DEF Path
<1>2. <<c>> \in Seq(Edits)
  OBVIOUS
<1>3. PICK stage \in [0..Len(history) -> Seq(Edits)] :
        /\ stage[0] = <<c>>
        /\ \A i \in 1..Len(history) : stage[i] = TransformMultiple(history[i], stage[i - 1])
        /\ AcrossAll(history, <<c>>) = stage[Len(history)]
  BY <1>2, AcrossAllStages
<1> DEFINE T == {i \in 0..n : /\ Len(stage[i]) = 1
                              /\ Carries(seen, c, passage[i], stage[i][1])}
<1>4. 0 \in T
  BY <1>1, <1>3
<1>5. ASSUME NEW i \in 0..(n - 1), i \in T
      PROVE  i + 1 \in T
  <2> DEFINE j == i + 1
             list == history[j]
             chunks == stage[i]
  <2>1. j \in 1..n /\ j - 1 = i /\ i \in 0..n /\ j \in 0..n /\ 0 \in 0..n
    BY <1>1
  <2>2. Len(stage[i]) = 1 /\ Carries(seen, c, passage[i], stage[i][1])
    BY <1>5
  <2> HIDE DEF j
  <2>3. list \in Seq(Edits) /\ chunks \in Seq(Edits) /\ Len(chunks) = 1
    <3>1. chunks \in Seq(Edits)
      BY <1>3, <2>1
    <3>2. list \in Seq(Edits)
      <4> DEFINE E == Seq(Edits)
      <4>1. history \in Seq(E)
        OBVIOUS
      <4> HIDE DEF E
      <4>2. history[j] \in E
        BY <2>1, <4>1
      <4> QED BY <4>2 DEF E
    <3> QED BY <2>2, <3>1, <3>2
  <2>4. stage[j] = TransformMultiple(list, chunks)
    BY <1>3, <2>1
  <2>5. seen \in Seq(Char) /\ passage[i] \in Seq(Char)
    BY <1>1, <2>1
  <2>6. Leads(list, passage[i], passage[j]) /\ Foreign(list, seen)
    BY <1>1, <2>1
  <2> HIDE DEF list, chunks, seen
  <2>7. Len(stage[j]) = 1 /\ stage[j][1] = Across(list, chunks[1])
    <3>1. 1 \in 1..Len(chunks)
      BY <2>3
    <3>2. /\ Len(TransformMultiple(list, chunks)) = Len(chunks)
          /\ \A k \in 1..Len(chunks) : TransformMultiple(list, chunks)[k] = Across(list, chunks[k])
      BY <2>3, TransformMultipleEdits
    <3> QED BY <2>3, <2>4, <3>1, <3>2
  <2>8. Carries(seen, c, passage[i], chunks[1])
    BY <2>2 DEF chunks
  <2>9. Carries(seen, c, passage[j], stage[j][1])
    BY <2>3, <2>5, <2>6, <2>7, <2>8, CarriesAcross
  <2> QED BY <2>1, <2>7, <2>9 DEF j
<1>6. n \in T
  <2> HIDE DEF T
  <2>1. \A i \in 0..(n - 1) : i \in T => i + 1 \in T
    BY <1>5
  <2>2. 0..n \subseteq T
    BY <1>1, <1>4, <2>1, UpTo
  <2>3. n \in 0..n
    BY <1>1
  <2> QED BY <2>2, <2>3
<1> DEFINE d == stage[n][1]
<1>7. stage[n] \in Seq(Edits) /\ Len(stage[n]) = 1
  BY <1>1, <1>3, <1>6
<1>8. stage[n] = <<d>> /\ d \in Edits
  BY <1>7
<1>9. Carries(seen, c, passage[n], d)
  BY <1>6
<1> HIDE DEF d
<1> QED BY <1>3, <1>8, <1>9

--------------------------------------------------------------------------------
(* What a message does to the text it meets *)

\* A text that grows out of another, by characters numbered from n + 1 to m.
Grows(met, after, n, m) ==
  /\ after \in Seq(Char) /\ IsInjective(after) /\ SameOrder(met, after)
  /\ ToSet(after) \subseteq ToSet(met) \cup (n + 1)..m

\* A message of one chunk does what the chunk does.
LEMMA ApplyOne ==
  ASSUME NEW text \in Seq(Char), NEW a \in Edits
  PROVE  ApplyMultiple(text, <<a>>) = Apply(text, a)
<1>1. <<a>> \in Seq(Edits) /\ Len(<<a>>) = 1 /\ <<a>>[1] = a
  OBVIOUS
<1> DEFINE list == <<a>>
<1> HIDE DEF list
<1>2. list \in Seq(Edits) /\ Len(list) = 1 /\ list[1] = a
  BY <1>1 DEF list
<1>3. PICK stage \in [0..Len(list) -> Seq(Char)] :
        /\ stage[0] = text
        /\ \A i \in 1..Len(list) : stage[i] = Apply(stage[i - 1], list[i])
        /\ ApplyMultiple(text, list) = stage[Len(list)]
  BY <1>2, ApplyStages
<1>4. 1 \in 1..Len(list) /\ 1 - 1 = 0
  BY <1>2
<1>5. stage[1] = Apply(stage[1 - 1], list[1])
  BY <1>3, <1>4
<1> QED BY <1>2, <1>3, <1>4, <1>5 DEF list

\* A message of two chunks does what the one does after the other.
LEMMA ApplyTwo ==
  ASSUME NEW text \in Seq(Char), NEW a \in Edits, NEW b \in Edits
  PROVE  ApplyMultiple(text, <<a, b>>) = Apply(Apply(text, a), b)
<1>1. <<a, b>> \in Seq(Edits) /\ Len(<<a, b>>) = 2 /\ <<a, b>>[1] = a /\ <<a, b>>[2] = b
  OBVIOUS
<1> DEFINE list == <<a, b>>
<1> HIDE DEF list
<1>2. list \in Seq(Edits) /\ Len(list) = 2 /\ list[1] = a /\ list[2] = b
  BY <1>1 DEF list
<1>3. PICK stage \in [0..Len(list) -> Seq(Char)] :
        /\ stage[0] = text
        /\ \A i \in 1..Len(list) : stage[i] = Apply(stage[i - 1], list[i])
        /\ ApplyMultiple(text, list) = stage[Len(list)]
  BY <1>2, ApplyStages
<1>4. 1 \in 1..Len(list) /\ 1 - 1 = 0 /\ 2 \in 1..Len(list) /\ 2 - 1 = 1
  BY <1>2
<1>5. stage[1] = Apply(stage[1 - 1], list[1]) /\ stage[2] = Apply(stage[2 - 1], list[2])
  BY <1>3, <1>4
<1> QED BY <1>2, <1>3, <1>4, <1>5 DEF list

\* Characters numbered above those of a text are new to it.
LEMMA NumberedAbove ==
  ASSUME NEW text, NEW n \in Nat, ToSet(text) \subseteq 1..n, NEW op, NEW m, Brings(op, n, m)
  PROVE  New(text, op)
BY DEF New, Brings

\* A message of one chunk, on the text it meets.
LEMMA OneSent ==
  ASSUME NEW n \in Nat, NEW m \in Nat,
         NEW seen \in Seq(Char), IsInjective(seen), ToSet(seen) \subseteq 1..n,
         NEW met \in Seq(Char), IsInjective(met), ToSet(met) \subseteq 1..n,
         SameOrder(seen, met), NEW c \in Edits, Goes(seen, c), Brings(c, n, m),
         NEW d, Carries(seen, c, met, d)
  PROVE  LET after == ApplyMultiple(met, <<d>>)
         IN  /\ Leads(<<d>>, met, after) /\ Grows(met, after, n, m)
             /\ Intent(seen, ApplyMultiple(seen, <<c>>), met, after)
<1> DEFINE after == Apply(met, d)
<1>1. d \in Edits /\ d.text = c.text /\ Goes(met, d)
  BY DEF Carries
<1>2. after \in Seq(Char) /\ ApplyMultiple(met, <<d>>) = after
  BY <1>1, ApplyType, ApplyOne
<1>3. ApplyMultiple(seen, <<c>>) = Apply(seen, c)
  BY ApplyOne
<1>4. New(seen, c) /\ New(met, c) /\ New(met, d)
  <2>1. New(seen, c) /\ New(met, c)
    BY NumberedAbove
  <2> QED BY <1>1, <2>1 DEF New
<1>5. Intent(seen, Apply(seen, c), met, after)
  BY <1>4, CarriedIntent
<1>6. Keeps(met, d, after)
  BY <1>1, <1>4, ApplyKeeps
<1>7. Grows(met, after, n, m)
  BY <1>1, <1>6 DEF Keeps, Grows, Brings
<1>8. Leads(<<d>>, met, after)
  <2> DEFINE stage == [i \in 0..1 |-> IF i = 0 THEN met ELSE after]
  <2>1. Len(<<d>>) = 1 /\ <<d>>[1] = d
    OBVIOUS
  <2>2. stage \in [0..1 -> Seq(Char)] /\ stage[0] = met /\ stage[1] = after
    <3> HIDE DEF after
    <3> QED BY <1>2
  <2>3. \A i \in 1..1 : i = 1 /\ i - 1 = 0
    OBVIOUS
  <2> DEFINE list == <<d>>
  <2>4. \A i \in 1..Len(list) : /\ Goes(stage[i - 1], list[i])
                                /\ stage[i] = Apply(stage[i - 1], list[i])
    <3> HIDE DEF stage
    <3> QED BY <1>1, <2>1, <2>2, <2>3
  <2> HIDE DEF stage, after, list
  <2>5. Len(list) = 1
    BY <2>1 DEF list
  <2>6. Leads(list, met, after)
    BY <2>2, <2>4, <2>5 DEF Leads
  <2> QED BY <2>6 DEF list
<1> HIDE DEF after
<1> QED BY <1>2, <1>3, <1>5, <1>7, <1>8

\* A message of two chunks, on the text it was made on.
LEMMA TwoSent ==
  ASSUME NEW n \in Nat, NEW k \in Nat,
         NEW met \in Seq(Char), IsInjective(met), ToSet(met) \subseteq 1..n,
         NEW a \in Edits, Goes(met, a), Brings(a, n, n + k),
         NEW b \in Edits, Goes(Apply(met, a), b), Brings(b, n + k, n + 2 * k)
  PROVE  LET after == ApplyMultiple(met, <<a, b>>)
         IN  /\ Leads(<<a, b>>, met, after) /\ Grows(met, after, n, n + 2 * k)
             /\ Intent(met, after, met, after)
<1> DEFINE t == Apply(met, a)
           after == Apply(t, b)
<1>1. t \in Seq(Char) /\ Goes(t, b)
  BY ApplyType
<1>2. after \in Seq(Char) /\ ApplyMultiple(met, <<a, b>>) = after
  <2>1. ApplyMultiple(met, <<a, b>>) = after
    BY ApplyTwo
  <2> HIDE DEF t
  <2> QED BY <1>1, <2>1, ApplyType
<1>3. Keeps(met, a, t)
  BY NumberedAbove, ApplyKeeps
<1>4. n + k \in Nat /\ ToSet(t) \subseteq 1..(n + k)
  BY <1>3 DEF Keeps, Brings
<1>5. Keeps(t, b, after)
  <2>1. IsInjective(t)
    BY <1>3 DEF Keeps
  <2> HIDE DEF t
  <2>2. New(t, b)
    BY <1>4, NumberedAbove
  <2> QED BY <1>1, <2>1, <2>2, ApplyKeeps
<1> HIDE DEF after, t
<1>6. SameOrder(met, after)
  <2>1. ToSet(b.text) \cap ToSet(met) = {}
    BY <1>4 DEF Brings
  <2>2. ToSet(met) \cap ToSet(after) \subseteq ToSet(t)
    BY <1>5, <2>1 DEF Keeps
  <2>3. SameOrder(met, t) /\ SameOrder(t, after)
    BY <1>3, <1>5 DEF Keeps
  <2> QED BY <1>1, <1>2, <2>2, <2>3, OrderOn
<1>7. ToSet(after) \subseteq ToSet(met) \cup (n + 1)..(n + 2 * k)
  <2>1. ToSet(after) \subseteq ToSet(t) \cup ToSet(b.text) /\ ToSet(t) \subseteq ToSet(met) \cup ToSet(a.text)
    BY <1>3, <1>5 DEF Keeps
  <2>2. /\ (n + 1)..(n + k) \subseteq (n + 1)..(n + 2 * k)
        /\ ((n + k) + 1)..(n + 2 * k) \subseteq (n + 1)..(n + 2 * k)
    OBVIOUS
  <2>3. ToSet(a.text) \subseteq (n + 1)..(n + k) /\ ToSet(b.text) \subseteq ((n + k) + 1)..(n + 2 * k)
    BY DEF Brings
  <2> QED BY <2>1, <2>2, <2>3
<1>8. IsInjective(after)
  BY <1>5 DEF Keeps
<1>9. Intent(met, after, met, after)
  BY <1>2, <1>8, OrderItself DEF Intent
<1>10. Leads(<<a, b>>, met, after)
  <2> DEFINE stage == [i \in 0..2 |-> IF i = 0 THEN met ELSE IF i = 1 THEN t ELSE after]
             list == <<a, b>>
  <2>1. Len(list) = 2 /\ list[1] = a /\ list[2] = b
    OBVIOUS
  <2>2. stage \in [0..2 -> Seq(Char)] /\ stage[0] = met /\ stage[1] = t /\ stage[2] = after
    BY <1>1, <1>2
  <2>3. \A i \in 1..2 : i = 1 \/ i = 2
    OBVIOUS
  <2>4. t = Apply(met, a) /\ after = Apply(t, b)
    BY DEF t, after
  <2> HIDE DEF stage, list
  <2>5. \A i \in 1..Len(list) : /\ Goes(stage[i - 1], list[i])
                                /\ stage[i] = Apply(stage[i - 1], list[i])
    <3>1. Goes(stage[1 - 1], list[1]) /\ stage[1] = Apply(stage[1 - 1], list[1])
      BY <2>1, <2>2, <2>4
    <3>2. Goes(stage[2 - 1], list[2]) /\ stage[2] = Apply(stage[2 - 1], list[2])
      BY <1>1, <2>1, <2>2, <2>4
    <3> QED BY <2>1, <2>3, <3>1, <3>2
  <2>6. Leads(list, met, after)
    BY <2>1, <2>2, <2>5 DEF Leads
  <2> QED BY <2>6 DEF list
<1>11. Grows(met, after, n, n + 2 * k)
  BY <1>2, <1>6, <1>7, <1>8 DEF Grows
<1> QED BY <1>2, <1>9, <1>10, <1>11

--------------------------------------------------------------------------------
(* The intent of the last message *)

\* A character is at most once in a text, and those of all texts so far are
\* numbered up to Spent.
Numbered ==
  \A v \in 0..Version : IsInjective(TextAt(v)) /\ ToSet(TextAt(v)) \subseteq 1..Spent(Version)

\* No two characters ever change places.
Ordered == \A u, v \in 0..Version : SameOrder(TextAt(u), TextAt(v))

\* What is recorded for a version makes its text of the one before, out of
\* characters no earlier text had.
Recorded ==
  \A v \in 1..Version : /\ Leads(ops[v], TextAt(v - 1), TextAt(v))
                        /\ \A u \in 0..(v - 1) : Foreign(ops[v], TextAt(u))

\* What is recorded for a version is one chunk, or two with text between them.
Spaced == \A v \in 1..Version : Apart(ops[v])

Followed == Written /\ Numbered /\ Ordered /\ Recorded /\ Spaced

\* What a message leaves, and what it means to its client.
Leaves(base, chunks, toApply, after) ==
  /\ Apart(toApply)
  /\ Leads(toApply, TextAt(Version), after)
  /\ \A u \in 0..Version : Foreign(toApply, TextAt(u))
  /\ Grows(TextAt(Version), after, Spent(Version), Spent(Version + 1))
  /\ Intent(TextAt(base), ApplyMultiple(TextAt(base), chunks), TextAt(Version), after)

\* Chunks that insert what chunks numbered above all texts insert are foreign to each.
LEMMA NumberedForeign ==
  ASSUME Followed, Spent(Version) \in Nat, NEW toApply, NEW m,
         \A i \in 1..Len(toApply) : ToSet(toApply[i].text) \subseteq (Spent(Version) + 1)..m
  PROVE  \A u \in 0..Version : Foreign(toApply, TextAt(u))
<1> DEFINE n == Spent(Version)
<1> SUFFICES ASSUME NEW u \in 0..Version, NEW i \in 1..Len(toApply)
             PROVE  ToSet(toApply[i].text) \cap ToSet(TextAt(u)) = {}
  BY DEF Foreign
<1>1. ToSet(TextAt(u)) \subseteq 1..n
  BY DEF Followed, Numbered
<1>2. ToSet(toApply[i].text) \subseteq (n + 1)..m /\ n \in Nat
  OBVIOUS
<1> HIDE DEF n
<1> QED BY <1>1, <1>2

\* The history since the version a message was made on is a path to the current text.
LEMMA SincePath ==
  ASSUME Followed, NEW base \in 0..Version
  PROVE  LET passage == [i \in 0..(Version - base) |-> TextAt(base + i)]
         IN  /\ Path(Since(base), passage) /\ Len(Since(base)) = Version - base
             /\ passage[0] = TextAt(base) /\ passage[Version - base] = TextAt(Version)
<1> DEFINE passage == [i \in 0..(Version - base) |-> TextAt(base + i)]
           history == Since(base)
<1>1. Written /\ Version \in Nat /\ base \in Nat /\ base <= Version
  BY Bounds DEF Followed, Written
<1>2. /\ history \in Seq(Seq(Edits)) /\ Len(history) = Version - base
      /\ \A i \in 1..(Version - base) : history[i] = ops[base + i]
  BY <1>1, SinceType
<1>3. passage \in [0..(Version - base) -> Seq(Char)]
  <2> SUFFICES ASSUME NEW i \in 0..(Version - base) PROVE TextAt(base + i) \in Seq(Char)
    OBVIOUS
  <2>1. base + i \in 0..Version
    BY <1>1
  <2> DEFINE v == base + i
  <2>2. v \in 0..Version
    BY <2>1
  <2> HIDE DEF v
  <2>3. TextAt(v) \in Seq(Char)
    BY <1>1, <2>2, TextType
  <2> QED BY <2>3 DEF v
<1>4. passage[0] = TextAt(base) /\ passage[Version - base] = TextAt(Version)
  <2>1. 0 \in 0..(Version - base) /\ Version - base \in 0..(Version - base)
    BY <1>1
  <2>2. base + 0 = base /\ base + (Version - base) = Version
    BY <1>1
  <2> QED BY <2>1, <2>2
<1>5. ASSUME NEW i \in 1..(Version - base)
      PROVE  Leads(history[i], passage[i - 1], passage[i]) /\ Foreign(history[i], passage[0])
  <2> DEFINE v == base + i
  <2>1. /\ v \in 1..Version /\ v - 1 = base + (i - 1) /\ base \in 0..(v - 1)
        /\ i \in 0..(Version - base) /\ i - 1 \in 0..(Version - base)
    BY <1>1
  <2>2. passage[i - 1] = TextAt(v - 1) /\ passage[i] = TextAt(v) /\ history[i] = ops[v]
    BY <1>2, <2>1
  <2> HIDE DEF v, passage, history
  <2>3. Leads(ops[v], TextAt(v - 1), TextAt(v)) /\ Foreign(ops[v], TextAt(base))
    BY <2>1 DEF Followed, Recorded
  <2> QED BY <1>4, <2>2, <2>3
<1>6. Path(history, passage)
  <2> HIDE DEF passage, history
  <2> QED BY <1>2, <1>3, <1>5 DEF Path
<1>7. Path(history, passage) /\ Len(history) = Version - base
  BY <1>2, <1>6
<1> QED BY <1>4, <1>7, Zenon

\* A message of one chunk, however far behind.
LEMMA OneChunkLeaves ==
  ASSUME Followed, NEW base, NEW chunks, Message(base, chunks),
         OneChunk(chunks, TextAt(base), Spent(Version))
  PROVE  LET toApply == TransformStaleChunks(base, chunks)
         IN  Leaves(base, chunks, toApply, ApplyMultiple(TextAt(Version), toApply))
<1> DEFINE n == Spent(Version)
           seen == TextAt(base)
           met == TextAt(Version)
<1>1. /\ Written /\ base \in 0..Version /\ Version \in 0..Version /\ Version \in Nat
      /\ chunks \in Seq(Edits)
  <2>1. Written /\ Version \in 0..Version /\ Version \in Nat
    BY Bounds DEF Followed, Written
  <2> QED BY <2>1, MessageType
<1>2. /\ n \in Nat /\ InsertLength \in Nat /\ Spent(Version + 1) = n + 2 * InsertLength
  BY <1>1, NewCharacters DEF Message
<1>3. /\ seen \in Seq(Char) /\ IsInjective(seen) /\ ToSet(seen) \subseteq 1..n
      /\ met \in Seq(Char) /\ IsInjective(met) /\ ToSet(met) \subseteq 1..n
      /\ SameOrder(seen, met)
  <2>1. seen \in Seq(Char) /\ met \in Seq(Char)
    BY <1>1, TextType
  <2> QED BY <1>1, <2>1 DEF Followed, Numbered, Ordered
<1>4. PICK c \in Edits : chunks = <<c>> /\ Goes(seen, c) /\ Brings(c, n, n + InsertLength)
  BY DEF OneChunk
<1> HIDE DEF n, seen, met
<1>5. Brings(c, n, n + 2 * InsertLength)
  <2>1. (n + 1)..(n + InsertLength) \subseteq (n + 1)..(n + 2 * InsertLength)
    BY <1>2
  <2> QED BY <1>4, <2>1 DEF Brings
<1>6. Carries(seen, c, seen, c)
  BY <1>3, <1>4, CarriesItself
<1>7. PICK d \in Edits : TransformStaleChunks(base, chunks) = <<d>> /\ Carries(seen, c, met, d)
  <2> DEFINE passage == [i \in 0..(Version - base) |-> TextAt(base + i)]
             history == Since(base)
  <2>1. /\ Path(history, passage) /\ Len(history) = Version - base
        /\ passage[0] = seen /\ passage[Version - base] = met
    BY <1>1, SincePath DEF seen, met
  <2>2. history \in Seq(Seq(Edits))
    BY <1>1, SinceType
  <2>3. TransformStaleChunks(base, chunks) = AcrossAll(history, chunks)
    BY <1>1, TransformedType
  <2> HIDE DEF passage, history
  <2>4. Carries(passage[0], c, passage[0], c)
    BY <1>6, <2>1
  <2>5. PICK d \in Edits : /\ AcrossAll(history, <<c>>) = <<d>>
                           /\ Carries(passage[0], c, passage[Len(history)], d)
    BY <2>1, <2>2, <2>4, CarriesThrough
  <2> QED BY <1>4, <2>1, <2>3, <2>5
<1> DEFINE m == n + 2 * InsertLength
           after == ApplyMultiple(met, <<d>>)
<1>8. m \in Nat
  BY <1>2
<1>9. Brings(c, n, m)
  BY <1>5
<1> HIDE DEF m, after
<1>10. /\ Leads(<<d>>, met, after) /\ Grows(met, after, n, m)
       /\ Intent(seen, ApplyMultiple(seen, <<c>>), met, after)
  <2>1. LET a == ApplyMultiple(met, <<d>>)
        IN  /\ Leads(<<d>>, met, a) /\ Grows(met, a, n, m)
            /\ Intent(seen, ApplyMultiple(seen, <<c>>), met, a)
    BY <1>2, <1>3, <1>4, <1>7, <1>8, <1>9, OneSent
  <2> QED BY <2>1 DEF after
<1>11. \A u \in 0..Version : Foreign(<<d>>, TextAt(u))
  <2> DEFINE list == <<d>>
  <2>1. Len(list) = 1 /\ list[1] = d
    OBVIOUS
  <2>2. d.text = c.text
    BY <1>7 DEF Carries
  <2>3. \A i \in 1..Len(list) : ToSet(list[i].text) \subseteq (n + 1)..m
    <3> HIDE DEF list
    <3>1. \A i \in 1..Len(list) : i = 1
      BY <2>1
    <3> QED BY <1>9, <2>1, <2>2, <3>1 DEF Brings
  <2> HIDE DEF list
  <2>4. \A u \in 0..Version : Foreign(list, TextAt(u))
    BY <1>2, <2>3, NumberedForeign DEF n
  <2> QED BY <2>4 DEF list
<1>12. Spent(Version + 1) = m
  BY <1>2 DEF m
<1>13. Leaves(base, chunks, <<d>>, after)
  <2>1. Apart(<<d>>)
    BY DEF Apart
  <2> QED BY <1>4, <1>10, <1>11, <1>12, <2>1 DEF Leaves, n, seen, met
<1> QED BY <1>7, <1>13 DEF after, met

\* A message that is up to date is not moved.
LEMMA FreshUnmoved ==
  ASSUME Written, NEW chunks \in Seq(Edits)
  PROVE  TransformStaleChunks(Version, chunks) = chunks
<1>1. Version \in 0..Version /\ Version - Version = 0
  BY Bounds DEF Written
<1>2. TransformStaleChunks(Version, chunks) = AcrossAll(Since(Version), chunks)
  BY <1>1, TransformedType
<1> DEFINE history == Since(Version)
<1>3. history \in Seq(Seq(Edits)) /\ Len(history) = 0
  BY <1>1, SinceType
<1> HIDE DEF history
<1>4. PICK stage \in [0..Len(history) -> Seq(Edits)] :
        /\ stage[0] = chunks
        /\ \A i \in 1..Len(history) : stage[i] = TransformMultiple(history[i], stage[i - 1])
        /\ AcrossAll(history, chunks) = stage[Len(history)]
  BY <1>3, AcrossAllStages
<1> QED BY <1>2, <1>3, <1>4 DEF history

\* A message of two chunks that is up to date.
LEMMA TwoChunksLeave ==
  ASSUME Followed, NEW chunks, Message(Version, chunks),
         TwoChunks(chunks, TextAt(Version), Spent(Version))
  PROVE  LET toApply == TransformStaleChunks(Version, chunks)
         IN  Leaves(Version, chunks, toApply, ApplyMultiple(TextAt(Version), toApply))
<1> DEFINE n == Spent(Version)
           met == TextAt(Version)
           k == InsertLength
<1>1. Written /\ Version \in 0..Version /\ Version \in Nat /\ chunks \in Seq(Edits)
  <2>1. Written /\ Version \in 0..Version /\ Version \in Nat
    BY Bounds DEF Followed, Written
  <2> QED BY <2>1, MessageType
<1>2. n \in Nat /\ k \in Nat /\ Spent(Version + 1) = n + 2 * k
  BY <1>1, NewCharacters DEF Message
<1>3. met \in Seq(Char) /\ IsInjective(met) /\ ToSet(met) \subseteq 1..n
  <2>1. met \in Seq(Char)
    BY <1>1, TextType
  <2> QED BY <1>1, <2>1 DEF Followed, Numbered
<1>4. PICK a, b \in Edits :
        /\ chunks = <<a, b>> /\ Follows(a, b)
        /\ Goes(met, a) /\ Brings(a, n, n + k)
        /\ Goes(Apply(met, a), b) /\ Brings(b, n + k, n + 2 * k)
  BY DEF TwoChunks
<1>5. TransformStaleChunks(Version, chunks) = chunks
  BY <1>1, FreshUnmoved
<1> DEFINE after == ApplyMultiple(met, <<a, b>>)
           list == <<a, b>>
<1> HIDE DEF n, met, k, after
<1>6. Leads(<<a, b>>, met, after) /\ Grows(met, after, n, n + 2 * k) /\ Intent(met, after, met, after)
  <2>1. LET r == ApplyMultiple(met, <<a, b>>)
        IN  Leads(<<a, b>>, met, r) /\ Grows(met, r, n, n + 2 * k) /\ Intent(met, r, met, r)
    BY <1>2, <1>3, <1>4, TwoSent
  <2> QED BY <2>1 DEF after
<1>7. Len(list) = 2 /\ list[1] = a /\ list[2] = b
  OBVIOUS
<1> HIDE DEF list
<1>8. \A i \in 1..Len(list) : ToSet(list[i].text) \subseteq (n + 1)..(n + 2 * k)
  <2>1. \A i \in 1..Len(list) : i = 1 \/ i = 2
    BY <1>7
  <2>2. /\ (n + 1)..(n + k) \subseteq (n + 1)..(n + 2 * k)
        /\ ((n + k) + 1)..(n + 2 * k) \subseteq (n + 1)..(n + 2 * k)
    BY <1>2
  <2>3. ToSet(a.text) \subseteq (n + 1)..(n + k) /\ ToSet(b.text) \subseteq ((n + k) + 1)..(n + 2 * k)
    BY <1>4 DEF Brings
  <2> QED BY <1>7, <2>1, <2>2, <2>3
<1>9. \A u \in 0..Version : Foreign(list, TextAt(u))
  BY <1>2, <1>8, NumberedForeign DEF n
<1>10. chunks = list /\ after = ApplyMultiple(met, list)
  BY <1>4 DEF list, after
<1>11. Leaves(Version, chunks, chunks, after)
  <2>1. Apart(list)
    BY <1>4, <1>7 DEF Apart
  <2> QED BY <1>2, <1>6, <1>9, <1>10, <2>1 DEF Leaves, n, met, list, after
<1> QED BY <1>5, <1>10, <1>11 DEF met

\* Any message, if those that are behind have one chunk.
LEMMA MessageLeaves ==
  ASSUME StaleChunks < 2, Followed, NEW base, NEW chunks, Message(base, chunks)
  PROVE  LET toApply == TransformStaleChunks(base, chunks)
         IN  Leaves(base, chunks, toApply, ApplyMultiple(TextAt(Version), toApply))
<1>1. \/ OneChunk(chunks, TextAt(base), Spent(Version))
      \/ base = Version /\ TwoChunks(chunks, TextAt(base), Spent(Version))
  <2>1. Written
    BY DEF Followed
  <2> QED BY <2>1, MessageType
<1>2. CASE OneChunk(chunks, TextAt(base), Spent(Version))
  BY <1>2, OneChunkLeaves
<1>3. CASE base = Version /\ TwoChunks(chunks, TextAt(base), Spent(Version))
  BY <1>3, TwoChunksLeave
<1> QED BY <1>1, <1>2, <1>3

\* It is all so before the first message.
LEMMA FollowedInit == Init => Followed
<1> SUFFICES ASSUME Init PROVE Followed
  OBVIOUS
<1>1. Written
  BY WrittenInit
<1>2. /\ Version = 0 /\ texts[1] \in Seq(Char)
      /\ \A i \in DOMAIN texts[1] : texts[1][i] = i
      /\ ToSet(texts[1]) \subseteq 1..Spent(0)
  BY FirstType
<1>3. IsInjective(texts[1])
  BY <1>2 DEF IsInjective
<1>4. \A v \in 0..Version : TextAt(v) = texts[1]
  <2> SUFFICES ASSUME NEW v \in 0..Version PROVE texts[v + 1] = texts[1]
    BY DEF TextAt
  <2>1. v = 0
    BY <1>2
  <2> QED BY <2>1
<1>5. Numbered
  BY <1>2, <1>3, <1>4 DEF Numbered
<1>6. Ordered
  BY <1>2, <1>3, <1>4, OrderItself DEF Ordered
<1>7. Recorded
  BY <1>2 DEF Recorded
<1>8. Spaced
  BY <1>2 DEF Spaced
<1> QED BY <1>1, <1>5, <1>6, <1>7, <1>8 DEF Followed

\* A message keeps all of it.
LEMMA FollowedMessage ==
  ASSUME StaleChunks < 2, Followed, NEW base, NEW chunks, Message(base, chunks)
  PROVE  Followed'
<1> DEFINE toApply == TransformStaleChunks(base, chunks)
           after == ApplyMultiple(TextAt(Version), toApply)
<1>1. Written /\ Version \in Nat /\ Version \in 0..Version
  BY Bounds DEF Followed, Written
<1>2. /\ toApply \in Seq(Edits) /\ after \in Seq(Char)
      /\ Version' = Version + 1
      /\ \A v \in 0..Version : TextAt(v)' = TextAt(v)
      /\ texts'[Version + 2] = after
      /\ \A v \in 1..Version : ops'[v] = ops[v]
      /\ ops'[Version + 1] = toApply
  BY <1>1, MessageWrites
<1>3. Leaves(base, chunks, toApply, after)
  BY MessageLeaves
<1> HIDE DEF toApply, after
<1>4. /\ Spent(Version) \in Nat /\ Spent(Version + 1) \in Nat
      /\ Spent(Version) <= Spent(Version + 1)
  <2>1. /\ Spent(Version) \in Nat /\ InsertLength \in Nat
        /\ Spent(Version + 1) = Spent(Version) + 2 * InsertLength
    BY <1>1, NewCharacters DEF Message
  <2> QED BY <2>1
<1>5. PICK w : w = Version + 1
  OBVIOUS
<1>6. TextAt(w)' = after
  <2>1. TextAt(w)' = texts'[w + 1]
    BY DEF TextAt
  <2> QED BY <1>1, <1>2, <1>5, <2>1
<1>7. \A v : v \in (0..Version)' <=> v \in 0..Version \/ v = w
  BY <1>1, <1>2, <1>5
<1>8. /\ Leads(toApply, TextAt(Version), after)
      /\ \A u \in 0..Version : Foreign(toApply, TextAt(u))
      /\ Grows(TextAt(Version), after, Spent(Version), Spent(w))
  BY <1>3, <1>5 DEF Leaves
<1>9. Spent(w) \in Nat /\ Spent(Version) <= Spent(w) /\ Spent(Version') = Spent(w)
  BY <1>2, <1>4, <1>5
<1>10. \A v \in 0..Version : /\ TextAt(v) \in Seq(Char) /\ IsInjective(TextAt(v))
                             /\ ToSet(TextAt(v)) \subseteq 1..Spent(Version)
  BY <1>1, TextType DEF Followed, Numbered
<1>11. Written'
  <2>1. Next
    BY DEF Message, Next
  <2> QED BY <1>1, <2>1, WrittenStep
<1>12. Numbered'
  <2> SUFFICES ASSUME NEW v \in (0..Version)'
               PROVE  IsInjective(TextAt(v)') /\ ToSet(TextAt(v)') \subseteq 1..Spent(Version')
    BY DEF Numbered, Spent
  <2>1. CASE v \in 0..Version
    <3>1. TextAt(v)' = TextAt(v)
      BY <1>2, <2>1
    <3>2. 1..Spent(Version) \subseteq 1..Spent(Version')
      BY <1>4, <1>9
    <3> QED BY <1>10, <2>1, <3>1, <3>2
  <2>2. CASE v = w
    <3>1. TextAt(v)' = after
      BY <1>6, <2>2
    <3>2. /\ IsInjective(after)
          /\ ToSet(after) \subseteq ToSet(TextAt(Version)) \cup (Spent(Version) + 1)..Spent(w)
      BY <1>8 DEF Grows
    <3>3. ToSet(TextAt(Version)) \subseteq 1..Spent(Version)
      BY <1>1, <1>10
    <3>4. 1..Spent(Version) \subseteq 1..Spent(w) /\ (Spent(Version) + 1)..Spent(w) \subseteq 1..Spent(w)
      BY <1>4, <1>9
    <3> QED BY <1>9, <3>1, <3>2, <3>3, <3>4
  <2> QED BY <1>7, <2>1, <2>2
<1>13. ASSUME NEW u \in 0..Version
       PROVE  SameOrder(TextAt(u), after)
  <2>1. TextAt(u) \in Seq(Char) /\ TextAt(Version) \in Seq(Char) /\ after \in Seq(Char)
    BY <1>1, <1>2, <1>10
  <2>2. SameOrder(TextAt(u), TextAt(Version))
    BY <1>1 DEF Followed, Ordered
  <2>3. /\ SameOrder(TextAt(Version), after)
        /\ ToSet(after) \subseteq ToSet(TextAt(Version)) \cup (Spent(Version) + 1)..Spent(w)
    BY <1>8 DEF Grows
  <2>4. ToSet(TextAt(u)) \subseteq 1..Spent(Version)
    BY <1>10
  <2>5. 1..Spent(Version) \cap (Spent(Version) + 1)..Spent(w) = {}
    BY <1>4
  <2>6. ToSet(TextAt(u)) \cap ToSet(after) \subseteq ToSet(TextAt(Version))
    BY <2>3, <2>4, <2>5
  <2> QED BY <2>1, <2>2, <2>3, <2>6, OrderOn
<1>14. Ordered'
  <2> SUFFICES ASSUME NEW u \in (0..Version)', NEW v \in (0..Version)'
               PROVE  SameOrder(TextAt(u)', TextAt(v)')
    BY DEF Ordered, SameOrder
  <2>1. CASE u \in 0..Version /\ v \in 0..Version
    <3>1. TextAt(u)' = TextAt(u) /\ TextAt(v)' = TextAt(v)
      BY <1>2, <2>1
    <3> QED BY <2>1, <3>1 DEF Followed, Ordered
  <2>2. CASE u \in 0..Version /\ v = w
    <3>1. TextAt(u)' = TextAt(u) /\ TextAt(v)' = after
      BY <1>2, <1>6, <2>2
    <3> QED BY <1>13, <2>2, <3>1
  <2>3. CASE u = w /\ v \in 0..Version
    <3>1. TextAt(v)' = TextAt(v) /\ TextAt(u)' = after
      BY <1>2, <1>6, <2>3
    <3>2. TextAt(v) \in Seq(Char) /\ SameOrder(TextAt(v), after)
      BY <1>10, <1>13, <2>3
    <3> QED BY <1>2, <3>1, <3>2, OrderBack
  <2>4. CASE u = w /\ v = w
    <3>1. TextAt(u)' = after /\ TextAt(v)' = after
      BY <1>6, <2>4
    <3>2. IsInjective(after)
      BY <1>8 DEF Grows
    <3> QED BY <1>2, <3>1, <3>2, OrderItself
  <2> QED BY <1>7, <2>1, <2>2, <2>3, <2>4
<1>15. Recorded'
  <2> SUFFICES ASSUME NEW v \in (1..Version)'
               PROVE  /\ Leads(ops'[v], TextAt(v - 1)', TextAt(v)')
                      /\ \A u \in 0..(v - 1) : Foreign(ops'[v], TextAt(u)')
    BY DEF Recorded, Leads, Foreign, Goes, End
  <2>1. CASE v \in 1..Version
    <3>1. /\ v \in 0..Version /\ v - 1 \in 0..Version
          /\ \A u \in 0..(v - 1) : u \in 0..Version
      BY <1>1, <2>1
    <3>2. ops'[v] = ops[v] /\ TextAt(v - 1)' = TextAt(v - 1) /\ TextAt(v)' = TextAt(v)
      BY <1>2, <2>1, <3>1
    <3>3. \A u \in 0..(v - 1) : TextAt(u)' = TextAt(u)
      BY <1>2, <3>1
    <3>4. /\ Leads(ops[v], TextAt(v - 1), TextAt(v))
          /\ \A u \in 0..(v - 1) : Foreign(ops[v], TextAt(u))
      BY <2>1 DEF Followed, Recorded
    <3> QED BY <3>2, <3>3, <3>4
  <2>2. CASE v = w
    <3>1. v - 1 = Version /\ v = Version + 1
      BY <1>1, <1>5, <2>2
    <3>2. TextAt(v)' = after /\ ops'[v] = toApply
      BY <1>2, <1>6, <2>2, <3>1
    <3>3. TextAt(v - 1)' = TextAt(Version)
      <4>1. v - 1 \in 0..Version
        BY <1>1, <3>1
      <4> QED BY <1>2, <3>1, <4>1
    <3>4. \A u \in 0..(v - 1) : TextAt(u)' = TextAt(u) /\ u \in 0..Version
      BY <1>2, <3>1
    <3> QED BY <1>8, <3>2, <3>3, <3>4
  <2>3. v \in 1..Version \/ v = w
    BY <1>1, <1>2, <1>5
  <2> QED BY <2>1, <2>2, <2>3
<1>16. Spaced'
  <2> SUFFICES ASSUME NEW v \in (1..Version)' PROVE Apart(ops'[v])
    BY DEF Spaced, Apart, Follows
  <2>1. CASE v \in 1..Version
    BY <1>2, <2>1 DEF Followed, Spaced
  <2>2. CASE v = w
    BY <1>2, <1>3, <1>5, <2>2 DEF Leaves
  <2>3. v \in 1..Version \/ v = w
    BY <1>1, <1>2, <1>5
  <2> QED BY <2>1, <2>2, <2>3
<1> QED BY <1>11, <1>12, <1>14, <1>15, <1>16 DEF Followed

\* The last message as its client meant it: nothing has happened since, or it is
\* what the step has just done.
LEMMA FirstIntent == Init => IntentPreserved
<1> SUFFICES ASSUME Init PROVE IntentPreserved
  OBVIOUS
<1>1. /\ Version = 0 /\ texts[1] \in Seq(Char)
      /\ \A i \in DOMAIN texts[1] : texts[1][i] = i
  BY FirstType
<1>2. sent.base = 0 /\ sent.chunks = <<>>
  BY DEF Init
<1> DEFINE text == texts[1]
           none == <<>>
<1>3. text \in Seq(Char) /\ IsInjective(text) /\ none \in Seq(Edits) /\ Len(none) = 0
  BY <1>1 DEF IsInjective
<1>4. TextAt(0) = text
  BY DEF TextAt
<1>5. Seen = text /\ After = text /\ Met = text /\ Wanted = ApplyMultiple(text, none)
  BY <1>1, <1>2, <1>4 DEF Seen, After, Met, Wanted
<1> HIDE DEF text, none
<1>6. ApplyMultiple(text, none) = text
  <2>1. PICK stage \in [0..Len(none) -> Seq(Char)] :
          /\ stage[0] = text
          /\ \A i \in 1..Len(none) : stage[i] = Apply(stage[i - 1], none[i])
          /\ ApplyMultiple(text, none) = stage[Len(none)]
    BY <1>3, ApplyStages
  <2> QED BY <1>3, <2>1
<1> QED BY <1>3, <1>5, <1>6, OrderItself DEF IntentPreserved, Removed, Inserted

\* The last message is the one the step has just done.
LEMMA LastMessage ==
  ASSUME Followed, NEW base, NEW chunks, Message(base, chunks)
  PROVE  /\ Seen' = TextAt(base) /\ Wanted' = ApplyMultiple(TextAt(base), chunks)
         /\ After' = ApplyMultiple(TextAt(Version), TransformStaleChunks(base, chunks))
         /\ Met' = TextAt(Version)
<1> DEFINE toApply == TransformStaleChunks(base, chunks)
           after == ApplyMultiple(TextAt(Version), toApply)
<1>1. Written /\ Version \in Nat /\ Version \in 0..Version
  BY Bounds DEF Followed, Written
<1>2. base \in 0..Version
  BY <1>1, MessageType
<1>3. /\ sent' = [base |-> base, chunks |-> chunks]
      /\ Version' = Version + 1
      /\ \A v \in 0..Version : TextAt(v)' = TextAt(v)
      /\ texts'[Version + 2] = after
  BY <1>1, MessageWrites
<1>4. sent'.base = base /\ sent'.chunks = chunks
  BY <1>3
<1> HIDE DEF toApply, after
<1>5. Seen' = TextAt(base)
  <2>1. Seen' = texts'[sent'.base + 1]
    BY DEF Seen, TextAt
  <2>2. TextAt(base)' = texts'[base + 1]
    BY DEF TextAt
  <2> QED BY <1>2, <1>3, <1>4, <2>1, <2>2
<1>6. Wanted' = ApplyMultiple(TextAt(base), chunks)
  <2>1. Wanted' = ApplyMultiple(Seen', sent'.chunks)
    BY DEF Wanted
  <2> QED BY <1>4, <1>5, <2>1
<1>7. After' = after
  <2>1. After' = texts'[Version' + 1]
    BY DEF After, TextAt
  <2>2. Version' + 1 = Version + 2
    BY <1>1, <1>3
  <2> QED BY <1>3, <2>1, <2>2
<1>8. Met' = TextAt(Version)
  <2>1. Version' # 0 /\ (Version' - 1) + 1 = Version + 1
    BY <1>1, <1>3
  <2>2. Met' = texts'[(Version' - 1) + 1]
    BY <2>1 DEF Met, TextAt
  <2>3. PICK v : v = Version
    OBVIOUS
  <2>4. TextAt(v)' = texts'[v + 1]
    BY DEF TextAt
  <2>5. TextAt(v)' = TextAt(v)
    BY <1>1, <1>3, <2>3
  <2> QED BY <2>1, <2>2, <2>3, <2>4, <2>5
<1> QED BY <1>5, <1>6, <1>7, <1>8 DEF after, toApply

\* A message means to the current text what it meant to its client's.
LEMMA IntentStep ==
  ASSUME StaleChunks < 2, Followed, NEW base, NEW chunks, Message(base, chunks)
  PROVE  IntentPreserved'
<1> DEFINE toApply == TransformStaleChunks(base, chunks)
           seen == TextAt(base)
           wanted == ApplyMultiple(TextAt(base), chunks)
           met == TextAt(Version)
           after == ApplyMultiple(TextAt(Version), toApply)
<1>1. Leaves(base, chunks, toApply, after)
  BY MessageLeaves
<1>2. Seen' = seen /\ Wanted' = wanted /\ After' = after /\ Met' = met
  BY LastMessage
<1> HIDE DEF toApply, after
<1>3. Intent(seen, wanted, met, after)
  BY <1>1 DEF Leaves
<1>4. IntentPreserved' = Intent(Seen', Wanted', Met', After')
  BY DEF IntentPreserved, Intent, Removed, Inserted, SameOrder
<1> HIDE DEF seen, wanted, met
<1> QED BY <1>2, <1>3, <1>4

\* Nothing of it is lost when nothing happens.
LEMMA FollowedStays == Followed /\ UNCHANGED vars => Followed'
<1> SUFFICES ASSUME Followed, UNCHANGED vars PROVE Followed'
  OBVIOUS
<1>1. texts' = texts /\ ops' = ops /\ sent' = sent /\ Version' = Version
  BY DEF vars, Version
<1>2. Written'
  BY <1>1 DEF Followed, Written
<1>3. Numbered'
  BY <1>1 DEF Followed, Numbered, TextAt, Spent
<1>4. Ordered'
  BY <1>1 DEF Followed, Ordered, SameOrder, TextAt
<1>5. Recorded'
  <2> SUFFICES ASSUME NEW v \in (1..Version)'
               PROVE  /\ Leads(ops'[v], TextAt(v - 1)', TextAt(v)')
                      /\ \A u \in 0..(v - 1) : Foreign(ops'[v], TextAt(u)')
    BY DEF Recorded, Leads, Foreign, Goes, End
  <2> QED BY <1>1 DEF Followed, Recorded, TextAt
<1>6. Spaced'
  BY <1>1 DEF Followed, Spaced, Apart, Follows
<1> QED BY <1>2, <1>3, <1>4, <1>5, <1>6 DEF Followed

\* When a message that is behind has one chunk, and one that is up to date any
\* number, a message does to the current text what its client did to the text it
\* had, whatever was recorded in between and however often it was moved
\* (TransformStaleChunks, OnChunkMessage).  With two chunks it does not.
THEOREM IntentHolds ==
  ASSUME StaleChunks < 2
  PROVE  Spec => []IntentPreserved
<1>1. Init => Followed /\ IntentPreserved
  BY FollowedInit, FirstIntent
<1>2. Followed /\ IntentPreserved /\ [Next]_vars => (Followed /\ IntentPreserved)'
  <2>1. ASSUME Followed, IntentPreserved, UNCHANGED vars PROVE (Followed /\ IntentPreserved)'
    <3>1. Followed'
      BY <2>1, FollowedStays
    <3>2. IntentPreserved'
      BY <2>1 DEF vars, IntentPreserved, Seen, Wanted, Met, After, Removed, Inserted,
                  SameOrder, TextAt, Version
    <3> QED BY <3>1, <3>2
  <2>2. ASSUME Followed, NEW base, NEW chunks, Message(base, chunks)
        PROVE  (Followed /\ IntentPreserved)'
    BY <2>2, FollowedMessage, IntentStep
  <2> QED BY <2>1, <2>2, NextIs
<1> QED BY <1>1, <1>2, PTL DEF Spec

--------------------------------------------------------------------------------
(* What is recorded fits *)

\* The chunks before the first leave a text alone.
LEMMA ApplyNone ==
  ASSUME NEW text \in Seq(Char)
  PROVE  ApplyMultiple(text, <<>>) = text
<1> DEFINE none == <<>>
<1>1. none \in Seq(Edits) /\ Len(none) = 0
  OBVIOUS
<1> HIDE DEF none
<1>2. PICK stage \in [0..Len(none) -> Seq(Char)] :
        /\ stage[0] = text
        /\ \A i \in 1..Len(none) : stage[i] = Apply(stage[i - 1], none[i])
        /\ ApplyMultiple(text, none) = stage[Len(none)]
  BY <1>1, ApplyStages
<1> QED BY <1>1, <1>2 DEF none

\* A chunk that stays within its text is one it fits.
LEMMA GoesFits ==
  ASSUME NEW text \in Seq(Char), NEW op \in Edits, Goes(text, op)
  PROVE  ValidChunk(op) /\ op.position <= Len(text) /\ Fits(text, op)
<1>1. /\ op.position \in Nat /\ op.len \in Nat /\ op.type \in {"add", "remove"}
      /\ Len(text) \in Nat
  BY EditForms
<1>2. ValidChunk(op)
  BY DEF Edits, Accepted
<1> QED BY <1>1, <1>2 DEF Goes, End, Fits

\* Each chunk of a list that leads from one text to another stays within the text
\* the chunks before it leave.
LEMMA LeadsWithin ==
  ASSUME NEW list \in Seq(Edits), Apart(list), NEW from \in Seq(Char), NEW to,
         Leads(list, from, to), NEW i \in DOMAIN list
  PROVE  /\ ApplyMultiple(from, SubSeq(list, 1, i - 1)) \in Seq(Char)
         /\ Goes(ApplyMultiple(from, SubSeq(list, 1, i - 1)), list[i])
<1> DEFINE before == ApplyMultiple(from, SubSeq(list, 1, i - 1))
<1>1. PICK stage \in [0..Len(list) -> Seq(Char)] :
        /\ stage[0] = from
        /\ \A k \in 1..Len(list) :
             Goes(stage[k - 1], list[k]) /\ stage[k] = Apply(stage[k - 1], list[k])
  BY DEF Leads
<1>2. i \in 1..Len(list) /\ Len(list) \in {1, 2} /\ i \in {1, 2} /\ i - 1 \in 0..Len(list)
  BY DEF Apart
<1>3. before = stage[i - 1]
  <2>1. CASE i = 1
    <3>1. SubSeq(list, 1, i - 1) = <<>> /\ i - 1 = 0
      BY <1>2, <2>1
    <3>2. before = from
      BY <3>1, ApplyNone
    <3> HIDE DEF before
    <3> QED BY <1>1, <3>1, <3>2
  <2>2. CASE i = 2
    <3>1. Len(list) = 2 /\ 1 \in 1..Len(list) /\ list[1] \in Edits /\ i - 1 = 1 /\ 1 - 1 = 0
      BY <1>2, <2>2
    <3>2. SubSeq(list, 1, i - 1) = <<list[1]>>
      <4> DEFINE front == SubSeq(list, 1, 1)
      <4>1. front \in Seq(Edits) /\ Len(front) = 1 /\ front[1] = list[1]
        BY <3>1
      <4> HIDE DEF front
      <4>2. front = <<front[1]>>
        BY <4>1
      <4> QED BY <3>1, <4>1, <4>2 DEF front
    <3>3. before = Apply(from, list[1])
      BY <3>1, <3>2, ApplyOne
    <3>4. stage[1] = Apply(stage[1 - 1], list[1])
      BY <1>1, <3>1
    <3> QED BY <1>1, <3>1, <3>3, <3>4
  <2> QED BY <1>2, <2>1, <2>2
<1>4. stage[i - 1] \in Seq(Char) /\ Goes(stage[i - 1], list[i])
  BY <1>1, <1>2
<1> QED BY <1>3, <1>4

\* What is recorded leads from each text to the next within it.
LEMMA RecordedWithin == Followed => RecordedFits
<1> SUFFICES ASSUME Followed, NEW v \in DOMAIN ops, NEW i \in DOMAIN ops[v]
             PROVE  LET chunk == ops[v][i]
                        text  == ApplyMultiple(TextAt(v - 1), SubSeq(ops[v], 1, i - 1))
                    IN  ValidChunk(chunk) /\ chunk.position <= Len(text) /\ Fits(text, chunk)
  BY DEF RecordedFits
<1>1. Written /\ Version \in Nat
  BY Bounds DEF Followed, Written
<1>2. v \in 1..Version /\ v - 1 \in 0..Version
  <2> DEFINE E == Seq(Edits)
  <2>1. ops \in Seq(E)
    BY <1>1 DEF Written
  <2> HIDE DEF E
  <2>2. DOMAIN ops = 1..Version
    BY <2>1 DEF Version
  <2> QED BY <1>1, <2>2
<1>3. ops[v] \in Seq(Edits) /\ ops[v][i] \in Edits
  <2>1. ops[v] \in Seq(Edits)
    BY <1>1 DEF Written
  <2> QED BY <2>1
<1>4. TextAt(v - 1) \in Seq(Char)
  BY <1>1, <1>2, TextType
<1>5. Leads(ops[v], TextAt(v - 1), TextAt(v)) /\ Apart(ops[v])
  BY <1>2 DEF Followed, Recorded, Spaced
<1> DEFINE text == ApplyMultiple(TextAt(v - 1), SubSeq(ops[v], 1, i - 1))
<1>6. text \in Seq(Char) /\ Goes(text, ops[v][i])
  BY <1>3, <1>4, <1>5, LeadsWithin
<1> HIDE DEF text
<1>7. ValidChunk(ops[v][i]) /\ ops[v][i].position <= Len(text) /\ Fits(text, ops[v][i])
  BY <1>3, <1>6, GoesFits
<1> QED BY <1>7 DEF text

\* When a message that is behind has one chunk, no chunk that is recorded and
\* broadcast starts or ends outside the text it is applied to, whatever it was moved
\* across: Apply never has to cut one to size (TransformStaleChunks, Apply).
THEOREM RecordedStaysWithin ==
  ASSUME StaleChunks < 2
  PROVE  Spec => []RecordedFits
<1>1. Init => Followed
  BY FollowedInit
<1>2. Followed /\ [Next]_vars => Followed'
  <2>1. ASSUME Followed, NEW base, NEW chunks, Message(base, chunks) PROVE Followed'
    BY <2>1, FollowedMessage
  <2> QED BY <2>1, FollowedStays, NextIs
<1> QED BY <1>1, <1>2, RecordedWithin, PTL DEF Spec

--------------------------------------------------------------------------------
(* What a removal takes along *)

\* The characters a chunk takes of a text.
Takes(text, op) == {text[i] : i \in {i \in 1..Len(text) : Taken(op, i)}}

\* A chunk that is moved across an insertion takes of what was inserted only if
\* it takes what is right before it and what is right after it.
LEMMA TakesAround ==
  ASSUME NEW op \in Edits, NEW d \in Edits, op.type = "add", NEW m \in 1..op.len,
         Taken(Transform(op, d), op.position + m)
  PROVE  /\ op.position > 0
         /\ Taken(d, op.position) /\ Taken(d, op.position + 1)
<1>1. /\ op.position \in Nat /\ op.len \in Nat /\ d.position \in Nat /\ d.len \in Nat
      /\ d.type \in {"add", "remove"}
  BY EditForms
<1> QED BY <1>1 DEF Transform, Moved, Taken

\* Where what a moved chunk takes was before, or what is around it.
LEMMA TakesWhat ==
  ASSUME NEW text \in Seq(Char), NEW op \in Edits, NEW d \in Edits, Goes(text, op), Goes(text, d),
         NEW k \in 1..Len(Apply(text, op)), Taken(Transform(op, d), k)
  PROVE  \/ \E i \in 1..Len(text) : /\ Taken(d, i) /\ Becomes(op, i, k)
                                    /\ Apply(text, op)[k] = text[i]
         \/ /\ op.type = "add"
            /\ \E m \in 1..op.len : k = op.position + m /\ Apply(text, op)[k] = op.text[m]
            /\ op.position \in 1..Len(text) /\ op.position + 1 \in 1..Len(text)
            /\ Taken(d, op.position) /\ Taken(d, op.position + 1)
<1> DEFINE after == Apply(text, op)
           n == Len(text)
           e == Transform(op, d)
<1>1. Traced(text, op, after) /\ n \in Nat /\ after \in Seq(Char)
  BY ApplyTraced, ApplyType
<1>2. /\ op.position \in Nat /\ op.len \in Nat /\ d.position \in Nat /\ d.len \in Nat
      /\ d.type \in {"add", "remove"} /\ e.type = d.type
  BY EditForms, TransformEdits
<1>3. End(op) <= n /\ End(d) <= n /\ k \in Nat
  BY DEF Goes
<1>4. CASE \E i \in 1..n : Becomes(op, i, k) /\ after[k] = text[i]
  <2>1. PICK i \in 1..n : Becomes(op, i, k) /\ after[k] = text[i]
    BY <1>4
  <2>2. /\ k <= e.position <=> i <= d.position
        /\ k <= End(e) <=> i <= End(d)
    <3> HIDE DEF n
    <3> QED BY <1>1, <1>3, <2>1, MovesAlong
  <2>3. Taken(e, k) /\ e \in Edits /\ e.position \in Nat
    BY TransformEdits, EditForms
  <2> HIDE DEF e
  <2>4. Taken(d, i)
    BY <1>2, <1>3, <2>2, <2>3 DEF Taken, End
  <2> QED BY <2>1, <2>4
<1>5. CASE op.type = "add" /\ \E m \in 1..op.len : k = op.position + m /\ after[k] = op.text[m]
  <2>1. PICK m \in 1..op.len : k = op.position + m /\ after[k] = op.text[m]
    BY <1>5
  <2>2. op.position > 0 /\ Taken(d, op.position) /\ Taken(d, op.position + 1)
    BY <1>5, <2>1, TakesAround
  <2>3. op.position + 1 <= End(d)
    BY <2>2 DEF Taken, End
  <2>4. op.position \in 1..n /\ op.position + 1 \in 1..n
    <3> DEFINE p == op.position
               f == End(d)
    <3>1. n \in Nat /\ p \in Nat /\ f \in Nat /\ p > 0 /\ p + 1 <= f /\ f <= n
      BY <1>1, <1>2, <1>3, <2>2, <2>3 DEF End
    <3> HIDE DEF n, p, f
    <3>2. p \in 1..n /\ p + 1 \in 1..n
      BY <3>1
    <3> QED BY <3>2 DEF p
  <2> QED BY <1>5, <2>1, <2>2, <2>4
<1> HIDE DEF after
<1>6. \/ \E i \in 1..n : Becomes(op, i, k) /\ after[k] = text[i]
      \/ op.type = "add" /\ \E m \in 1..op.len : k = op.position + m /\ after[k] = op.text[m]
  BY <1>1 DEF Traced, after
<1> QED BY <1>4, <1>5, <1>6 DEF after

\* A character between two of a set that the text before did not have.
LEMMA BetweenTwo ==
  ASSUME NEW S, NEW before, NEW after \in Seq(Char),
         NEW i \in 1..Len(after), NEW j \in 1..Len(after), NEW k \in 1..Len(after),
         i < j, j < k, after[i] \in S, after[k] \in S, after[j] \notin ToSet(before)
  PROVE  after[j] \in Widened(S, before, after)
<1>1. DOMAIN after = 1..Len(after)
  OBVIOUS
<1>2. after[j] \in Between(S, after)
  BY <1>1 DEF Between
<1> QED BY <1>2 DEF Widened

\* What a chunk leaves of a text.
LEMMA LeavesPlace ==
  ASSUME NEW text \in Seq(Char), NEW op \in Edits, Goes(text, op),
         NEW i \in 1..Len(text), ~Taken(op, i)
  PROVE  \E k \in 1..Len(Apply(text, op)) : Becomes(op, i, k) /\ Apply(text, op)[k] = text[i]
<1>1. Traced(text, op, Apply(text, op))
  BY ApplyTraced
<1> QED BY <1>1 DEF Traced

\* An insertion puts what it inserts between what was next to each other.
LEMMA InsertsBetween ==
  ASSUME NEW text \in Seq(Char), NEW op \in Edits, Goes(text, op), op.type = "add",
         op.position \in 1..Len(text), op.position + 1 \in 1..Len(text)
  PROVE  LET after == Apply(text, op)
             next  == op.position + 1 + op.len
         IN  /\ op.position \in 1..Len(after) /\ after[op.position] = text[op.position]
             /\ next \in 1..Len(after) /\ after[next] = text[op.position + 1]
<1> DEFINE after == Apply(text, op)
           p == op.position
<1>1. \A i \in 1..Len(text) : \E k \in 1..Len(after) : Becomes(op, i, k) /\ after[k] = text[i]
  BY LeavesPlace DEF Taken
<1>2. p \in Nat /\ op.len \in Nat
  BY EditForms
<1> HIDE DEF after
<1>3. PICK k \in 1..Len(after) : Becomes(op, p, k) /\ after[k] = text[p]
  BY <1>1
<1>4. PICK l \in 1..Len(after) : Becomes(op, p + 1, l) /\ after[l] = text[p + 1]
  BY <1>1
<1>5. k = p /\ l = p + 1 + op.len
  BY <1>2, <1>3, <1>4 DEF Becomes
<1> QED BY <1>3, <1>4, <1>5 DEF after

\* One chunk recorded: what a chunk moved across it takes.
LEMMA OneTakes ==
  ASSUME NEW text \in Seq(Char), NEW op \in Edits, Goes(text, op), NEW d \in Edits, Goes(text, d),
         ToSet(op.text) \cap ToSet(text) = {}, NEW S, Takes(text, d) \subseteq S
  PROVE  Takes(Apply(text, op), Transform(op, d)) \subseteq Widened(S, text, Apply(text, op))
<1> DEFINE after == Apply(text, op)
           p == op.position
<1>1. after \in Seq(Char) /\ p \in Nat /\ op.len \in Nat
  BY ApplyType, EditForms
<1> SUFFICES ASSUME NEW k \in 1..Len(after), Taken(Transform(op, d), k)
             PROVE  after[k] \in Widened(S, text, after)
  BY DEF Takes
<1>2. CASE \E i \in 1..Len(text) : Taken(d, i) /\ after[k] = text[i]
  BY <1>2 DEF Takes, Widened
<1>3. CASE /\ op.type = "add"
           /\ \E m \in 1..op.len : k = p + m /\ after[k] = op.text[m]
           /\ p \in 1..Len(text) /\ p + 1 \in 1..Len(text)
           /\ Taken(d, p) /\ Taken(d, p + 1)
  <2>1. PICK m \in 1..op.len : k = p + m /\ after[k] = op.text[m]
    BY <1>3
  <2>2. /\ p \in 1..Len(after) /\ after[p] = text[p]
        /\ p + 1 + op.len \in 1..Len(after) /\ after[p + 1 + op.len] = text[p + 1]
    BY <1>3, InsertsBetween
  <2>3. text[p] \in S /\ text[p + 1] \in S
    BY <1>3 DEF Takes
  <2>4. after[k] \notin ToSet(text)
    <3>1. m \in DOMAIN op.text
      BY <1>3, InsertedText
    <3>2. op.text[m] \in ToSet(op.text)
      BY <3>1 DEF ToSet
    <3> QED BY <2>1, <3>2
  <2>5. p < k /\ k < p + 1 + op.len
    BY <1>1, <2>1
  <2> HIDE DEF after, p
  <2> QED BY <1>1, <2>2, <2>3, <2>4, <2>5, BetweenTwo
<1> HIDE DEF after, p
<1>4. \/ \E i \in 1..Len(text) : Taken(d, i) /\ after[k] = text[i]
      \/ /\ op.type = "add"
         /\ \E m \in 1..op.len : k = p + m /\ after[k] = op.text[m]
         /\ p \in 1..Len(text) /\ p + 1 \in 1..Len(text)
         /\ Taken(d, p) /\ Taken(d, p + 1)
  BY TakesWhat DEF after, p
<1> QED BY <1>2, <1>3, <1>4

\* Two chunks recorded with text between them: neither inserts next to what the
\* other inserts or takes what the other inserts it next to.
LEMMA TwoTake ==
  ASSUME NEW text \in Seq(Char), NEW a \in Edits, Goes(text, a), NEW d \in Edits, Goes(text, d),
         NEW b \in Edits, Goes(Apply(text, a), b), Goes(Apply(text, a), Transform(a, d)),
         Follows(a, b),
         ToSet(a.text) \cap ToSet(text) = {}, ToSet(b.text) \cap ToSet(text) = {},
         NEW S, Takes(text, d) \subseteq S
  PROVE  LET after == Apply(Apply(text, a), b)
         IN  Takes(after, Transform(b, Transform(a, d))) \subseteq Widened(S, text, after)
<1> DEFINE mid == Apply(text, a)
           after == Apply(mid, b)
           d1 == Transform(a, d)
           p == a.position
           q == b.position
           Old(j) == \E i \in 1..Len(text) : Taken(d, i) /\ mid[j] = text[i]
           Fresh(j) == /\ a.type = "add"
                       /\ \E m \in 1..a.len : j = p + m /\ mid[j] = a.text[m]
                       /\ p \in 1..Len(text) /\ p + 1 \in 1..Len(text)
                       /\ Taken(d, p) /\ Taken(d, p + 1)
<1>1. /\ mid \in Seq(Char) /\ p \in Nat /\ a.len \in Nat /\ q \in Nat /\ b.len \in Nat
      /\ d1 \in Edits
  BY ApplyType, EditForms, TransformEdits
<1>2. after \in Seq(Char) /\ Goes(mid, b) /\ Goes(mid, d1)
  <2> HIDE DEF mid
  <2>1. Goes(mid, b) /\ Goes(mid, d1)
    BY DEF mid, d1
  <2> QED BY <1>1, <2>1, ApplyType
<1>3. /\ a.type = "add" => q > p + a.len /\ p + 1 + a.len <= q
      /\ p + 1 + a.len \in Nat
  <2>1. a.type = "add" => q > p + a.len
    BY EditForms DEF Follows
  <2> HIDE DEF p, q
  <2> QED BY <1>1, <2>1
<1>4. \A j \in 1..Len(mid) : Taken(d1, j) => Old(j) \/ Fresh(j)
  BY TakesWhat
<1>5. \A j \in 1..Len(mid) : Old(j) => mid[j] \in S
  BY DEF Takes
<1>6. ASSUME NEW j \in 1..Len(mid), Fresh(j)
      PROVE  /\ p \in 1..Len(mid) /\ mid[p] \in S
             /\ p + 1 + a.len \in 1..Len(mid) /\ mid[p + 1 + a.len] \in S
             /\ p < j /\ j < p + 1 + a.len
             /\ mid[j] \notin ToSet(text) /\ a.type = "add"
  <2>1. PICK m \in 1..a.len : j = p + m /\ mid[j] = a.text[m]
    BY <1>6
  <2>2. /\ p \in 1..Len(mid) /\ mid[p] = text[p]
        /\ p + 1 + a.len \in 1..Len(mid) /\ mid[p + 1 + a.len] = text[p + 1]
    BY <1>6, InsertsBetween
  <2>3. text[p] \in S /\ text[p + 1] \in S
    BY <1>6 DEF Takes
  <2>4. mid[j] \notin ToSet(text)
    <3>1. m \in DOMAIN a.text
      BY <1>6, InsertedText
    <3>2. a.text[m] \in ToSet(a.text)
      BY <3>1 DEF ToSet
    <3> QED BY <2>1, <3>2
  <2>5. p < j /\ j < p + 1 + a.len
    BY <1>1, <2>1
  <2> HIDE DEF mid
  <2> QED BY <1>6, <2>2, <2>3, <2>4, <2>5
<1>7. \A j \in 1..Len(mid) :
        \/ Taken(b, j)
        \/ \E k \in 1..Len(after) : Becomes(b, j, k) /\ after[k] = mid[j]
  <2> HIDE DEF mid
  <2> QED BY <1>1, <1>2, LeavesPlace
<1> HIDE DEF mid, d1, Old, Fresh
<1>8. SUFFICES ASSUME NEW k \in 1..Len(after), Taken(Transform(b, d1), k)
               PROVE  after[k] \in Widened(S, text, after)
  BY DEF Takes, mid, d1
<1>9. \/ \E j \in 1..Len(mid) : Taken(d1, j) /\ Becomes(b, j, k) /\ after[k] = mid[j]
      \/ /\ b.type = "add"
         /\ \E m \in 1..b.len : k = q + m /\ after[k] = b.text[m]
         /\ q \in 1..Len(mid) /\ q + 1 \in 1..Len(mid)
         /\ Taken(d1, q) /\ Taken(d1, q + 1)
  BY <1>1, <1>2, <1>8, TakesWhat
<1>10. CASE \E j \in 1..Len(mid) : Taken(d1, j) /\ Becomes(b, j, k) /\ after[k] = mid[j]
  <2>1. PICK j \in 1..Len(mid) : Taken(d1, j) /\ Becomes(b, j, k) /\ after[k] = mid[j]
    BY <1>10
  <2>2. CASE Old(j)
    BY <1>5, <2>1, <2>2 DEF Widened
  <2>3. CASE Fresh(j)
    <3> DEFINE r == p + 1 + a.len
    <3>1. /\ p \in 1..Len(mid) /\ mid[p] \in S /\ r \in 1..Len(mid) /\ mid[r] \in S
          /\ p < j /\ j < r /\ mid[j] \notin ToSet(text) /\ r <= q /\ r \in Nat
      <4>1. /\ p \in 1..Len(mid) /\ mid[p] \in S /\ r \in 1..Len(mid) /\ mid[r] \in S
            /\ p < j /\ j < r /\ mid[j] \notin ToSet(text) /\ a.type = "add"
        BY <1>6, <2>3
      <4>2. r <= q /\ r \in Nat
        BY <1>3, <4>1
      <4> HIDE DEF p, q, r
      <4> QED BY <4>1, <4>2
    <3> HIDE DEF r, after
    <3>2. ~Taken(b, p) /\ ~Taken(b, r)
      BY <1>1, <3>1 DEF Taken
    <3>3. PICK k1 \in 1..Len(after) : Becomes(b, p, k1) /\ after[k1] = mid[p]
      BY <1>7, <3>1, <3>2
    <3>4. PICK k2 \in 1..Len(after) : Becomes(b, r, k2) /\ after[k2] = mid[r]
      BY <1>7, <3>1, <3>2
    <3>5. k1 < k /\ k < k2
      <4>1. p \in Nat /\ j \in Nat /\ r \in Nat /\ k \in Nat /\ k1 \in Nat /\ k2 \in Nat
        BY <1>1, <3>1
      <4> QED BY <2>1, <3>1, <3>3, <3>4, <4>1, InPlace
    <3> QED BY <1>2, <2>1, <3>1, <3>3, <3>4, <3>5, BetweenTwo
  <2> QED BY <1>4, <2>1, <2>2, <2>3
<1>11. CASE /\ b.type = "add"
            /\ \E m \in 1..b.len : k = q + m /\ after[k] = b.text[m]
            /\ q \in 1..Len(mid) /\ q + 1 \in 1..Len(mid)
            /\ Taken(d1, q) /\ Taken(d1, q + 1)
  <2>1. PICK m \in 1..b.len : k = q + m /\ after[k] = b.text[m]
    BY <1>11
  <2>2. ASSUME NEW j \in 1..Len(mid), Taken(d1, j), q <= j
        PROVE  mid[j] \in S
    <3>1. ASSUME Fresh(j) PROVE FALSE
      <4>1. p < j /\ j < p + 1 + a.len /\ q > p + a.len
        BY <1>3, <1>6, <3>1
      <4> QED BY <1>1, <2>2, <4>1
    <3> QED BY <1>4, <1>5, <2>2, <3>1
  <2>3. mid[q] \in S /\ mid[q + 1] \in S
    <3>1. q <= q /\ q <= q + 1
      BY <1>1
    <3>2. q \in 1..Len(mid) /\ q + 1 \in 1..Len(mid) /\ Taken(d1, q) /\ Taken(d1, q + 1)
      BY <1>11
    <3> HIDE DEF q
    <3> QED BY <2>2, <3>1, <3>2
  <2>4. /\ q \in 1..Len(after) /\ after[q] = mid[q]
        /\ q + 1 + b.len \in 1..Len(after) /\ after[q + 1 + b.len] = mid[q + 1]
    BY <1>1, <1>2, <1>11, InsertsBetween
  <2>5. after[k] \notin ToSet(text)
    <3>1. m \in DOMAIN b.text
      BY <1>11, InsertedText
    <3>2. b.text[m] \in ToSet(b.text)
      BY <3>1 DEF ToSet
    <3> QED BY <2>1, <3>2
  <2>6. q < k /\ k < q + 1 + b.len
    BY <1>1, <2>1
  <2> HIDE DEF after, q
  <2> QED BY <1>2, <2>3, <2>4, <2>5, <2>6, BetweenTwo
<1> QED BY <1>9, <1>10, <1>11

\* A chunk stays within the text when it is moved across another.
LEMMA GoesOn ==
  ASSUME NEW text \in Seq(Char), NEW op \in Edits, Goes(text, op), NEW d \in Edits, Goes(text, d)
  PROVE  Goes(Apply(text, op), Transform(op, d))
<1> DEFINE n == Len(text)
<1>1. Traced(text, op, Apply(text, op)) /\ n \in Nat /\ End(op) <= n /\ End(d) <= n
  BY ApplyTraced DEF Goes
<1>2. End(Transform(op, d)) <= IF op.type = "add" THEN n + op.len ELSE n - op.len
  <2> HIDE DEF n
  <2> QED BY <1>1, MovesAlong
<1> QED BY <1>1, <1>2 DEF Goes, Traced

\* What a chunk moved across the operation recorded for one version takes.
LEMMA TakesAcross ==
  ASSUME NEW from \in Seq(Char), NEW to, NEW list \in Seq(Edits),
         Leads(list, from, to), Apart(list), Foreign(list, from),
         NEW d \in Edits, Goes(from, d), NEW S, Takes(from, d) \subseteq S
  PROVE  /\ Across(list, d) \in Edits /\ Goes(to, Across(list, d))
         /\ Takes(to, Across(list, d)) \subseteq Widened(S, from, to)
<1>1. PICK stage \in [0..Len(list) -> Seq(Char)] :
        /\ stage[0] = from /\ stage[Len(list)] = to
        /\ \A i \in 1..Len(list) :
             Goes(stage[i - 1], list[i]) /\ stage[i] = Apply(stage[i - 1], list[i])
  BY DEF Leads
<1>2. PICK moved \in [0..Len(list) -> Edits] :
        /\ moved[0] = d
        /\ \A i \in 1..Len(list) : moved[i] = Transform(list[i], moved[i - 1])
        /\ Across(list, d) = moved[Len(list)]
  BY AcrossStages
<1> DEFINE a == list[1]
           mid == Apply(from, a)
           e == Transform(a, d)
<1>3. Len(list) \in {1, 2} /\ 1 \in 1..Len(list)
  BY DEF Apart
<1>4. /\ a \in Edits /\ Goes(from, a) /\ stage[1] = mid /\ moved[1] = e
      /\ ToSet(a.text) \cap ToSet(from) = {}
  <2>1. 1 - 1 = 0
    OBVIOUS
  <2> QED BY <1>1, <1>2, <1>3, <2>1 DEF Foreign
<1>5. e \in Edits /\ Goes(mid, e)
  <2> HIDE DEF a
  <2> QED BY <1>4, GoesOn, TransformEdits
<1>6. CASE Len(list) = 1
  <2>1. to = mid /\ Across(list, d) = e
    BY <1>1, <1>2, <1>4, <1>6
  <2>2. Takes(mid, e) \subseteq Widened(S, from, mid)
    <3> HIDE DEF a
    <3> QED BY <1>4, OneTakes
  <2> HIDE DEF mid, e
  <2> QED BY <1>5, <2>1, <2>2
<1>7. CASE Len(list) = 2
  <2> DEFINE b == list[2]
  <2>1. 2 \in 1..Len(list) /\ 2 - 1 = 1
    BY <1>7
  <2>2. /\ b \in Edits /\ Goes(stage[1], b) /\ stage[2] = Apply(stage[1], b)
        /\ moved[2] = Transform(b, moved[1]) /\ ToSet(b.text) \cap ToSet(from) = {}
        /\ Follows(a, b)
    <3>1. Goes(stage[2 - 1], list[2]) /\ stage[2] = Apply(stage[2 - 1], list[2])
      BY <1>1, <2>1
    <3>2. moved[2] = Transform(list[2], moved[2 - 1])
      BY <1>2, <2>1
    <3>3. b \in Edits /\ ToSet(b.text) \cap ToSet(from) = {}
      BY <2>1 DEF Foreign
    <3>4. Follows(a, b)
      BY <1>7 DEF Apart
    <3> HIDE DEF a, b
    <3> QED BY <2>1, <3>1, <3>2, <3>3, <3>4 DEF b
  <2> HIDE DEF a, b, mid, e
  <2>3. to = Apply(mid, b) /\ Across(list, d) = Transform(b, e) /\ Goes(mid, b)
    <3>1. to = stage[2] /\ Across(list, d) = moved[2]
      BY <1>1, <1>2, <1>7
    <3>2. stage[1] = mid /\ moved[1] = e
      BY <1>4 DEF mid, e
    <3> QED BY <2>2, <3>1, <3>2
  <2>4. Transform(b, e) \in Edits /\ Goes(Apply(mid, b), Transform(b, e))
    <3>1. mid \in Seq(Char)
      BY <1>4, ApplyType DEF mid
    <3> QED BY <1>5, <2>2, <2>3, <3>1, GoesOn, TransformEdits
  <2>5. Takes(Apply(mid, b), Transform(b, e)) \subseteq Widened(S, from, Apply(mid, b))
    BY <1>4, <1>5, <2>2, <2>3, TwoTake DEF mid, e
  <2> QED BY <2>3, <2>4, <2>5
<1> QED BY <1>3, <1>6, <1>7

\* What a set has become when it has been widened version by version.
WidenedFrom(S, base, n) ==
  FoldLeft(LAMBDA T, v : Widened(T, TextAt(v - 1), TextAt(v)),
           S, [i \in 1..n |-> base + i])

\* The sets in between.
Widening(stage, S, base, n) ==
  /\ stage \in [0..n -> SUBSET Char]
  /\ stage[0] = S
  /\ \A i \in 1..n : stage[i] = Widened(stage[i - 1], TextAt(base + i - 1), TextAt(base + i))

\* Widening goes through them.
LEMMA WidenedStages ==
  ASSUME Written, NEW base \in Nat, NEW n \in Nat, base + n <= Version,
         NEW S \in SUBSET Char
  PROVE  \E stage : Widening(stage, S, base, n) /\ WidenedFrom(S, base, n) = stage[n]
<1> DEFINE A == SUBSET Char
           E == 1..Version
           wider(T, v) == Widened(T, TextAt(v - 1), TextAt(v))
           list == [i \in 1..n |-> base + i]
           step == [p \in A \X E |-> wider(p[1], p[2])]
           rec(f) == [D \in SUBSET DOMAIN list |->
                        IF D = {} THEN S ELSE wider(f[D \ {Max(D)}], list[Max(D)])]
           iter == CHOOSE f : f = rec(f)
<1>0. Version \in Nat
  BY Bounds DEF Written
<1>1. DOMAIN list = 1..n /\ list \in [1..n -> E]
  BY <1>0
<1>2. \A T \in A, v \in E : wider(T, v) \in A
  <2> SUFFICES ASSUME NEW T \in A, NEW v \in E PROVE wider(T, v) \in A
    OBVIOUS
  <2>1. v \in 0..Version
    BY <1>0
  <2>2. TextAt(v) \in Seq(Char)
    BY <2>1, TextType
  <2> QED BY <2>2 DEF Widened, Between
<1> HIDE DEF wider
<1>3. step \in [A \X E -> A]
  BY <1>2
<1>4. \A T \in A, v \in E : step[<<T, v>>] = wider(T, v)
  OBVIOUS
<1>5. \A D \in SUBSET (1..n) : D # {} => Max(D) \in 1..n
  BY Top
<1> HIDE DEF A, E
<1>6. iter = rec(iter)
  <2>1. PICK g \in [SUBSET (1..n) -> A] : Unrolls(g, n, S, list, step)
    <3>1. S \in A
      BY DEF A
    <3> HIDE DEF step, list
    <3> QED BY <1>1, <1>3, <3>1, FoldExists
  <2>2. ASSUME NEW D \in SUBSET (1..n)
        PROVE  g[D] = IF D = {} THEN S ELSE wider(g[D \ {Max(D)}], list[Max(D)])
    <3>1. g[D] = IF D = {} THEN S ELSE step[<<g[D \ {Max(D)}], list[Max(D)]>>]
      BY <2>1 DEF Unrolls
    <3>2. CASE D # {}
      <4>1. list[Max(D)] \in E /\ g[D \ {Max(D)}] \in A
        <5> HIDE DEF list
        <5> QED BY <1>1, <1>5, <3>2
      <4> HIDE DEF step, list
      <4> QED BY <1>4, <3>1, <3>2, <4>1
    <3> HIDE DEF step, list
    <3> QED BY <3>1, <3>2
  <2>3. g = rec(g)
    <3> HIDE DEF list
    <3> QED BY <1>1, <2>2
  <2> HIDE DEF rec
  <2> QED BY <2>3
<1>7. WidenedFrom(S, base, n) = iter[1..n]
  <2>1. WidenedFrom(S, base, n) = iter[DOMAIN list]
    BY DEF WidenedFrom, FoldLeft, MapThenFoldSet, wider
  <2> QED BY <1>1, <2>1
<1> HIDE DEF list
<1>8. iter[{}] = S
  <2> HIDE DEF iter
  <2> QED BY <1>1, <1>6
<1>9. ASSUME NEW D \in SUBSET (1..n), D # {}, iter[D \ {Max(D)}] \in A
      PROVE  iter[D] = step[<<iter[D \ {Max(D)}], list[Max(D)]>>]
  <2>1. iter[D] = wider(iter[D \ {Max(D)}], list[Max(D)])
    <3> HIDE DEF iter
    <3> QED BY <1>1, <1>6, <1>9
  <2>2. list[Max(D)] \in E
    BY <1>1, <1>5, <1>9
  <2> HIDE DEF step, iter
  <2> QED BY <1>4, <1>9, <2>1, <2>2
<1>10. PICK stage \in [0..n -> A] : Stages(stage, n, S, list, step) /\ stage[n] = iter[1..n]
  <2>0. S \in A
    BY DEF A
  <2>1. Iterates(iter, n, A, S, list, step)
    <3> HIDE DEF step, iter
    <3> QED BY <1>8, <1>9 DEF Iterates
  <2>2. RunsTo(n, A, S, list, step, iter[1..n])
    <3> HIDE DEF step, iter
    <3> QED BY <1>1, <1>3, <2>0, <2>1, FoldStages
  <2> HIDE DEF step, iter
  <2> QED BY <2>2 DEF RunsTo
<1>11. ASSUME NEW i \in 1..n
       PROVE  stage[i] = Widened(stage[i - 1], TextAt(base + i - 1), TextAt(base + i))
  <2>1. stage[i] = step[<<stage[i - 1], list[i]>>]
    BY <1>10 DEF Stages
  <2>2. stage[i - 1] \in A /\ list[i] \in E /\ list[i] = base + i
    <3>1. i - 1 \in 0..n
      OBVIOUS
    <3>2. list[i] = base + i
      BY DEF list
    <3> HIDE DEF iter, step
    <3> QED BY <1>1, <1>10, <3>1, <3>2
  <2>3. stage[i] = wider(stage[i - 1], base + i)
    <3> HIDE DEF step
    <3> QED BY <1>4, <2>1, <2>2
  <2> QED BY <2>3 DEF wider
<1>12. stage[0] = S
  BY <1>10 DEF Stages
<1> HIDE DEF iter
<1>13. Widening(stage, S, base, n)
  BY <1>10, <1>11, <1>12 DEF Widening, A
<1> QED BY <1>7, <1>10, <1>13

\* What was recorded between a version and the last one.
Behind(base) == SubSeq(ops, base + 1, Version - 1)

\* Which operations these are, and how many.
LEMMA BehindType ==
  ASSUME Written, NEW base \in 0..(Version - 1)
  PROVE  /\ Behind(base) \in Seq(Seq(Edits)) /\ Len(Behind(base)) = Version - 1 - base
         /\ \A i \in 1..(Version - 1 - base) : Behind(base)[i] = ops[base + i]
<1>1. ops \in Seq(Seq(Edits)) /\ Version = Len(ops) /\ Len(ops) \in Nat
  BY DEF Written, Version
<1> DEFINE E == Seq(Edits)
           n == Len(ops) - 1
<1>2. ops \in Seq(E) /\ n \in 0..Len(ops) /\ base \in 0..n /\ Version - 1 = n
  BY <1>1
<1> HIDE DEF E, n
<1>3. /\ SubSeq(ops, base + 1, n) \in Seq(E)
      /\ Len(SubSeq(ops, base + 1, n)) = n - base
      /\ \A i \in 1..(n - base) : SubSeq(ops, base + 1, n)[i] = ops[base + i]
  BY <1>1, <1>2
<1> QED BY <1>2, <1>3 DEF E, Behind

\* A message of one chunk takes of the text it meets what its client had it take,
\* and what was inserted since between two characters of that.
LEMMA TakesThrough ==
  ASSUME Followed, NEW base \in 0..(Version - 1),
         NEW c \in Edits, Goes(TextAt(base), c),
         NEW S \in SUBSET Char, Takes(TextAt(base), c) \subseteq S
  PROVE  \E d \in Edits :
           /\ AcrossAll(Behind(base), <<c>>) = <<d>>
           /\ Goes(TextAt(Version - 1), d)
           /\ Takes(TextAt(Version - 1), d) \subseteq WidenedFrom(S, base, Version - 1 - base)
<1> DEFINE history == Behind(base)
           n == Version - 1 - base
<1>1. Written /\ Version \in Nat /\ base \in Nat /\ n \in Nat /\ base + n = Version - 1
  BY Bounds DEF Followed, Written
<1>2. /\ history \in Seq(Seq(Edits)) /\ Len(history) = n
      /\ \A i \in 1..n : history[i] = ops[base + i]
  BY <1>1, BehindType
<1>3. <<c>> \in Seq(Edits) /\ Len(<<c>>) = 1 /\ <<c>>[1] = c
  OBVIOUS
<1> HIDE DEF history
<1>4. PICK stage \in [0..n -> Seq(Edits)] :
        /\ stage[0] = <<c>>
        /\ \A i \in 1..n : stage[i] = TransformMultiple(history[i], stage[i - 1])
        /\ AcrossAll(history, <<c>>) = stage[n]
  <2> DEFINE chunks == <<c>>
  <2>1. chunks \in Seq(Edits)
    BY <1>3
  <2> HIDE DEF chunks, n
  <2>2. \E stage \in [0..Len(history) -> Seq(Edits)] :
          /\ stage[0] = chunks
          /\ \A i \in 1..Len(history) : stage[i] = TransformMultiple(history[i], stage[i - 1])
          /\ AcrossAll(history, chunks) = stage[Len(history)]
    BY <1>2, <2>1, AcrossAllStages
  <2> QED BY <1>2, <2>2 DEF chunks
<1>5. PICK wide : Widening(wide, S, base, n) /\ WidenedFrom(S, base, n) = wide[n]
  <2>1. base + n <= Version
    BY <1>1
  <2> HIDE DEF n
  <2> QED BY <1>1, <2>1, WidenedStages
<1> DEFINE T == {i \in 0..n : /\ Len(stage[i]) = 1 /\ Goes(TextAt(base + i), stage[i][1])
                              /\ Takes(TextAt(base + i), stage[i][1]) \subseteq wide[i]}
<1>6. 0 \in T
  <2>1. base + 0 = base /\ 0 \in 0..n
    BY <1>1
  <2> QED BY <1>3, <1>4, <1>5, <2>1 DEF Widening
<1> HIDE DEF n
<1>7. ASSUME NEW i \in 0..(n - 1), i \in T
      PROVE  i + 1 \in T
  <2> DEFINE j == i + 1
             v == base + j
             d == stage[i][1]
  <2>1. /\ j \in 1..n /\ j - 1 = i /\ i \in 0..n /\ j \in 0..n
        /\ v \in 1..Version /\ v - 1 = base + i /\ v - 1 \in 0..(v - 1) /\ v - 1 \in 0..Version
        /\ v \in 0..Version /\ base + j - 1 = base + i
    BY <1>1 DEF n
  <2>2. /\ Len(stage[i]) = 1 /\ Goes(TextAt(base + i), d)
        /\ Takes(TextAt(base + i), d) \subseteq wide[i]
    BY <1>7
  <2> HIDE DEF j, v
  <2>3. stage[i] \in Seq(Edits) /\ d \in Edits
    <3>1. stage[i] \in Seq(Edits)
      BY <1>4, <2>1
    <3> QED BY <2>2, <3>1
  <2>4. /\ Leads(ops[v], TextAt(v - 1), TextAt(v)) /\ Foreign(ops[v], TextAt(v - 1))
        /\ Apart(ops[v]) /\ ops[v] \in Seq(Edits)
    <3>1. ops[v] \in Seq(Edits)
      <4> DEFINE E == Seq(Edits)
      <4>1. ops \in Seq(E) /\ v \in 1..Len(ops)
        BY <1>1, <2>1 DEF Written, Version
      <4> HIDE DEF E
      <4>2. ops[v] \in E
        BY <4>1
      <4> QED BY <4>2 DEF E
    <3> QED BY <2>1, <3>1 DEF Followed, Recorded, Spaced
  <2>5. stage[j] = TransformMultiple(ops[v], stage[i])
    <3>1. stage[j] = TransformMultiple(history[j], stage[j - 1]) /\ history[j] = ops[base + j]
      BY <1>2, <1>4, <2>1
    <3> QED BY <2>1, <3>1 DEF v
  <2>6. stage[j] = <<Across(ops[v], d)>>
    <3>1. stage[j] \in Seq(Edits) /\ Len(stage[j]) = Len(stage[i])
          /\ \A k \in 1..Len(stage[i]) : stage[j][k] = Across(ops[v], stage[i][k])
      BY <2>3, <2>4, <2>5, TransformMultipleEdits
    <3> QED BY <2>2, <3>1
  <2>7. /\ Goes(TextAt(v), Across(ops[v], d))
        /\ Takes(TextAt(v), Across(ops[v], d)) \subseteq Widened(wide[i], TextAt(v - 1), TextAt(v))
    <3>1. TextAt(v - 1) \in Seq(Char)
      BY <1>1, <2>1, TextType
    <3>2. Goes(TextAt(v - 1), d) /\ Takes(TextAt(v - 1), d) \subseteq wide[i]
      BY <2>1, <2>2
    <3> HIDE DEF d
    <3> QED BY <2>3, <2>4, <3>1, <3>2, TakesAcross
  <2>8. wide[j] = Widened(wide[i], TextAt(v - 1), TextAt(v))
    <3>1. wide[j] = Widened(wide[j - 1], TextAt(base + j - 1), TextAt(base + j))
      BY <1>5, <2>1 DEF Widening
    <3> QED BY <2>1, <3>1 DEF v
  <2> HIDE DEF d
  <2>9. Len(stage[j]) = 1 /\ stage[j][1] = Across(ops[v], d)
    BY <2>6
  <2>10. /\ Goes(TextAt(base + j), stage[j][1])
         /\ Takes(TextAt(base + j), stage[j][1]) \subseteq wide[j]
    BY <2>7, <2>8, <2>9 DEF v
  <2>11. j \in T
    BY <2>1, <2>9, <2>10
  <2> QED BY <2>11 DEF j
<1>8. n \in T
  <2> HIDE DEF T
  <2>1. \A i \in 0..(n - 1) : i \in T => i + 1 \in T
    BY <1>7
  <2>2. 0..n \subseteq T
    BY <1>1, <1>6, <2>1, UpTo
  <2>3. n \in 0..n
    BY <1>1
  <2> QED BY <2>2, <2>3
<1> DEFINE d == stage[n][1]
<1>9. stage[n] \in Seq(Edits) /\ Len(stage[n]) = 1
  BY <1>1, <1>4, <1>8
<1>10. stage[n] = <<d>> /\ d \in Edits
  BY <1>9
<1>11. /\ Goes(TextAt(Version - 1), d)
       /\ Takes(TextAt(Version - 1), d) \subseteq WidenedFrom(S, base, n)
  BY <1>1, <1>5, <1>8
<1> HIDE DEF d
<1> QED BY <1>4, <1>10, <1>11 DEF n, history

\* The last message and what came of it: the text its client wanted, if nothing
\* had been recorded since its version, or its one chunk moved across all that was.
Remembered ==
  Version > 0 =>
    /\ sent.base \in 0..(Version - 1)
    /\ \/ sent.base = Version - 1 /\ After = Wanted
       \/ \E c \in Edits :
            /\ sent.chunks = <<c>> /\ Goes(Seen, c)
            /\ After = ApplyMultiple(Met, AcrossAll(Behind(sent.base), <<c>>))

\* What a removal takes of its client's text is not in the text its client wants.
LEMMA TakesRemoved ==
  ASSUME NEW text \in Seq(Char), IsInjective(text), NEW c \in Edits, Goes(text, c)
  PROVE  Takes(text, c) \subseteq ToSet(text) \ ToSet(Apply(text, c))
<1> DEFINE after == Apply(text, c)
<1>1. Traced(text, c, after) /\ after \in Seq(Char)
  BY ApplyTraced, ApplyType
<1> HIDE DEF after
<1> SUFFICES ASSUME NEW i \in 1..Len(text), Taken(c, i), text[i] \in ToSet(after)
             PROVE  FALSE
  BY DEF Takes, ToSet, after
<1>2. PICK k \in 1..Len(after) : after[k] = text[i]
  BY <1>1 DEF ToSet
<1>3. c.type = "remove"
  BY DEF Taken
<1>4. PICK j \in 1..Len(text) : Becomes(c, j, k) /\ after[k] = text[j]
  BY <1>1, <1>3 DEF Traced
<1>5. i = j
  <2>1. \A x, y \in 1..Len(text) : text[x] = text[y] => x = y
    BY DEF IsInjective
  <2> QED BY <1>2, <1>4, <2>1
<1>6. i \in Nat /\ Becomes(c, i, k)
  BY <1>4, <1>5
<1>7. ~Taken(c, i)
  BY <1>6, LeftAlone
<1> QED BY <1>7

\* What is lost to a chunk is what it takes.
LEMMA LostTaken ==
  ASSUME NEW text \in Seq(Char), NEW d \in Edits, Goes(text, d)
  PROVE  ToSet(text) \ ToSet(Apply(text, d)) \subseteq Takes(text, d)
<1> DEFINE after == Apply(text, d)
<1>1. Traced(text, d, after) /\ after \in Seq(Char)
  BY ApplyTraced, ApplyType
<1> HIDE DEF after
<1>2. SUFFICES ASSUME NEW i \in 1..Len(text), text[i] \notin ToSet(after)
               PROVE  text[i] \in Takes(text, d)
  BY DEF ToSet, after
<1>3. \A k \in 1..Len(after) : after[k] \in ToSet(after)
  BY <1>1 DEF ToSet
<1>4. Taken(d, i)
  BY <1>1, <1>2, <1>3 DEF Traced
<1> QED BY <1>4 DEF Takes

\* What the last message took was inside what its client removed.
LEMMA LossesAccounted == Followed /\ Remembered => LostOnlyInside
<1> SUFFICES ASSUME Followed, Remembered PROVE LostOnlyInside
  OBVIOUS
<1>1. Written /\ Version \in Nat
  BY Bounds DEF Followed, Written
<1>2. CASE Version = 0
  <2>1. Met = After
    BY <1>2 DEF Met
  <2> QED BY <2>1 DEF LostOnlyInside
<1>3. CASE Version > 0
  <2> DEFINE base == sent.base
             n == Version - 1 - base
             met == TextAt(Version - 1)
  <2>1. /\ base \in 0..(Version - 1) /\ base \in Nat /\ n \in Nat /\ base + n <= Version
        /\ base \in 0..Version /\ Version - 1 \in 0..Version
    BY <1>1, <1>3 DEF Remembered
  <2>2. Met = met /\ Seen = TextAt(base)
    BY <1>3 DEF Met, Seen
  <2>3. /\ met \in Seq(Char) /\ Seen \in Seq(Char) /\ IsInjective(Seen)
    <3> HIDE DEF base, met
    <3>1. TextAt(base) \in Seq(Char) /\ IsInjective(TextAt(base))
      BY <1>1, <2>1, TextType DEF Followed, Numbered
    <3>2. TextAt(Version - 1) \in Seq(Char)
      BY <1>1, <2>1, TextType
    <3> QED BY <2>2, <3>1, <3>2 DEF met
  <2>4. Removed \in SUBSET Char
    BY <2>3 DEF Removed, ToSet
  <2>5. Inside = WidenedFrom(Removed, base, n)
    BY DEF Inside, WidenedFrom
  <2>6. CASE base = Version - 1 /\ After = Wanted
    <3>1. ToSet(Met) \ ToSet(After) = Removed /\ n = 0
      BY <1>1, <2>2, <2>6 DEF Removed
    <3> HIDE DEF n, base
    <3>2. Inside = Removed
      <4> DEFINE S == Removed
      <4>1. S \in SUBSET Char /\ S = Removed
        BY <2>4
      <4> HIDE DEF S
      <4>2. PICK stage : Widening(stage, S, base, n) /\ WidenedFrom(S, base, n) = stage[n]
        BY <1>1, <2>1, <4>1, WidenedStages
      <4> QED BY <2>5, <3>1, <4>1, <4>2 DEF Widening
    <3> QED BY <3>1, <3>2 DEF LostOnlyInside
  <2>7. CASE \E c \in Edits :
               /\ sent.chunks = <<c>> /\ Goes(Seen, c)
               /\ After = ApplyMultiple(Met, AcrossAll(Behind(base), <<c>>))
    <3>1. PICK c \in Edits : /\ sent.chunks = <<c>> /\ Goes(Seen, c)
                             /\ After = ApplyMultiple(Met, AcrossAll(Behind(base), <<c>>))
      BY <2>7
    <3>2. Takes(Seen, c) \subseteq Removed
      <4>1. Wanted = Apply(Seen, c)
        BY <2>3, <3>1, ApplyOne DEF Wanted
      <4> QED BY <2>3, <3>1, <4>1, TakesRemoved DEF Removed
    <3> HIDE DEF base, n, met
    <3>3. PICK d \in Edits : /\ AcrossAll(Behind(base), <<c>>) = <<d>>
                             /\ Goes(met, d)
                             /\ Takes(met, d) \subseteq WidenedFrom(Removed, base, n)
      <4>1. Goes(TextAt(base), c) /\ Takes(TextAt(base), c) \subseteq Removed
        BY <2>2, <3>1, <3>2
      <4> QED BY <2>1, <2>4, <4>1, TakesThrough DEF met, n
    <3>4. After = Apply(met, d)
      BY <2>2, <2>3, <3>1, <3>3, ApplyOne
    <3>5. ToSet(met) \ ToSet(After) \subseteq Takes(met, d)
      BY <2>3, <3>3, <3>4, LostTaken
    <3> QED BY <2>2, <2>5, <3>3, <3>5 DEF LostOnlyInside
  <2> QED BY <1>3, <2>6, <2>7 DEF Remembered
<1> QED BY <1>1, <1>2, <1>3

\* Nothing has been lost before the first message.
LEMMA FirstRemembered == Init => Remembered
<1> SUFFICES ASSUME Init PROVE Remembered
  OBVIOUS
<1>1. Version = 0
  BY FirstType
<1> QED BY <1>1 DEF Remembered

\* A message is remembered with what it was moved across.
LEMMA RememberedStep ==
  ASSUME StaleChunks < 2, Followed, NEW base, NEW chunks, Message(base, chunks)
  PROVE  Remembered'
<1> DEFINE toApply == TransformStaleChunks(base, chunks)
           after == ApplyMultiple(TextAt(Version), toApply)
<1>1. Written /\ Version \in Nat /\ Version \in 0..Version
  BY Bounds DEF Followed, Written
<1>2. base \in 0..Version /\ chunks \in Seq(Edits)
  BY <1>1, MessageType
<1>3. /\ sent' = [base |-> base, chunks |-> chunks]
      /\ Version' = Version + 1 /\ Version' > 0 /\ Version' - 1 = Version
      /\ ops' = Append(ops, toApply)
  <2>1. /\ sent' = [base |-> base, chunks |-> chunks]
        /\ Version' = Version + 1
        /\ ops' = Append(ops, toApply)
    BY <1>1, MessageWrites
  <2> HIDE DEF toApply
  <2> QED BY <1>1, <2>1
<1>4. sent'.base = base /\ sent'.chunks = chunks
  BY <1>3
<1>5. Seen' = TextAt(base) /\ Wanted' = ApplyMultiple(TextAt(base), chunks)
  BY LastMessage
<1>6. After' = after /\ Met' = TextAt(Version)
  BY LastMessage
<1>7. toApply = AcrossAll(Since(base), chunks)
  BY <1>1, <1>2, TransformedType
<1>8. SubSeq(ops', sent'.base + 1, Version' - 1) = Since(base)
  <2>1. SubSeq(ops', sent'.base + 1, Version' - 1) = SubSeq(Append(ops, toApply), base + 1, Version)
    BY <1>3, <1>4
  <2>2. Version = Len(ops) /\ ops \in Seq(Seq(Edits)) /\ toApply \in Seq(Edits)
    BY <1>1, <1>2, TransformedType DEF Written, Version
  <2> DEFINE E == Seq(Edits)
  <2>3. ops \in Seq(E) /\ toApply \in E
    BY <2>2
  <2> HIDE DEF E, toApply
  <2>4. SubSeq(Append(ops, toApply), base + 1, Len(ops)) = SubSeq(ops, base + 1, Len(ops))
    <3> DEFINE m == Len(ops)
    <3>1. m \in Nat /\ \A i \in 1..m : Append(ops, toApply)[i] = ops[i]
      BY <2>3
    <3>2. \A i \in 1..(m - base) : base + i \in 1..m
      BY <1>1, <1>2, <2>2
    <3> HIDE DEF m
    <3>3. \A i \in 1..(m - base) : Append(ops, toApply)[base + i] = ops[base + i]
      BY <3>1, <3>2
    <3> QED BY <1>2, <3>3 DEF m
  <2> QED BY <2>1, <2>2, <2>4 DEF Since
<1>9. \/ OneChunk(chunks, TextAt(base), Spent(Version))
      \/ base = Version /\ TwoChunks(chunks, TextAt(base), Spent(Version))
  BY <1>1, MessageType
<1>10. CASE OneChunk(chunks, TextAt(base), Spent(Version))
  <2>1. PICK c \in Edits : chunks = <<c>> /\ Goes(TextAt(base), c)
    BY <1>10 DEF OneChunk
  <2>2. Goes(Seen', c)
    BY <1>5, <2>1
  <2> HIDE DEF toApply
  <2>3. After' = ApplyMultiple(Met', AcrossAll(SubSeq(ops', sent'.base + 1, Version' - 1), <<c>>))
    BY <1>6, <1>7, <1>8, <2>1
  <2>4. sent'.chunks = <<c>> /\ sent'.base \in 0..(Version' - 1)
    BY <1>2, <1>3, <1>4, <2>1
  <2> QED BY <2>2, <2>3, <2>4 DEF Remembered, Behind
<1>11. CASE base = Version /\ TwoChunks(chunks, TextAt(base), Spent(Version))
  <2>1. toApply = chunks
    BY <1>1, <1>2, <1>11, FreshUnmoved
  <2>2. After' = Wanted'
    BY <1>5, <1>6, <1>11, <2>1
  <2> QED BY <1>2, <1>3, <1>4, <1>11, <2>2 DEF Remembered
<1> QED BY <1>9, <1>10, <1>11

\* When a message that is behind has one chunk, a removal takes along nothing that
\* others inserted since but what they inserted between two characters of it,
\* whatever was recorded in between (Transform, the growing of a removal).
THEOREM LossesAreInside ==
  ASSUME StaleChunks < 2
  PROVE  Spec => []LostOnlyInside
<1>1. Init => Followed /\ Remembered
  BY FollowedInit, FirstRemembered
<1>2. Followed /\ Remembered /\ [Next]_vars => (Followed /\ Remembered)'
  <2>1. ASSUME Followed, Remembered, UNCHANGED vars PROVE (Followed /\ Remembered)'
    <3>1. Followed'
      BY <2>1, FollowedStays
    <3>2. Remembered'
      <4>1. ops' = ops /\ sent' = sent /\ texts' = texts
        BY <2>1 DEF vars
      <4>2. Version' = Version
        BY <4>1 DEF Version
      <4>3. After' = After /\ Met' = Met /\ Seen' = Seen
        BY <4>1, <4>2 DEF After, Met, Seen, TextAt
      <4>4. Wanted' = Wanted
        BY <4>1, <4>3 DEF Wanted
      <4> QED BY <2>1, <4>1, <4>2, <4>3, <4>4 DEF Remembered, Behind
    <3> QED BY <3>1, <3>2
  <2>2. ASSUME Followed, NEW base, NEW chunks, Message(base, chunks)
        PROVE  (Followed /\ Remembered)'
    BY <2>2, FollowedMessage, RememberedStep
  <2> QED BY <2>1, <2>2, NextIs
<1>3. Followed /\ Remembered => LostOnlyInside
  BY LossesAccounted
<1> QED BY <1>1, <1>2, <1>3, PTL DEF Spec
================================================================================
