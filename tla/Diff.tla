--------------------------------- MODULE Diff ---------------------------------
(***************************************************************************)
(* The algorithms of package diff on texts and chunks: Apply, Transform    *)
(* and their versions for several chunks.  A text is a sequence of         *)
(* characters; a chunk inserts a text at a position (the number of         *)
(* characters before it) or removes len characters from a position.  The   *)
(* text a removal carries is never read and is left out.                   *)
(***************************************************************************)
EXTENDS Integers, Sequences, SequencesExt

CONSTANT Char

AddChunk(position, text) ==
  [type |-> "add", position |-> position, text |-> text, len |-> Len(text)]
RemoveChunk(position, len) ==
  [type |-> "remove", position |-> position, text |-> <<>>, len |-> len]

Chunk == [type : {"add", "remove"}, position : Int, text : Seq(Char), len : Int]

ValidChunk(chunk) ==
  /\ chunk.position >= 0 /\ chunk.len >= 0
  /\ chunk.type = "add" => chunk.len = Len(chunk.text)

Smaller(a, b) == IF a < b THEN a ELSE b
Larger(a, b) == IF a < b THEN b ELSE a

\* Positions beyond the text insert at its end and remove nothing.
Apply(text, chunk) ==
  LET start == Smaller(Larger(chunk.position, 0), Len(text))
      end   == IF chunk.type = "add" THEN start ELSE Smaller(start + chunk.len, Len(text))
  IN  SubSeq(text, 1, start) \o chunk.text \o SubSeq(text, end + 1, Len(text))

ApplyMultiple(text, chunks) == FoldLeft(Apply, text, chunks)

\* The same chunk at another position, of another length.
Moved(chunk, position, len) ==
  [type |-> chunk.type, position |-> position, text |-> chunk.text, len |-> len]

\* Mutant: an insertion inside what was removed is shifted by all of it.
ShiftedBackUnclamped(op1, op2) ==
  IF op1.position < op2.position THEN op2.position - op1.len ELSE op2.position

\* op2's position once op1 has removed what it removes before it.
ShiftedBack(op1, op2) ==
  IF op1.position < op2.position
    THEN op2.position - Smaller(op1.len, op2.position - op1.position)
    ELSE op2.position

Overlap(op1, op2) ==
  Larger(0, Smaller(op1.position + op1.len, op2.position + op2.len)
              - Larger(op1.position, op2.position))

\* Mutant: a removal is not shifted by an insertion right where it starts.
TransformTieInside(op1, op2) ==
  IF op1.type = "add"
    THEN IF op1.position < op2.position \/ (op1.position = op2.position /\ op2.type = "add")
           THEN Moved(op2, op2.position + op1.len, op2.len)
           ELSE IF op2.type = "remove" /\ op1.position < op2.position + op2.len
             THEN Moved(op2, op2.position, op2.len + op1.len)
             ELSE op2
    ELSE IF op2.type = "add"
      THEN Moved(op2, ShiftedBack(op1, op2), op2.len)
      ELSE Moved(op2, ShiftedBack(op1, op2), op2.len - Overlap(op1, op2))

\* Mutant: what both removed is counted twice.
TransformNoOverlap(op1, op2) ==
  IF op1.type = "add"
    THEN IF op1.position <= op2.position
           THEN Moved(op2, op2.position + op1.len, op2.len)
           ELSE IF op2.type = "remove" /\ op1.position < op2.position + op2.len
             THEN Moved(op2, op2.position, op2.len + op1.len)
             ELSE op2
    ELSE Moved(op2, ShiftedBack(op1, op2), op2.len)

\* op2 as it has to be after op1.
Transform(op1, op2) ==
  IF op1.type = "add"
    THEN IF op1.position <= op2.position
           THEN Moved(op2, op2.position + op1.len, op2.len)
           ELSE IF op2.type = "remove" /\ op1.position < op2.position + op2.len
             THEN Moved(op2, op2.position, op2.len + op1.len)
             ELSE op2
    ELSE IF op2.type = "add"
      THEN Moved(op2, ShiftedBack(op1, op2), op2.len)
      ELSE Moved(op2, ShiftedBack(op1, op2), op2.len - Overlap(op1, op2))

\* Every chunk of the message, each on its own, against the chunks of the
\* earlier operation one after the other.
TransformMultiple(lastOpList, opToTransformList) ==
  [i \in DOMAIN opToTransformList |->
     FoldLeft(LAMBDA op2, op1 : Transform(op1, op2), opToTransformList[i], lastOpList)]
==============================================================================
