------------------------------- MODULE Document -------------------------------
(***************************************************************************)
(* One document as the server edits it, with its text: a message made on   *)
(* any version is transformed against the operations recorded since and    *)
(* applied to the current text.  Every inserted character is new, so the   *)
(* fate of each edit can be followed through the texts.                    *)
(***************************************************************************)
EXTENDS Diff, FiniteSets

CONSTANTS InitialLength, InsertLength,  \* bounds on the texts
          MaxEdits,                     \* bound on the versions
          FreshChunks, StaleChunks      \* bounds on the chunks of a message that is
                                        \* up to date, and of one that is behind

VARIABLES texts,  \* the text at each version, 0 first
          ops,    \* the operation recorded for each version
          sent    \* the last message: the version it was made on, its chunks

vars == <<texts, ops, sent>>

Version == Len(ops)
TextAt(v) == texts[v + 1]

\* The characters are numbered as they come, the first text's from 1 on: how many
\* there are once v messages have brought theirs, at most two insertions each.
Spent(v) == InitialLength + 2 * InsertLength * v

ASSUME Bounds ==
  /\ InitialLength \in Nat /\ InsertLength \in Nat /\ MaxEdits \in Nat
  /\ 1..Spent(MaxEdits) \subseteq Char

Init ==
  /\ texts = <<[i \in 1..InitialLength |-> i]>>
  /\ ops = <<>>
  /\ sent = [base |-> 0, chunks |-> <<>>]

\* The chunks of one change of a text; their new characters start at n.
Chunks(text, n) ==
  {AddChunk(p, [i \in 1..InsertLength |-> n + i]) : p \in 0..Len(text)}
    \cup {RemoveChunk(p, k) : p \in 0..Len(text), k \in 1..Len(text)}

Fits(text, chunk) == chunk.type = "remove" => chunk.position + chunk.len <= Len(text)

\* A difference goes through the text: what follows a chunk comes after what the
\* chunk leaves and after text that is kept, but for an insertion that takes the
\* place of a removal.
Follows(a, b) ==
  IF a.type = "remove" /\ b.type = "add"
    THEN b.position >= a.position
    ELSE b.position > a.position + Len(a.text)

\* A message of one or two chunks, each on the text the one before it leaves.
Messages(text, n, count) ==
  LET first == {a \in Chunks(text, n) : Fits(text, a)}
      next(a) == {b \in Chunks(Apply(text, a), n + InsertLength) :
                    Fits(Apply(text, a), b) /\ Follows(a, b)}
  IN  {<<a>> : a \in first}
        \cup (IF count < 2 THEN {} ELSE UNION {{<<a, b>> : b \in next(a)} : a \in first})

\* Mutant: the operation right after the base is skipped.
TransformStaleChunksSkipsOne(base, chunks) ==
  FoldLeft(LAMBDA transformed, op : TransformMultiple(op, transformed),
           chunks, SubSeq(ops, base + 2, Version))

TransformStaleChunks(base, chunks) ==
  FoldLeft(LAMBDA transformed, op : TransformMultiple(op, transformed),
           chunks, SubSeq(ops, base + 1, Version))

OnChunkMessage(base, chunks) ==
  LET toApply == TransformStaleChunks(base, chunks) IN
  /\ ops' = Append(ops, toApply)
  /\ texts' = Append(texts, ApplyMultiple(TextAt(Version), toApply))
  /\ sent' = [base |-> base, chunks |-> chunks]

Next ==
  /\ Version < MaxEdits
  /\ \E base \in 0..Version :
       \E chunks \in Messages(TextAt(base), Spent(Version),
                              IF base = Version THEN FreshChunks ELSE StaleChunks) :
         OnChunkMessage(base, chunks)

Spec == Init /\ [][Next]_vars

-------------------------------------------------------------------------------
(* Properties *)

\* What the last message met and made of it.
Seen   == TextAt(sent.base)                    \* the text its client had
Wanted == ApplyMultiple(Seen, sent.chunks)     \* the text its client made of it
After  == TextAt(Version)
Met    == IF Version = 0 THEN After ELSE TextAt(Version - 1)

Removed  == ToSet(Seen) \ ToSet(Wanted)
Inserted == ToSet(Wanted) \ ToSet(Seen)

\* What two texts share is there once, in the same order in both.
SameOrder(s, t) ==
  \A i \in DOMAIN s, k \in DOMAIN t : s[i] = t[k] =>
    \A j \in DOMAIN s, l \in DOMAIN t : s[j] = t[l] => (i < j <=> k < l)

\* A message does to the current text what its client did to the text it had:
\* what the client removed is gone, what it inserted is there, everything else
\* it had is kept if it was still there, and all that is left of the client's
\* text is in the client's order.
IntentPreserved ==
  /\ ToSet(After) \cap Removed = {}
  /\ Inserted \subseteq ToSet(After)
  /\ (ToSet(Met) \cap ToSet(Seen)) \ Removed \subseteq ToSet(After)
  /\ SameOrder(Wanted, After)

\* What a text has between two members of a set.
Between(S, text) ==
  {text[j] : j \in {j \in DOMAIN text : \E i, k \in DOMAIN text :
                      i < j /\ j < k /\ text[i] \in S /\ text[k] \in S}}

\* A set with what a text has anew between two of its members.
Widened(S, before, after) == S \cup (Between(S, after) \ ToSet(before))

\* What the last message removed from its client's text, with what others have
\* inserted since, version by version, between two characters of it.
Inside ==
  FoldLeft(LAMBDA S, v : Widened(S, TextAt(v - 1), TextAt(v)),
           Removed, [i \in 1..(Version - 1 - sent.base) |-> sent.base + i])

\* A removal takes along what others inserted since only if they inserted it
\* between two characters it takes.
LostOnlyInside == ToSet(Met) \ ToSet(After) \subseteq Inside

\* What is recorded and broadcast fits the text it is applied to, chunk by chunk and
\* however many operations it was moved across: no position or length is negative,
\* nothing starts or ends beyond the text, so Apply never cuts a chunk to size and
\* every client that has the version before can take it as it is.
RecordedFits ==
  \A v \in DOMAIN ops : \A i \in DOMAIN ops[v] :
    LET chunk == ops[v][i]
        text  == ApplyMultiple(TextAt(v - 1), SubSeq(ops[v], 1, i - 1))
    IN  ValidChunk(chunk) /\ chunk.position <= Len(text) /\ Fits(text, chunk)
==============================================================================
