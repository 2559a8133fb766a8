------------------------------ MODULE FoldLemmas ------------------------------
(***************************************************************************)
(* What a fold of the community modules goes through.  FoldLeft is defined *)
(* by a choice among functions on the sets of indices: that there is such  *)
(* a function, and that it takes the elements one at a time, is proved     *)
(* here by induction on the number of elements.                            *)
(***************************************************************************)
EXTENDS Integers, Sequences, SequencesExt, WellFoundedInduction, TLAPS

\* A set of numbers has a least one.
LEMMA LeastNumber ==
  ASSUME NEW T, T \subseteq Nat, T # {}
  PROVE  \E n \in T : \A m \in T : n <= m
<1>1. PICK R : IsWellFoundedOn(R, Nat) /\ \A x, y \in Nat : x < y => <<x, y>> \in R
  BY NatLessThanWellFounded DEF OpToRel
<1>2. IsWellFoundedOn(R, Nat)
  BY <1>1
<1>3. \E n \in T : \A m \in T : ~(<<m, n>> \in R)
  BY <1>2, WFMin, Zenon
<1>4. PICK n \in T : \A m \in T : ~(<<m, n>> \in R)
  BY <1>3, Zenon
<1>5. n \in Nat /\ \A m \in T : m \in Nat /\ ~(m < n)
  BY <1>1, <1>4
<1>6. \A m \in T : n <= m
  BY <1>5
<1> QED BY <1>6

\* A set of numbers that has 0 and, with each number below n, the next one.
LEMMA UpTo ==
  ASSUME NEW n \in Nat, NEW T, 0 \in T,
         \A i \in 0..(n - 1) : i \in T => i + 1 \in T
  PROVE  0..n \subseteq T
<1> DEFINE B == (0..n) \ T
<1>1. SUFFICES ASSUME B # {} PROVE FALSE
  OBVIOUS
<1>2. B \subseteq Nat
  OBVIOUS
<1>3. PICK m \in B : \A k \in B : m <= k
  <2> HIDE DEF B
  <2> QED BY <1>1, <1>2, LeastNumber
<1>4. m # 0 /\ m \in 0..n
  OBVIOUS
<1>5. m - 1 \in 0..(n - 1) /\ m - 1 \notin B
  BY <1>3, <1>4
<1>6. m - 1 \in T
  BY <1>5
<1>7. (m - 1) + 1 \in T
  BY <1>5, <1>6
<1> QED BY <1>4, <1>7

\* Max of some of the numbers up to n.
LEMMA Top ==
  ASSUME NEW n \in Nat, NEW S \in SUBSET (1..n), S # {}
  PROVE  Max(S) \in S /\ \A x \in S : x <= Max(S)
<1> DEFINE U == {u \in Nat : \A x \in S : x <= u}
<1>1. U \subseteq Nat /\ n \in U
  OBVIOUS
<1>2. PICK m \in U : \A k \in U : m <= k
  <2> HIDE DEF U
  <2> QED BY <1>1, LeastNumber
<1>3. m \in S
  <2>1. SUFFICES ASSUME m \notin S PROVE FALSE
    OBVIOUS
  <2>2. m \in Nat /\ \A x \in S : x \in 1..n /\ x <= m /\ x # m
    BY <1>2, <2>1
  <2>3. m # 0
    <3>1. PICK x : x \in S
      OBVIOUS
    <3>2. x \in 1..n /\ x <= m /\ m \in Nat
      BY <2>2, <3>1
    <3> QED BY <3>2
  <2>4. m - 1 \in U
    BY <2>2, <2>3
  <2> QED BY <1>2, <2>2, <2>4
<1>4. \A x \in S : m >= x
  BY <1>2
<1> QED BY <1>3, <1>4 DEF Max

\* What a fold goes through, read off the sets its definition goes through.
Unrolls(g, n, base, seq, step) ==
  \A S \in SUBSET (1..n) :
    g[S] = IF S = {} THEN base ELSE step[<<g[S \ {Max(S)}], seq[Max(S)]>>]

\* There is a function that goes through the sets as a fold does, so that the
\* one the definition of the fold chooses does as well.
LEMMA FoldExists ==
  ASSUME NEW n \in Nat, NEW A, NEW E, NEW base \in A,
         NEW seq \in [1..n -> E], NEW step \in [A \X E -> A]
  PROVE  \E g \in [SUBSET (1..n) -> A] : Unrolls(g, n, base, seq, step)
<1> DEFINE T == {k \in 0..n : \E g \in [SUBSET (1..k) -> A] : Unrolls(g, k, base, seq, step)}
<1>1. 0 \in T
  <2> DEFINE g == [S \in SUBSET (1..0) |-> base]
  <2>1. g \in [SUBSET (1..0) -> A]
    OBVIOUS
  <2>2. SUBSET (1..0) = {{}}
    OBVIOUS
  <2>3. Unrolls(g, 0, base, seq, step)
    BY <2>2 DEF Unrolls
  <2> QED BY <2>1, <2>3
<1>2. ASSUME NEW k \in 0..(n - 1), k \in T
      PROVE  k + 1 \in T
  <2>1. PICK g \in [SUBSET (1..k) -> A] : Unrolls(g, k, base, seq, step)
    BY <1>2
  <2> DEFINE m == k + 1
             h == [S \in SUBSET (1..m) |->
                     IF m \in S THEN step[<<g[S \ {m}], seq[m]>>] ELSE g[S]]
  <2>2. /\ m \in 1..n /\ k \in Nat /\ m \notin 1..k /\ m \in Nat
        /\ \A S \in SUBSET (1..m) : S \ {m} \in SUBSET (1..k)
        /\ \A S \in SUBSET (1..m) : m \notin S => S \in SUBSET (1..k)
        /\ \A S \in SUBSET (1..k) : S \in SUBSET (1..m) /\ m \notin S
    OBVIOUS
  <2>3. \A S \in SUBSET (1..m) : m \in S => Max(S) = m
    <3> SUFFICES ASSUME NEW S \in SUBSET (1..m), m \in S PROVE Max(S) = m
      OBVIOUS
    <3>1. Max(S) \in S /\ m <= Max(S)
      <4> HIDE DEF m
      <4> QED BY <2>2, Top
    <3>2. Max(S) \in 1..m
      BY <3>1
    <3> QED BY <2>2, <3>1, <3>2
  <2>4. h \in [SUBSET (1..m) -> A]
    <3> HIDE DEF m
    <3> QED BY <2>2
  <2>5. ASSUME NEW S \in SUBSET (1..m)
        PROVE  h[S] = IF S = {} THEN base ELSE step[<<h[S \ {Max(S)}], seq[Max(S)]>>]
    <3>1. CASE m \in S
      <4>1. Max(S) = m /\ S # {}
        BY <2>3, <3>1
      <4>2. h[S \ {m}] = g[S \ {m}]
        <5> HIDE DEF m
        <5> QED BY <2>2
      <4>3. h[S] = step[<<g[S \ {m}], seq[m]>>]
        BY <3>1
      <4> HIDE DEF h, m
      <4> QED BY <4>1, <4>2, <4>3
    <3>2. CASE m \notin S
      <4>1. S \in SUBSET (1..k) /\ S \ {Max(S)} \in SUBSET (1..k)
        BY <2>2, <3>2
      <4>2. h[S] = g[S]
        BY <3>2
      <4>3. h[S \ {Max(S)}] = g[S \ {Max(S)}]
        <5> HIDE DEF m
        <5> QED BY <2>2, <4>1, <3>2
      <4>4. g[S] = IF S = {} THEN base ELSE step[<<g[S \ {Max(S)}], seq[Max(S)]>>]
        BY <2>1, <4>1 DEF Unrolls
      <4> HIDE DEF h, m
      <4> QED BY <4>2, <4>3, <4>4
    <3> QED BY <3>1, <3>2
  <2>6. Unrolls(h, m, base, seq, step)
    <3> HIDE DEF h, m
    <3> QED BY <2>5 DEF Unrolls
  <2>7. m \in 0..n
    BY <2>2
  <2> HIDE DEF h
  <2> QED BY <2>4, <2>6, <2>7
<1>3. n \in T
  <2> HIDE DEF T
  <2>1. \A k \in 0..(n - 1) : k \in T => k + 1 \in T
    BY <1>2
  <2>2. 0..n \subseteq T
    BY <1>1, <2>1, UpTo
  <2> QED BY <2>2
<1> QED BY <1>3

\* What a fold makes of its first elements, one more at a time.
Stages(stage, n, base, seq, step) ==
  stage[0] = base /\ \A i \in 1..n : stage[i] = step[<<stage[i - 1], seq[i]>>]

RunsTo(n, A, base, seq, step, last) ==
  \E stage \in [0..n -> A] : Stages(stage, n, base, seq, step) /\ stage[n] = last

\* A function on sets that goes through them as the definition of a fold does.
Iterates(iter, n, A, base, seq, step) ==
  /\ iter[{}] = base
  /\ \A S \in SUBSET (1..n) :
       S # {} /\ iter[S \ {Max(S)}] \in A =>
         iter[S] = step[<<iter[S \ {Max(S)}], seq[Max(S)]>>]

\* A fold of a sequence has stages, and ends at the last of them.
LEMMA FoldStages ==
  ASSUME NEW n \in Nat, NEW A, NEW E, NEW base \in A,
         NEW seq \in [1..n -> E], NEW step \in [A \X E -> A],
         NEW iter, Iterates(iter, n, A, base, seq, step)
  PROVE  RunsTo(n, A, base, seq, step, iter[1..n])
<1> DEFINE T == {k \in 0..n : iter[1..k] \in A}
           stage == [k \in 0..n |-> iter[1..k]]
<1>1. \A k \in 1..n : /\ 1..k \in SUBSET (1..n) /\ 1..k # {} /\ Max(1..k) = k
                      /\ (1..k) \ {Max(1..k)} = 1..(k - 1)
  <2> SUFFICES ASSUME NEW k \in 1..n
               PROVE  /\ 1..k \in SUBSET (1..n) /\ 1..k # {} /\ Max(1..k) = k
                      /\ (1..k) \ {Max(1..k)} = 1..(k - 1)
    OBVIOUS
  <2>0. 1..k \in SUBSET (1..n) /\ k \in 1..k
    OBVIOUS
  <2>1. 1..k \in SUBSET (1..n) /\ 1..k # {} /\ k \in 1..k
    BY <2>0, Zenon
  <2>2. Max(1..k) \in 1..k /\ k <= Max(1..k)
    BY <2>1, Top
  <2>3. Max(1..k) = k
    BY <2>2
  <2>4. (1..k) \ {k} = 1..(k - 1)
    OBVIOUS
  <2> QED BY <2>1, <2>3, <2>4
<1>2. 1..0 = {}
  OBVIOUS
<1>3. \A k \in 1..n : iter[1..(k - 1)] \in A =>
        iter[1..k] = step[<<iter[1..(k - 1)], seq[k]>>]
  <2> SUFFICES ASSUME NEW k \in 1..n, iter[1..(k - 1)] \in A
               PROVE  iter[1..k] = step[<<iter[1..(k - 1)], seq[k]>>]
    OBVIOUS
  <2> DEFINE S == 1..k
  <2>1. /\ S \in SUBSET (1..n) /\ S # {} /\ Max(S) = k
        /\ S \ {Max(S)} = 1..(k - 1)
    BY <1>1
  <2> HIDE DEF S
  <2>2. iter[S] = step[<<iter[S \ {Max(S)}], seq[Max(S)]>>]
    BY <2>1 DEF Iterates
  <2>3. iter[S] = step[<<iter[1..(k - 1)], seq[k]>>]
    BY <2>1, <2>2
  <2> QED BY <2>3 DEF S
<1>4. 0..n \subseteq T
  <2>1. 0 \in T
    BY <1>2 DEF Iterates
  <2>2. ASSUME NEW k \in 0..(n - 1), k \in T
        PROVE  k + 1 \in T
    <3> DEFINE m == k + 1
    <3>1. m \in 1..n /\ m - 1 = k /\ iter[1..k] \in A
      BY <2>2
    <3> HIDE DEF m
    <3>2. iter[1..m] = step[<<iter[1..k], seq[m]>>]
      BY <1>3, <3>1
    <3>3. iter[1..m] \in A
      BY <3>1, <3>2
    <3> QED BY <3>1, <3>3 DEF m
  <2> HIDE DEF T
  <2>3. \A k \in 0..(n - 1) : k \in T => k + 1 \in T
    BY <2>2
  <2> QED BY <2>1, <2>3, UpTo
<1>5. stage \in [0..n -> A]
  BY <1>4
<1>6. stage[0] = base /\ stage[n] = iter[1..n]
  BY <1>2 DEF Iterates
<1>7. ASSUME NEW i \in 1..n
      PROVE  stage[i] = step[<<stage[i - 1], seq[i]>>]
  <2>1. i - 1 \in 0..n /\ i \in 0..n
    OBVIOUS
  <2>2. stage[i] = iter[1..i] /\ stage[i - 1] = iter[1..(i - 1)]
    BY <2>1
  <2>3. iter[1..(i - 1)] \in A
    BY <1>4, <2>1
  <2> QED BY <1>3, <2>2, <2>3
<1> HIDE DEF stage
<1> QED BY <1>5, <1>6, <1>7 DEF Stages, RunsTo
==============================================================================
