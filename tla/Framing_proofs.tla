--------------------------- MODULE Framing_proofs ---------------------------
(***************************************************************************)
(* Proofs about lines and requests, for any bytes of telnet peers, in any  *)
(* number and cut anywhere.                                                *)
(*                                                                         *)
(* The functions of Framing are recursive: RecursionHasSolution says that  *)
(* such a function exists, and Induction what it computes.                 *)
(***************************************************************************)
EXTENDS Framing, SequenceTheorems, FiniteSetTheorems, WellFoundedInduction, TLAPS

\* A set of numbers has a smallest one.
LEMMA SmallestNumber ==
  ASSUME NEW S, S \subseteq Nat, S # {}
  PROVE  \E m \in S : \A n \in S : m <= n
  <1>1. PICK m \in S : \A n \in S : <<n, m>> \notin OpToRel(<, Nat)
    BY NatLessThanWellFounded, WFMin, Zenon
  <1>2. \A n \in S : ~(n < m)
    BY <1>1, Zenon DEF OpToRel
  <1> QED
    BY <1>2

\* Upwards: what holds of each number up to n if it holds of the smaller ones,
\* holds of all of them.
LEMMA InductionUp ==
  ASSUME NEW n \in Nat, NEW T, \A i \in 0..n : (\A j \in 0..i - 1 : j \in T) => i \in T
  PROVE  0..n \subseteq T
  <1> SUFFICES ASSUME NEW m \in (0..n) \ T, \A k \in (0..n) \ T : m <= k PROVE FALSE
    <2>1. (0..n) \ T \subseteq Nat
      OBVIOUS
    <2> QED
      BY <2>1, SmallestNumber
  <1>1. \A j \in 0..m - 1 : j \in T
    OBVIOUS
  <1> QED
    BY <1>1

\* Downwards, to 1.
LEMMA InductionDown ==
  ASSUME NEW n \in Nat, NEW T, \A i \in 1..n : (\A j \in i + 1..n : j \in T) => i \in T
  PROVE  1..n \subseteq T
  <1> DEFINE Left == {k \in 0..n - 1 : n - k \notin T}
  <1> SUFFICES ASSUME NEW i \in 1..n, i \notin T PROVE FALSE
    OBVIOUS
  <1>1. n - i \in Left
    OBVIOUS
  <1>2. PICK m \in Left : \A k \in Left : m <= k
    <2>1. Left \subseteq Nat
      OBVIOUS
    <2> HIDE DEF Left
    <2> QED
      BY <1>1, <2>1, SmallestNumber
  <1>3. ASSUME NEW j \in n - m + 1..n PROVE j \in T
    <2>1. n - j \in 0..n - 1 /\ n - j < m /\ n - (n - j) = j
      OBVIOUS
    <2> QED
      BY <1>2, <2>1
  <1> QED
    BY <1>3

\* step takes a function f on D to one whose value at i depends only on what f
\* has at smaller measure.
Recursion(step, measure, N, D, V) ==
  /\ V # {} /\ N \in Nat /\ measure \in [D -> 0..N] /\ step \in [[D -> V] -> [D -> V]]
  /\ \A i \in D : \A f, g \in [D -> V] :
       (\A j \in D : measure[j] < measure[i] => f[j] = g[j]) => step[f][i] = step[g][i]

\* Then the equation f = step[f] has a solution.
LEMMA RecursionHasSolution ==
  ASSUME NEW D, NEW V, NEW N, NEW measure, NEW step, Recursion(step, measure, N, D, V)
  PROVE  \E f \in [D -> V] : f = step[f]
  <1>0. /\ N \in Nat /\ measure \in [D -> 0..N] /\ step \in [[D -> V] -> [D -> V]]
        /\ \A i \in D : \A f, g \in [D -> V] :
             (\A j \in D : measure[j] < measure[i] => f[j] = g[j]) => step[f][i] = step[g][i]
    BY DEF Recursion
  <1>9. PICK v \in V : TRUE
    BY DEF Recursion
  <1> DEFINE Solves(f, n) == \A i \in D : measure[i] < n => f[i] = step[f][i]
             T == {n \in Nat : \E f \in [D -> V] : Solves(f, n)}
  <1>1. ASSUME NEW n \in 0..N + 1, \A k \in 0..n - 1 : k \in T PROVE n \in T
    <2>1. CASE n = 0
      <3> DEFINE f == [i \in D |-> v]
      <3>1. f \in [D -> V] /\ Solves(f, 0)
        BY <1>0
      <3> QED
        BY <2>1, <3>1
    <2>2. CASE n > 0
      <3>1. PICK f \in [D -> V] : Solves(f, n - 1)
        BY <1>0, <1>1, <2>2
      <3> DEFINE g == [i \in D |-> IF measure[i] < n - 1 THEN f[i] ELSE step[f][i]]
      <3>2. g \in [D -> V]
        BY <1>0
      <3>3. ASSUME NEW i \in D, measure[i] < n PROVE g[i] = step[g][i]
        <4>1. g[i] = step[f][i]
          BY <1>0, <3>1, <3>3
        <4>2. \A j \in D : measure[j] < measure[i] => f[j] = g[j]
          BY <1>0, <3>3
        <4> HIDE DEF g
        <4> QED
          BY <1>0, <3>2, <4>1, <4>2
      <3> HIDE DEF g
      <3>4. Solves(g, n)
        BY <3>3
      <3> QED
        BY <1>0, <3>2, <3>4
    <2> QED
      BY <1>0, <2>1, <2>2
  <1>4. N + 1 \in T
    <2> DEFINE n == N + 1
    <2>1. n \in Nat /\ n \in 0..n
      BY <1>0
    <2> HIDE DEF T
    <2>2. \A i \in 0..n : (\A j \in 0..i - 1 : j \in T) => i \in T
      BY <1>1
    <2> HIDE DEF n
    <2>3. 0..n \subseteq T
      BY <2>1, <2>2, InductionUp, Zenon
    <2> QED
      BY <2>1, <2>3 DEF n
  <1>5. PICK f \in [D -> V] : Solves(f, N + 1)
    BY <1>4
  <1>8. \A i \in D : f[i] = step[f][i]
    BY <1>0, <1>5
  <1>6. step[f] \in [D -> V]
    BY <1>0
  <1>7. f = step[f]
    BY <1>6, <1>8
  <1> QED
    BY <1>7

-----------------------------------------------------------------------------
(***************************************************************************)
(* What ParseTelnetLines computes.                                         *)
(***************************************************************************)

LEMMA MinIsLeast ==
  ASSUME NEW S, S \subseteq Nat, S # {}
  PROVE  Min(S) \in S /\ \A n \in S : Min(S) <= n
  BY SmallestNumber DEF Min

\* The smallest number of a set is what it is.
LEMMA MinIs ==
  ASSUME NEW S, S \subseteq Nat, NEW m \in S, \A n \in S : m <= n
  PROVE  Min(S) = m
  <1>1. Min(S) \in S /\ \A n \in S : Min(S) <= n
    BY MinIsLeast
  <1>2. Min(S) <= m /\ m <= Min(S) /\ Min(S) \in Nat /\ m \in Nat
    BY <1>1
  <1> QED
    BY <1>2

\* The line ends from i on.
EndsFrom(bytes, i) == {j \in i..Len(bytes) : bytes[j] \in LineEnds}

\* The lines that bytes can be decoded to.
TextsOf(S) == {Trimmed(Stripped(line)) : line \in Seq(S)}

LEMMA DecodedIsText ==
  ASSUME NEW S, NEW line \in Seq(S)
  PROVE  Decoded(line) \in Seq(TextsOf(S))
  <1> DEFINE text == Trimmed(Stripped(line))
  <1>1. text \in TextsOf(S)
    BY DEF TextsOf
  <1>2. Decoded(line) = <<>> \/ Decoded(line) = <<text>>
    BY DEF Decoded
  <1> HIDE DEF text
  <1>3. <<text>> \in Seq(TextsOf(S)) /\ <<>> \in Seq(TextsOf(S))
    BY <1>1
  <1> QED
    BY <1>2, <1>3

\* What of a sequence is between two places.
LEMMA PartOf ==
  ASSUME NEW S, NEW s \in Seq(S), NEW i \in 1..Len(s) + 1, NEW j \in 0..Len(s)
  PROVE  /\ SubSeq(s, i, j) \in Seq(S)
         /\ Len(SubSeq(s, i, j)) = IF i <= j THEN j - i + 1 ELSE 0
         /\ \A k \in 1..j - i + 1 : SubSeq(s, i, j)[k] = s[i + k - 1]
  <1>1. \A k \in i..j : s[k] \in S
    OBVIOUS
  <1> QED
    BY <1>1, SubSeqProperties

\* The function that ParseTelnetLines computes.
ParsedFrom(parsed, bytes, S) ==
  /\ parsed \in [1..Len(bytes) + 1 -> [lines : Seq(TextsOf(S)), rest : Seq(S \ LineEnds)]]
  /\ ParseTelnetLines(bytes) = parsed[1]
  /\ \A i \in 1..Len(bytes) + 1 :
       parsed[i] = IF EndsFrom(bytes, i) = {} THEN [lines |-> <<>>, rest |-> From(bytes, i)]
                   ELSE LET e == Min(EndsFrom(bytes, i))
                        IN  [lines |-> Decoded(SubSeq(bytes, i, e - 1)) \o parsed[e + 1].lines,
                             rest |-> parsed[e + 1].rest]

LEMMA ParsedStepwise ==
  ASSUME NEW S, NEW bytes \in Seq(S)
  PROVE  \E parsed : ParsedFrom(parsed, bytes, S)
  <1> DEFINE n == Len(bytes)
             D == 1..n + 1
             V == [lines : Seq(TextsOf(S)), rest : Seq(S \ LineEnds)]
             Split(f, i) == LET e == Min(EndsFrom(bytes, i))
                            IN  [lines |-> Decoded(SubSeq(bytes, i, e - 1)) \o f[e + 1].lines,
                                 rest |-> f[e + 1].rest]
             Body(f, i) == IF EndsFrom(bytes, i) = {} THEN [lines |-> <<>>, rest |-> From(bytes, i)]
                           ELSE Split(f, i)
             step == [f \in [D -> V] |-> [i \in D |-> Body(f, i)]]
             measure == [i \in D |-> n + 1 - i]
  <1>0. n \in Nat
    OBVIOUS
  <1>1. ASSUME NEW i \in D, EndsFrom(bytes, i) # {}
        PROVE  Min(EndsFrom(bytes, i)) \in i..n /\ Min(EndsFrom(bytes, i)) + 1 \in D
    <2>1. EndsFrom(bytes, i) \subseteq i..n
      BY DEF EndsFrom
    <2>2. Min(EndsFrom(bytes, i)) \in EndsFrom(bytes, i)
      BY <1>0, <1>1, <2>1, MinIsLeast
    <2> QED
      BY <1>0, <2>1, <2>2
  <1>2. ASSUME NEW i \in D, EndsFrom(bytes, i) = {} PROVE From(bytes, i) \in Seq(S \ LineEnds)
    <2>1. /\ From(bytes, i) \in Seq(S) /\ Len(From(bytes, i)) = n - i + 1
          /\ \A k \in 1..n - i + 1 : From(bytes, i)[k] = bytes[i + k - 1]
      BY <1>0, PartOf DEF From
    <2>2. \A k \in 1..n - i + 1 : From(bytes, i)[k] \in S \ LineEnds
      <3> TAKE k \in 1..n - i + 1
      <3>1. i + k - 1 \in i..n
        BY <1>0
      <3> QED
        BY <1>0, <1>2, <2>1, <3>1 DEF EndsFrom
    <2> QED
      BY <1>0, <2>1, <2>2
  <1>3. ASSUME NEW f, NEW i \in D,
               EndsFrom(bytes, i) # {} => f[Min(EndsFrom(bytes, i)) + 1] \in V
        PROVE  Body(f, i) \in V
    <2>1. CASE EndsFrom(bytes, i) = {}
      <3>1. <<>> \in Seq(TextsOf(S))
        OBVIOUS
      <3> QED
        BY <1>2, <2>1, <3>1
    <2>2. CASE EndsFrom(bytes, i) # {}
      <3> DEFINE e == Min(EndsFrom(bytes, i))
                 line == SubSeq(bytes, i, e - 1)
      <3>1. e \in i..n /\ e + 1 \in D
        BY <1>1, <2>2
      <3>2. f[e + 1] \in V
        BY <1>3, <2>2
      <3>3. line \in Seq(S)
        BY <1>0, <3>1, PartOf
      <3> HIDE DEF line, e
      <3>4. Decoded(line) \in Seq(TextsOf(S))
        BY <3>3, DecodedIsText
      <3>5. Decoded(line) \o f[e + 1].lines \in Seq(TextsOf(S))
        BY <3>2, <3>4
      <3> QED
        BY <2>2, <3>2, <3>5 DEF e, line
    <2> QED
      BY <2>1, <2>2
  <1>4. step \in [[D -> V] -> [D -> V]]
    <2>1. ASSUME NEW f \in [D -> V], NEW i \in D PROVE Body(f, i) \in V
      <3> HIDE DEF Body, V, D
      <3> QED
        BY <1>1, <1>3
    <2> HIDE DEF Body, V, D
    <2> QED
      BY <2>1
  <1>5. measure \in [D -> 0..n]
    BY <1>0
  <1>6. ASSUME NEW i \in D, NEW f \in [D -> V], NEW g \in [D -> V],
               \A j \in D : measure[j] < measure[i] => f[j] = g[j]
        PROVE  step[f][i] = step[g][i]
    <2>1. CASE EndsFrom(bytes, i) = {}
      BY <2>1
    <2>2. CASE EndsFrom(bytes, i) # {}
      <3> DEFINE e == Min(EndsFrom(bytes, i))
      <3>1. e \in i..n /\ e + 1 \in D
        BY <1>1, <2>2
      <3>2. measure[e + 1] < measure[i]
        <4> HIDE DEF e
        <4> QED
          BY <1>0, <3>1
      <3>3. f[e + 1] = g[e + 1]
        BY <1>6, <3>1, <3>2
      <3>4. Body(f, i) = Body(g, i)
        BY <3>3
      <3> HIDE DEF Body, V, D
      <3> QED
        BY <3>4
    <2> QED
      BY <2>1, <2>2
  <1>7. \E f \in [D -> V] : f = [i \in D |-> Body(f, i)]
    <2>1. Recursion(step, measure, n, D, V)
      <3>1. [lines |-> <<>>, rest |-> <<>>] \in V
        OBVIOUS
      <3>2. V # {}
        BY <3>1
      <3> HIDE DEF step, measure, V, D
      <3> QED
        BY <1>0, <1>4, <1>5, <1>6, <3>2 DEF Recursion
    <2>2. \E f \in [D -> V] : f = step[f]
      <3> HIDE DEF step, measure, V, D
      <3> QED
        BY <2>1, RecursionHasSolution
    <2> HIDE DEF Body, V, D
    <2> QED
      BY <2>2
  <1> DEFINE parsed == CHOOSE f : f = [i \in D |-> Body(f, i)]
  <1>8. ParseTelnetLines(bytes) = parsed[1]
    BY DEF ParseTelnetLines, EndsFrom
  <1> HIDE DEF parsed
  <1>9. parsed = [i \in D |-> Body(parsed, i)]
    <2> HIDE DEF Body, V, D
    <2> QED
      BY <1>7 DEF parsed
  <1>10. \A i \in D : parsed[i] \in V
    <2> DEFINE T == {i \in D : parsed[i] \in V}
    <2>1. ASSUME NEW i \in D, \A j \in i + 1..n + 1 : j \in T PROVE i \in T
      <3>1. ASSUME EndsFrom(bytes, i) # {} PROVE parsed[Min(EndsFrom(bytes, i)) + 1] \in V
        <4> DEFINE e == Min(EndsFrom(bytes, i))
        <4>1. e \in i..n
          BY <1>1, <3>1
        <4>2. e + 1 \in i + 1..n + 1
          <5> HIDE DEF e
          <5> QED
            BY <1>0, <4>1
        <4> HIDE DEF V
        <4> QED
          BY <2>1, <4>2
      <3>2. Body(parsed, i) \in V
        BY <1>3, <3>1
      <3> HIDE DEF V, Body, D
      <3> QED
        BY <1>9, <3>2
    <2>2. D \subseteq T
      <3> DEFINE m == n + 1
      <3>1. m \in Nat
        BY <1>0
      <3> HIDE DEF T
      <3>2. \A i \in 1..m : (\A j \in i + 1..m : j \in T) => i \in T
        BY <2>1
      <3> HIDE DEF m
      <3>3. 1..m \subseteq T
        BY <3>1, <3>2, InductionDown, Zenon
      <3> QED
        BY <3>3 DEF m
    <2> HIDE DEF V
    <2> QED
      BY <2>2
  <1>11. parsed \in [D -> V]
    <2> HIDE DEF Body, V, D
    <2> QED
      BY <1>9, <1>10
  <1>12. ParsedFrom(parsed, bytes, S)
    BY <1>8, <1>9, <1>11 DEF ParsedFrom
  <1> QED
    BY <1>12

LEMMA ParsedType ==
  ASSUME NEW S, NEW bytes \in Seq(S)
  PROVE  ParseTelnetLines(bytes) \in [lines : Seq(TextsOf(S)), rest : Seq(S \ LineEnds)]
  <1>1. 1 \in 1..Len(bytes) + 1
    OBVIOUS
  <1>2. PICK parsed : ParsedFrom(parsed, bytes, S)
    BY ParsedStepwise
  <1> QED
    BY <1>1, <1>2 DEF ParsedFrom

\* Bytes without a line end are the rest.
LEMMA ParsedUnfinished ==
  ASSUME NEW S, NEW bytes \in Seq(S \ LineEnds)
  PROVE  ParseTelnetLines(bytes) = [lines |-> <<>>, rest |-> bytes]
  <1>1. EndsFrom(bytes, 1) = {}
    BY DEF EndsFrom
  <1>2. From(bytes, 1) = bytes
    BY DEF From
  <1>3. 1 \in 1..Len(bytes) + 1
    OBVIOUS
  <1>4. PICK parsed : ParsedFrom(parsed, bytes, S \ LineEnds)
    BY ParsedStepwise
  <1> QED
    BY <1>1, <1>2, <1>3, <1>4 DEF ParsedFrom

\* One more byte ends the rest or belongs to it.
LEMMA ParsedNext ==
  ASSUME NEW S, NEW s \in Seq(S), NEW b \in S
  PROVE  LET p == ParseTelnetLines(s)
         IN  ParseTelnetLines(Append(s, b)) =
               IF b \in LineEnds THEN [lines |-> p.lines \o Decoded(p.rest), rest |-> <<>>]
               ELSE [lines |-> p.lines, rest |-> Append(p.rest, b)]
  <1> DEFINE n == Len(s)
             t == Append(s, b)
             V == [lines : Seq(TextsOf(S)), rest : Seq(S \ LineEnds)]
             After(p) == IF b \in LineEnds THEN [lines |-> p.lines \o Decoded(p.rest), rest |-> <<>>]
                         ELSE [lines |-> p.lines, rest |-> Append(p.rest, b)]
  <1>0. /\ n \in Nat /\ Len(s) = n /\ t \in Seq(S) /\ Len(t) = n + 1 /\ t[n + 1] = b
        /\ \A i \in 1..n : t[i] = s[i]
    OBVIOUS
  <1> HIDE DEF t
  <1>1. PICK ps : ParsedFrom(ps, s, S)
    BY ParsedStepwise
  <1>2. PICK pt : ParsedFrom(pt, t, S)
    BY <1>0, ParsedStepwise
  <1>9. /\ ParseTelnetLines(s) = ps[1]
        /\ \A i \in 1..n + 1 :
             /\ ps[i] \in V
             /\ EndsFrom(s, i) = {} => ps[i] = [lines |-> <<>>, rest |-> From(s, i)]
             /\ EndsFrom(s, i) # {} =>
                  LET e == Min(EndsFrom(s, i))
                  IN  ps[i] = [lines |-> Decoded(SubSeq(s, i, e - 1)) \o ps[e + 1].lines,
                               rest |-> ps[e + 1].rest]
    BY <1>0, <1>1 DEF ParsedFrom
  <1>10. /\ ParseTelnetLines(t) = pt[1]
         /\ \A i \in 1..n + 2 :
              /\ pt[i] \in V
              /\ EndsFrom(t, i) = {} => pt[i] = [lines |-> <<>>, rest |-> From(t, i)]
              /\ EndsFrom(t, i) # {} =>
                   LET e == Min(EndsFrom(t, i))
                   IN  pt[i] = [lines |-> Decoded(SubSeq(t, i, e - 1)) \o pt[e + 1].lines,
                                rest |-> pt[e + 1].rest]
    <2>1. 1..Len(t) + 1 = 1..n + 2
      BY <1>0
    <2> HIDE DEF n
    <2> QED
      BY <1>2, <2>1 DEF ParsedFrom
  <1> HIDE DEF n
  <1>3. ASSUME NEW i \in 1..n + 1, NEW j \in 0..n, i <= j + 1
        PROVE  SubSeq(t, i, j) = SubSeq(s, i, j)
    <2>1. /\ SubSeq(s, i, j) \in Seq(S) /\ Len(SubSeq(s, i, j)) = j - i + 1
          /\ \A k \in 1..j - i + 1 : SubSeq(s, i, j)[k] = s[i + k - 1]
      BY <1>0, <1>3, PartOf
    <2>2. /\ SubSeq(t, i, j) \in Seq(S) /\ Len(SubSeq(t, i, j)) = j - i + 1
          /\ \A k \in 1..j - i + 1 : SubSeq(t, i, j)[k] = t[i + k - 1]
      BY <1>0, <1>3, PartOf
    <2>3. \A k \in 1..j - i + 1 : t[i + k - 1] = s[i + k - 1]
      BY <1>0
    <2> QED
      BY <2>1, <2>2, <2>3, SeqEqual
  <1>4. ASSUME NEW i \in 1..n + 1, EndsFrom(s, i) = {} PROVE pt[i] = After(ps[i])
    <2>1. ps[i] = [lines |-> <<>>, rest |-> From(s, i)]
      BY <1>4, <1>9
    <2>2. From(s, i) = SubSeq(t, i, n)
      BY <1>0, <1>3 DEF From
    <2>3. CASE b \in LineEnds
      <3>1. EndsFrom(t, i) = {n + 1}
        BY <1>0, <1>4, <2>3 DEF EndsFrom
      <3>2. Min(EndsFrom(t, i)) = n + 1
        BY <1>0, <3>1, MinIs
      <3>3. EndsFrom(t, n + 2) = {} /\ From(t, n + 2) = <<>>
        BY <1>0 DEF EndsFrom, From
      <3>4. pt[n + 2] = [lines |-> <<>>, rest |-> <<>>]
        <4>1. n + 2 \in 1..n + 2
          BY <1>0
        <4> QED
          BY <1>10, <3>3, <4>1
      <3>7. i \in 1..n + 2 /\ n + 1 - 1 = n /\ n + 1 + 1 = n + 2
        BY <1>0
      <3>5. pt[i] = [lines |-> Decoded(SubSeq(t, i, n)) \o <<>>, rest |-> <<>>]
        <4> DEFINE e == Min(EndsFrom(t, i))
        <4>1. pt[i] = [lines |-> Decoded(SubSeq(t, i, e - 1)) \o pt[e + 1].lines,
                       rest |-> pt[e + 1].rest]
          BY <1>10, <3>1, <3>7
        <4>2. e - 1 = n /\ e + 1 = n + 2
          BY <1>0, <3>2, <3>7
        <4> HIDE DEF e
        <4>3. pt[e + 1].lines = <<>> /\ pt[e + 1].rest = <<>>
          BY <3>4, <4>2
        <4>4. SubSeq(t, i, e - 1) = SubSeq(t, i, n)
          BY <4>2
        <4> QED
          BY <4>1, <4>3, <4>4
      <3>6. Decoded(From(s, i)) \in Seq(TextsOf(S))
        <4>1. From(s, i) \in Seq(S)
          BY <1>0, PartOf DEF From
        <4> QED
          BY <4>1, DecodedIsText
      <3> QED
        BY <2>1, <2>2, <2>3, <3>5, <3>6
    <2>4. CASE b \notin LineEnds
      <3>1. EndsFrom(t, i) = {}
        BY <1>0, <1>4, <2>4 DEF EndsFrom
      <3>2. pt[i] = [lines |-> <<>>, rest |-> From(t, i)]
        <4>1. i \in 1..n + 2
          BY <1>0
        <4> QED
          BY <1>10, <3>1, <4>1
      <3>3. From(t, i) = Append(SubSeq(t, i, n), b)
        BY <1>0, PartOf DEF From
      <3> QED
        BY <2>1, <2>2, <2>4, <3>2, <3>3
    <2> QED
      BY <2>3, <2>4
  <1>5. ASSUME NEW i \in 1..n + 1, EndsFrom(s, i) # {},
               \A j \in i + 1..n + 1 : pt[j] = After(ps[j])
        PROVE  pt[i] = After(ps[i])
    <2> DEFINE e == Min(EndsFrom(s, i))
               line == Decoded(SubSeq(s, i, e - 1))
    <2>1. e \in EndsFrom(s, i) /\ \A k \in EndsFrom(s, i) : e <= k
      <3>1. EndsFrom(s, i) \subseteq Nat
        BY <1>0 DEF EndsFrom
      <3> QED
        BY <1>5, <3>1, MinIsLeast
    <2> HIDE DEF e
    <2>2. e \in i..n
      BY <1>0, <2>1 DEF EndsFrom
    <2>3. Min(EndsFrom(t, i)) = e
      <3>1. EndsFrom(t, i) \subseteq Nat
        BY <1>0 DEF EndsFrom
      <3>2. e \in EndsFrom(t, i)
        BY <1>0, <2>1, <2>2 DEF EndsFrom
      <3>3. \A k \in EndsFrom(t, i) : e <= k
        BY <1>0, <2>1, <2>2 DEF EndsFrom
      <3> QED
        BY <3>1, <3>2, <3>3, MinIs
    <2>4. SubSeq(t, i, e - 1) = SubSeq(s, i, e - 1) /\ line \in Seq(TextsOf(S))
      <3>1. e - 1 \in 0..n /\ i <= e - 1 + 1
        BY <1>0, <2>2
      <3> QED
        BY <1>0, <1>3, <3>1, PartOf, DecodedIsText
    <2> HIDE DEF line
    <2>5. EndsFrom(t, i) # {}
      BY <1>0, <2>1, <2>2 DEF EndsFrom
    <2>6. e + 1 \in i + 1..n + 1 /\ e + 1 \in 1..n + 1 /\ i \in 1..n + 2
      BY <1>0, <2>2
    <2>7. ps[i] = [lines |-> line \o ps[e + 1].lines, rest |-> ps[e + 1].rest]
      BY <1>5, <1>9 DEF e, line
    <2>8. pt[i] = [lines |-> line \o pt[e + 1].lines, rest |-> pt[e + 1].rest]
      BY <1>10, <2>3, <2>4, <2>5, <2>6 DEF line
    <2>9. pt[e + 1] = After(ps[e + 1])
      BY <1>5, <2>6
    <2>10. ps[e + 1] \in V
      BY <1>9, <2>6
    <2>11. Decoded(ps[e + 1].rest) \in Seq(TextsOf(S))
      <3>1. Seq(S \ LineEnds) \subseteq Seq(S)
        OBVIOUS
      <3> QED
        BY <2>10, <3>1, DecodedIsText
    <2> DEFINE before == ps[e + 1].lines
               rest == ps[e + 1].rest
    <2>12. before \in Seq(TextsOf(S)) /\ Decoded(rest) \in Seq(TextsOf(S))
      BY <2>10, <2>11
    <2> HIDE DEF before, rest
    <2>13. (line \o before) \o Decoded(rest) = line \o (before \o Decoded(rest))
      BY <2>4, <2>12, ConcatAssociative, SMTT(30)
    <2>14. ps[i].lines = line \o before /\ ps[i].rest = rest
      BY <2>7 DEF before, rest
    <2>15. CASE b \in LineEnds
      <3>1. pt[e + 1].lines = before \o Decoded(rest) /\ pt[e + 1].rest = <<>>
        <4>1. pt[e + 1] = [lines |-> ps[e + 1].lines \o Decoded(ps[e + 1].rest), rest |-> <<>>]
          BY <2>9, <2>15
        <4>2. pt[e + 1] = [lines |-> before \o Decoded(rest), rest |-> <<>>]
          BY <4>1, Zenon DEF before, rest
        <4> QED
          BY <4>2
      <3> QED
        BY <2>8, <2>13, <2>14, <2>15, <3>1
    <2>16. CASE b \notin LineEnds
      BY <2>8, <2>9, <2>14, <2>16 DEF before, rest
    <2> QED
      BY <2>15, <2>16
  <1>6. \A i \in 1..n + 1 : pt[i] = After(ps[i])
    <2> DEFINE m == n + 1
               T == {i \in 1..m : pt[i] = After(ps[i])}
    <2>1. \A i \in 1..m : (\A j \in i + 1..m : j \in T) => i \in T
      BY <1>4, <1>5
    <2>2. m \in Nat
      BY <1>0
    <2> HIDE DEF m
    <2>3. 1..m \subseteq T
      <3> HIDE DEF T
      <3> QED
        BY <2>1, <2>2, InductionDown, Zenon
    <2> QED
      BY <2>3 DEF m
  <1>7. 1 \in 1..n + 1
    BY <1>0
  <1> QED
    BY <1>6, <1>7, <1>9, <1>10 DEF t

-----------------------------------------------------------------------------
(***************************************************************************)
(* What Scanned computes: bytes are added one at a time.                   *)
(***************************************************************************)

ScanStep(p, b) ==
  IF b \in LineEnds THEN [lines |-> p.lines \o Decoded(p.begun), begun |-> <<>>]
  ELSE [lines |-> p.lines, begun |-> Append(p.begun, b)]

ScanType(S) == [lines : Seq(TextsOf(S)), begun : Seq(S \ LineEnds)]

LEMMA ScanStepType ==
  ASSUME NEW S, NEW p \in ScanType(S), NEW b \in S
  PROVE  ScanStep(p, b) \in ScanType(S)
  <1>1. p.begun \in Seq(S \ LineEnds) /\ p.begun \in Seq(S) /\ p.lines \in Seq(TextsOf(S))
    <2>1. Seq(S \ LineEnds) \subseteq Seq(S)
      OBVIOUS
    <2> QED
      BY <2>1 DEF ScanType
  <1>2. Decoded(p.begun) \in Seq(TextsOf(S))
    BY <1>1, DecodedIsText
  <1>3. CASE b \in LineEnds
    BY <1>1, <1>2, <1>3 DEF ScanStep, ScanType
  <1>4. CASE b \notin LineEnds
    BY <1>1, <1>4 DEF ScanStep, ScanType
  <1> QED
    BY <1>3, <1>4

\* The function that Scanned computes.
ScannedFrom(upTo, bytes, S) ==
  /\ upTo \in [0..Len(bytes) -> ScanType(S)]
  /\ Scanned(bytes) = upTo[Len(bytes)]
  /\ upTo[0] = [lines |-> <<>>, begun |-> <<>>]
  /\ \A i \in 1..Len(bytes) : upTo[i] = ScanStep(upTo[i - 1], bytes[i])

LEMMA ScannedStepwise ==
  ASSUME NEW S, NEW bytes \in Seq(S)
  PROVE  \E upTo : ScannedFrom(upTo, bytes, S)
  <1> DEFINE n == Len(bytes)
             D == 0..n
             V == ScanType(S)
             first == [lines |-> <<>>, begun |-> <<>>]
             Body(f, i) == IF i = 0 THEN first ELSE ScanStep(f[i - 1], bytes[i])
             step == [f \in [D -> V] |-> [i \in D |-> Body(f, i)]]
             measure == [i \in D |-> i]
  <1>0. n \in Nat /\ first \in V /\ \A i \in D \ {0} : i - 1 \in D /\ bytes[i] \in S
    BY DEF ScanType
  <1>1. ASSUME NEW f, NEW i \in D, i # 0 => f[i - 1] \in V PROVE Body(f, i) \in V
    <2> HIDE DEF V, D, first
    <2> QED
      BY <1>0, <1>1, ScanStepType DEF V
  <1>2. step \in [[D -> V] -> [D -> V]]
    <2>1. ASSUME NEW f \in [D -> V], NEW i \in D PROVE Body(f, i) \in V
      <3> HIDE DEF Body, V, D
      <3> QED
        BY <1>0, <1>1
    <2> HIDE DEF Body, V, D
    <2> QED
      BY <2>1
  <1>3. measure \in [D -> 0..n]
    OBVIOUS
  <1>4. ASSUME NEW i \in D, NEW f \in [D -> V], NEW g \in [D -> V],
               \A j \in D : measure[j] < measure[i] => f[j] = g[j]
        PROVE  step[f][i] = step[g][i]
    <2>1. i # 0 => f[i - 1] = g[i - 1]
      <3> HIDE DEF V
      <3> QED
        BY <1>0, <1>4
    <2>2. Body(f, i) = Body(g, i)
      <3> HIDE DEF first, D, V
      <3> QED
        BY <2>1
    <2> HIDE DEF Body, V, D
    <2> QED
      BY <2>2
  <1>5. \E f \in [D -> V] : f = [i \in D |-> Body(f, i)]
    <2>1. Recursion(step, measure, n, D, V)
      <3>1. V # {}
        BY <1>0
      <3> HIDE DEF step, measure, V, D
      <3> QED
        BY <1>0, <1>2, <1>3, <1>4, <3>1 DEF Recursion
    <2>2. \E f \in [D -> V] : f = step[f]
      <3> HIDE DEF step, measure, V, D
      <3> QED
        BY <2>1, RecursionHasSolution
    <2> HIDE DEF Body, V, D
    <2> QED
      BY <2>2
  <1> DEFINE upTo == CHOOSE f : f = [i \in D |-> Body(f, i)]
  <1>6. Scanned(bytes) = upTo[n]
    BY DEF Scanned, ScanStep
  <1> HIDE DEF upTo
  <1>7. upTo = [i \in D |-> Body(upTo, i)]
    <2> HIDE DEF Body, V, D
    <2> QED
      BY <1>5 DEF upTo
  <1>8. \A i \in D : upTo[i] \in V
    <2> DEFINE T == {i \in D : upTo[i] \in V}
    <2>1. \A i \in 0..n : (\A j \in 0..i - 1 : j \in T) => i \in T
      <3> SUFFICES ASSUME NEW i \in D, \A j \in 0..i - 1 : j \in T PROVE upTo[i] \in V
        OBVIOUS
      <3>1. i # 0 => upTo[i - 1] \in V
        <4> HIDE DEF V
        <4> QED
          BY <1>0
      <3>2. Body(upTo, i) \in V
        <4> HIDE DEF Body, V
        <4> QED
          BY <1>1, <3>1
      <3> HIDE DEF V, Body, D
      <3> QED
        BY <1>7, <3>2
    <2>2. D \subseteq T
      <3> HIDE DEF T, n
      <3> QED
        BY <1>0, <2>1, InductionUp, Zenon
    <2> HIDE DEF V
    <2> QED
      BY <2>2
  <1>9. upTo \in [D -> V]
    <2> HIDE DEF Body, V, D
    <2> QED
      BY <1>7, <1>8
  <1>10. upTo[0] = first /\ \A i \in 1..n : upTo[i] = ScanStep(upTo[i - 1], bytes[i])
    <2>1. 0 \in D /\ \A i \in 1..n : i \in D /\ i # 0
      BY <1>0
    <2> HIDE DEF D, first, V
    <2> QED
      BY <1>7, <2>1
  <1>11. ScannedFrom(upTo, bytes, S)
    BY <1>6, <1>9, <1>10 DEF ScannedFrom
  <1> QED
    BY <1>11

\* A byte more is a step more.
LEMMA ScannedNext ==
  ASSUME NEW S, NEW s \in Seq(S), NEW b \in S
  PROVE  /\ Scanned(s) \in ScanType(S)
         /\ Scanned(Append(s, b)) = ScanStep(Scanned(s), b)
  <1> DEFINE n == Len(s)
             t == Append(s, b)
  <1>0. /\ n \in Nat /\ Len(s) = n /\ t \in Seq(S) /\ Len(t) = n + 1 /\ t[n + 1] = b
        /\ \A i \in 1..n : t[i] = s[i]
    OBVIOUS
  <1> HIDE DEF t, n
  <1>1. PICK us : ScannedFrom(us, s, S)
    BY ScannedStepwise
  <1>2. PICK ut : ScannedFrom(ut, t, S)
    BY <1>0, ScannedStepwise
  <1>3. /\ Scanned(s) = us[n] /\ us[n] \in ScanType(S)
        /\ us[0] = [lines |-> <<>>, begun |-> <<>>]
        /\ \A i \in 1..n : us[i] = ScanStep(us[i - 1], s[i])
    BY <1>0, <1>1 DEF ScannedFrom
  <1>4. /\ Scanned(t) = ut[n + 1]
        /\ ut[0] = [lines |-> <<>>, begun |-> <<>>]
        /\ \A i \in 1..n + 1 : ut[i] = ScanStep(ut[i - 1], t[i])
    BY <1>0, <1>2 DEF ScannedFrom
  <1>5. us[n] = ut[n]
    <2> DEFINE T == {i \in 0..n : us[i] = ut[i]}
    <2>1. \A i \in 0..n : (\A j \in 0..i - 1 : j \in T) => i \in T
      <3> SUFFICES ASSUME NEW i \in 0..n, \A j \in 0..i - 1 : j \in T PROVE us[i] = ut[i]
        OBVIOUS
      <3>1. CASE i = 0
        BY <1>3, <1>4, <3>1
      <3>2. CASE i # 0
        <4>1. i - 1 \in 0..i - 1 /\ i \in 1..n /\ i \in 1..n + 1
          BY <1>0, <3>2
        <4>2. us[i - 1] = ut[i - 1] /\ s[i] = t[i]
          BY <1>0, <4>1
        <4> QED
          BY <1>3, <1>4, <4>1, <4>2
      <3> QED
        BY <3>1, <3>2
    <2>2. 0..n \subseteq T
      <3> HIDE DEF T
      <3> QED
        BY <1>0, <2>1, InductionUp, Zenon
    <2>3. n \in 0..n
      BY <1>0
    <2> QED
      BY <2>2, <2>3
  <1>6. n + 1 \in 1..n + 1 /\ n + 1 - 1 = n
    BY <1>0
  <1>7. ut[n + 1] = ScanStep(ut[n], b)
    BY <1>0, <1>4, <1>6
  <1> QED
    BY <1>3, <1>4, <1>5, <1>7 DEF t

LEMMA ScannedEmpty == Scanned(<<>>) = [lines |-> <<>>, begun |-> <<>>]
  <1>1. <<>> \in Seq({}) /\ Len(<<>>) = 0
    OBVIOUS
  <1>2. PICK upTo : ScannedFrom(upTo, <<>>, {})
    BY <1>1, ScannedStepwise
  <1> QED
    BY <1>1, <1>2 DEF ScannedFrom

-----------------------------------------------------------------------------
(***************************************************************************)
(* What Accepted computes: lines are added one at a time.                  *)
(***************************************************************************)

AcceptStep(handed, line) == IF HandedOn(line) THEN Append(handed, line) ELSE handed

\* The function that Accepted computes.
AcceptedFrom(upTo, lines, S) ==
  /\ upTo \in [0..Len(lines) -> Seq(S)]
  /\ Accepted(lines) = upTo[Len(lines)]
  /\ upTo[0] = <<>>
  /\ \A i \in 1..Len(lines) : upTo[i] = AcceptStep(upTo[i - 1], lines[i])

LEMMA AcceptedStepwise ==
  ASSUME NEW S, NEW lines \in Seq(S)
  PROVE  \E upTo : AcceptedFrom(upTo, lines, S)
  <1> DEFINE n == Len(lines)
             D == 0..n
             V == Seq(S)
             first == <<>>
             Body(f, i) == IF i = 0 THEN first ELSE AcceptStep(f[i - 1], lines[i])
             step == [f \in [D -> V] |-> [i \in D |-> Body(f, i)]]
             measure == [i \in D |-> i]
  <1>0. n \in Nat /\ first \in V /\ \A i \in D \ {0} : i - 1 \in D /\ lines[i] \in S
    OBVIOUS
  <1>1. ASSUME NEW f, NEW i \in D, i # 0 => f[i - 1] \in V PROVE Body(f, i) \in V
    <2> HIDE DEF V, D, first
    <2> QED
      BY <1>0, <1>1 DEF V, AcceptStep
  <1>2. step \in [[D -> V] -> [D -> V]]
    <2>1. ASSUME NEW f \in [D -> V], NEW i \in D PROVE Body(f, i) \in V
      <3> HIDE DEF Body, V, D
      <3> QED
        BY <1>0, <1>1
    <2> HIDE DEF Body, V, D
    <2> QED
      BY <2>1
  <1>3. measure \in [D -> 0..n]
    OBVIOUS
  <1>4. ASSUME NEW i \in D, NEW f \in [D -> V], NEW g \in [D -> V],
               \A j \in D : measure[j] < measure[i] => f[j] = g[j]
        PROVE  step[f][i] = step[g][i]
    <2>1. i # 0 => f[i - 1] = g[i - 1]
      <3> HIDE DEF V
      <3> QED
        BY <1>0, <1>4
    <2>2. Body(f, i) = Body(g, i)
      <3> HIDE DEF first, D, V
      <3> QED
        BY <2>1
    <2> HIDE DEF Body, V, D
    <2> QED
      BY <2>2
  <1>5. \E f \in [D -> V] : f = [i \in D |-> Body(f, i)]
    <2>1. Recursion(step, measure, n, D, V)
      <3>1. V # {}
        BY <1>0
      <3> HIDE DEF step, measure, V, D
      <3> QED
        BY <1>0, <1>2, <1>3, <1>4, <3>1 DEF Recursion
    <2>2. \E f \in [D -> V] : f = step[f]
      <3> HIDE DEF step, measure, V, D
      <3> QED
        BY <2>1, RecursionHasSolution
    <2> HIDE DEF Body, V, D
    <2> QED
      BY <2>2
  <1> DEFINE upTo == CHOOSE f : f = [i \in D |-> Body(f, i)]
  <1>6. Accepted(lines) = upTo[n]
    BY DEF Accepted, AcceptStep
  <1> HIDE DEF upTo
  <1>7. upTo = [i \in D |-> Body(upTo, i)]
    <2> HIDE DEF Body, V, D
    <2> QED
      BY <1>5 DEF upTo
  <1>8. \A i \in D : upTo[i] \in V
    <2> DEFINE T == {i \in D : upTo[i] \in V}
    <2>1. \A i \in 0..n : (\A j \in 0..i - 1 : j \in T) => i \in T
      <3> SUFFICES ASSUME NEW i \in D, \A j \in 0..i - 1 : j \in T PROVE upTo[i] \in V
        OBVIOUS
      <3>1. i # 0 => upTo[i - 1] \in V
        <4> HIDE DEF V
        <4> QED
          BY <1>0
      <3>2. Body(upTo, i) \in V
        <4> HIDE DEF Body, V
        <4> QED
          BY <1>1, <3>1
      <3> HIDE DEF V, Body, D
      <3> QED
        BY <1>7, <3>2
    <2>2. D \subseteq T
      <3> HIDE DEF T, n
      <3> QED
        BY <1>0, <2>1, InductionUp, Zenon
    <2> HIDE DEF V
    <2> QED
      BY <2>2
  <1>9. upTo \in [D -> V]
    <2> HIDE DEF Body, V, D
    <2> QED
      BY <1>7, <1>8
  <1>10. upTo[0] = first /\ \A i \in 1..n : upTo[i] = AcceptStep(upTo[i - 1], lines[i])
    <2>1. 0 \in D /\ \A i \in 1..n : i \in D /\ i # 0
      BY <1>0
    <2> HIDE DEF D, first, V
    <2> QED
      BY <1>7, <2>1
  <1>11. AcceptedFrom(upTo, lines, S)
    BY <1>6, <1>9, <1>10 DEF AcceptedFrom
  <1> QED
    BY <1>11

LEMMA AcceptedNext ==
  ASSUME NEW S, NEW s \in Seq(S), NEW b \in S
  PROVE  /\ Accepted(s) \in Seq(S)
         /\ Accepted(Append(s, b)) = AcceptStep(Accepted(s), b)
  <1> DEFINE n == Len(s)
             t == Append(s, b)
  <1>0. /\ n \in Nat /\ Len(s) = n /\ t \in Seq(S) /\ Len(t) = n + 1 /\ t[n + 1] = b
        /\ \A i \in 1..n : t[i] = s[i]
    OBVIOUS
  <1> HIDE DEF t, n
  <1>1. PICK us : AcceptedFrom(us, s, S)
    BY AcceptedStepwise
  <1>2. PICK ut : AcceptedFrom(ut, t, S)
    BY <1>0, AcceptedStepwise
  <1>3. /\ Accepted(s) = us[n] /\ us[n] \in Seq(S)
        /\ us[0] = <<>>
        /\ \A i \in 1..n : us[i] = AcceptStep(us[i - 1], s[i])
    BY <1>0, <1>1 DEF AcceptedFrom
  <1>4. /\ Accepted(t) = ut[n + 1]
        /\ ut[0] = <<>>
        /\ \A i \in 1..n + 1 : ut[i] = AcceptStep(ut[i - 1], t[i])
    BY <1>0, <1>2 DEF AcceptedFrom
  <1>5. us[n] = ut[n]
    <2> DEFINE T == {i \in 0..n : us[i] = ut[i]}
    <2>1. \A i \in 0..n : (\A j \in 0..i - 1 : j \in T) => i \in T
      <3> SUFFICES ASSUME NEW i \in 0..n, \A j \in 0..i - 1 : j \in T PROVE us[i] = ut[i]
        OBVIOUS
      <3>1. CASE i = 0
        BY <1>3, <1>4, <3>1
      <3>2. CASE i # 0
        <4>1. i - 1 \in 0..i - 1 /\ i \in 1..n /\ i \in 1..n + 1
          BY <1>0, <3>2
        <4>2. us[i - 1] = ut[i - 1] /\ s[i] = t[i]
          BY <1>0, <4>1
        <4> QED
          BY <1>3, <1>4, <4>1, <4>2
      <3> QED
        BY <3>1, <3>2
    <2>2. 0..n \subseteq T
      <3> HIDE DEF T
      <3> QED
        BY <1>0, <2>1, InductionUp, Zenon
    <2>3. n \in 0..n
      BY <1>0
    <2> QED
      BY <2>2, <2>3
  <1>6. n + 1 \in 1..n + 1 /\ n + 1 - 1 = n
    BY <1>0
  <1>7. ut[n + 1] = AcceptStep(ut[n], b)
    BY <1>0, <1>4, <1>6
  <1> QED
    BY <1>3, <1>4, <1>5, <1>7 DEF t

LEMMA AcceptedEmpty == Accepted(<<>>) = <<>>
  <1>1. <<>> \in Seq({}) /\ Len(<<>>) = 0
    OBVIOUS
  <1>2. PICK upTo : AcceptedFrom(upTo, <<>>, {})
    BY <1>1, AcceptedStepwise
  <1> QED
    BY <1>1, <1>2 DEF AcceptedFrom

LEMMA PrefixNext ==
  ASSUME NEW S, NEW s \in Seq(S), NEW k \in 1..Len(s)
  PROVE  /\ SubSeq(s, 1, k - 1) \in Seq(S) /\ s[k] \in S
         /\ SubSeq(s, 1, k) = Append(SubSeq(s, 1, k - 1), s[k])
  <1>1. k - 1 \in 0..Len(s) /\ k \in 0..Len(s) /\ 1 \in 1..Len(s) + 1 /\ s[k] \in S
    OBVIOUS
  <1>2. /\ SubSeq(s, 1, k - 1) \in Seq(S) /\ Len(SubSeq(s, 1, k - 1)) = k - 1
        /\ \A i \in 1..k - 1 : SubSeq(s, 1, k - 1)[i] = s[i]
    BY <1>1, PartOf
  <1>3. /\ SubSeq(s, 1, k) \in Seq(S) /\ Len(SubSeq(s, 1, k)) = k
        /\ \A i \in 1..k : SubSeq(s, 1, k)[i] = s[i]
    BY <1>1, PartOf
  <1> DEFINE a == SubSeq(s, 1, k - 1)
             b == SubSeq(s, 1, k)
  <1> HIDE DEF a, b
  <1>4. Append(a, s[k]) \in Seq(S) /\ Len(Append(a, s[k])) = k
    BY <1>1, <1>2 DEF a
  <1>5. \A i \in 1..k : Append(a, s[k])[i] = b[i]
    BY <1>1, <1>2, <1>3 DEF a, b
  <1>6. b = Append(a, s[k])
    BY <1>3, <1>4, <1>5, SeqEqual DEF b
  <1> QED
    BY <1>1, <1>2, <1>6 DEF a, b

LEMMA AppendToConcat ==
  ASSUME NEW S, NEW a \in Seq(S), NEW b \in Seq(S), NEW x \in S
  PROVE  a \o Append(b, x) = Append(a \o b, x)
  OBVIOUS

\* What is accepted of some lines does not depend on the lines before.
LEMMA AcceptedConcat ==
  ASSUME NEW S, NEW a \in Seq(S), NEW b \in Seq(S)
  PROVE  Accepted(a \o b) = Accepted(a) \o Accepted(b)
  <1> DEFINE n == Len(b)
             Part(k) == SubSeq(b, 1, k)
             T == {k \in 0..n : /\ Accepted(Part(k)) \in Seq(S)
                                /\ Accepted(a \o Part(k)) = Accepted(a) \o Accepted(Part(k))}
  <1>0. n \in Nat /\ Part(n) = b /\ Part(0) = <<>> /\ a \o <<>> = a
    OBVIOUS
  <1>1. ASSUME NEW t \in Seq(S) PROVE Accepted(t) \in Seq(S)
    <2>1. PICK upTo : AcceptedFrom(upTo, t, S)
      BY AcceptedStepwise
    <2> QED
      BY <2>1 DEF AcceptedFrom
  <1>2. \A i \in 0..n : (\A j \in 0..i - 1 : j \in T) => i \in T
    <2> SUFFICES ASSUME NEW i \in 0..n, \A j \in 0..i - 1 : j \in T PROVE i \in T
      OBVIOUS
    <2>1. CASE i = 0
      <3>1. Accepted(a) \in Seq(S) /\ Accepted(<<>>) = <<>>
        BY <1>1, AcceptedEmpty
      <3>2. Accepted(a) \o <<>> = Accepted(a)
        BY <3>1
      <3>3. <<>> \in Seq(S)
        OBVIOUS
      <3> QED
        BY <1>0, <2>1, <3>1, <3>2, <3>3
    <2>2. CASE i # 0
      <3> DEFINE p == Part(i - 1)
                 x == b[i]
      <3>1. i \in 1..n /\ i - 1 \in 0..i - 1
        BY <1>0, <2>2
      <3>2. p \in Seq(S) /\ x \in S /\ Part(i) = Append(p, x)
        BY <3>1, PrefixNext
      <3>3. Accepted(p) \in Seq(S) /\ Accepted(a \o p) = Accepted(a) \o Accepted(p)
        BY <3>1
      <3> HIDE DEF p, x, Part
      <3>4. a \o p \in Seq(S) /\ a \o Append(p, x) = Append(a \o p, x)
        BY <3>2, AppendToConcat
      <3>5. /\ Accepted(Append(p, x)) = AcceptStep(Accepted(p), x)
            /\ Accepted(Append(a \o p, x)) = AcceptStep(Accepted(a \o p), x)
        BY <3>2, <3>4, AcceptedNext
      <3>6. AcceptStep(Accepted(a) \o Accepted(p), x) = Accepted(a) \o AcceptStep(Accepted(p), x)
        <4>1. Accepted(a) \in Seq(S)
          BY <1>1
        <4>2. Accepted(a) \o Append(Accepted(p), x) = Append(Accepted(a) \o Accepted(p), x)
          BY <3>2, <3>3, <4>1, AppendToConcat, SMTT(30)
        <4> QED
          BY <4>2 DEF AcceptStep
      <3>7. AcceptStep(Accepted(p), x) \in Seq(S)
        BY <3>2, <3>3 DEF AcceptStep
      <3> QED
        BY <3>2, <3>3, <3>4, <3>5, <3>6, <3>7
    <2> QED
      BY <2>1, <2>2
  <1>3. 0..n \subseteq T
    <2> HIDE DEF T, n
    <2> QED
      BY <1>0, <1>2, InductionUp, Zenon
  <1>4. n \in 0..n
    BY <1>0
  <1> QED
    BY <1>0, <1>3, <1>4

\* The lines of all that has arrived are those of the bytes before a segment,
\* and those of the segment together with what had begun.
LEMMA ScannedSegment ==
  ASSUME NEW S, NEW g \in Seq(S), NEW segment \in Seq(S)
  PROVE  LET p == ParseTelnetLines(Scanned(g).begun \o segment)
         IN  /\ Scanned(g) \in ScanType(S)
             /\ p \in [lines : Seq(TextsOf(S)), rest : Seq(S \ LineEnds)]
             /\ Scanned(g \o segment) = [lines |-> Scanned(g).lines \o p.lines, begun |-> p.rest]
  <1> DEFINE n == Len(segment)
             Part(k) == SubSeq(segment, 1, k)
             begun == Scanned(g).begun
             Parsed(t) == ParseTelnetLines(begun \o t)
             Whole(t) == Scanned(g \o t) = [lines |-> Scanned(g).lines \o Parsed(t).lines,
                                             begun |-> Parsed(t).rest]
             T == {k \in 0..n : Whole(Part(k))}
  <1>0. n \in Nat /\ Part(n) = segment /\ Part(0) = <<>>
    OBVIOUS
  <1>1. ASSUME NEW t \in Seq(S) PROVE Scanned(t) \in ScanType(S)
    <2>1. PICK upTo : ScannedFrom(upTo, t, S)
      BY ScannedStepwise
    <2> QED
      BY <2>1 DEF ScannedFrom
  <1>2. begun \in Seq(S \ LineEnds) /\ begun \in Seq(S) /\ Scanned(g).lines \in Seq(TextsOf(S))
    <2>1. Seq(S \ LineEnds) \subseteq Seq(S)
      OBVIOUS
    <2> QED
      BY <1>1, <2>1 DEF ScanType
  <1> HIDE DEF begun
  <1>3. Whole(<<>>)
    <2>1. g \o <<>> = g /\ begun \o <<>> = begun
      BY <1>2
    <2>2. Parsed(<<>>) = [lines |-> <<>>, rest |-> begun]
      BY <1>2, <2>1, ParsedUnfinished
    <2>3. Scanned(g) = [lines |-> Scanned(g).lines, begun |-> begun]
      BY <1>1 DEF ScanType, begun
    <2>4. Scanned(g).lines \o <<>> = Scanned(g).lines
      BY <1>2
    <2>5. Parsed(<<>>).lines = <<>> /\ Parsed(<<>>).rest = begun
      <3> HIDE DEF Parsed
      <3> QED
        BY <2>2
    <2> HIDE DEF Parsed
    <2> QED
      BY <2>1, <2>3, <2>4, <2>5
  <1>4. ASSUME NEW t \in Seq(S), NEW b \in S, Whole(t) PROVE Whole(Append(t, b))
    <2> DEFINE before == Scanned(g).lines
               lines == Parsed(t).lines
               rest == Parsed(t).rest
    <2>1. /\ g \o t \in Seq(S) /\ g \o Append(t, b) = Append(g \o t, b)
          /\ begun \o t \in Seq(S) /\ begun \o Append(t, b) = Append(begun \o t, b)
      <3>1. g \o t \in Seq(S) /\ begun \o t \in Seq(S)
        BY <1>2
      <3>2. g \o Append(t, b) = Append(g \o t, b)
        BY AppendToConcat, SMTT(30)
      <3>3. begun \o Append(t, b) = Append(begun \o t, b)
        BY <1>2, AppendToConcat, SMTT(30)
      <3> QED
        BY <3>1, <3>2, <3>3
    <2>2. Parsed(t) \in [lines : Seq(TextsOf(S)), rest : Seq(S \ LineEnds)]
      BY <2>1, ParsedType
    <2>3. Parsed(Append(t, b)) =
            IF b \in LineEnds THEN [lines |-> lines \o Decoded(rest), rest |-> <<>>]
            ELSE [lines |-> lines, rest |-> Append(rest, b)]
      BY <2>1, ParsedNext
    <2>4. Scanned(g \o Append(t, b)) = ScanStep([lines |-> before \o lines, begun |-> rest], b)
      BY <1>4, <2>1, ScannedNext
    <2>5. before \in Seq(TextsOf(S)) /\ lines \in Seq(TextsOf(S)) /\ rest \in Seq(S)
      <3>1. Seq(S \ LineEnds) \subseteq Seq(S)
        OBVIOUS
      <3> HIDE DEF Parsed
      <3> QED
        BY <1>2, <2>2, <3>1
    <2> HIDE DEF before, lines, rest, Parsed
    <2>6. Decoded(rest) \in Seq(TextsOf(S))
      BY <2>5, DecodedIsText
    <2>7. (before \o lines) \o Decoded(rest) = before \o (lines \o Decoded(rest))
      BY <2>5, <2>6, ConcatAssociative, SMTT(30)
    <2>8. CASE b \in LineEnds
      <3>1. /\ Parsed(Append(t, b)).lines = lines \o Decoded(rest)
            /\ Parsed(Append(t, b)).rest = <<>>
        BY <2>3, <2>8
      <3>2. Scanned(g \o Append(t, b)) = [lines |-> (before \o lines) \o Decoded(rest), begun |-> <<>>]
        BY <2>4, <2>8 DEF ScanStep
      <3> QED
        BY <2>7, <3>1, <3>2 DEF before
    <2>9. CASE b \notin LineEnds
      BY <2>3, <2>4, <2>9 DEF ScanStep, before
    <2> QED
      BY <2>8, <2>9
  <1>5. \A i \in 0..n : (\A j \in 0..i - 1 : j \in T) => i \in T
    <2> SUFFICES ASSUME NEW i \in 0..n, \A j \in 0..i - 1 : j \in T PROVE Whole(Part(i))
      OBVIOUS
    <2>1. CASE i = 0
      <3> HIDE DEF Whole
      <3> QED
        BY <1>0, <1>3, <2>1
    <2>2. CASE i # 0
      <3>1. i \in 1..n /\ i - 1 \in 0..i - 1
        BY <1>0, <2>2
      <3>2. Part(i - 1) \in Seq(S) /\ segment[i] \in S /\ Part(i) = Append(Part(i - 1), segment[i])
        BY <3>1, PrefixNext
      <3>3. Whole(Part(i - 1))
        BY <3>1
      <3> HIDE DEF Whole, Part
      <3> QED
        BY <1>4, <3>2, <3>3
    <2> QED
      BY <2>1, <2>2
  <1>6. 0..n \subseteq T
    <2> HIDE DEF T, n
    <2> QED
      BY <1>0, <1>5, InductionUp, Zenon
  <1>7. Whole(segment)
    <2>1. n \in 0..n
      BY <1>0
    <2> HIDE DEF Whole
    <2> QED
      BY <1>0, <1>6, <2>1
  <1>8. begun \o segment \in Seq(S)
    BY <1>2
  <1>9. Parsed(segment) \in [lines : Seq(TextsOf(S)), rest : Seq(S \ LineEnds)]
    BY <1>8, ParsedType
  <1> QED
    BY <1>1, <1>7, <1>9 DEF begun

-----------------------------------------------------------------------------
(***************************************************************************)
(* The state of a telnet connection: what the proxy holds is what the      *)
(* reference says of all that has arrived.                                 *)
(***************************************************************************)

TelnetKinds == {"avr", "client"}

Kinds == TelnetKinds \union {"api", "description"}

TelnetInv ==
  /\ kind \in Kinds
  /\ kind \in TelnetKinds =>
       /\ got \in Seq(TelnetBytes)
       /\ out = Accepted(Scanned(got).lines)
       /\ buffer = Scanned(got).begun

LEMMA TelnetInvInit == Init => TelnetInv
  <1> SUFFICES ASSUME Init PROVE TelnetInv
    OBVIOUS
  <1>1. got = <<>> /\ out = <<>> /\ buffer = <<>> /\ kind \in Kinds
    BY DEF Init, Kinds, TelnetKinds
  <1>2. got \in Seq(TelnetBytes)
    BY <1>1
  <1>3. Accepted(Scanned(got).lines) = <<>> /\ Scanned(got).begun = <<>>
    BY <1>1, ScannedEmpty, AcceptedEmpty
  <1> QED
    BY <1>1, <1>2, <1>3 DEF TelnetInv

\* What is handed on depends on the kind of the connection only.
LEMMA AcceptedKept ==
  ASSUME kind' = kind, NEW lines
  PROVE  Accepted(lines)' = Accepted(lines)
  BY DEF Accepted, HandedOn

LEMMA TelnetInvStep == TelnetInv /\ [Next]_vars => TelnetInv'
  <1> SUFFICES ASSUME TelnetInv, [Next]_vars PROVE TelnetInv'
    OBVIOUS
  <1>1. CASE Telnet
    <2>1. PICK segment \in Segments : TelnetData(segment) /\ Arrives(segment)
      BY <1>1 DEF Telnet
    <2>2. kind \in TelnetKinds /\ kind' = kind /\ got' = got \o segment
      BY <1>1, <2>1 DEF Telnet, Arrives, TelnetKinds
    <2>3. segment \in Seq(TelnetBytes) /\ got \in Seq(TelnetBytes)
      <3>1. PICK n \in 1..MaxBytes - Len(got) : segment \in [1..n -> TelnetBytes]
        BY <2>1 DEF Segments
      <3>2. n \in Nat
        BY <3>1
      <3> QED
        BY <2>2, <3>1, <3>2 DEF TelnetInv
    <2> DEFINE parsed == ParseTelnetLines(buffer \o segment)
               scanned == Scanned(got)
               L == TextsOf(TelnetBytes)
    <2>4. buffer = scanned.begun /\ out = Accepted(scanned.lines)
      BY <2>2 DEF TelnetInv
    <2>5. /\ scanned \in ScanType(TelnetBytes)
          /\ parsed \in [lines : Seq(L), rest : Seq(TelnetBytes \ LineEnds)]
          /\ Scanned(got \o segment) = [lines |-> scanned.lines \o parsed.lines, begun |-> parsed.rest]
      BY <2>3, <2>4, ScannedSegment
    <2>6. out' = out \o Accepted(parsed.lines) /\ buffer' = parsed.rest
      BY <2>1 DEF TelnetData
    <2> HIDE DEF parsed, scanned, L
    <2>7. scanned.lines \in Seq(L) /\ parsed.lines \in Seq(L)
      BY <2>5 DEF ScanType, L
    <2>8. Accepted(scanned.lines \o parsed.lines) = out'
      BY <2>4, <2>6, <2>7, AcceptedConcat
    <2>9. Scanned(got') = [lines |-> scanned.lines \o parsed.lines, begun |-> parsed.rest]
      BY <2>2, <2>5
    <2>10. got' \in Seq(TelnetBytes)
      BY <2>2, <2>3
    <2>11. Accepted(Scanned(got).lines)' = out'
      <3>1. \A lines : Accepted(lines)' = Accepted(lines)
        BY <2>2, AcceptedKept
      <3>2. Accepted(Scanned(got).lines)' = Accepted(Scanned(got').lines)
        BY <3>1
      <3> QED
        BY <2>8, <2>9, <3>2
    <2> QED
      BY <2>2, <2>6, <2>9, <2>10, <2>11 DEF TelnetInv, Kinds
  <1>2. CASE Http
    BY <1>2 DEF Http, Arrives, TelnetInv, TelnetKinds
  <1>3. CASE UNCHANGED vars
    <2>1. kind' = kind /\ got' = got /\ out' = out /\ buffer' = buffer
      BY <1>3 DEF vars
    <2>2. Accepted(Scanned(got).lines)' = Accepted(Scanned(got').lines)
      BY <2>1, AcceptedKept
    <2> QED
      BY <2>1, <2>2 DEF TelnetInv
  <1> QED
    BY <1>1, <1>2, <1>3 DEF Next

THEOREM TelnetInvariant == Spec => []TelnetInv
  <1>1. Init => TelnetInv
    BY TelnetInvInit
  <1>2. TelnetInv /\ [Next]_vars => TelnetInv'
    BY TelnetInvStep
  <1> QED
    BY <1>1, <1>2, PTL DEF Spec

\* However the network cuts what telnet peers send, the same lines are handed
\* on and the same unfinished line is kept (parse_telnet_lines and the
\* handlers that call it).
THEOREM SegmentsDoNotMatter == Spec => []CutsDoNotMatter
  <1>1. TelnetInv => CutsDoNotMatter
    BY DEF TelnetInv, CutsDoNotMatter, TelnetKinds
  <1> QED
    BY <1>1, TelnetInvariant, PTL

-----------------------------------------------------------------------------
(***************************************************************************)
(* The state of an HTTP connection: what has arrived is the beginning of a *)
(* request, and it is answered from the end of its head, or its body, on.  *)
(***************************************************************************)

HttpKinds == {"api", "description"}

HttpBytes == {"GET", "POST", "nl", "left", "right"}

Begins(bytes, request) ==
  /\ bytes \in Seq(HttpBytes)
  /\ Len(bytes) <= Len(request)
  /\ \A i \in 1..Len(bytes) : bytes[i] = request[i]

RightAnswer(request) == IF request[1] = "GET" THEN "page" ELSE "command"

\* The API answers with the end of the head, the description with the body.
AnswersAt(request) == IF kind = "api" THEN 3 ELSE Len(request)

HttpInv ==
  kind \in HttpKinds =>
    \E request \in Requests :
      /\ Begins(got, request)
      /\ Len(got) < AnswersAt(request) => buffer = got /\ out = <<>>
      /\ Len(got) >= AnswersAt(request) => out # <<>>
      /\ Len(got) = Len(request) => out = <<RightAnswer(request)>>

LEMMA RequestParts ==
  ASSUME NEW request \in Requests
  PROVE  /\ request \in Seq(HttpBytes)
         /\ request[1] \in {"GET", "POST"} /\ request[2] = "nl" /\ request[3] = "nl"
         /\ request[1] = "GET" => Len(request) = 3
         /\ request[1] = "POST" => Len(request) = 5 /\ request[4] = "left" /\ request[5] = "right"
  <1>1. CASE request = <<"GET", "nl", "nl">>
    BY <1>1 DEF HttpBytes
  <1>2. CASE request = <<"POST", "nl", "nl", "left", "right">>
    <2>1. /\ request[1] = "POST" /\ request[2] = "nl" /\ request[3] = "nl"
          /\ request[4] = "left" /\ request[5] = "right" /\ Len(request) = 5
      BY <1>2
    <2>2. ASSUME NEW i \in 1..5 PROVE request[i] \in HttpBytes
      <3>1. i = 1 \/ i = 2 \/ i = 3 \/ i = 4 \/ i = 5
        OBVIOUS
      <3> QED
        BY <2>1, <3>1 DEF HttpBytes
    <2>3. request \in Seq({"POST", "nl", "left", "right"})
      BY <1>2
    <2>4. request \in Seq(HttpBytes)
      BY <2>1, <2>2, <2>3
    <2> QED
      BY <2>1, <2>4
  <1> QED
    BY <1>1, <1>2 DEF Requests

\* The beginnings of a request.
LEMMA BeginningOfRequest ==
  ASSUME NEW request \in Requests, NEW bytes, Begins(bytes, request)
  PROVE  /\ Len(bytes) \in 0..Len(request)
         /\ HeadEnds(bytes) = IF Len(bytes) >= 3 THEN {3} ELSE {}
         /\ bytes \in Requests <=> Len(bytes) = Len(request)
         /\ Len(bytes) = Len(request) => bytes = request
  <1>0. /\ request \in Seq(HttpBytes) /\ Len(request) \in {3, 5}
        /\ request[1] \in {"GET", "POST"} /\ request[2] = "nl" /\ request[3] = "nl"
        /\ Len(request) = 5 => request[4] = "left" /\ request[5] = "right"
        /\ request[1] = "GET" <=> Len(request) = 3
    <2>1. CASE request[1] = "GET"
      BY <2>1, RequestParts
    <2>2. CASE request[1] = "POST"
      BY <2>2, RequestParts
    <2> QED
      BY <2>1, <2>2, RequestParts
  <1>1. /\ bytes \in Seq(HttpBytes) /\ Len(bytes) \in 0..Len(request)
        /\ \A i \in 1..Len(bytes) : bytes[i] = request[i]
    <2>1. bytes \in Seq(HttpBytes) /\ Len(bytes) <= Len(request)
      BY DEF Begins
    <2>2. Len(bytes) \in Nat /\ Len(request) \in Nat
      BY <1>0, <2>1
    <2> QED
      BY <2>1, <2>2 DEF Begins
  <1>2. HeadEnds(bytes) = IF Len(bytes) >= 3 THEN {3} ELSE {}
    <2>1. ASSUME NEW i \in 2..Len(bytes) PROVE bytes[i] = "nl" /\ bytes[i - 1] = "nl" <=> i = 3
      <3>1. i \in {2, 3, 4, 5} /\ bytes[i] = request[i] /\ bytes[i - 1] = request[i - 1]
        BY <1>0, <1>1
      <3>2. CASE i = 2
        BY <1>0, <3>1, <3>2
      <3>3. CASE i = 3
        BY <1>0, <3>1, <3>3
      <3>4. CASE i \in {4, 5}
        <4>1. Len(request) = 5
          BY <1>0, <1>1, <3>4
        <4> QED
          BY <1>0, <3>1, <3>4, <4>1
      <3> QED
        BY <3>1, <3>2, <3>3, <3>4
    <2>2. HeadEnds(bytes) = {i \in 2..Len(bytes) : i = 3}
      BY <2>1 DEF HeadEnds
    <2> QED
      BY <1>1, <2>2
  <1>3. Len(bytes) = Len(request) => bytes = request
    BY <1>0, <1>1, SeqEqual
  <1>4. ASSUME bytes \in Requests PROVE Len(bytes) = Len(request)
    <2>1. /\ Len(bytes) \in {3, 5} /\ bytes[1] \in {"GET", "POST"}
          /\ bytes[1] = "GET" <=> Len(bytes) = 3
      BY <1>4, RequestParts
    <2>2. bytes[1] = request[1]
      BY <1>1, <2>1
    <2> QED
      BY <1>0, <2>1, <2>2
  <1> QED
    BY <1>1, <1>2, <1>3, <1>4

\* A whole request is answered as what it is.
LEMMA WholeRequestAnswer ==
  ASSUME NEW request \in Requests
  PROVE  Answered(request) = RightAnswer(request)
  <1>1. CASE request = <<"GET", "nl", "nl">>
    <2>1. request[1] = "GET"
      BY <1>1
    <2> QED
      BY <2>1 DEF Answered, RightAnswer
  <1>2. CASE request = <<"POST", "nl", "nl", "left", "right">>
    <2>0. /\ request \in Seq(HttpBytes) /\ request[1] = "POST" /\ Len(request) = 5
          /\ request[4] = "left" /\ request[5] = "right"
      BY <1>2, RequestParts
    <2>1. request[1] = "POST" /\ Len(request) = 5 /\ From(request, 4) = <<"left", "right">>
      <3> DEFINE body == SubSeq(request, 4, 5)
      <3>1. /\ body \in Seq(HttpBytes) /\ Len(body) = 2
            /\ \A k \in 1..2 : body[k] = request[k + 3]
        <4> DEFINE i == 4  j == 5
        <4>1. i \in 1..Len(request) + 1 /\ j \in 0..Len(request) /\ i <= j
          BY <2>0
        <4> HIDE DEF i, j
        <4>2. /\ SubSeq(request, i, j) \in Seq(HttpBytes) /\ Len(SubSeq(request, i, j)) = j - i + 1
              /\ \A k \in 1..j - i + 1 : SubSeq(request, i, j)[k] = request[i + k - 1]
          BY <2>0, <4>1, PartOf
        <4> HIDE DEF body
        <4>3. /\ body \in Seq(HttpBytes) /\ Len(body) = 5 - 4 + 1
              /\ \A k \in 1..5 - 4 + 1 : body[k] = request[4 + k - 1]
          BY <4>2 DEF body, i, j
        <4> QED
          BY <4>3
      <3>2. <<"left", "right">> \in Seq(HttpBytes)
        BY DEF HttpBytes
      <3>3. body[1] = "left" /\ body[2] = "right"
        BY <2>0, <3>1
      <3> HIDE DEF body
      <3>4. body = <<"left", "right">>
        BY <3>1, <3>2, <3>3, SeqEqual
      <3> QED
        BY <2>0, <3>4 DEF From, body
    <2>2. Begins(request, request)
      <3>1. request \in Seq(HttpBytes)
        BY RequestParts
      <3> QED
        BY <3>1 DEF Begins
    <2>3. HeadEnds(request) = {3}
      BY <2>1, <2>2, BeginningOfRequest
    <2>4. Min(HeadEnds(request)) + 1 = 4
      BY <2>3, MinIs
    <2> QED
      BY <2>1, <2>4 DEF Answered, RightAnswer
  <1> QED
    BY <1>1, <1>2 DEF Requests

LEMMA HttpInvInit == Init => HttpInv
  <1> SUFFICES ASSUME Init PROVE HttpInv
    OBVIOUS
  <1> DEFINE request == <<"GET", "nl", "nl">>
  <1>1. request \in Requests
    BY DEF Requests
  <1>2. Len(request) = 3
    OBVIOUS
  <1> HIDE DEF request
  <1>3. got = <<>> /\ buffer = <<>> /\ out = <<>> /\ Begins(got, request)
    BY <1>2 DEF Init, Begins
  <1>4. Len(got) = 0 /\ AnswersAt(request) = 3
    BY <1>2, <1>3 DEF AnswersAt
  <1> QED
    BY <1>1, <1>2, <1>3, <1>4 DEF HttpInv

\* A segment continues a request: what has arrived is still a beginning of it.
LEMMA SegmentContinues ==
  ASSUME NEW request \in Requests, NEW g, Begins(g, request), NEW n \in Len(g) + 1..Len(request)
  PROVE  /\ Begins(g \o SubSeq(request, Len(g) + 1, n), request)
         /\ Len(g \o SubSeq(request, Len(g) + 1, n)) = n
  <1> DEFINE k == Len(g)
             segment == SubSeq(request, k + 1, n)
  <1>1. /\ g \in Seq(HttpBytes) /\ request \in Seq(HttpBytes) /\ k \in Nat
        /\ n \in k + 1..Len(request)
        /\ \A i \in 1..k : g[i] = request[i]
    BY RequestParts DEF Begins
  <1>2. /\ segment \in Seq(HttpBytes) /\ Len(segment) = n - k
        /\ \A i \in 1..n - k : segment[i] = request[k + i]
    BY <1>1, PartOf
  <1> HIDE DEF segment
  <1>3. g \o segment \in Seq(HttpBytes) /\ Len(g \o segment) = n
    BY <1>1, <1>2
  <1>4. ASSUME NEW i \in 1..n PROVE (g \o segment)[i] = request[i]
    <2>1. CASE i <= k
      BY <1>1, <1>2, <2>1
    <2>2. CASE i > k
      <3>1. (g \o segment)[i] = segment[i - k] /\ i - k \in 1..n - k /\ k + (i - k) = i
        BY <1>1, <1>2, <2>2
      <3> QED
        BY <1>2, <3>1
    <2>3. i <= k \/ i > k
      <3> HIDE DEF k
      <3> QED
        BY <1>1
    <2> QED
      BY <2>1, <2>2, <2>3
  <1>5. n <= Len(request)
    BY <1>1
  <1> QED
    BY <1>3, <1>4, <1>5 DEF Begins, segment

LEMMA OneIsAppended == \A x : Append(<<>>, x) = <<x>>
  OBVIOUS

LEMMA HttpInvStep == HttpInv /\ [Next]_vars => HttpInv'
  <1> SUFFICES ASSUME HttpInv, [Next]_vars PROVE HttpInv'
    OBVIOUS
  <1>1. CASE Http
    <2>1. kind \in HttpKinds /\ out = <<>>
      BY <1>1 DEF Http, HttpKinds
    <2>2. PICK request \in Requests :
            /\ IsPrefix(got, request)
            /\ \E m \in Len(got) + 1..Len(request) :
                 LET segment == SubSeq(request, Len(got) + 1, m)
                 IN  /\ IF kind = "api" THEN ApiData(segment) ELSE DescriptionData(segment)
                     /\ Arrives(segment)
      BY <1>1 DEF Http
    <2>11. PICK n \in Len(got) + 1..Len(request) :
             /\ IF kind = "api" THEN ApiData(SubSeq(request, Len(got) + 1, n))
                ELSE DescriptionData(SubSeq(request, Len(got) + 1, n))
             /\ Arrives(SubSeq(request, Len(got) + 1, n))
      BY <2>2
    <2> DEFINE segment == SubSeq(request, Len(got) + 1, n)
               bytes == got \o segment
    <2>3. PICK old \in Requests :
            /\ Begins(got, old)
            /\ Len(got) < AnswersAt(old) => buffer = got /\ out = <<>>
            /\ Len(got) >= AnswersAt(old) => out # <<>>
      BY <2>1 DEF HttpInv
    <2>4. buffer = got
      <3>1. Len(got) \in Nat /\ AnswersAt(old) \in Nat
        BY <2>3, RequestParts DEF Begins, AnswersAt
      <3> QED
        BY <2>1, <2>3, <3>1
    <2>5. Begins(got, request)
      <3>1. got \in Seq(HttpBytes) /\ request \in Seq(HttpBytes) /\ Len(got) <= Len(request)
        BY <2>2, <2>3, RequestParts DEF Begins, IsPrefix
      <3>2. SubSeq(got, 1, Len(got)) = SubSeq(request, 1, Len(got))
        BY <2>2 DEF IsPrefix
      <3>3. SubSeq(got, 1, Len(got)) = got
        BY <3>1
      <3>4. \A i \in 1..Len(got) : SubSeq(request, 1, Len(got))[i] = request[i]
        BY <3>1
      <3> QED
        BY <3>1, <3>2, <3>3, <3>4 DEF Begins
    <2>6. Begins(bytes, request) /\ Len(bytes) = n
      BY <2>5, SegmentContinues
    <2>7. /\ kind' = kind /\ got' = bytes
          /\ IF kind = "api" THEN ApiData(segment) ELSE DescriptionData(segment)
      BY <2>11 DEF Arrives
    <2>8. /\ n \in 1..Len(request) /\ Len(request) \in {3, 5}
          /\ HeadEnds(bytes) = IF n >= 3 THEN {3} ELSE {}
          /\ n = Len(request) => bytes = request
      <3>1. Len(got) \in Nat /\ Len(request) \in {3, 5}
        <4>1. request[1] = "GET" \/ request[1] = "POST"
          BY RequestParts
        <4> QED
          BY <2>3, <4>1, RequestParts DEF Begins
      <3> HIDE DEF bytes
      <3>2. /\ HeadEnds(bytes) = IF Len(bytes) >= 3 THEN {3} ELSE {}
            /\ Len(bytes) = Len(request) => bytes = request
        BY <2>6, BeginningOfRequest
      <3> QED
        BY <2>6, <3>1, <3>2
    <2> HIDE DEF segment, bytes
    <2>9. CASE kind = "api"
      <3>1. IF n >= 3 THEN out' = <<Answered(bytes)>> ELSE buffer' = bytes /\ out' = <<>>
        <4>1. buffer \o segment = bytes
          BY <2>4 DEF bytes
        <4>2. Append(out, Answered(bytes)) = <<Answered(bytes)>>
          BY <2>1, OneIsAppended
        <4> QED
          BY <2>1, <2>7, <2>8, <2>9, <4>1, <4>2 DEF ApiData
      <3>2. AnswersAt(request)' = 3
        BY <2>7, <2>9 DEF AnswersAt
      <3>3. n = Len(request) => out' = <<RightAnswer(request)>>
        BY <2>8, <3>1, WholeRequestAnswer
      <3>4. n >= 3 => out' # <<>>
        BY <3>1
      <3> QED
        BY <2>6, <2>7, <2>8, <3>1, <3>2, <3>3, <3>4 DEF HttpInv
    <2>10. CASE kind = "description"
      <3>1. buffer' = bytes /\ out' = IF n = Len(request) THEN <<Answered(bytes)>> ELSE <<>>
        <4>1. buffer \o segment = bytes
          BY <2>4 DEF bytes
        <4>2. Append(out, Answered(bytes)) = <<Answered(bytes)>>
          BY <2>1, OneIsAppended
        <4>3. HeadEnds(bytes) # {} /\ Len(bytes) >= Min(HeadEnds(bytes)) + ContentLength(bytes)
                <=> n = Len(request)
          <5>1. CASE n >= 3
            <6>1. HeadEnds(bytes) = {3} /\ Min(HeadEnds(bytes)) = 3
              BY <2>8, <5>1, MinIs
            <6>2. bytes[1] = request[1]
              <7>1. 1 \in 1..Len(bytes)
                BY <2>6, <2>8
              <7> QED
                BY <2>6, <7>1 DEF Begins
            <6>3. ContentLength(bytes) = Len(request) - 3
              BY <6>2, RequestParts DEF ContentLength
            <6> QED
              BY <2>6, <2>8, <6>1, <6>3
          <5>2. CASE ~(n >= 3)
            BY <2>8, <5>2
          <5> QED
            BY <5>1, <5>2
        <4> QED
          BY <2>1, <2>7, <2>10, <4>1, <4>2, <4>3 DEF DescriptionData
      <3>2. AnswersAt(request)' = Len(request)
        BY <2>7, <2>10 DEF AnswersAt
      <3>3. n = Len(request) => out' = <<RightAnswer(request)>>
        BY <2>8, <3>1, WholeRequestAnswer
      <3>4. <<RightAnswer(request)>> # <<>>
        OBVIOUS
      <3> QED
        BY <2>6, <2>7, <2>8, <3>1, <3>2, <3>3, <3>4 DEF HttpInv
    <2> QED
      BY <2>1, <2>9, <2>10 DEF HttpKinds
  <1>2. CASE Telnet
    BY <1>2 DEF Telnet, Arrives, HttpInv, HttpKinds
  <1>3. CASE UNCHANGED vars
    BY <1>3 DEF vars, HttpInv, AnswersAt
  <1> QED
    BY <1>1, <1>2, <1>3 DEF Next

THEOREM HttpInvariant == Spec => []HttpInv
  <1>1. Init => HttpInv
    BY HttpInvInit
  <1>2. HttpInv /\ [Next]_vars => HttpInv'
    BY HttpInvStep
  <1> QED
    BY <1>1, <1>2, PTL DEF Spec

\* The server of the device description answers a request when and only when
\* all of it has arrived, and as what it is
\* (DeviceDescriptionHandler.data_received).
THEOREM DescriptionAnswers == Spec => []WholeRequestIsAnswered
  <1>1. HttpInv => WholeRequestIsAnswered
    <2> SUFFICES ASSUME HttpInv, kind = "description"
                 PROVE  /\ got \in Requests <=> out # <<>>
                        /\ out # <<>> => out = <<IF got[1] = "GET" THEN "page" ELSE "command">>
      BY DEF WholeRequestIsAnswered
    <2>1. PICK request \in Requests :
            /\ Begins(got, request)
            /\ Len(got) < AnswersAt(request) => buffer = got /\ out = <<>>
            /\ Len(got) >= AnswersAt(request) => out # <<>>
            /\ Len(got) = Len(request) => out = <<RightAnswer(request)>>
      BY DEF HttpInv, HttpKinds
    <2>2. /\ Len(got) \in 0..Len(request) /\ Len(request) \in Nat
          /\ got \in Requests <=> Len(got) = Len(request)
          /\ Len(got) = Len(request) => got = request
      BY <2>1, BeginningOfRequest, RequestParts
    <2>3. AnswersAt(request) = Len(request)
      BY DEF AnswersAt
    <2> QED
      BY <2>1, <2>2, <2>3 DEF RightAnswer
  <1> QED
    BY <1>1, HttpInvariant, PTL

\* A request that is whole with the end of its head is answered by the HTTP
\* server as what it is, wherever its head was cut
\* (_HttpServerHandler.data_received).
THEOREM ApiAnswers == Spec => []CommandWithHeadIsSent
  <1>1. HttpInv => CommandWithHeadIsSent
    <2> SUFFICES ASSUME HttpInv, kind = "api", got \in Requests
                 PROVE  out = <<IF got[1] = "GET" THEN "page" ELSE "command">>
      BY DEF CommandWithHeadIsSent
    <2>1. PICK request \in Requests :
            /\ Begins(got, request)
            /\ Len(got) = Len(request) => out = <<RightAnswer(request)>>
      BY DEF HttpInv, HttpKinds
    <2>2. Len(got) = Len(request) /\ got = request
      BY <2>1, BeginningOfRequest
    <2> QED
      BY <2>1, <2>2 DEF RightAnswer
  <1> QED
    BY <1>1, HttpInvariant, PTL

-----------------------------------------------------------------------------
(***************************************************************************)
(* What Stripped computes, and that no letter is lost.                     *)
(***************************************************************************)

LEMMA PartsOfLine ==
  ASSUME NEW S, NEW line \in Seq(S), NEW i \in 1..Len(line)
  PROVE  /\ KeptAt(line, i) \in Seq(S \union {"IAC"})
         /\ NextAt(line, i) \in i + 1..Len(line) + 1
  <1> DEFINE n == Len(line)
             ends == {j \in i + 2..n - 1 : line[j] = "IAC" /\ line[j + 1] = "SE"}
  <1>1. n \in Nat /\ i \in 1..n /\ line[i] \in S
    OBVIOUS
  <1>2. KeptAt(line, i) \in Seq(S \union {"IAC"})
    <2> DEFINE S1 == S \union {"IAC"}
    <2>1. <<line[i]>> \in Seq(S1) /\ <<"IAC">> \in Seq(S1) /\ <<>> \in Seq(S1)
      BY <1>1
    <2> HIDE DEF S1
    <2>2. KeptAt(line, i) \in Seq(S1)
      BY <2>1 DEF KeptAt
    <2> QED
      BY <2>2 DEF S1
  <1>3. ends # {} => Min(ends) \in i + 2..n - 1
    <2>1. ends \subseteq Nat
      BY <1>1
    <2>2. ends # {} => Min(ends) \in ends
      BY <2>1, MinIsLeast
    <2> QED
      BY <2>2
  <1>4. CASE line[i] # "IAC"
    BY <1>1, <1>2, <1>4 DEF NextAt
  <1>5. CASE line[i] = "IAC" /\ i = n
    BY <1>1, <1>2, <1>5 DEF NextAt
  <1>6. CASE line[i] = "IAC" /\ i # n
    <2> DEFINE next == CASE line[i + 1] = "NEG" -> IF i + 2 <= n /\ line[i + 2] # "x" THEN i + 3 ELSE i + 2
                         [] line[i + 1] = "SB" -> IF ends = {} THEN n + 1 ELSE Min(ends) + 2
                         [] OTHER -> i + 2
    <2>1. NextAt(line, i) = next
      BY <1>6 DEF NextAt
    <2> HIDE DEF n, ends
    <2>2. CASE line[i + 1] = "NEG"
      <3>1. next = IF i + 2 <= n /\ line[i + 2] # "x" THEN i + 3 ELSE i + 2
        BY <2>2
      <3> QED
        BY <1>1, <1>2, <1>6, <2>1, <3>1 DEF n
    <2>3. CASE line[i + 1] = "SB"
      <3>1. next = IF ends = {} THEN n + 1 ELSE Min(ends) + 2
        BY <2>3
      <3> QED
        BY <1>1, <1>2, <1>3, <1>6, <2>1, <3>1 DEF n
    <2>4. CASE line[i + 1] \notin {"NEG", "SB"}
      <3>1. next = i + 2
        BY <2>4
      <3> QED
        BY <1>1, <1>2, <1>6, <2>1, <3>1 DEF n
    <2> QED
      BY <2>2, <2>3, <2>4
  <1> QED
    BY <1>4, <1>5, <1>6

\* The function that Stripped computes.
StrippedFrom(rest, line, S) ==
  /\ rest \in [1..Len(line) + 1 -> Seq(S \union {"IAC"})]
  /\ Stripped(line) = rest[1]
  /\ rest[Len(line) + 1] = <<>>
  /\ \A i \in 1..Len(line) : rest[i] = KeptAt(line, i) \o rest[NextAt(line, i)]

LEMMA StrippedStepwise ==
  ASSUME NEW S, NEW line \in Seq(S)
  PROVE  \E rest : StrippedFrom(rest, line, S)
  <1> DEFINE n == Len(line)
             m == n + 1
             D == 1..m
             V == Seq(S \union {"IAC"})
             Body(f, i) == IF i > n THEN <<>> ELSE KeptAt(line, i) \o f[NextAt(line, i)]
             step == [f \in [D -> V] |-> [i \in D |-> Body(f, i)]]
             measure == [i \in D |-> n + 1 - i]
  <1>0. n \in Nat /\ m \in Nat
    OBVIOUS
  <1>1. ASSUME NEW i \in D, ~(i > n)
        PROVE  KeptAt(line, i) \in V /\ NextAt(line, i) \in i + 1..m /\ NextAt(line, i) \in D
    <2>1. i \in 1..n
      BY <1>0, <1>1
    <2>2. KeptAt(line, i) \in V /\ NextAt(line, i) \in i + 1..n + 1
      BY <2>1, PartsOfLine
    <2> QED
      BY <1>0, <2>1, <2>2
  <1>2. ASSUME NEW f, NEW i \in D, ~(i > n) => f[NextAt(line, i)] \in V PROVE Body(f, i) \in V
    BY <1>1, <1>2
  <1>3. step \in [[D -> V] -> [D -> V]]
    <2>1. ASSUME NEW f \in [D -> V], NEW i \in D PROVE Body(f, i) \in V
      <3> HIDE DEF Body, V, D, n
      <3> QED
        BY <1>1, <1>2
    <2> HIDE DEF Body, V, D
    <2> QED
      BY <2>1
  <1>4. measure \in [D -> 0..n]
    BY <1>0
  <1>5. ASSUME NEW i \in D, NEW f \in [D -> V], NEW g \in [D -> V],
               \A j \in D : measure[j] < measure[i] => f[j] = g[j]
        PROVE  step[f][i] = step[g][i]
    <2>1. ~(i > n) => f[NextAt(line, i)] = g[NextAt(line, i)]
      <3> SUFFICES ASSUME ~(i > n) PROVE f[NextAt(line, i)] = g[NextAt(line, i)]
        OBVIOUS
      <3> DEFINE j == NextAt(line, i)
      <3>1. j \in i + 1..m /\ j \in D
        BY <1>1
      <3> HIDE DEF j, V
      <3>2. measure[j] < measure[i]
        BY <1>0, <3>1
      <3> QED
        BY <1>5, <3>1, <3>2 DEF j
    <2>2. Body(f, i) = Body(g, i)
      <3> HIDE DEF n, D, V
      <3> QED
        BY <2>1
    <2> HIDE DEF Body, V, D
    <2> QED
      BY <2>2
  <1>6. \E f \in [D -> V] : f = [i \in D |-> Body(f, i)]
    <2>1. Recursion(step, measure, n, D, V)
      <3>1. <<>> \in V
        OBVIOUS
      <3>2. V # {}
        BY <3>1
      <3> HIDE DEF step, measure, V, D
      <3> QED
        BY <1>0, <1>3, <1>4, <1>5, <3>2 DEF Recursion
    <2>2. \E f \in [D -> V] : f = step[f]
      <3> HIDE DEF step, measure, V, D
      <3> QED
        BY <2>1, RecursionHasSolution
    <2> HIDE DEF Body, V, D
    <2> QED
      BY <2>2
  <1> DEFINE rest == CHOOSE f : f = [i \in D |-> Body(f, i)]
  <1>7. Stripped(line) = rest[1]
    BY DEF Stripped
  <1> HIDE DEF rest
  <1>8. rest = [i \in D |-> Body(rest, i)]
    <2> HIDE DEF Body, V, D
    <2> QED
      BY <1>6 DEF rest
  <1>9. \A i \in D : rest[i] \in V
    <2> DEFINE T == {i \in D : rest[i] \in V}
    <2>1. \A i \in 1..m : (\A j \in i + 1..m : j \in T) => i \in T
      <3> SUFFICES ASSUME NEW i \in D, \A j \in i + 1..m : j \in T PROVE rest[i] \in V
        OBVIOUS
      <3>1. ~(i > n) => rest[NextAt(line, i)] \in V
        <4> HIDE DEF V, D, m, n
        <4> QED
          BY <1>1
      <3>2. Body(rest, i) \in V
        <4> HIDE DEF Body, V
        <4> QED
          BY <1>2, <3>1
      <3> HIDE DEF V, Body, D
      <3> QED
        BY <1>8, <3>2
    <2>2. D \subseteq T
      <3> HIDE DEF T, m
      <3> QED
        BY <1>0, <2>1, InductionDown, Zenon
    <2> HIDE DEF V
    <2> QED
      BY <2>2
  <1>10. rest \in [D -> V]
    <2> HIDE DEF Body, V, D
    <2> QED
      BY <1>8, <1>9
  <1>11. rest[m] = <<>> /\ \A i \in 1..n : rest[i] = KeptAt(line, i) \o rest[NextAt(line, i)]
    <2>1. m \in D /\ m > n /\ \A i \in 1..n : i \in D /\ ~(i > n)
      BY <1>0
    <2> HIDE DEF D, V, m, n
    <2> QED
      BY <1>8, <2>1
  <1>12. StrippedFrom(rest, line, S)
    BY <1>7, <1>10, <1>11 DEF StrippedFrom
  <1> QED
    BY <1>12

\* A byte in front counts if it is a letter.
LEMMA LettersOfOneMore ==
  ASSUME NEW S, NEW b \in S, NEW t \in Seq(S)
  PROVE  /\ Letters(t) \in Nat
         /\ Letters(<<b>> \o t) = IF b = "x" THEN Letters(t) + 1 ELSE Letters(t)
  <1> DEFINE n == Len(t)
             u == <<b>> \o t
             A == {i \in 1..n : t[i] = "x"}
             B == {i \in 2..n + 1 : u[i] = "x"}
             shift == [i \in A |-> i + 1]
  <1>1. n \in Nat /\ DOMAIN t = 1..n /\ DOMAIN u = 1..n + 1
        /\ u[1] = b /\ \A i \in 1..n : u[i + 1] = t[i]
    OBVIOUS
  <1> HIDE DEF n, u
  <1>2. IsFiniteSet(A)
    <2>1. 1 \in Int /\ n \in Int
      BY <1>1
    <2>2. A \subseteq 1..n /\ IsFiniteSet(1..n)
      BY <2>1, FS_Interval
    <2> HIDE DEF A
    <2> QED
      BY <2>2, FS_Subset
  <1>3. Letters(t) = Cardinality(A) /\ Letters(t) \in Nat
    BY <1>1, <1>2, FS_CardinalityType DEF Letters
  <1>4. IsFiniteSet(B) /\ Cardinality(B) = Cardinality(A)
    <2>1. \A i \in A : i + 1 \in B
      BY <1>1
    <2>2. \A j \in B : j - 1 \in A /\ j - 1 + 1 = j
      <3> TAKE j \in B
      <3>1. j - 1 \in 1..n /\ j - 1 + 1 = j
        BY <1>1
      <3> QED
        BY <1>1, <3>1
    <2>3. shift \in Bijection(A, B)
      <3>1. shift \in [A -> B]
        BY <2>1
      <3>2. \A i, j \in A : shift[i] = shift[j] => i = j
        BY <1>1
      <3>3. \A j \in B : \E i \in A : shift[i] = j
        <4> TAKE j \in B
        <4>1. j - 1 \in A /\ shift[j - 1] = j
          BY <2>2
        <4> QED
          BY <4>1
      <3> HIDE DEF A, B, shift
      <3> QED
        BY <3>1, <3>2, <3>3 DEF Bijection, Injection, Surjection, IsInjective
    <2> HIDE DEF A, B, shift
    <2>4. ExistsBijection(A, B)
      BY <2>3 DEF ExistsBijection
    <2> QED
      BY <1>2, <2>4, FS_Bijection
  <1>5. {i \in 1..n + 1 : u[i] = "x"} = IF b = "x" THEN B \union {1} ELSE B
    <2>1. \A i : i \in 1..n + 1 <=> i = 1 \/ i \in 2..n + 1
      BY <1>1
    <2> QED
      BY <1>1, <2>1
  <1>6. 1 \notin B
    BY <1>1
  <1> HIDE DEF A, B
  <1>7. Cardinality(B \union {1}) = Cardinality(B) + 1
    BY <1>4, <1>6, FS_AddElement
  <1>8. Letters(u) = IF b = "x" THEN Letters(t) + 1 ELSE Letters(t)
    BY <1>1, <1>3, <1>4, <1>5, <1>7 DEF Letters
  <1> QED
    BY <1>3, <1>8 DEF u

\* The letters from i on.
LettersFrom(line, i) == Cardinality({j \in i..Len(line) : line[j] = "x"})

LEMMA LettersFromStep ==
  ASSUME NEW S, NEW line \in Seq(S), NEW i \in 1..Len(line)
  PROVE  LettersFrom(line, i) = IF line[i] = "x" THEN LettersFrom(line, i + 1) + 1
                                ELSE LettersFrom(line, i + 1)
  <1> DEFINE n == Len(line)
             A == {j \in i + 1..n : line[j] = "x"}
             B == {j \in i..n : line[j] = "x"}
  <1>1. n \in Nat /\ i \in Int
    OBVIOUS
  <1> HIDE DEF n
  <1>2. IsFiniteSet(A)
    <2>1. i + 1 \in Int /\ n \in Int
      BY <1>1
    <2>2. A \subseteq i + 1..n /\ IsFiniteSet(i + 1..n)
      BY <2>1, FS_Interval
    <2> QED
      BY <2>2, FS_Subset
  <1>3. B = IF line[i] = "x" THEN A \union {i} ELSE A
    <2>1. \A j : j \in i..n <=> j = i \/ j \in i + 1..n
      BY <1>1 DEF n
    <2> QED
      BY <2>1
  <1>4. i \notin A
    BY <1>1
  <1> HIDE DEF A, B
  <1>5. Cardinality(A \union {i}) = Cardinality(A) + 1
    BY <1>2, <1>4, FS_AddElement
  <1>6. LettersFrom(line, i) = Cardinality(B) /\ LettersFrom(line, i + 1) = Cardinality(A)
    BY DEF LettersFrom, A, B, n
  <1> QED
    BY <1>3, <1>5, <1>6

\* Nothing is lost with bytes that are no letters.
LEMMA LettersFromSkip ==
  ASSUME NEW S, NEW line \in Seq(S), NEW i \in 1..Len(line) + 1, NEW m \in i..Len(line) + 1,
         \A j \in i..m - 1 : line[j] # "x"
  PROVE  LettersFrom(line, i) = LettersFrom(line, m)
  <1>1. {j \in i..Len(line) : line[j] = "x"} = {j \in m..Len(line) : line[j] = "x"}
    <2>1. ASSUME NEW j \in i..Len(line), line[j] = "x" PROVE j \in m..Len(line)
      <3>1. ~(j \in i..m - 1)
        BY <2>1
      <3> QED
        BY <3>1
    <2>2. ASSUME NEW j \in m..Len(line) PROVE j \in i..Len(line)
      OBVIOUS
    <2> QED
      BY <2>1, <2>2
  <1> QED
    BY <1>1 DEF LettersFrom

\* What CommandsSurviveNegotiation says of the bytes before a command.
NoHiddenLetter(line) ==
  \A i \in DOMAIN line : /\ line[i] # "SB"
                         /\ line[i] = "x" /\ i > 1 => line[i - 1] # "IAC"

LEMMA SkippedIsNoLetter ==
  ASSUME NEW S, NEW line \in Seq(S), NoHiddenLetter(line), NEW i \in 1..Len(line),
         line[i] = "IAC", NEW j \in i..NextAt(line, i) - 1
  PROVE  line[j] # "x"
  <1> DEFINE n == Len(line)
  <1>1. n \in Nat /\ DOMAIN line = 1..n /\ NextAt(line, i) \in i + 1..n + 1 /\ j \in i..n
    BY PartsOfLine
  <1>2. CASE j = i
    BY <1>2
  <1>3. CASE j = i + 1
    <2>1. j \in DOMAIN line /\ j > 1 /\ j - 1 = i
      BY <1>1, <1>3
    <2> QED
      BY <2>1 DEF NoHiddenLetter
  <1>4. CASE j > i + 1
    <2>1. i < n /\ i + 1 \in DOMAIN line
      BY <1>1, <1>4
    <2>2. line[i + 1] # "SB"
      BY <2>1 DEF NoHiddenLetter
    <2>3. \/ NextAt(line, i) = i + 2
          \/ NextAt(line, i) = i + 3 /\ line[i + 2] # "x"
      <3>1. CASE line[i + 1] = "NEG"
        BY <2>1, <3>1 DEF NextAt
      <3>2. CASE line[i + 1] # "NEG"
        BY <2>1, <2>2, <3>2 DEF NextAt
      <3> QED
        BY <3>1, <3>2
    <2>4. j = i + 2 /\ line[i + 2] # "x"
      BY <1>1, <1>4, <2>3
    <2> QED
      BY <2>4
  <1> QED
    BY <1>1, <1>2, <1>3, <1>4

LEMMA StrippedKeepsLetters ==
  ASSUME NEW S, NEW line \in Seq(S), NoHiddenLetter(line)
  PROVE  Letters(Stripped(line)) = Letters(line)
  <1> DEFINE n == Len(line)
             m == n + 1
             S1 == S \union {"IAC"}
  <1>0. n \in Nat /\ m \in Nat /\ DOMAIN line = 1..n
    OBVIOUS
  <1>1. PICK rest : StrippedFrom(rest, line, S)
    BY StrippedStepwise
  <1>2. /\ \A i \in 1..m : rest[i] \in Seq(S1)
        /\ Stripped(line) = rest[1] /\ rest[m] = <<>>
        /\ \A i \in 1..n : rest[i] = KeptAt(line, i) \o rest[NextAt(line, i)]
    BY <1>1 DEF StrippedFrom
  <1> DEFINE T == {i \in 1..m : Letters(rest[i]) = LettersFrom(line, i)}
  <1>3. m \in T
    <2>1. m \in 1..m /\ Letters(rest[m]) = Cardinality({})
      BY <1>0, <1>2 DEF Letters
    <2>2. LettersFrom(line, m) = Cardinality({})
      <3>1. {j \in m..n : line[j] = "x"} = {}
        BY <1>0
      <3> QED
        BY <3>1 DEF LettersFrom
    <2> QED
      BY <2>1, <2>2
  <1>4. ASSUME NEW i \in 1..n, \A j \in i + 1..m : j \in T PROVE i \in T
    <2> DEFINE next == NextAt(line, i)
    <2>1. next \in i + 1..m /\ next \in 1..m /\ i \in 1..m /\ i + 1 \in 1..m
      <3>1. next \in i + 1..n + 1
        BY PartsOfLine
      <3> QED
        BY <1>0, <3>1
    <2>2. rest[next] \in Seq(S1) /\ Letters(rest[next]) = LettersFrom(line, next)
      BY <1>2, <1>4, <2>1
    <2>3. rest[i] = KeptAt(line, i) \o rest[next]
      BY <1>2
    <2>4. CASE line[i] # "IAC"
      <3>1. KeptAt(line, i) = <<line[i]>> /\ next = i + 1
        BY <2>4 DEF KeptAt, NextAt
      <3>2. line[i] \in S1
        BY <1>0
      <3>3. Letters(rest[i]) = IF line[i] = "x" THEN LettersFrom(line, i + 1) + 1
                               ELSE LettersFrom(line, i + 1)
        <4> HIDE DEF S1
        <4> QED
          BY <2>2, <2>3, <3>1, <3>2, LettersOfOneMore
      <3> QED
        BY <2>1, <3>3, LettersFromStep
    <2>5. CASE line[i] = "IAC"
      <3>1. KeptAt(line, i) = <<"IAC">> \/ KeptAt(line, i) = <<>>
        BY <2>5 DEF KeptAt
      <3>2. "IAC" \in S1
        OBVIOUS
      <3>3. Letters(rest[i]) = LettersFrom(line, next)
        <4>1. CASE KeptAt(line, i) = <<"IAC">>
          <5> HIDE DEF S1
          <5> QED
            BY <2>2, <2>3, <3>2, <4>1, LettersOfOneMore
        <4>2. CASE KeptAt(line, i) = <<>>
          <5>1. rest[i] = rest[next]
            BY <2>2, <2>3, <4>2
          <5> QED
            BY <2>2, <5>1
        <4> QED
          BY <3>1, <4>1, <4>2
      <3>4. LettersFrom(line, i) = LettersFrom(line, next)
        <4>1. \A j \in i..next - 1 : line[j] # "x"
          BY <2>5, SkippedIsNoLetter
        <4>2. i \in 1..Len(line) + 1 /\ next \in i..Len(line) + 1
          BY <1>0, <2>1
        <4> QED
          BY <4>1, <4>2, LettersFromSkip
      <3> QED
        BY <2>1, <3>3, <3>4
    <2> QED
      BY <2>4, <2>5
  <1>5. 1..m \subseteq T
    <2>1. \A i \in 1..m : (\A j \in i + 1..m : j \in T) => i \in T
      <3>1. \A i \in 1..m : i = m \/ i \in 1..n
        BY <1>0
      <3> HIDE DEF T, m
      <3> QED
        BY <1>3, <1>4, <3>1
    <2> HIDE DEF T, m
    <2> QED
      BY <1>0, <2>1, InductionDown, Zenon
  <1>6. Letters(Stripped(line)) = LettersFrom(line, 1)
    <2>1. 1 \in 1..m
      BY <1>0
    <2> HIDE DEF m
    <2> QED
      BY <1>2, <1>5, <2>1
  <1>7. LettersFrom(line, 1) = Letters(line)
    BY <1>0 DEF LettersFrom, Letters
  <1> QED
    BY <1>6, <1>7

\* Whatever a telnet peer sends before a command, its letters arrive
\* (_strip_telnet_sequences), unless they stand in a subnegotiation or right
\* after IAC.
THEOREM LettersSurvive == Spec => []CommandsSurviveNegotiation
  <1>1. TelnetInv => CommandsSurviveNegotiation
    <2> SUFFICES ASSUME TelnetInv, kind \in TelnetKinds, NEW n \in DOMAIN got,
                        NoHiddenLetter(SubSeq(got, 1, n))
                 PROVE  Letters(Stripped(SubSeq(got, 1, n))) = Letters(SubSeq(got, 1, n))
      BY DEF CommandsSurviveNegotiation, NoHiddenLetter, TelnetKinds
    <2>1. got \in Seq(TelnetBytes)
      BY DEF TelnetInv
    <2>2. n \in 0..Len(got) /\ 1 \in 1..Len(got) + 1
      BY <2>1
    <2>3. SubSeq(got, 1, n) \in Seq(TelnetBytes)
      BY <2>1, <2>2, PartOf
    <2> QED
      BY <2>3, StrippedKeepsLetters
  <1> QED
    BY <1>1, TelnetInvariant, PTL
=============================================================================
