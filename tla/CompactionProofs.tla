-------------------------- MODULE CompactionProofs --------------------------
(***************************************************************************)
(* Proofs about Compaction, for every number of levels, every merge width and *)
(* every number of flushes: the buckets of a round, the inductive invariant,  *)
(* what keeps it when a merge changes two levels, and that pushes keep it.     *)
(* Commits, rounds of the worker and the theorems are in                    *)
(* CompactionRoundProofs.                                                  *)
(***************************************************************************)
EXTENDS Compaction, TLAPS, WellFoundedInduction

-----------------------------------------------------------------------------
(* Sequences whose elements need no common type *)

\* s is a sequence.
IsSeq(s) == s \in Seq({s[i] : i \in DOMAIN s})

\* The length of a sequence is a number, and its indices go from 1 to it.
LEMMA SeqDomain ==
    ASSUME NEW s, IsSeq(s)
    PROVE Len(s) \in Nat /\ DOMAIN s = 1..Len(s)
BY DEF IsSeq

\* A function on 1..n is a sequence of length n.
LEMMA FunctionIsSeq ==
    ASSUME NEW n \in Nat, NEW f, f = [i \in 1..n |-> f[i]]
    PROVE IsSeq(f) /\ Len(f) = n
<1> DEFINE S == {f[i] : i \in DOMAIN f}
<1>1. f \in [1..n -> S]
  BY Zenon
<1>2. f \in Seq(S)
  BY <1>1, SMTT(30)
<1>3. Len(f) = n
  BY <1>1, <1>2
<1> QED
  BY <1>2, <1>3, Zenon DEF IsSeq

\* Append adds an element at the end and keeps the others.
LEMMA AppendIsSeq ==
    ASSUME NEW s, IsSeq(s), NEW e
    PROVE /\ IsSeq(Append(s, e)) /\ Len(Append(s, e)) = Len(s) + 1
          /\ \A i \in 1..Len(s) : Append(s, e)[i] = s[i]
          /\ Append(s, e)[Len(s) + 1] = e
<1> DEFINE S == {s[i] : i \in DOMAIN s} \cup {e}
           t == Append(s, e)
<1>1. s \in Seq(S) /\ e \in S
  <2>1. s \in Seq({s[i] : i \in DOMAIN s})
    BY Zenon DEF IsSeq
  <2>2. {s[i] : i \in DOMAIN s} \subseteq S
    BY Zenon
  <2> QED
    BY <2>1, <2>2
<1> HIDE DEF S
<1>2. /\ t \in Seq(S) /\ Len(t) = Len(s) + 1 /\ Len(s) \in Nat
      /\ \A i \in 1..Len(s) : t[i] = s[i]
      /\ t[Len(s) + 1] = e
  BY <1>1
<1> HIDE DEF t
<1>3. t \in [1..Len(t) -> S]
  BY <1>2
<1>4. IsSeq(t)
  BY <1>2, <1>3, FunctionIsSeq
<1> QED
  BY <1>2, <1>4, Zenon DEF t

-----------------------------------------------------------------------------
(* Numbers and induction *)

\* A number is its quotient and its remainder.
LEMMA Divided ==
    ASSUME NEW m \in Nat \ {0}, NEW x \in Nat
    PROVE x \div m \in Nat /\ x % m \in 0..(m - 1) /\ x = (m * (x \div m)) + (x % m)
OBVIOUS

\* The multiples of m go in steps of m.
LEMMA MultipleStep ==
    ASSUME NEW m \in Nat \ {0}, NEW j \in Nat, NEW k \in Nat, m * j < m * k
    PROVE (m * j) + m <= m * k
<1>1. j + 1 <= k
  OBVIOUS
<1>2. m * (j + 1) <= m * k
  BY <1>1
<1> QED
  BY <1>2

\* Two multiples of m are at least m apart.
LEMMA MultiplesApart ==
    ASSUME NEW m \in Nat \ {0}, NEW x \in Nat, NEW y \in Nat, x % m = 0, y % m = 0, x < y
    PROVE x + m <= y
<1>1. x = m * (x \div m) /\ x \div m \in Nat
  BY Divided
<1>2. y = m * (y \div m) /\ y \div m \in Nat
  BY Divided
<1> QED
  BY <1>1, <1>2, MultipleStep, Zenon

\* The multiple of m at or below x, and the one after a multiple.
LEMMA Multiples ==
    ASSUME NEW m \in Nat \ {0}, NEW x \in Nat
    PROVE /\ \E z \in Nat : z % m = 0 /\ z <= x /\ x < z + m
          /\ x % m = 0 => (x + m) % m = 0
          /\ 0 % m = 0
<1> DEFINE q == x \div m
<1>1. q \in Nat /\ x % m \in 0..(m - 1) /\ x = (m * q) + (x % m)
  BY Divided, Zenon
<1> HIDE DEF q
<1>2. \A k \in Nat : (m * k) % m = 0
  OBVIOUS
<1>3. m * q <= x /\ x < (m * q) + m
  BY <1>1
<1>4. m * (q + 1) = (m * q) + m /\ m * 0 = 0 /\ m * q \in Nat
  BY <1>1
<1>5. (m * q) % m = 0 /\ (m * (q + 1)) % m = 0 /\ (m * 0) % m = 0
  BY <1>1, <1>2
<1>6. x % m = 0 => (x + m) % m = 0
  BY <1>1, <1>4, <1>5
<1> QED
  BY <1>1, <1>3, <1>4, <1>5, <1>6, Zenon

\* A nonempty set of natural numbers has a least element.
LEMMA Least ==
    ASSUME NEW T, T \subseteq Nat, T # {}
    PROVE \E m \in T : \A k \in T : m <= k
<1> DEFINE R == OpToRel(<, Nat)
<1>1. IsWellFoundedOn(R, Nat)
  BY NatLessThanWellFounded, Zenon
<1>2. \A a, b \in Nat : a < b => <<a, b>> \in R
  BY Zenon DEF OpToRel
<1> HIDE DEF R
<1>3. PICK m \in T : \A y \in T : ~(<<y, m>> \in R)
  BY <1>1, WFMin, Zenon
<1>4. ASSUME NEW k \in T PROVE m <= k
  <2>1. m \in Nat /\ k \in Nat
    BY Zenon
  <2>2. ~(k < m)
    BY <1>2, <1>3, <2>1, Zenon
  <2> QED
    BY <2>1, <2>2
<1> QED
  BY <1>4, Zenon

\* Induction from 0 to n over the set P of the numbers that have a property.
LEMMA SetInduction ==
    ASSUME NEW P, NEW n \in Nat, 0 \in P, \A i \in 0..(n-1) : i \in P => i + 1 \in P
    PROVE \A i \in 0..n : i \in P
<1> DEFINE T == {i \in 0..n : i \notin P}
<1>1. SUFFICES ASSUME T # {} PROVE FALSE
  BY Zenon
<1>0. T \subseteq Nat
  OBVIOUS
<1> HIDE DEF T
<1>2. PICK m \in T : \A k \in T : m <= k
  BY <1>0, <1>1, Least, Zenon
<1>3. m # 0 /\ m \in 1..n /\ m \notin P
  BY <1>2 DEF T
<1>4. m - 1 \notin T /\ m-1 \in 0..(n-1)
  BY <1>2, <1>3
<1>5. m - 1 \in P
  BY <1>4 DEF T
<1> QED
  BY <1>3, <1>4, <1>5

\* F takes the value of step i - 1 and i to the value of step i; g starts with b
\* and follows F for n steps.
IsStep(F, S, n) == F \in [S \X (1..n) -> S]
IsIteration(g, F, S, n, b) ==
    /\ g \in [0..n -> S] /\ g[0] = b
    /\ \A i \in 1..n : g[i] = F[<<g[i - 1], i>>]

\* Such a g exists: a recursion of n steps has a solution.
LEMMA Iterate ==
    ASSUME NEW S, NEW n \in Nat, NEW b \in S, NEW F, IsStep(F, S, n)
    PROVE \E g : IsIteration(g, F, S, n, b)
<1>0. F \in [S \X (1..n) -> S]
  BY Zenon DEF IsStep
<1> DEFINE Ok(m, g) == g[0] = b /\ \A i \in 1..m : g[i] = F[<<g[i-1], i>>]
           P == {m \in 0..n : \E g \in [0..m -> S] : Ok(m, g)}
<1>1. 0 \in P
  <2> DEFINE g == [i \in 0..0 |-> b]
  <2>1. g \in [0..0 -> S] /\ g[0] = b
    OBVIOUS
  <2>2. 1..0 = {} /\ 0 \in 0..n
    OBVIOUS
  <2> HIDE DEF g
  <2>3. Ok(0, g)
    BY <2>1, <2>2, Zenon
  <2> QED
    BY <2>1, <2>2, <2>3, Zenon
<1>2. ASSUME NEW m \in 0..(n-1), m \in P PROVE m + 1 \in P
  <2>1. PICK g \in [0..m -> S] : Ok(m, g)
    BY <1>2, Zenon
  <2>2. /\ m \in 0..m /\ m + 1 \in 1..n /\ m + 1 \in 0..n /\ 0 \in 0..m
        /\ \A i \in 0..(m + 1) : i \in 0..m \/ i = m + 1
        /\ \A i \in 1..(m + 1) : i \in 1..m \/ i = m + 1
        /\ \A i \in 1..m : i \in 0..m /\ i - 1 \in 0..m
        /\ \A i \in 0..m : i # m + 1 /\ i \in 0..(m + 1)
        /\ m + 1 \in 0..(m + 1) /\ (m + 1) - 1 = m
    OBVIOUS
  <2> DEFINE x == F[<<g[m], m + 1>>]
             h == [i \in 0..(m + 1) |-> IF i = m + 1 THEN x ELSE g[i]]
  <2>3. x \in S
    BY <1>0, <2>2, Zenon
  <2>4. x = F[<<g[m], m + 1>>]
    BY Zenon
  <2> HIDE DEF x
  <2>5. h[m + 1] = x /\ \A i \in 0..m : h[i] = g[i]
    BY <2>2, Zenon
  <2>6. h \in [0..(m + 1) -> S]
    BY <2>2, <2>3, Zenon
  <2> HIDE DEF h
  <2>7. h[0] = b
    BY <2>1, <2>2, <2>5, Zenon
  <2>8. ASSUME NEW i \in 1..(m+1) PROVE h[i] = F[<<h[i-1], i>>]
    <3>1. CASE i = m + 1
      <4>1. h[i] = x /\ h[i - 1] = g[m]
        BY <3>1, <2>2, <2>5, Zenon
      <4> QED
        BY <3>1, <4>1, <2>4, Zenon
    <3>2. CASE i \in 1..m
      <4>2. h[i] = g[i] /\ h[i-1] = g[i-1]
        BY <3>2, <2>2, <2>5, Zenon
      <4> QED
        BY <3>2, <4>2, <2>1, Zenon
    <3> QED
      BY <3>1, <3>2, <2>2, Zenon
  <2>9. Ok(m + 1, h)
    BY <2>7, <2>8, Zenon
  <2> QED
    BY <2>2, <2>6, <2>9, Zenon
<1> HIDE DEF P
<1>3. n \in P
  BY <1>1, <1>2, SetInduction
<1> QED
  BY <1>3, Zenon DEF P, IsIteration

-----------------------------------------------------------------------------
(* create_buckets_from_level: the loop finds the pieces *)

\* x is the sequence of the positions a, ..., b.
Positions(x, a, b) == Len(x) = b - a + 1 /\ \A k \in 1..Len(x) : x[k] = a + k - 1

\* What the loop holds: sequences of positions.
Held == [candidates : Seq(Nat), buckets : Seq(Seq(Nat))]

\* The candidates c are the places from a to i: a piece that is not over.
Collecting(flags, max, c, a, i) ==
    /\ a \in 1..(i + 1) /\ Positions(c, a, i) /\ Len(c) <= max
    /\ a <= i => AllPickable(flags, a, i) /\ IsCut(flags, max, a)
    /\ a = i + 1 => i = 0 \/ ~flags[i]

\* The buckets B are the pieces that end before a, in their order.
Settled(flags, min, max, B, a) ==
    /\ \A b \in DOMAIN B : \E q \in 1..(a - 1) : \E p \in 1..q :
          IsPiece(flags, min, max, p, q) /\ Positions(B[b], p, q)
    /\ \A b, d \in DOMAIN B : b < d => B[b][Len(B[b])] < B[d][1]
    /\ \A q \in 1..(a - 1) : \A p \in 1..q :
          IsPiece(flags, min, max, p, q) => \E b \in DOMAIN B : Positions(B[b], p, q)

\* The state acc of the loop after i of the n turns.
Scanned(flags, min, max, acc, i) ==
    /\ acc \in Held
    /\ \E a \in 1..(i + 1) :
          /\ Collecting(flags, max, acc.candidates, a, i)
          /\ Settled(flags, min, max, acc.buckets, a)

\* The ends of a sequence of positions.
LEMMA FirstAndLast ==
    ASSUME NEW x, NEW a \in Nat, NEW b \in Nat, a <= b, Positions(x, a, b)
    PROVE x[1] = a /\ x[Len(x)] = b /\ Len(x) \in Nat
<1> DEFINE n == Len(x)
<1>1. n = b - a + 1 /\ \A k \in 1..n : x[k] = a + k - 1
  BY Zenon DEF Positions
<1> HIDE DEF n
<1>2. n \in Nat /\ 1 \in 1..n /\ n \in 1..n
  BY <1>1
<1>3. x[1] = a + 1 - 1 /\ x[n] = a + n - 1
  BY <1>1, <1>2, Zenon
<1> QED
  BY <1>1, <1>2, <1>3 DEF n

\* A piece that ends between a cut a and i, where all is pickable and no more than
\* max, starts at a.
LEMMA PieceStartsAtCut ==
    ASSUME NEW flags, NEW min \in Nat, NEW max \in Nat \ {0}, NEW i \in Nat, NEW a \in 1..i,
           AllPickable(flags, a, i), IsCut(flags, max, a), i - a + 1 <= max,
           NEW q \in a..i, NEW p \in 1..q, IsPiece(flags, min, max, p, q)
    PROVE p = a
<1>1. PICK s \in 1..a : RunStart(flags, s) /\ AllPickable(flags, s, a) /\ (a - s) % max = 0
  BY Zenon DEF IsCut
<1>2. /\ q - p + 1 <= max /\ AllPickable(flags, p, q)
      /\ \E r \in 1..p : RunStart(flags, r) /\ AllPickable(flags, r, p) /\ (p - r) % max = 0
  BY DEF IsPiece, IsCut
<1>3. PICK r \in 1..p : RunStart(flags, r) /\ AllPickable(flags, r, p) /\ (p - r) % max = 0
  BY <1>2, Zenon
<1>4. \A k \in s..q : flags[k]
  BY <1>1 DEF AllPickable
<1>5. \A k \in r..q : flags[k]
  BY <1>2, <1>3 DEF AllPickable
<1>6. ~(s < r)
  BY <1>3, <1>4 DEF RunStart
<1>7. ~(r < s)
  BY <1>1, <1>5 DEF RunStart
<1>8. r = s
  BY <1>6, <1>7
<1>9. PICK x \in Nat : x = a - s /\ x % max = 0
  BY <1>1
<1>10. PICK y \in Nat : y = p - s /\ y % max = 0
  BY <1>3, <1>8
<1>11. x < y => x + max <= y
  BY <1>9, <1>10, MultiplesApart, Zenon
<1>12. y < x => y + max <= x
  BY <1>9, <1>10, MultiplesApart, Zenon
<1>13. q - p + 1 <= max /\ i - a + 1 <= max /\ p <= q /\ q <= i /\ a <= q
  BY <1>2
<1>14. x \in Nat /\ y \in Nat /\ x = a - s /\ y = p - s
  BY <1>9, <1>10, Zenon
<1> QED
  BY <1>11, <1>12, <1>13, <1>14

\* Such a piece goes on to i, unless i is not where it is cut or its run ends.
LEMMA PieceEndsAtCut ==
    ASSUME NEW flags, NEW min \in Nat, NEW max \in Nat \ {0}, NEW i \in Nat, NEW a \in 1..i,
           i <= Len(flags), Len(flags) \in Nat,
           AllPickable(flags, a, i), IsCut(flags, max, a), i - a + 1 <= max,
           NEW q \in a..i, NEW p \in 1..q, IsPiece(flags, min, max, p, q)
    PROVE p = a /\ q = i
<1>1. p = a
  BY PieceStartsAtCut, Zenon
<1>2. SUFFICES ASSUME q < i PROVE FALSE
  BY <1>1
<1>3. flags[q + 1]
  BY <1>2 DEF AllPickable
<1>4. ~RunEnd(flags, q)
  BY <1>2, <1>3 DEF RunEnd
<1>5. q - a + 1 = max
  BY <1>1, <1>4, Zenon DEF IsPiece
<1> QED
  BY <1>2, <1>5

\* Nothing ends between a and b: the same buckets.
LEMMA SettledLater ==
    ASSUME NEW flags, NEW min \in Nat, NEW max \in Nat, NEW B, NEW a \in Nat, NEW b \in Nat, a <= b,
           Settled(flags, min, max, B, a),
           \A q \in a..(b - 1) : \A p \in 1..q : ~IsPiece(flags, min, max, p, q)
    PROVE Settled(flags, min, max, B, b)
<1>1. 1..(a - 1) \subseteq 1..(b - 1) /\ \A q \in 1..(b - 1) : q \in 1..(a - 1) \/ q \in a..(b - 1)
  OBVIOUS
<1> QED
  BY <1>1, Zenon DEF Settled

\* One piece ends between a and b, and is emitted.
LEMMA SettledMore ==
    ASSUME NEW flags, NEW min \in Nat \ {0}, NEW max \in Nat, NEW B \in Seq(Seq(Nat)), NEW a \in Nat \ {0},
           NEW b \in Nat, Settled(flags, min, max, B, a),
           NEW i \in a..(b - 1), NEW c \in Seq(Nat), Positions(c, a, i), IsPiece(flags, min, max, a, i),
           \A q \in a..(b - 1) : \A p \in 1..q : IsPiece(flags, min, max, p, q) => p = a /\ q = i
    PROVE Settled(flags, min, max, Append(B, c), b)
<1> DEFINE n == Len(B)
           D == Append(B, c)
<1>1. /\ n \in Nat /\ DOMAIN B = 1..n /\ DOMAIN D = 1..(n + 1)
      /\ D[n + 1] = c /\ \A k \in 1..n : D[k] = B[k]
  OBVIOUS
<1>2. /\ 1..(a - 1) \subseteq 1..(b - 1) /\ i \in 1..(b - 1) /\ a \in 1..i
      /\ \A q \in 1..(b - 1) : q \in 1..(a - 1) \/ q \in a..(b - 1)
      /\ \A k \in 1..(n + 1) : k \in 1..n \/ k = n + 1
      /\ 1..n \subseteq 1..(n + 1) /\ n + 1 \in 1..(n + 1)
  BY <1>1
<1> HIDE DEF n, D
<1>3. ASSUME NEW k \in 1..(n + 1)
      PROVE \E q \in 1..(b - 1) : \E p \in 1..q :
               IsPiece(flags, min, max, p, q) /\ Positions(D[k], p, q)
  <2>1. CASE k = n + 1
    BY <1>1, <1>2, <2>1, Zenon
  <2>2. CASE k \in 1..n
    BY <1>1, <1>2, <2>2, Zenon DEF Settled
  <2> QED
    BY <1>2, <2>1, <2>2, Zenon
<1>4. c[1] = a
  BY FirstAndLast
<1>5. ASSUME NEW k \in 1..n PROVE B[k][Len(B[k])] < a
  <2>1. PICK q \in 1..(a - 1) : \E p \in 1..q :
               IsPiece(flags, min, max, p, q) /\ Positions(B[k], p, q)
    BY <1>1, Zenon DEF Settled
  <2>2. PICK p \in 1..q : IsPiece(flags, min, max, p, q) /\ Positions(B[k], p, q)
    BY <2>1, Zenon
  <2>3. B[k][Len(B[k])] = q
    BY <2>2, FirstAndLast, SMTT(30)
  <2> QED
    BY <2>3
<1>6. ASSUME NEW k \in 1..(n + 1), NEW d \in 1..(n + 1), k < d
      PROVE D[k][Len(D[k])] < D[d][1]
  <2>1. k \in 1..n /\ D[k] = B[k]
    BY <1>1, <1>6, SMTT(30)
  <2>2. CASE d = n + 1
    BY <1>1, <1>4, <1>5, <2>1, <2>2, Zenon
  <2>3. CASE d \in 1..n
    BY <1>1, <1>6, <2>1, <2>3, Zenon DEF Settled
  <2> QED
    BY <1>2, <2>2, <2>3, Zenon
<1>7. ASSUME NEW q \in 1..(b - 1), NEW p \in 1..q, IsPiece(flags, min, max, p, q)
      PROVE \E k \in 1..(n + 1) : Positions(D[k], p, q)
  <2>1. CASE q \in 1..(a - 1)
    BY <1>1, <1>2, <1>7, <2>1, Zenon DEF Settled
  <2>2. CASE q \in a..(b - 1)
    BY <1>1, <1>2, <1>7, <2>2, Zenon
  <2> QED
    BY <1>2, <2>1, <2>2, Zenon
<1>8. Settled(flags, min, max, D, b)
  BY <1>1, <1>3, <1>6, <1>7, Zenon DEF Settled
<1> QED
  BY <1>8, Zenon DEF D

\* What turn i makes of acc when the candidates grow and when they do not.
IsTurn(next, acc, flags, min, max, i) ==
    LET c == acc.candidates
        B == acc.buckets
        grows == c # <<>> /\ flags[i] /\ Len(c) < max
    IN /\ next \in Held
       /\ grows /\ i < Len(flags) => next.candidates = Append(c, i) /\ next.buckets = B
       /\ grows /\ ~(i < Len(flags)) =>
             next.buckets = IF Len(c) + 1 >= min THEN Append(B, Append(c, i)) ELSE B
       /\ ~grows => /\ next.candidates = IF flags[i] THEN <<i>> ELSE <<>>
                    /\ next.buckets = IF Len(c) >= min THEN Append(B, c) ELSE B

\* PickStep is such a turn.
LEMMA PickStepIsTurn ==
    ASSUME NEW flags, NEW min \in Nat, NEW max \in Nat, Len(flags) \in Nat,
           NEW i \in Nat, NEW acc \in Held
    PROVE IsTurn(PickStep(acc, i, flags, min, max), acc, flags, min, max, i)
<1> DEFINE c == acc.candidates
           B == acc.buckets
           grows == c # <<>> /\ flags[i] /\ Len(c) < max
           next == PickStep(acc, i, flags, min, max)
<1>1. /\ c \in Seq(Nat) /\ B \in Seq(Seq(Nat)) /\ acc = [candidates |-> c, buckets |-> B]
      /\ Len(c) \in Nat /\ <<>> \in Seq(Nat) /\ <<i>> \in Seq(Nat)
  BY DEF Held
<1>2. Append(c, i) \in Seq(Nat) /\ Len(Append(c, i)) = Len(c) + 1
  BY <1>1
<1>3. Append(B, c) \in Seq(Seq(Nat)) /\ Append(B, Append(c, i)) \in Seq(Seq(Nat))
  <2> HIDE DEF c, B
  <2> QED
    BY <1>1, <1>2
<1>4. CASE grows /\ i < Len(flags)
  <2>1. next = [acc EXCEPT !.candidates = Append(c, i)]
    BY <1>4, Zenon DEF PickStep
  <2>2. next = [candidates |-> Append(c, i), buckets |-> B]
    BY <1>1, <2>1, Zenon
  <2> QED
    BY <1>1, <1>2, <1>4, <2>2 DEF Held, IsTurn
<1>5. CASE grows /\ ~(i < Len(flags))
  <2> DEFINE emits == Len(c) + 1 >= min
  <2>1. next = [candidates |-> IF flags[i] /\ ~emits THEN <<i>> ELSE <<>>,
                buckets |-> IF emits THEN Append(B, Append(c, i)) ELSE B]
    BY <1>2, <1>5, Zenon DEF PickStep
  <2> QED
    BY <1>1, <1>3, <1>5, <2>1 DEF Held, IsTurn
<1>6. CASE ~grows
  <2>1. next = [candidates |-> IF flags[i] THEN <<i>> ELSE <<>>,
                buckets |-> IF Len(c) >= min THEN Append(B, c) ELSE B]
    BY <1>6, Zenon DEF PickStep
  <2> QED
    BY <1>1, <1>3, <1>6, <2>1 DEF Held, IsTurn
<1> QED
  BY <1>4, <1>5, <1>6, Zenon

\* Where a run starts there is a cut.
LEMMA CutAtRunStart ==
    ASSUME NEW flags, NEW max \in Nat \ {0}, NEW i \in Nat \ {0}, flags[i], i = 1 \/ ~flags[i - 1]
    PROVE IsCut(flags, max, i)
<1>1. (i - i) % max = 0
  <2>1. i - i = 0
    OBVIOUS
  <2> QED
    BY <2>1, Multiples, Zenon
<1>2. i \in 1..i /\ RunStart(flags, i) /\ AllPickable(flags, i, i)
  BY DEF RunStart, AllPickable
<1> QED
  BY <1>1, <1>2, Zenon DEF IsCut

\* The next cut is max places after a cut, if the run goes on.
LEMMA CutAfterFull ==
    ASSUME NEW flags, NEW max \in Nat \ {0}, NEW i \in Nat, NEW a \in 1..i, IsCut(flags, max, a),
           AllPickable(flags, a, i), i - a + 1 = max, flags[i + 1]
    PROVE IsCut(flags, max, i + 1)
<1>1. PICK s \in 1..a : RunStart(flags, s) /\ AllPickable(flags, s, a) /\ (a - s) % max = 0
  BY Zenon DEF IsCut
<1>2. PICK x \in Nat : x = a - s /\ x % max = 0
  BY <1>1
<1>3. (x + max) % max = 0
  BY <1>2, Multiples, Zenon
<1>4. (i + 1) - s = x + max
  BY <1>2
<1>5. AllPickable(flags, s, i + 1)
  BY <1>1 DEF AllPickable
<1> QED
  BY <1>1, <1>3, <1>4, <1>5 DEF IsCut

\* The candidates are emitted where they cannot grow: exactly when they are a piece.
LEMMA EmitsPieces ==
    ASSUME NEW flags, Len(flags) \in Nat, NEW min \in Nat \ {0}, NEW max \in Nat \ {0},
           NEW B \in Seq(Seq(Nat)), NEW c \in Seq(Nat), NEW i \in Nat, NEW a \in 1..i, i <= Len(flags),
           Positions(c, a, i), Len(c) <= max, AllPickable(flags, a, i), IsCut(flags, max, a),
           Len(c) = max \/ RunEnd(flags, i), Settled(flags, min, max, B, a)
    PROVE Settled(flags, min, max, IF Len(c) >= min THEN Append(B, c) ELSE B, i + 1)
<1>1. Len(c) = i - a + 1
  BY Zenon DEF Positions
<1>2. \A q \in a..((i + 1) - 1) : \A p \in 1..q : IsPiece(flags, min, max, p, q) => p = a /\ q = i
  BY <1>1, PieceEndsAtCut, SMTT(30)
<1>3. CASE Len(c) >= min
  <2>1. IsPiece(flags, min, max, a, i)
    BY <1>1, <1>3 DEF IsPiece
  <2> QED
    BY <1>2, <1>3, <2>1, SettledMore
<1>4. CASE ~(Len(c) >= min)
  <2>1. ~IsPiece(flags, min, max, a, i)
    BY <1>1, <1>4 DEF IsPiece
  <2>2. \A q \in a..((i + 1) - 1) : \A p \in 1..q : ~IsPiece(flags, min, max, p, q)
    BY <1>2, <2>1, Zenon
  <2> QED
    BY <1>4, <2>2, SettledLater
<1> QED
  BY <1>3, <1>4, Zenon

\* When place i + 1 does not join the candidates, all pieces up to i are emitted,
\* and i + 1 is a cut if it can be picked.
LEMMA Restarts ==
    ASSUME NEW flags, Len(flags) \in Nat, NEW min \in Nat \ {0}, NEW max \in Nat \ {0},
           NEW B \in Seq(Seq(Nat)), NEW c \in Seq(Nat), NEW i \in Nat, NEW a \in 1..(i + 1),
           i < Len(flags), Collecting(flags, max, c, a, i), Settled(flags, min, max, B, a),
           ~(c # <<>> /\ flags[i + 1] /\ Len(c) < max)
    PROVE /\ Settled(flags, min, max, IF Len(c) >= min THEN Append(B, c) ELSE B, i + 1)
          /\ flags[i + 1] => IsCut(flags, max, i + 1)
<1>1. Positions(c, a, i) /\ Len(c) <= max /\ Len(c) = i - a + 1
  BY Zenon DEF Collecting, Positions
<1>2. CASE a = i + 1
  <2>1. i = 0 \/ ~flags[i]
    BY <1>2, Zenon DEF Collecting
  <2>2. ~(Len(c) >= min)
    BY <1>1, <1>2
  <2>3. flags[i + 1] => IsCut(flags, max, i + 1)
    BY <2>1, CutAtRunStart
  <2> QED
    BY <1>2, <2>2, <2>3, Zenon
<1>3. CASE a \in 1..i
  <2>1. AllPickable(flags, a, i) /\ IsCut(flags, max, a)
    BY <1>3 DEF Collecting
  <2>2. c # <<>>
    BY <1>1, <1>3
  <2>3. flags[i + 1] => i - a + 1 = max /\ Len(c) = max
    BY <1>1, <2>2
  <2>4. ~flags[i + 1] => RunEnd(flags, i)
    BY <1>3, <2>1 DEF RunEnd, AllPickable
  <2>5. flags[i + 1] => IsCut(flags, max, i + 1)
    BY <1>3, <2>1, <2>3, CutAfterFull, Zenon
  <2>6. Settled(flags, min, max, IF Len(c) >= min THEN Append(B, c) ELSE B, i + 1)
    <3>1. Len(c) = max \/ RunEnd(flags, i)
      BY <2>3, <2>4, Zenon
    <3>2. i <= Len(flags)
      OBVIOUS
    <3> QED
      BY <1>1, <1>3, <2>1, <3>1, <3>2, EmitsPieces, Zenon
  <2> QED
    BY <2>5, <2>6, Zenon
<1> QED
  BY <1>2, <1>3

\* Another place joins the candidates.
LEMMA AppendPosition ==
    ASSUME NEW c \in Seq(Nat), NEW i \in Nat, NEW a \in 1..(i + 1), Positions(c, a, i)
    PROVE /\ Append(c, i + 1) \in Seq(Nat) /\ Len(Append(c, i + 1)) = Len(c) + 1
          /\ Positions(Append(c, i + 1), a, i + 1)
<1> DEFINE d == Append(c, i + 1)
           m == Len(c)
<1>1. /\ d \in Seq(Nat) /\ Len(d) = m + 1 /\ d[m + 1] = i + 1
      /\ \A k \in 1..m : d[k] = c[k]
  OBVIOUS
<1>2. m = i - a + 1 /\ \A k \in 1..m : c[k] = a + k - 1
  BY Zenon DEF Positions
<1> HIDE DEF d, m
<1>3. m \in Nat /\ m + 1 = (i + 1) - a + 1
  BY <1>2
<1>4. ASSUME NEW k \in 1..(m + 1) PROVE d[k] = a + k - 1
  <2>1. CASE k = m + 1
    BY <1>1, <1>2, <2>1
  <2>2. CASE k \in 1..m
    BY <1>1, <1>2, <2>2, Zenon
  <2> QED
    BY <1>3, <2>1, <2>2
<1>5. Positions(d, a, i + 1)
  BY <1>1, <1>3, <1>4, Zenon DEF Positions
<1> QED
  BY <1>1, <1>5, Zenon DEF d, m

\* A turn inside the level keeps the invariant of the loop.
LEMMA ScanStep ==
    ASSUME NEW flags, Len(flags) \in Nat, NEW min \in Nat \ {0}, NEW max \in Nat \ {0},
           NEW i \in Nat, i + 1 < Len(flags), NEW acc, Scanned(flags, min, max, acc, i)
    PROVE Scanned(flags, min, max, PickStep(acc, i + 1, flags, min, max), i + 1)
<1> DEFINE next == PickStep(acc, i + 1, flags, min, max)
           c == acc.candidates
           B == acc.buckets
           grows == c # <<>> /\ flags[i + 1] /\ Len(c) < max
<1>1. acc \in Held
  BY Zenon DEF Scanned
<1>2. PICK a \in 1..(i + 1) : Collecting(flags, max, c, a, i) /\ Settled(flags, min, max, B, a)
  BY Zenon DEF Scanned
<1>3. c \in Seq(Nat) /\ B \in Seq(Seq(Nat)) /\ Len(c) \in Nat
  BY <1>1 DEF Held
<1>4. /\ next \in Held
      /\ grows => next.candidates = Append(c, i + 1) /\ next.buckets = B
      /\ ~grows => /\ next.candidates = IF flags[i + 1] THEN <<i + 1>> ELSE <<>>
                   /\ next.buckets = IF Len(c) >= min THEN Append(B, c) ELSE B
  <2>1. IsTurn(next, acc, flags, min, max, i + 1)
    BY <1>1, PickStepIsTurn
  <2> HIDE DEF next
  <2> QED
    BY <2>1, Zenon DEF IsTurn
<1>0. SUFFICES Scanned(flags, min, max, next, i + 1)
  BY Zenon
<1> HIDE DEF next, c, B
<1>5. CASE grows
  <2> DEFINE d == Append(c, i + 1)
  <2>1. Positions(c, a, i) /\ Len(c) = i - a + 1
    BY <1>2, Zenon DEF Collecting, Positions
  <2>2. Positions(d, a, i + 1) /\ Len(d) = Len(c) + 1 /\ d \in Seq(Nat)
    BY <1>3, <2>1, AppendPosition, Zenon
  <2> HIDE DEF d
  <2>3. Len(d) <= max
    BY <1>3, <1>5, <2>2
  <2>4. a <= i
    BY <1>3, <1>5, <2>1
  <2>5. AllPickable(flags, a, i + 1) /\ IsCut(flags, max, a)
    BY <1>2, <1>5, <2>4 DEF Collecting, AllPickable
  <2>6. Collecting(flags, max, d, a, i + 1) /\ a \in 1..((i + 1) + 1)
    BY <2>2, <2>3, <2>4, <2>5 DEF Collecting
  <2> QED
    BY <1>2, <1>4, <1>5, <2>6, Zenon DEF Scanned, d
<1>6. CASE ~grows
  <2>1. /\ Settled(flags, min, max, next.buckets, i + 1)
        /\ flags[i + 1] => IsCut(flags, max, i + 1)
    BY <1>2, <1>3, <1>4, <1>6, Restarts, SMTT(30)
  <2>2. CASE flags[i + 1]
    <3>1. Positions(<<i + 1>>, i + 1, i + 1) /\ Len(<<i + 1>>) <= max
      BY DEF Positions
    <3>2. AllPickable(flags, i + 1, i + 1)
      BY <2>2 DEF AllPickable
    <3>3. Collecting(flags, max, <<i + 1>>, i + 1, i + 1)
      BY <2>1, <2>2, <3>1, <3>2 DEF Collecting
    <3> QED
      BY <1>4, <1>6, <2>1, <2>2, <3>3, SMTT(30) DEF Scanned
  <2>3. CASE ~flags[i + 1]
    <3>1. Positions(<<>>, (i + 1) + 1, i + 1) /\ Len(<<>>) <= max
      BY DEF Positions
    <3>2. Collecting(flags, max, <<>>, (i + 1) + 1, i + 1)
      BY <2>3, <3>1 DEF Collecting
    <3>3. \A q \in (i + 1)..(((i + 1) + 1) - 1) : \A p \in 1..q : ~IsPiece(flags, min, max, p, q)
      BY <2>3 DEF IsPiece, AllPickable
    <3>4. Settled(flags, min, max, next.buckets, (i + 1) + 1)
      BY <2>1, <3>3, SettledLater
    <3> QED
      BY <1>4, <1>6, <2>3, <3>2, <3>4 DEF Scanned
  <2> QED
    BY <2>2, <2>3, Zenon
<1> QED
  BY <1>5, <1>6, Zenon

\* The last turn emits the last piece.
LEMMA ScanEnd ==
    ASSUME NEW flags, Len(flags) \in Nat, NEW min \in Nat \ {0, 1}, NEW max \in Nat \ {0},
           NEW i \in Nat, i < Len(flags), ~(i + 1 < Len(flags)), NEW acc, Scanned(flags, min, max, acc, i)
    PROVE LET next == PickStep(acc, i + 1, flags, min, max) IN
          next \in Held /\ Settled(flags, min, max, next.buckets, (i + 1) + 1)
<1> DEFINE next == PickStep(acc, i + 1, flags, min, max)
           c == acc.candidates
           B == acc.buckets
           n == i + 1
           grows == c # <<>> /\ flags[i + 1] /\ Len(c) < max
<1>1. acc \in Held
  BY Zenon DEF Scanned
<1>2. PICK a \in 1..(i + 1) : Collecting(flags, max, c, a, i) /\ Settled(flags, min, max, B, a)
  BY Zenon DEF Scanned
<1>3. c \in Seq(Nat) /\ B \in Seq(Seq(Nat)) /\ Len(c) \in Nat
  BY <1>1 DEF Held
<1>4. /\ next \in Held
      /\ grows => next.buckets = IF Len(c) + 1 >= min THEN Append(B, Append(c, i + 1)) ELSE B
      /\ ~grows => next.buckets = IF Len(c) >= min THEN Append(B, c) ELSE B
  <2>1. IsTurn(next, acc, flags, min, max, i + 1)
    BY <1>1, PickStepIsTurn
  <2> HIDE DEF next
  <2> QED
    BY <2>1, Zenon DEF IsTurn
<1> HIDE DEF next, c, B
<1>5. CASE grows
  <2> DEFINE d == Append(c, i + 1)
  <2>1. Positions(c, a, i) /\ Len(c) = i - a + 1
    BY <1>2, Zenon DEF Collecting, Positions
  <2>2. Positions(d, a, i + 1) /\ Len(d) = Len(c) + 1 /\ d \in Seq(Nat)
    BY <1>3, <2>1, AppendPosition, Zenon
  <2> HIDE DEF d
  <2>3. Len(d) <= max
    BY <1>3, <1>5, <2>2
  <2>4. a <= i
    BY <1>3, <1>5, <2>1
  <2>5. AllPickable(flags, a, i + 1) /\ IsCut(flags, max, a)
    BY <1>2, <1>5, <2>4 DEF Collecting, AllPickable
  <2>6. RunEnd(flags, i + 1)
    BY <1>5 DEF RunEnd
  <2>7. a \in 1..(i + 1) /\ i + 1 \in Nat /\ i + 1 <= Len(flags)
    OBVIOUS
  <2>8. Settled(flags, min, max, IF Len(d) >= min THEN Append(B, d) ELSE B, (i + 1) + 1)
    BY <1>2, <1>3, <2>2, <2>3, <2>5, <2>6, <2>7, EmitsPieces, Zenon
  <2> QED
    BY <1>4, <1>5, <2>2, <2>8, Zenon DEF d, next
<1>6. CASE ~grows
  <2>1. /\ Settled(flags, min, max, next.buckets, i + 1)
        /\ flags[i + 1] => IsCut(flags, max, i + 1)
    BY <1>2, <1>3, <1>4, <1>6, Restarts, Zenon
  <2>2. ASSUME NEW q \in (i + 1)..(((i + 1) + 1) - 1), NEW p \in 1..q, IsPiece(flags, min, max, p, q)
        PROVE FALSE
    <3>1. q = i + 1
      OBVIOUS
    <3>2. flags[i + 1]
      BY <2>2, <3>1 DEF IsPiece, AllPickable
    <3>3. AllPickable(flags, i + 1, i + 1)
      BY <3>2 DEF AllPickable
    <3>4. p = i + 1
      BY <2>1, <2>2, <3>1, <3>2, <3>3, PieceStartsAtCut
    <3> QED
      BY <2>2, <3>1, <3>4 DEF IsPiece
  <2>3. Settled(flags, min, max, next.buckets, (i + 1) + 1)
    BY <2>1, <2>2, SettledLater
  <2> QED
    BY <1>4, <2>3, Zenon DEF next
<1> QED
  BY <1>5, <1>6, Zenon

\* The loop ends with the pieces of the level, whatever the flags and the widths are.
LEMMA PicksThePieces ==
    ASSUME NEW flags, Len(flags) \in Nat, NEW min \in Nat \ {0, 1}, NEW max \in Nat \ {0}
    PROVE /\ PickBuckets(flags, min, max) \in Seq(Seq(Nat))
          /\ Settled(flags, min, max, PickBuckets(flags, min, max), Len(flags) + 1)
<1> DEFINE n == Len(flags)
           G(x, i) == PickStep(x, i, flags, min, max)
           F == [p \in Held \X (1..n) |-> G(p[1], p[2])]
           Rec(g) == [i \in 0..n |-> IF i = 0 THEN NothingPicked ELSE G(g[i - 1], i)]
           h == CHOOSE g : g = Rec(g)
<1>1. NothingPicked \in Held
  BY DEF NothingPicked, Held
<1>2. ASSUME NEW x \in Held, NEW i \in 1..n PROVE G(x, i) \in Held
  <2>1. IsTurn(G(x, i), x, flags, min, max, i)
    BY PickStepIsTurn
  <2> QED
    BY <2>1, Zenon DEF IsTurn
<1>3. \E g : g = Rec(g)
  <2> HIDE DEF G, n
  <2>1. IsStep(F, Held, n) /\ \A x \in Held : \A i \in 1..n : F[<<x, i>>] = G(x, i)
    BY <1>2, Zenon DEF IsStep
  <2> HIDE DEF F
  <2>2. PICK g : IsIteration(g, F, Held, n, NothingPicked)
    BY <1>1, <2>1, Iterate, Zenon DEF n
  <2>3. /\ g \in [0..n -> Held] /\ g[0] = NothingPicked
        /\ \A i \in 1..n : g[i] = F[<<g[i - 1], i>>]
    BY <2>2, Zenon DEF IsIteration
  <2>4. \A i \in 0..n : i = 0 \/ (i \in 1..n /\ i - 1 \in 0..n /\ i # 0)
    BY DEF n
  <2>5. ASSUME NEW i \in 0..n PROVE g[i] = IF i = 0 THEN NothingPicked ELSE G(g[i - 1], i)
    BY <2>1, <2>3, <2>4, Zenon
  <2> QED
    BY <2>3, <2>5, ZenonT(60)
<1>4. h = Rec(h)
  BY <1>3, Zenon
<1>5. PickBuckets(flags, min, max) = IF n < min THEN <<>> ELSE h[n].buckets
  BY Zenon DEF PickBuckets
<1> HIDE DEF h
<1>6. h[0] = NothingPicked /\ \A i \in 0..(n - 1) : h[i + 1] = G(h[i], i + 1)
  <2>1. 0 \in 0..n /\ \A i \in 0..(n - 1) : i + 1 \in 0..n /\ i + 1 # 0 /\ (i + 1) - 1 = i
    OBVIOUS
  <2> HIDE DEF G, n
  <2> QED
    BY <1>4, <2>1, ZenonT(60)
<1>7. CASE n < min
  <2>1. Settled(flags, min, max, <<>>, 0)
    BY DEF Settled
  <2>2. \A q \in 0..((n + 1) - 1) : \A p \in 1..q : ~IsPiece(flags, min, max, p, q)
    BY <1>7 DEF IsPiece
  <2>3. Settled(flags, min, max, <<>>, n + 1)
    BY <2>1, <2>2, SettledLater
  <2> QED
    BY <1>5, <1>7, <2>3
<1>8. CASE ~(n < min)
  <2>0. PICK m \in Nat : m = n - 1
    BY <1>8
  <2> DEFINE P == {i \in 0..m : Scanned(flags, min, max, h[i], i)}
  <2>1. 0 \in P
    <3>1. Positions(<<>>, 1, 0)
      BY DEF Positions
    <3>2. Collecting(flags, max, <<>>, 1, 0)
      BY <3>1 DEF Collecting
    <3>3. Settled(flags, min, max, <<>>, 1)
      BY DEF Settled
    <3>4. Scanned(flags, min, max, NothingPicked, 0)
      BY <1>1, <3>2, <3>3 DEF Scanned, NothingPicked
    <3> QED
      BY <1>6, <2>0, <3>4
  <2>2. ASSUME NEW i \in 0..(m - 1), i \in P PROVE i + 1 \in P
    <3>1. i \in Nat /\ i + 1 < n /\ i + 1 \in 0..m /\ i \in 0..(n - 1)
      BY <2>0
    <3>2. Scanned(flags, min, max, G(h[i], i + 1), i + 1)
      BY <2>2, <3>1, ScanStep, Zenon
    <3>3. h[i + 1] = G(h[i], i + 1)
      BY <1>6, <3>1, Zenon
    <3> HIDE DEF G
    <3> QED
      BY <3>1, <3>2, <3>3, Zenon
  <2> HIDE DEF P
  <2>3. \A i \in 0..m : i \in P
    BY <2>1, <2>2, SetInduction, Zenon
  <2>4. m \in 0..m
    OBVIOUS
  <2>5. Scanned(flags, min, max, h[m], m) /\ m < n /\ ~(m + 1 < n) /\ m \in 0..(n - 1)
    BY <2>0, <2>3, <2>4 DEF P
  <2>6. G(h[m], m + 1) \in Held /\ Settled(flags, min, max, G(h[m], m + 1).buckets, (m + 1) + 1)
    BY <2>5, ScanEnd, Zenon
  <2>7. h[n] = G(h[m], m + 1) /\ (m + 1) + 1 = n + 1
    BY <1>6, <2>0, <2>5
  <2> HIDE DEF G
  <2>8. h[n] \in Held /\ Settled(flags, min, max, h[n].buckets, n + 1)
    BY <2>6, <2>7, Zenon
  <2>9. h[n].buckets \in Seq(Seq(Nat))
    BY <2>8, Zenon DEF Held
  <2> QED
    BY <1>5, <1>8, <2>8, <2>9, Zenon
<1> QED
  BY <1>7, <1>8, Zenon

\* Between two places of a run, a place before a piece is in a piece too.
LEMMA PiecesCover ==
    ASSUME NEW flags, NEW min \in Nat, NEW max \in Nat \ {0}, NEW q \in Nat, NEW p \in 1..q,
           IsPiece(flags, min, max, p, q), NEW j \in p..q, NEW i \in 1..j, AllPickable(flags, i, j)
    PROVE \E e \in 1..q : \E d \in 1..e : IsPiece(flags, min, max, d, e) /\ i \in d..e
<1>1. CASE i >= p
  BY <1>1
<1>2. CASE i < p
  <2>1. PICK s \in 1..p : RunStart(flags, s) /\ AllPickable(flags, s, p) /\ (p - s) % max = 0
    BY Zenon DEF IsPiece, IsCut
  <2>2. s <= i
    BY <1>2, <2>1 DEF RunStart, AllPickable
  <2>3. PICK x \in Nat : x = i - s
    BY <2>2
  <2>4. PICK z \in Nat : z % max = 0 /\ z <= x /\ x < z + max
    BY Multiples, Zenon
  <2>5. PICK y \in Nat : y = p - s /\ y % max = 0
    BY <2>1
  <2>6. z + max <= y
    <3>1. z < y
      BY <1>2, <2>3, <2>4, <2>5
    <3> QED
      BY <2>4, <2>5, <3>1, MultiplesApart, ZenonT(60)
  <2> DEFINE d == s + z
             e == s + z + max - 1
  <2>7. d \in 1..e /\ e \in 1..(p - 1) /\ i \in d..e /\ s \in 1..d /\ e - d + 1 = max
    BY <2>1, <2>3, <2>4, <2>5, <2>6
  <2>8. (d - s) % max = 0
    <3>1. d - s = z
      OBVIOUS
    <3> QED
      BY <2>4, <3>1, Zenon
  <2> HIDE DEF d, e
  <2>9. AllPickable(flags, d, e) /\ AllPickable(flags, s, d)
    BY <2>1, <2>7 DEF AllPickable
  <2>10. max \in min..max
    BY DEF IsPiece
  <2>11. IsPiece(flags, min, max, d, e)
    BY <2>1, <2>7, <2>8, <2>9, <2>10, Zenon DEF IsPiece, IsCut
  <2> QED
    BY <2>7, <2>11
<1> QED
  BY <1>1, <1>2

-----------------------------------------------------------------------------
(* The inductive invariant *)

\* The fields of a task.
IsTask(r) == r = [inputs |-> r.inputs, discard |-> r.discard, first |-> r.first, pc |-> r.pc]

\* The variables have the shape that EXCEPT and the sequence operators need.
Shape ==
    /\ levels = [l \in Levels |-> levels[l]] /\ tasks = [l \in Levels |-> tasks[l]]
    /\ \A l \in Levels : IsSeq(levels[l]) /\ IsSeq(tasks[l])
    /\ \A l \in Levels : \A t \in DOMAIN tasks[l] : IsTask(tasks[l][t])
    /\ turn \in [Levels -> Nat] /\ flushed \in Nat /\ collected \subseteq 1..flushed

\* SSTs hold flushes that happened, and no two SSTs share one.
Disjoint ==
    \A l, m \in Levels : \A i \in DOMAIN levels[l] : \A j \in DOMAIN levels[m] :
        /\ levels[l][i] # {} /\ levels[l][i] \subseteq 1..flushed
        /\ levels[l][i] \cap levels[m][j] # {} => l = m /\ i = j

\* No flush is lost.
Complete == \A f \in 1..flushed : \E l \in Levels : \E i \in DOMAIN levels[l] : f \in levels[l][i]

\* What was picked is in the levels, by itself or as a part of a merged SST: no
\* output of a merge is taken for an SST that was picked.
Covered ==
    /\ errored \subseteq picked
    /\ \A p \in picked : \E l \in Levels : \E i \in DOMAIN levels[l] : p \subseteq levels[l][i]

\* The tasks of level l that did not commit.
Open(l) == {t \in DOMAIN tasks[l] : t > turn[l]}

\* The inputs of a task are two SSTs or more that no other task has.
InputsApart ==
    \A l \in Levels : \A t \in DOMAIN tasks[l] :
        /\ tasks[l][t].inputs \subseteq picked
        /\ \E a, b \in tasks[l][t].inputs : a # b
        /\ \A u \in DOMAIN tasks[l] : tasks[l][t].inputs \cap tasks[l][u].inputs # {} => t = u

\* The SSTs of level l that are picked are the inputs of its open tasks; they are
\* the oldest places of the level, in the order of the chain.
Queue(l) ==
    /\ turn[l] \in 0..Len(tasks[l])
    /\ \A t \in Open(l) : tasks[l][t].inputs \subseteq {levels[l][i] : i \in DOMAIN levels[l]}
    /\ \A i \in DOMAIN levels[l] :
          levels[l][i] \in picked => \E t \in Open(l) : levels[l][i] \in tasks[l][t].inputs
    /\ \A j \in DOMAIN levels[l] : \A u \in Open(l) : levels[l][j] \in tasks[l][u].inputs =>
          \A i \in 1..j : \E t \in Open(l) : t <= u /\ levels[l][i] \in tasks[l][t].inputs

\* Level l is what the worker copied, without SSTs that were picked from its front,
\* and followed by SSTs that nobody picked.
SnapshotFits(l) ==
    LET old == snapshot[1][l] IN
    IsSeq(old) /\ \E d \in 0..Len(old) :
       /\ \A i \in 1..d : old[i] \in picked
       /\ Len(old) - d <= Len(levels[l])
       /\ \A q \in DOMAIN levels[l] : IF q + d <= Len(old) THEN levels[l][q] = old[q + d]
                                                           ELSE levels[l][q] \notin picked

\* All that a holds is newer than all that b holds.
Newer(a, b) == \A f \in a : \A g \in b : f > g

\* Every SST of a level is newer than every SST of the levels below.
LevelsByAge ==
    \A l, m \in Levels : \A i \in DOMAIN levels[l] : \A j \in DOMAIN levels[m] :
        l < m => Newer(levels[l][i], levels[m][j])

\* The SSTs of a level are sorted by age, except on the last level once it was
\* merged into itself.
SortedByAge ==
    \A l \in Levels : \A i, j \in DOMAIN levels[l] :
        i > j /\ (l = LastLevel => tasks[l] = <<>>) => Newer(levels[l][i], levels[l][j])

\* Only the first merge into the last level drops tombstones.
FirstDiscards ==
    /\ \A l \in Levels : tasks[l] # <<>> => TargetLevel(l) \in created
    /\ turn[LastLevel - 1] = 0 => levels[LastLevel] = <<>>
    /\ \A l \in Levels : \A t \in DOMAIN tasks[l] :
          tasks[l][t].discard => l = LastLevel - 1 /\ t = 1

Inv ==
    /\ Shape /\ Disjoint /\ Complete /\ Covered /\ InputsApart
    /\ \A l \in Levels : Queue(l)
    /\ snapshot = <<>> \/ \A l \in Levels : SnapshotFits(l)
    /\ LevelsByAge /\ SortedByAge /\ FirstDiscards /\ NoResurrection

-----------------------------------------------------------------------------
(* Erase, and updates of levels and tasks *)

\* X is what the first c places of s hold.
IsFront(s, X, c) ==
    /\ c \in 0..Len(s)
    /\ \A i \in 1..c : s[i] \in X
    /\ \A i \in (c + 1)..Len(s) : s[i] \notin X

\* t is s without its first c places.
IsRest(t, s, c) == IsSeq(t) /\ Len(t) = Len(s) - c /\ \A q \in 1..(Len(s) - c) : t[q] = s[q + c]

\* When every place before one of X is one of X, X is a front of s.
LEMMA FrontExists ==
    ASSUME NEW s, IsSeq(s), NEW X, \A j \in 1..Len(s) : s[j] \in X => \A i \in 1..j : s[i] \in X
    PROVE \E c : IsFront(s, X, c)
<1> DEFINE n == Len(s)
           T == {k \in 0..n : \A i \in (k + 1)..n : s[i] \notin X}
<1>1. n \in Nat
  BY SeqDomain, Zenon
<1>2. T \subseteq Nat /\ n \in T
  BY <1>1
<1>3. PICK c \in T : \A k \in T : c <= k
  <2> HIDE DEF T
  <2> QED
    BY <1>2, Least, Zenon
<1>4. c = 0 \/ s[c] \in X
  <2>1. SUFFICES ASSUME c # 0, s[c] \notin X PROVE FALSE
    BY Zenon
  <2>2. c - 1 \in 0..n
    BY <1>1, <2>1
  <2>3. \A i \in ((c - 1) + 1)..n : s[i] \notin X
    BY <1>1, <2>1
  <2>4. c - 1 \in T
    BY <2>2, <2>3, Zenon
  <2>5. c <= c - 1
    BY <1>3, <2>4, Zenon
  <2>6. c \in Nat
    BY <1>2, Zenon
  <2> QED
    BY <2>5, <2>6
<1>5. c = 0 \/ c \in 1..n
  BY <1>1
<1>6. \A i \in 1..c : s[i] \in X
  BY <1>4, <1>5
<1> QED
  BY <1>6, Zenon DEF IsFront

\* Erasing a front leaves the rest.
LEMMA EraseFront ==
    ASSUME NEW s, IsSeq(s), NEW X, NEW c, IsFront(s, X, c)
    PROVE IsRest(Erase(s, X), s, c)
<1> DEFINE n == Len(s)
           S == Seq({s[i] : i \in DOMAIN s})
           G(x, i) == IF s[i] \in X THEN x ELSE Append(x, s[i])
           F == [p \in S \X (1..n) |-> G(p[1], p[2])]
           Rec(g) == [i \in 0..n |-> IF i = 0 THEN <<>> ELSE G(g[i - 1], i)]
           h == CHOOSE g : g = Rec(g)
<1>1. n \in Nat /\ DOMAIN s = 1..n /\ c \in 0..n
  BY SeqDomain, Zenon DEF IsFront
<1>2. \E g : g = Rec(g)
  <2>1. <<>> \in S
    OBVIOUS
  <2>2. \A x \in S : \A i \in 1..n : G(x, i) \in S
    BY <1>1, SMTT(30)
  <2>3. IsStep(F, S, n) /\ \A x \in S : \A i \in 1..n : F[<<x, i>>] = G(x, i)
    <3> HIDE DEF S
    <3> QED
      BY <2>2, Zenon DEF IsStep
  <2> DEFINE b == <<>>
  <2>4. b \in S /\ b = <<>>
    BY <2>1, Zenon
  <2> HIDE DEF S, F, G, n, b
  <2>5. PICK g : IsIteration(g, F, S, n, b)
    BY <1>1, <2>4, <2>3, Iterate, Zenon
  <2>6. /\ g \in [0..n -> S] /\ g[0] = b
        /\ \A i \in 1..n : g[i] = F[<<g[i - 1], i>>]
    BY <2>5, Zenon DEF IsIteration
  <2>7. \A i \in 0..n : i = 0 \/ (i \in 1..n /\ i - 1 \in 0..n /\ i # 0)
    BY <1>1
  <2>8. ASSUME NEW i \in 0..n PROVE g[i] = IF i = 0 THEN <<>> ELSE G(g[i - 1], i)
    BY <2>4, <2>3, <2>6, <2>7, ZenonT(60)
  <2> QED
    BY <2>6, <2>8, ZenonT(60)
<1>3. h = Rec(h)
  BY <1>2, Zenon
<1>4. Erase(s, X) = h[n]
  BY Zenon DEF Erase
<1> HIDE DEF h
<1>5. h[0] = <<>> /\ \A i \in 0..(n - 1) : h[i + 1] = G(h[i], i + 1)
  <2>1. 0 \in 0..n /\ \A i \in 0..(n - 1) : i + 1 \in 0..n /\ i + 1 # 0 /\ (i + 1) - 1 = i
    BY <1>1
  <2> HIDE DEF G, n
  <2> QED
    BY <1>3, <2>1, ZenonT(60)
<1> DEFINE Kept(t, i) == /\ IsSeq(t)
                         /\ Len(t) = IF i <= c THEN 0 ELSE i - c
                         /\ \A q \in 1..Len(t) : t[q] = s[q + c]
           P == {i \in 0..n : Kept(h[i], i)}
<1>6. 0 \in P
  <2>1. IsSeq(<<>>) /\ Len(<<>>) = 0
    BY DEF IsSeq
  <2> QED
    BY <1>1, <1>5, <2>1
<1>7. ASSUME NEW i \in 0..(n - 1), i \in P PROVE i + 1 \in P
  <2>1. Kept(h[i], i) /\ i \in Nat /\ i + 1 \in 0..n
    BY <1>1, <1>7, SMTT(30)
  <2>2. h[i + 1] = IF s[i + 1] \in X THEN h[i] ELSE Append(h[i], s[i + 1])
    BY <1>5, Zenon
  <2>3. CASE i + 1 <= c
    <3>1. s[i + 1] \in X
      BY <1>1, <2>3 DEF IsFront
    <3> QED
      BY <1>1, <2>1, <2>2, <2>3, <3>1
  <2>4. CASE ~(i + 1 <= c)
    <3>1. s[i + 1] \notin X
      BY <1>1, <2>4 DEF IsFront
    <3>2. PICK t : t = h[i]
      BY Zenon
    <3>3. IsSeq(t) /\ Len(t) = i - c /\ \A q \in 1..Len(t) : t[q] = s[q + c]
      BY <1>1, <2>1, <2>4, <3>2, SMTT(30)
    <3>4. PICK u : u = h[i + 1] /\ u = Append(t, s[i + 1])
      BY <2>2, <3>1, <3>2, Zenon
    <3>5. /\ IsSeq(u) /\ Len(u) = (i - c) + 1 /\ u[(i - c) + 1] = s[i + 1]
          /\ \A q \in 1..(i - c) : u[q] = t[q]
      BY <3>3, <3>4, AppendIsSeq
    <3>6. i - c \in Nat /\ \A q \in 1..((i - c) + 1) : q \in 1..(i - c) \/ q = (i - c) + 1
      BY <1>1, <2>4
    <3>7. \A q \in 1..((i - c) + 1) : u[q] = s[q + c]
      <4>1. ASSUME NEW q \in 1..(i - c) PROVE u[q] = s[q + c]
        BY <3>3, <3>5, Zenon
      <4>2. ((i - c) + 1) + c = i + 1
        BY <1>1, <2>1
      <4> QED
        BY <3>5, <3>6, <4>1, <4>2, Zenon
    <3>8. Kept(u, i + 1)
      BY <1>1, <2>1, <2>4, <3>5, <3>7
    <3> QED
      BY <2>1, <3>4, <3>8, ZenonT(60)
  <2> QED
    BY <2>3, <2>4, Zenon
<1> HIDE DEF P
<1>8. \A i \in 0..n : i \in P
  BY <1>1, <1>6, <1>7, SetInduction, Zenon
<1>9. Kept(h[n], n)
  BY <1>1, <1>8 DEF P
<1>10. IsSeq(h[n]) /\ Len(h[n]) = n - c /\ \A q \in 1..(n - c) : h[n][q] = s[q + c]
  <2>0. n \in Nat /\ c \in 0..n
    BY <1>1, Zenon
  <2> HIDE DEF n
  <2>1. n <= c => n - c = 0
    BY <2>0
  <2>2. PICK t : t = h[n]
    BY Zenon
  <2>3. Kept(t, n)
    BY <1>9, <2>2, Zenon
  <2>4. Len(t) = IF n <= c THEN 0 ELSE n - c
    BY <2>3, Zenon
  <2>5. Len(t) = n - c
    BY <2>1, <2>4, Zenon
  <2> QED
    BY <2>2, <2>3, <2>5, Zenon
<1> QED
  BY <1>4, <1>10, Zenon DEF IsRest

\* u is s with t behind it.
IsConcat(u, s, t) ==
    /\ IsSeq(u) /\ Len(u) = Len(s) + Len(t)
    /\ \A i \in 1..Len(s) : u[i] = s[i]
    /\ \A i \in 1..Len(t) : u[Len(s) + i] = t[i]

\* Putting sequences of tasks one behind the other.
LEMMA ConcatIsSeq == ASSUME NEW s, IsSeq(s), NEW t, IsSeq(t) PROVE IsConcat(s \o t, s, t)
<1> DEFINE S == {s[i] : i \in DOMAIN s} \cup {t[i] : i \in DOMAIN t}
           u == s \o t
<1>1. s \in Seq(S) /\ t \in Seq(S)
  <2>1. s \in Seq({s[i] : i \in DOMAIN s}) /\ t \in Seq({t[i] : i \in DOMAIN t})
    BY Zenon DEF IsSeq
  <2>2. {s[i] : i \in DOMAIN s} \subseteq S /\ {t[i] : i \in DOMAIN t} \subseteq S
    BY Zenon
  <2> QED
    BY <2>1, <2>2
<1> HIDE DEF S
<1>2. /\ u \in Seq(S) /\ Len(u) = Len(s) + Len(t) /\ Len(s) \in Nat /\ Len(t) \in Nat
      /\ \A i \in 1..Len(s) : u[i] = s[i]
      /\ \A i \in 1..Len(t) : u[Len(s) + i] = t[i]
  <2>1. u \in Seq(S) /\ Len(u) = Len(s) + Len(t) /\ Len(s) \in Nat /\ Len(t) \in Nat
    BY <1>1
  <2>2. ASSUME NEW i \in 1..Len(s) PROVE u[i] = s[i]
    BY <1>1, <2>1
  <2>3. ASSUME NEW i \in 1..Len(t) PROVE u[Len(s) + i] = t[i]
    <3>1. PICK k \in 1..(Len(s) + Len(t)) : k = Len(s) + i /\ ~(k <= Len(s)) /\ k - Len(s) = i
      BY <2>1
    <3>2. u[k] = t[k - Len(s)]
      BY <1>1, <2>1, <3>1
    <3> QED
      BY <3>1, <3>2, Zenon
  <2> QED
    BY <2>1, <2>2, <2>3, Zenon
<1> HIDE DEF u
<1>3. u \in [1..Len(u) -> S]
  BY <1>2
<1>4. IsSeq(u)
  BY <1>2, <1>3, FunctionIsSeq
<1>5. IsConcat(u, s, t)
  BY <1>2, <1>4, Zenon DEF IsConcat
<1> QED
  BY <1>5, Zenon DEF u

-----------------------------------------------------------------------------
(* Steps of a task that leave the levels alone *)

\* The numbers of the levels.
LEMMA LevelNumbers ==
    /\ MaxNumLevels \in Nat /\ LastLevel \in Levels /\ LastLevel - 1 \in Levels /\ 0 \in Levels
    /\ LastLevel # 0 /\ LastLevel - 1 # LastLevel /\ Levels \subseteq Nat
    /\ \A l \in Levels : l <= LastLevel
    /\ \A l \in Levels : l = LastLevel \/ (TargetLevel(l) = l + 1 /\ l + 1 \in Levels /\ l < LastLevel)
    /\ TargetLevel(LastLevel) = LastLevel /\ TargetLevel(LastLevel - 1) = LastLevel
    /\ \A l \in Levels : TargetLevel(l) \in Levels
BY LevelsAssumption DEF Levels, LastLevel, TargetLevel

\* Level l has the tasks new instead of old; only the state of some may differ.
SameTasks(new, old) ==
    /\ IsSeq(new) /\ DOMAIN new = DOMAIN old /\ Len(new) = Len(old)
    /\ \A u \in DOMAIN old : /\ new[u].inputs = old[u].inputs /\ new[u].discard = old[u].discard
                             /\ IsTask(new[u])

TasksKept ==
    /\ tasks' = [l \in Levels |-> tasks'[l]]
    /\ \A l \in Levels : SameTasks(tasks'[l], tasks[l])

\* A task that moves on is a step of this kind.
LEMMA GotoKeeps ==
    ASSUME Shape, NEW l \in Levels, NEW t \in DOMAIN tasks[l], NEW at, TaskGoto(l, t, at)
    PROVE TasksKept /\ tasks'[l][t].pc = at
          /\ \A m \in Levels : \A u \in DOMAIN tasks[m] :
                m # l \/ u # t => tasks'[m][u] = tasks[m][u]
<1>1. PICK s : s = tasks[l]
  BY Zenon
<1>2. PICK r : r = s[t] /\ IsTask(r)
  BY <1>1, Zenon DEF Shape
<1>3. tasks' = [tasks EXCEPT ![l] = [tasks[l] EXCEPT ![t] = [tasks[l][t] EXCEPT !.pc = at]]]
  BY Zenon DEF TaskGoto
<1>4. PICK r2 : r2 = [r EXCEPT !.pc = at]
  BY Zenon
<1>5. r2.inputs = r.inputs /\ r2.discard = r.discard /\ r2.pc = at /\ IsTask(r2)
  BY <1>2, <1>4, Zenon DEF IsTask
<1>6. PICK s2 : s2 = [s EXCEPT ![t] = r2]
  BY Zenon
<1>7. IsSeq(s) /\ DOMAIN s = 1..Len(s) /\ Len(s) \in Nat
  BY <1>1, SeqDomain, Zenon DEF Shape
<1>8. s2 = [u \in 1..Len(s) |-> s2[u]] /\ s2[t] = r2 /\ \A u \in DOMAIN s : u # t => s2[u] = s[u]
  BY <1>1, <1>6, <1>7, Zenon
<1>9. IsSeq(s2) /\ Len(s2) = Len(s) /\ DOMAIN s2 = DOMAIN s
  BY <1>7, <1>8, FunctionIsSeq, Zenon
<1>10. \A u \in DOMAIN s : IsTask(s[u])
  BY <1>1, Zenon DEF Shape
<1>11. SameTasks(s2, s)
  BY <1>2, <1>5, <1>8, <1>9, <1>10, Zenon DEF SameTasks
<1>12. tasks' = [tasks EXCEPT ![l] = s2]
  BY <1>1, <1>2, <1>3, <1>4, <1>6, Zenon
<1>13. /\ tasks' = [m \in Levels |-> tasks'[m]] /\ tasks'[l] = s2
       /\ \A m \in Levels : m # l => tasks'[m] = tasks[m]
  BY <1>12, Zenon DEF Shape
<1>14. \A m \in Levels : SameTasks(tasks[m], tasks[m])
  BY Zenon DEF Shape, SameTasks
<1>15. \A m \in Levels : SameTasks(tasks'[m], tasks[m])
  BY <1>1, <1>11, <1>13, <1>14, Zenon
<1> QED
  BY <1>1, <1>5, <1>8, <1>13, <1>15, ZenonT(60) DEF TasksKept

\* What the invariant says of the tasks is kept.
LEMMA TasksKeptInv ==
    ASSUME Inv, TasksKept, UNCHANGED <<levels, picked, turn, created, flushed, collected>>,
           UNCHANGED snapshot, errored' \subseteq picked
    PROVE Inv'
<1>1. ASSUME NEW l \in Levels
      PROVE /\ IsSeq(tasks'[l]) /\ DOMAIN tasks'[l] = DOMAIN tasks[l] /\ Len(tasks'[l]) = Len(tasks[l])
            /\ \A u \in DOMAIN tasks[l] : /\ tasks'[l][u].inputs = tasks[l][u].inputs
                                          /\ tasks'[l][u].discard = tasks[l][u].discard
                                          /\ IsTask(tasks'[l][u])
  BY Zenon DEF TasksKept, SameTasks
<1>2. ASSUME NEW l \in Levels PROVE tasks'[l] = <<>> <=> tasks[l] = <<>>
  <2>1. IsSeq(tasks[l]) /\ IsSeq(tasks'[l]) /\ Len(tasks'[l]) = Len(tasks[l])
    BY <1>1, Zenon DEF Inv, Shape
  <2> QED
    BY <2>1 DEF IsSeq
<1>3. Shape'
  BY <1>1, Zenon DEF Inv, Shape, TasksKept
<1>4. (Disjoint /\ Complete /\ Covered)'
  BY SMTT(30) DEF Inv, Disjoint, Complete, Covered
<1>5. InputsApart'
  BY <1>1, SMTT(30) DEF Inv, InputsApart
<1>6. ASSUME NEW l \in Levels PROVE Queue(l)'
  <2>1. Open(l)' = Open(l)
    BY <1>1, Zenon DEF Open
  <2>2. Open(l) \subseteq DOMAIN tasks[l]
    BY Zenon DEF Open
  <2>3. Queue(l)
    BY Zenon DEF Inv
  <2> QED
    BY <1>1, <2>1, <2>2, <2>3 DEF Queue
<1>7. (snapshot = <<>> \/ \A l \in Levels : SnapshotFits(l))'
  BY ZenonT(60) DEF Inv, SnapshotFits
<1>8. (LevelsByAge /\ SortedByAge /\ NoResurrection)'
  BY <1>2 DEF Inv, LevelsByAge, SortedByAge, NoResurrection, Ssts
<1>9. FirstDiscards'
  BY <1>1, <1>2, Zenon DEF Inv, FirstDiscards
<1> QED
  BY <1>3, <1>4, <1>5, <1>6, <1>7, <1>8, <1>9, Zenon DEF Inv

-----------------------------------------------------------------------------
(* Steps that change the levels: a push, and a commit *)

\* The places of level m that stay when the first c of level l are erased.
Survivors(m, l, c) == {i \in DOMAIN levels[m] : m = l => i > c}

\* By how much they move.
Shift(m, l, c) == IF m = l THEN c ELSE 0

\* The first c places of level l are erased, and out is pushed to level d.
IsMerged(l, d, c, out) ==
    /\ levels' = [m \in Levels |-> levels'[m]]
    /\ \A m \in Levels :
          /\ IsSeq(levels'[m])
          /\ Len(levels'[m]) = (Len(levels[m]) - Shift(m, l, c)) + (IF m = d THEN 1 ELSE 0)
          /\ \A q \in 1..(Len(levels[m]) - Shift(m, l, c)) :
                levels'[m][q] = levels[m][q + Shift(m, l, c)]
    /\ levels'[d][Len(levels'[d])] = out

\* Place q of level m is the new one.
IsNew(m, q, d) == m = d /\ q = Len(levels'[d])

\* The same, place by place: every place holds out or what a survivor held, and
\* every survivor has a place.
Placed(l, d, c, out) ==
    /\ \A m \in Levels : \A q \in DOMAIN levels'[m] :
          \/ IsNew(m, q, d) /\ levels'[m][q] = out
          \/ /\ q + Shift(m, l, c) \in Survivors(m, l, c) /\ ~IsNew(m, q, d)
             /\ levels'[m][q] = levels[m][q + Shift(m, l, c)]
    /\ \A m \in Levels : \A i \in Survivors(m, l, c) :
          /\ i - Shift(m, l, c) \in DOMAIN levels'[m]
          /\ levels'[m][i - Shift(m, l, c)] = levels[m][i]
          /\ (i - Shift(m, l, c)) + Shift(m, l, c) = i
    /\ Len(levels'[d]) \in DOMAIN levels'[d] /\ levels'[d][Len(levels'[d])] = out
    /\ \A m \in Levels : DOMAIN levels'[m] = 1..Len(levels'[m]) /\ Len(levels'[m]) \in Nat
    /\ \A m \in Levels : Shift(m, l, c) \in Nat

LEMMA MergedPlaces ==
    ASSUME Shape, NEW l \in Levels, NEW d \in Levels, NEW c \in 0..Len(levels[l]), NEW out,
           IsMerged(l, d, c, out)
    PROVE Placed(l, d, c, out)
<1> DEFINE k(m) == Shift(m, l, c)
<1>1. ASSUME NEW m \in Levels
      PROVE /\ Len(levels[m]) \in Nat /\ DOMAIN levels[m] = 1..Len(levels[m])
            /\ k(m) \in 0..Len(levels[m]) /\ Len(levels'[m]) \in Nat
            /\ DOMAIN levels'[m] = 1..Len(levels'[m])
  <2>1. /\ Len(levels[m]) \in Nat /\ DOMAIN levels[m] = 1..Len(levels[m])
        /\ Len(levels'[m]) \in Nat /\ DOMAIN levels'[m] = 1..Len(levels'[m])
    BY SeqDomain, Zenon DEF Shape, IsMerged
  <2>2. k(m) \in 0..Len(levels[m])
    BY <2>1 DEF Shift
  <2> QED
    BY <2>1, <2>2, Zenon
<1>2. ASSUME NEW m \in Levels
      PROVE /\ Len(levels'[m]) = (Len(levels[m]) - k(m)) + (IF m = d THEN 1 ELSE 0)
            /\ \A q \in 1..(Len(levels[m]) - k(m)) : levels'[m][q] = levels[m][q + k(m)]
  BY Zenon DEF IsMerged
<1>3. ASSUME NEW m \in Levels, NEW i
      PROVE i \in Survivors(m, l, c) <=> i \in (k(m) + 1)..Len(levels[m])
  BY <1>1 DEF Survivors, Shift
<1>4. levels'[d][Len(levels'[d])] = out
  BY Zenon DEF IsMerged
<1> HIDE DEF k
<1>5. ASSUME NEW m \in Levels, NEW q \in DOMAIN levels'[m]
      PROVE \/ IsNew(m, q, d) /\ levels'[m][q] = out
            \/ /\ q + k(m) \in Survivors(m, l, c) /\ ~IsNew(m, q, d)
               /\ levels'[m][q] = levels[m][q + k(m)]
  <2>1. CASE IsNew(m, q, d)
    BY <1>4, <2>1, Zenon DEF IsNew
  <2>2. CASE ~IsNew(m, q, d)
    <3>1. q \in 1..(Len(levels[m]) - k(m))
      BY <1>1, <1>2, <2>2, SMTT(30) DEF IsNew
    <3>2. q + k(m) \in (k(m) + 1)..Len(levels[m])
      BY <1>1, <3>1, SMTT(30)
    <3> QED
      BY <1>2, <1>3, <2>2, <3>1, <3>2, ZenonT(60)
  <2> QED
    BY <2>1, <2>2, Zenon
<1>6. ASSUME NEW m \in Levels, NEW i \in Survivors(m, l, c)
      PROVE /\ i - k(m) \in DOMAIN levels'[m] /\ levels'[m][i - k(m)] = levels[m][i]
            /\ (i - k(m)) + k(m) = i
  <2>1. i \in (k(m) + 1)..Len(levels[m])
    BY <1>3, Zenon
  <2>2. i - k(m) \in 1..(Len(levels[m]) - k(m)) /\ (i - k(m)) + k(m) = i
    BY <1>1, <2>1, SMTT(30)
  <2>3. i - k(m) \in DOMAIN levels'[m]
    <3>1. Len(levels[m]) - k(m) <= Len(levels'[m])
      <4>1. PICK a \in Nat, b \in Nat, e \in Nat :
               a = Len(levels[m]) /\ b = Len(levels'[m]) /\ e = k(m)
        BY <1>1
      <4>2. b = (a - e) + (IF m = d THEN 1 ELSE 0)
        BY <1>2, <4>1, Zenon
      <4>3. a - e <= b
        BY <4>2, SMTT(30)
      <4> QED
        BY <4>1, <4>3, Zenon
    <3> QED
      BY <1>1, <2>2, <3>1, SMTT(30)
  <2> QED
    BY <1>2, <2>2, <2>3, Zenon
<1>7. Len(levels'[d]) \in DOMAIN levels'[d]
  BY <1>1, <1>2, SMTT(30)
<1>8. \A m \in Levels : DOMAIN levels'[m] = 1..Len(levels'[m]) /\ Len(levels'[m]) \in Nat
  BY <1>1, Zenon
<1>9. \A m \in Levels : k(m) \in Nat
  BY <1>1
<1> QED
  BY <1>4, <1>5, <1>6, <1>7, <1>8, <1>9, Zenon DEF Placed, k

\* What is pushed is new to the levels that stay, and of the right age.
Fits(l, d, c, out) ==
    /\ out # {} /\ out \subseteq 1..flushed' /\ 1..flushed \subseteq 1..flushed'
    /\ 1..flushed' \subseteq 1..flushed \cup out
    /\ \A i \in 1..c : levels[l][i] \subseteq out
    /\ \A m \in Levels : \A i \in Survivors(m, l, c) :
          /\ levels[m][i] \cap out = {}
          /\ m < d => Newer(levels[m][i], out)
          /\ m > d => Newer(out, levels[m][i])
          /\ m = d /\ (d = LastLevel => tasks'[d] = <<>>) => Newer(out, levels[m][i])

\* SSTs stay disjoint.
LEMMA MergedDisjoint ==
    ASSUME Shape, Disjoint, NEW l \in Levels, NEW d \in Levels, NEW c, NEW out,
           Placed(l, d, c, out), Fits(l, d, c, out)
    PROVE Disjoint'
<1>1. \A m \in Levels : Survivors(m, l, c) \subseteq DOMAIN levels[m] /\ Shift(m, l, c) \in Nat
  BY Zenon DEF Survivors, Placed
<1>2. SUFFICES ASSUME NEW m \in Levels, NEW n \in Levels, NEW q \in DOMAIN levels'[m],
                      NEW r \in DOMAIN levels'[n]
      PROVE /\ levels'[m][q] # {} /\ levels'[m][q] \subseteq 1..flushed'
            /\ levels'[m][q] \cap levels'[n][r] # {} => m = n /\ q = r
  BY Zenon DEF Disjoint
<1>3. q \in Nat /\ r \in Nat
  BY SMTT(30) DEF Placed
<1>4. CASE IsNew(m, q, d) /\ levels'[m][q] = out
  <2>1. out # {} /\ out \subseteq 1..flushed'
    BY Zenon DEF Fits
  <2>2. CASE IsNew(n, r, d)
    BY <1>4, <2>1, <2>2, Zenon DEF IsNew
  <2>3. CASE ~IsNew(n, r, d)
    <3>1. /\ r + Shift(n, l, c) \in Survivors(n, l, c)
          /\ levels'[n][r] = levels[n][r + Shift(n, l, c)]
      BY <2>3, Zenon DEF Placed
    <3>2. levels'[n][r] \cap out = {}
      BY <3>1, Zenon DEF Fits
    <3> QED
      BY <1>4, <2>1, <3>2, Zenon
  <2> QED
    BY <2>2, <2>3, Zenon
<1>5. CASE ~IsNew(m, q, d)
  <2>1. /\ q + Shift(m, l, c) \in Survivors(m, l, c)
        /\ levels'[m][q] = levels[m][q + Shift(m, l, c)]
    BY <1>5, ZenonT(60) DEF Placed
  <2>2. levels'[m][q] # {} /\ levels'[m][q] \subseteq 1..flushed'
    BY <1>1, <2>1, SMTT(30) DEF Disjoint, Fits
  <2>3. CASE IsNew(n, r, d)
    <3>1. levels'[n][r] = out
      BY <2>3, Zenon DEF Placed
    <3>2. levels'[m][q] \cap out = {}
      BY <2>1, Zenon DEF Fits
    <3> QED
      BY <2>2, <3>1, <3>2, Zenon
  <2>4. CASE ~IsNew(n, r, d)
    <3>1. /\ r + Shift(n, l, c) \in Survivors(n, l, c)
          /\ levels'[n][r] = levels[n][r + Shift(n, l, c)]
      BY <2>4, Zenon DEF Placed
    <3>2. levels'[m][q] \cap levels'[n][r] # {} => m = n /\ q + Shift(m, l, c) = r + Shift(n, l, c)
      BY <1>1, <2>1, <3>1, SMTT(30) DEF Disjoint
    <3>3. m = n /\ q + Shift(m, l, c) = r + Shift(n, l, c) => q = r
      BY <1>1, <1>3
    <3> QED
      BY <2>2, <3>2, <3>3, ZenonT(60)
  <2> QED
    BY <2>3, <2>4, Zenon
<1> QED
  BY <1>4, <1>5, Zenon DEF Placed

\* Every SST of before is a part of one of after: no flush is lost, and what was
\* picked is still there.
LEMMA MergedCovers ==
    ASSUME Shape, Complete, Covered, NEW l \in Levels, NEW d \in Levels, NEW c \in Nat, NEW out,
           Placed(l, d, c, out), Fits(l, d, c, out), UNCHANGED <<picked, errored>>
    PROVE Complete' /\ Covered'
<1>1. ASSUME NEW m \in Levels, NEW i \in DOMAIN levels[m]
      PROVE \E n \in Levels : \E q \in DOMAIN levels'[n] : levels[m][i] \subseteq levels'[n][q]
  <2>1. CASE i \in Survivors(m, l, c)
    BY <2>1 DEF Placed
  <2>2. CASE i \notin Survivors(m, l, c)
    <3>1. i \in Nat /\ i >= 1
      BY SeqDomain, SMTT(30) DEF Shape
    <3>2. m = l /\ i \in 1..c
      BY <2>2, <3>1 DEF Survivors
    <3>3. levels[m][i] \subseteq out
      BY <3>2, Zenon DEF Fits
    <3> QED
      BY <3>3, Zenon DEF Placed
  <2> QED
    BY <2>1, <2>2, Zenon
<1>2. Covered'
  <2>1. ASSUME NEW p \in picked
        PROVE \E n \in Levels : \E q \in DOMAIN levels'[n] : p \subseteq levels'[n][q]
    <3>1. PICK m \in Levels : \E i \in DOMAIN levels[m] : p \subseteq levels[m][i]
      BY Zenon DEF Covered
    <3>2. PICK i \in DOMAIN levels[m] : p \subseteq levels[m][i]
      BY <3>1, Zenon
    <3> QED
      BY <1>1, <3>2, Zenon
  <2> QED
    BY <2>1, Zenon DEF Covered
<1>3. ASSUME NEW f \in 1..flushed'
      PROVE \E n \in Levels : \E q \in DOMAIN levels'[n] : f \in levels'[n][q]
  <2>1. CASE f \in out
    BY <2>1, Zenon DEF Placed
  <2>2. CASE f \in 1..flushed
    <3>1. PICK m \in Levels : \E i \in DOMAIN levels[m] : f \in levels[m][i]
      BY <2>2, Zenon DEF Complete
    <3>2. PICK i \in DOMAIN levels[m] : f \in levels[m][i]
      BY <3>1, Zenon
    <3> QED
      BY <1>1, <3>2, Zenon
  <2> QED
    BY <2>1, <2>2, Zenon DEF Fits
<1> QED
  BY <1>2, <1>3, Zenon DEF Complete

\* The order of time is kept.
LEMMA MergedByAge ==
    ASSUME Shape, LevelsByAge, SortedByAge, NEW l \in Levels, NEW d \in Levels, NEW c, NEW out,
           Placed(l, d, c, out), Fits(l, d, c, out),
           \A m \in Levels : tasks'[m] = <<>> => tasks[m] = <<>>
    PROVE LevelsByAge' /\ SortedByAge'
<1>1. \A m \in Levels : Survivors(m, l, c) \subseteq DOMAIN levels[m] /\ Shift(m, l, c) \in Nat
  BY Zenon DEF Survivors, Placed
<1>2. ASSUME NEW m \in Levels, NEW q \in DOMAIN levels'[m]
      PROVE \/ m = d /\ IsNew(m, q, d) /\ levels'[m][q] = out
            \/ /\ q + Shift(m, l, c) \in Survivors(m, l, c) /\ ~IsNew(m, q, d)
               /\ levels'[m][q] = levels[m][q + Shift(m, l, c)]
  BY Zenon DEF Placed, IsNew
<1>3. ASSUME NEW m \in Levels, NEW n \in Levels, NEW q \in DOMAIN levels'[m],
             NEW r \in DOMAIN levels'[n], m < n
      PROVE Newer(levels'[m][q], levels'[n][r])
  <2>0. m # n /\ m \in Nat /\ n \in Nat
    BY <1>3, LevelNumbers, SMTT(30)
  <2>1. CASE m = d /\ levels'[m][q] = out
    <3>1. r + Shift(n, l, c) \in Survivors(n, l, c) /\ levels'[n][r] = levels[n][r + Shift(n, l, c)]
      BY <1>2, <2>0, <2>1, ZenonT(60)
    <3> QED
      BY <1>3, <2>0, <2>1, <3>1, SMTT(30) DEF Fits
  <2>2. CASE /\ q + Shift(m, l, c) \in Survivors(m, l, c)
             /\ levels'[m][q] = levels[m][q + Shift(m, l, c)]
    <3>1. CASE n = d /\ levels'[n][r] = out
      BY <1>3, <2>2, <3>1, SMTT(30) DEF Fits
    <3>2. CASE /\ r + Shift(n, l, c) \in Survivors(n, l, c)
               /\ levels'[n][r] = levels[n][r + Shift(n, l, c)]
      BY <1>1, <1>3, <2>2, <3>2, Zenon DEF LevelsByAge
    <3> QED
      BY <1>2, <3>1, <3>2, Zenon
  <2> QED
    BY <1>2, <2>1, <2>2, Zenon
<1>4. ASSUME NEW m \in Levels, NEW q \in DOMAIN levels'[m], NEW r \in DOMAIN levels'[m],
             q > r, m = LastLevel => tasks'[m] = <<>>
      PROVE Newer(levels'[m][q], levels'[m][r])
  <2>0. q \in Nat /\ r \in Nat /\ q <= Len(levels'[m]) /\ r <= Len(levels'[m])
    BY SMTT(30) DEF Placed
  <2>1. ~IsNew(m, r, d)
    BY <1>4, <2>0 DEF IsNew
  <2>2. r + Shift(m, l, c) \in Survivors(m, l, c) /\ levels'[m][r] = levels[m][r + Shift(m, l, c)]
    BY <1>2, <2>1, Zenon
  <2>3. CASE m = d /\ levels'[m][q] = out
    BY <1>4, <2>2, <2>3, SMTT(30) DEF Fits
  <2>4. CASE /\ q + Shift(m, l, c) \in Survivors(m, l, c)
             /\ levels'[m][q] = levels[m][q + Shift(m, l, c)]
    <3>1. q + Shift(m, l, c) > r + Shift(m, l, c)
      BY <1>1, <1>4, <2>0, SMTT(30)
    <3>2. m = LastLevel => tasks[m] = <<>>
      BY <1>4, Zenon
    <3> QED
      BY <1>1, <2>2, <2>4, <3>1, <3>2, ZenonT(60) DEF SortedByAge
  <2> QED
    BY <1>2, <2>3, <2>4, ZenonT(60)
<1> QED
  BY <1>3, <1>4, Zenon DEF LevelsByAge, SortedByAge

\* The tasks that are over after the step had erased inputs, the others have inputs
\* that stay.
Separates(m, l, c) ==
    /\ Open(m)' \subseteq Open(m) /\ turn'[m] \in 0..Len(tasks[m])
    /\ \A i \in DOMAIN levels[m] : \A t \in Open(m)' :
          levels[m][i] \in tasks[m][t].inputs => i \in Survivors(m, l, c)
    /\ \A i \in Survivors(m, l, c) : \A t \in Open(m) :
          levels[m][i] \in tasks[m][t].inputs => t \in Open(m)'

\* The queue of a level stays one.
LEMMA MergedQueue ==
    ASSUME Shape, InputsApart, NEW l \in Levels, NEW d \in Levels, NEW c, NEW out,
           Placed(l, d, c, out), out \notin picked, UNCHANGED picked, TasksKept,
           NEW m \in Levels, Queue(m), Separates(m, l, c)
    PROVE Queue(m)'
<1>1. \A t \in DOMAIN tasks[m] : tasks'[m][t].inputs = tasks[m][t].inputs
  BY Zenon DEF TasksKept, SameTasks
<1>2. Len(tasks'[m]) = Len(tasks[m])
  BY Zenon DEF TasksKept, SameTasks
<1>3. Open(m) \subseteq DOMAIN tasks[m] /\ Open(m)' \subseteq Open(m)
  BY Zenon DEF Open, Separates
<1>4. turn'[m] \in 0..Len(tasks'[m])
  BY <1>2, Zenon DEF Separates
<1>5. Survivors(m, l, c) \subseteq DOMAIN levels[m] /\ Shift(m, l, c) \in Nat
  BY Zenon DEF Survivors, Placed
<1>6. ASSUME NEW q \in DOMAIN levels'[m], levels'[m][q] \in picked
      PROVE /\ q + Shift(m, l, c) \in Survivors(m, l, c) /\ ~IsNew(m, q, d)
            /\ levels'[m][q] = levels[m][q + Shift(m, l, c)]
  BY <1>6, Zenon DEF Placed
<1>7. ASSUME NEW t \in Open(m)', NEW x \in tasks'[m][t].inputs
      PROVE \E q \in DOMAIN levels'[m] : x = levels'[m][q]
  <2>1. x \in tasks[m][t].inputs /\ t \in Open(m)
    BY <1>1, <1>3, Zenon
  <2>2. PICK i \in DOMAIN levels[m] : x = levels[m][i]
    BY <2>1, Zenon DEF Queue
  <2>3. i \in Survivors(m, l, c)
    BY <2>1, <2>2, Zenon DEF Separates
  <2> QED
    BY <2>2, <2>3, Zenon DEF Placed
<1>8. ASSUME NEW q \in DOMAIN levels'[m], levels'[m][q] \in picked
      PROVE \E t \in Open(m)' : levels'[m][q] \in tasks'[m][t].inputs
  <2>1. PICK i \in Survivors(m, l, c) : levels'[m][q] = levels[m][i]
    BY <1>6, <1>8, Zenon
  <2>2. PICK t \in Open(m) : levels[m][i] \in tasks[m][t].inputs
    BY <1>5, <1>8, <2>1, Zenon DEF Queue
  <2>3. t \in Open(m)'
    BY <2>2, Zenon DEF Separates
  <2> QED
    BY <1>1, <1>3, <2>1, <2>2, <2>3, Zenon
<1>9. ASSUME NEW j \in DOMAIN levels'[m], NEW u \in Open(m)', levels'[m][j] \in tasks'[m][u].inputs,
             NEW i \in 1..j
      PROVE \E t \in Open(m)' : t <= u /\ levels'[m][i] \in tasks'[m][t].inputs
  <2>1. levels'[m][j] \in tasks[m][u].inputs /\ u \in Open(m)
    BY <1>1, <1>3, <1>9, Zenon
  <2>2. levels'[m][j] \in picked
    BY <1>3, <2>1, Zenon DEF InputsApart
  <2>3. /\ j + Shift(m, l, c) \in Survivors(m, l, c) /\ ~IsNew(m, j, d)
        /\ levels'[m][j] = levels[m][j + Shift(m, l, c)]
    BY <1>6, <2>2, ZenonT(60)
  <2>4. j \in Nat /\ j <= Len(levels'[m]) /\ DOMAIN levels'[m] = 1..Len(levels'[m])
        /\ Len(levels'[m]) \in Nat
    BY <1>9, SMTT(30) DEF Placed
  <2>5. i \in DOMAIN levels'[m] /\ ~IsNew(m, i, d)
    BY <2>3, <2>4, SMTT(30) DEF IsNew
  <2>6. i + Shift(m, l, c) \in Survivors(m, l, c) /\ levels'[m][i] = levels[m][i + Shift(m, l, c)]
    BY <2>5, Zenon DEF Placed
  <2>7. i + Shift(m, l, c) \in 1..(j + Shift(m, l, c))
    BY <1>5, <2>4, SMTT(30)
  <2>8. PICK t \in Open(m) : t <= u /\ levels[m][i + Shift(m, l, c)] \in tasks[m][t].inputs
    BY <1>5, <2>1, <2>3, <2>7, ZenonT(60) DEF Queue
  <2>9. t \in Open(m)'
    BY <2>6, <2>8, Zenon DEF Separates
  <2> QED
    BY <1>1, <1>3, <2>6, <2>8, <2>9, ZenonT(60)
<1> QED
  BY <1>4, <1>7, <1>8, <1>9, Zenon DEF Queue

\* What the worker copied still fits.
LEMMA MergedSnapshot ==
    ASSUME Shape, NEW l \in Levels, NEW d \in Levels, NEW c \in 0..Len(levels[l]), NEW out,
           IsMerged(l, d, c, out), Placed(l, d, c, out), out \notin picked,
           \A i \in 1..c : levels[l][i] \in picked, UNCHANGED <<picked, snapshot>>,
           NEW m \in Levels, SnapshotFits(m)
    PROVE SnapshotFits(m)'
<1>1. PICK k \in Nat : k = Shift(m, l, c) /\ k <= Len(levels[m]) /\ (m # l => k = 0)
  BY SeqDomain, SMTT(30) DEF Shift, Shape
<1>2. PICK old : old = snapshot[1][m] /\ IsSeq(old)
  BY Zenon DEF SnapshotFits
<1>3. PICK e \in 0..Len(old) :
         /\ \A i \in 1..e : old[i] \in picked
         /\ Len(old) - e <= Len(levels[m])
         /\ \A q \in DOMAIN levels[m] : IF q + e <= Len(old) THEN levels[m][q] = old[q + e]
                                                             ELSE levels[m][q] \notin picked
  BY <1>2, Zenon DEF SnapshotFits
<1>4. PICK a \in Nat, b \in Nat, n \in Nat :
         /\ a = Len(levels[m]) /\ b = Len(levels'[m]) /\ n = Len(old)
         /\ DOMAIN levels[m] = 1..a /\ DOMAIN levels'[m] = 1..b
  <2>1. Len(levels[m]) \in Nat /\ DOMAIN levels[m] = 1..Len(levels[m]) /\ Len(old) \in Nat
    BY <1>2, SeqDomain, Zenon DEF Shape
  <2>2. Len(levels'[m]) \in Nat /\ DOMAIN levels'[m] = 1..Len(levels'[m])
    BY Zenon DEF Placed
  <2> QED
    BY <2>1, <2>2, Zenon
<1>5. b = (a - k) + (IF m = d THEN 1 ELSE 0)
  BY <1>1, <1>4, Zenon DEF IsMerged
<1>6. \A i \in 1..k : levels[m][i] \in picked
  BY <1>1 DEF Shift
<1>7. e \in 0..n /\ n - e <= a
  BY <1>3, <1>4, Zenon
<1>8. \A q \in 1..a : IF q + e <= n THEN levels[m][q] = old[q + e] ELSE levels[m][q] \notin picked
  BY <1>3, <1>4, Zenon
<1>9. e + k \in 0..n
  <2>1. CASE k = 0
    BY <1>7, <2>1, SMTT(30)
  <2>2. CASE k # 0
    <3>1. k \in 1..k /\ k \in 1..a
      BY <1>1, <1>4, <2>2
    <3>2. k + e <= n
      BY <1>6, <1>8, <3>1, Zenon
    <3> QED
      BY <1>7, <3>2, SMTT(30)
  <2> QED
    BY <2>1, <2>2, Zenon
<1>10. ASSUME NEW i \in 1..(e + k) PROVE old[i] \in picked
  <2>1. CASE i \in 1..e
    BY <1>3, <2>1, Zenon
  <2>2. CASE i \notin 1..e
    <3>1. PICK q \in 1..k : q + e = i
      <4>1. i - e \in 1..k /\ (i - e) + e = i
        BY <1>7, <2>2, SMTT(30)
      <4> QED
        BY <4>1, Zenon
    <3>2. q \in 1..a /\ q + e <= n
      BY <1>1, <1>4, <1>7, <1>9, <3>1, SMTT(30)
    <3> QED
      BY <1>6, <1>8, <3>1, <3>2, Zenon
  <2> QED
    BY <2>1, <2>2, Zenon
<1>11. n - (e + k) <= b
  BY <1>5, <1>7
<1>12. ASSUME NEW q \in 1..b
       PROVE IF q + (e + k) <= n THEN levels'[m][q] = old[q + (e + k)]
                                 ELSE levels'[m][q] \notin picked
  <2>1. CASE IsNew(m, q, d)
    <3>1. levels'[m][q] = out
      BY <1>4, <2>1, Zenon DEF Placed
    <3>2. q = b /\ m = d
      BY <1>4, <2>1, Zenon DEF IsNew
    <3>3. ~(q + (e + k) <= n)
      <4>1. k <= a /\ b = (a - k) + 1
        BY <1>1, <1>4, <1>5, <3>2, Zenon
      <4> QED
        BY <1>7, <3>2, <4>1, SMTT(30)
    <3> QED
      BY <3>1, <3>3, Zenon
  <2>2. CASE ~IsNew(m, q, d)
    <3>1. q + k \in Survivors(m, l, c) /\ levels'[m][q] = levels[m][q + k]
      BY <1>1, <1>4, <2>2, Zenon DEF Placed
    <3>2. q + k \in 1..a
      BY <1>4, <3>1, Zenon DEF Survivors
    <3>3. (q + k) + e = q + (e + k)
      BY <1>7
    <3> QED
      BY <1>8, <3>1, <3>2, <3>3, Zenon
  <2> QED
    BY <2>1, <2>2, Zenon
<1>13. /\ e + k \in 0..Len(old) /\ \A i \in 1..(e + k) : old[i] \in picked
       /\ Len(old) - (e + k) <= Len(levels'[m])
       /\ \A q \in DOMAIN levels'[m] :
             IF q + (e + k) <= Len(old) THEN levels'[m][q] = old[q + (e + k)]
                                        ELSE levels'[m][q] \notin picked
  BY <1>4, <1>9, <1>10, <1>11, <1>12, Zenon
<1>14. old = snapshot'[1][m] /\ picked' = picked
  BY <1>2, Zenon
<1> QED
  BY <1>2, <1>13, <1>14, Zenon DEF SnapshotFits

\* No tombstone that was dropped is missed.
LEMMA MergedResurrection ==
    ASSUME NoResurrection, NEW l \in Levels, NEW d \in Levels, NEW c, NEW out,
           Placed(l, d, c, out), \A g \in collected : g \notin out => \A f \in out : f > g,
           \/ collected' = collected
           \/ /\ collected' = collected \cup out
              /\ \A m \in Levels : \A i \in Survivors(m, l, c) : Newer(levels[m][i], out)
    PROVE NoResurrection'
<1>1. SUFFICES ASSUME NEW g \in collected', NEW m \in Levels, NEW q \in DOMAIN levels'[m],
                      g \notin levels'[m][q]
               PROVE \A f \in levels'[m][q] : f > g
  BY DEF NoResurrection, Ssts
<1>2. CASE levels'[m][q] = out
  BY <1>1, <1>2, Zenon
<1>3. ASSUME NEW i \in Survivors(m, l, c), levels'[m][q] = levels[m][i]
      PROVE \A f \in levels'[m][q] : f > g
  <2>1. levels[m][i] \in Ssts
    BY DEF Ssts, Survivors
  <2>2. CASE g \in collected
    BY <1>1, <1>3, <2>1, <2>2, Zenon DEF NoResurrection
  <2>3. CASE g \notin collected
    BY <1>3, <2>3, Zenon DEF Newer
  <2> QED
    BY <2>2, <2>3, Zenon
<1> QED
  BY <1>2, <1>3, ZenonT(60) DEF Placed

\* All of it but the queues and the tombstones, which a push and a commit treat
\* differently.
LEMMA MergedInv ==
    ASSUME Inv, NEW l \in Levels, NEW d \in Levels, NEW c \in 0..Len(levels[l]), NEW out,
           IsMerged(l, d, c, out), Fits(l, d, c, out), out \notin picked,
           \A i \in 1..c : levels[l][i] \in picked, TasksKept,
           turn' \in [Levels -> Nat], flushed' \in Nat, collected' \subseteq 1..flushed',
           UNCHANGED <<picked, errored, snapshot>>, \A m \in Levels : Separates(m, l, c),
           FirstDiscards', NoResurrection'
    PROVE Inv'
<1>1. Placed(l, d, c, out)
  BY MergedPlaces, ZenonT(60) DEF Inv
<1>2. c \in Nat
  BY SeqDomain DEF Inv, Shape
<1>3. Shape'
  BY Zenon DEF Inv, Shape, TasksKept, SameTasks, IsMerged
<1>4. Disjoint'
  BY <1>1, MergedDisjoint, ZenonT(60) DEF Inv
<1>5. Complete' /\ Covered'
  BY <1>1, <1>2, MergedCovers, ZenonT(60) DEF Inv
<1>6. InputsApart'
  <2>1. \A m \in Levels : /\ DOMAIN tasks'[m] = DOMAIN tasks[m]
                           /\ \A t \in DOMAIN tasks[m] : tasks'[m][t].inputs = tasks[m][t].inputs
    BY Zenon DEF TasksKept, SameTasks
  <2>2. InputsApart
    BY Zenon DEF Inv
  <2> QED
    BY <2>1, <2>2, SMTT(30) DEF InputsApart
<1>7. \A m \in Levels : Queue(m)'
  BY <1>1, MergedQueue, Zenon DEF Inv
<1>8. (snapshot = <<>> \/ \A m \in Levels : SnapshotFits(m))'
  BY <1>1, MergedSnapshot, Zenon DEF Inv
<1>9. ASSUME NEW m \in Levels, tasks'[m] = <<>> PROVE tasks[m] = <<>>
  <2>1. IsSeq(tasks[m]) /\ IsSeq(tasks'[m]) /\ Len(tasks'[m]) = Len(tasks[m])
    BY Zenon DEF Inv, Shape, TasksKept, SameTasks
  <2> QED
    BY <1>9, <2>1 DEF IsSeq
<1>10. LevelsByAge' /\ SortedByAge'
  BY <1>1, <1>9, MergedByAge, Zenon DEF Inv
<1> QED
  BY <1>3, <1>4, <1>5, <1>6, <1>7, <1>8, <1>10, Zenon DEF Inv

-----------------------------------------------------------------------------
(* A push *)

\* Steps that leave the tasks alone.
LEMMA TasksUnchanged == ASSUME Shape, UNCHANGED tasks PROVE TasksKept
BY Zenon DEF Shape, TasksKept, SameTasks

\* What Append does to one level.
LEMMA AppendMerges ==
    ASSUME Shape, NEW l \in Levels, NEW d \in Levels, NEW c \in 0..Len(levels[l]), NEW out,
           NEW erased, erased = [m \in Levels |-> erased[m]],
           \A m \in Levels : IsRest(erased[m], levels[m], Shift(m, l, c)),
           levels' = [erased EXCEPT ![d] = Append(@, out)]
    PROVE IsMerged(l, d, c, out)
<1>1. /\ levels' = [m \in Levels |-> levels'[m]] /\ levels'[d] = Append(erased[d], out)
      /\ \A m \in Levels : m # d => levels'[m] = erased[m]
  BY Zenon
<1>2. ASSUME NEW m \in Levels
      PROVE /\ IsSeq(levels'[m])
            /\ Len(levels'[m]) = (Len(levels[m]) - Shift(m, l, c)) + (IF m = d THEN 1 ELSE 0)
            /\ \A q \in 1..(Len(levels[m]) - Shift(m, l, c)) :
                  levels'[m][q] = levels[m][q + Shift(m, l, c)]
            /\ m = d => levels'[m][Len(levels'[m])] = out
  <2>1. PICK r : r = erased[m]
    BY Zenon
  <2>2. PICK n : n = Len(levels[m]) - Shift(m, l, c)
    BY Zenon
  <2>3. IsSeq(r) /\ Len(r) = n /\ \A q \in 1..n : r[q] = levels[m][q + Shift(m, l, c)]
    BY <2>1, <2>2, Zenon DEF IsRest
  <2>4. n \in Nat
    BY <2>3, SeqDomain, Zenon
  <2>5. CASE m = d
    <3>1. PICK u : u = levels'[m] /\ u = Append(r, out)
      BY <1>1, <2>1, <2>5, Zenon
    <3>2. IsSeq(u) /\ Len(u) = n + 1 /\ u[n + 1] = out /\ \A q \in 1..n : u[q] = r[q]
      <4>1. PICK x : x = out
        BY Zenon
      <4>2. IsSeq(r) /\ Len(r) = n /\ u = Append(r, x)
        BY <2>3, <3>1, <4>1, Zenon
      <4>3. IsSeq(u) /\ Len(u) = n + 1 /\ u[n + 1] = x /\ \A q \in 1..n : u[q] = r[q]
        BY ONLY <4>2, AppendIsSeq
      <4> QED
        BY <4>1, <4>3, Zenon
    <3> QED
      BY <2>2, <2>3, <2>5, <3>1, <3>2, Zenon
  <2>6. CASE m # d
    <3>1. levels'[m] = r /\ n + 0 = n
      BY <1>1, <2>1, <2>4, <2>6
    <3> QED
      BY <2>2, <2>3, <2>6, <3>1, Zenon
  <2> QED
    BY <2>5, <2>6, Zenon
<1> QED
  BY <1>1, <1>2, Zenon DEF IsMerged

\* A push keeps the invariant: the new SST is the newest, and nobody picked it.
LEMMA PushInv == ASSUME Inv, Push PROVE Inv'
<1> DEFINE out == {flushed + 1}
<1>1. 0 \in Levels /\ LastLevel \in Levels /\ LastLevel # 0 /\ Levels \subseteq Nat
  BY LevelNumbers, Zenon
<1>2. flushed \in Nat /\ flushed' = flushed + 1 /\ collected \subseteq 1..flushed
  BY Zenon DEF Inv, Shape, Push
<1>3. Len(levels[0]) \in Nat /\ 0 \in 0..Len(levels[0])
  BY <1>1, SeqDomain DEF Inv, Shape
<1>4. IsMerged(0, 0, 0, out)
  <2>1. ASSUME NEW m \in Levels PROVE IsRest(levels[m], levels[m], Shift(m, 0, 0))
    <3>1. PICK s : s = levels[m] /\ IsSeq(s)
      BY Zenon DEF Inv, Shape
    <3>2. Len(s) \in Nat
      BY <3>1, SeqDomain, Zenon
    <3>3. IsRest(s, s, 0)
      BY <3>1, <3>2 DEF IsRest
    <3> QED
      BY <3>1, <3>3, Zenon DEF Shift
  <2>2. levels' = [levels EXCEPT ![0] = Append(@, out)]
    BY Zenon DEF Push
  <2>3. Shape /\ levels = [m \in Levels |-> levels[m]]
    BY Zenon DEF Inv, Shape
  <2> HIDE DEF out
  <2> QED
    BY <1>1, <1>3, <2>1, <2>2, <2>3, AppendMerges, Zenon
<1>5. ASSUME NEW m \in Levels
      PROVE /\ Survivors(m, 0, 0) = DOMAIN levels[m]
            /\ \A i \in DOMAIN levels[m] : levels[m][i] \subseteq 1..flushed
  <2>1. \A i \in DOMAIN levels[m] : i > 0
    BY SeqDomain DEF Inv, Shape
  <2>2. \A i \in DOMAIN levels[m] : levels[m][i] \subseteq 1..flushed
    BY Zenon DEF Inv, Disjoint
  <2> QED
    BY <2>1, <2>2, Zenon DEF Survivors
<1>6. \A g \in 1..flushed : g \notin out /\ flushed + 1 > g
  BY <1>2
<1>7. Fits(0, 0, 0, out)
  <2>1. /\ out # {} /\ out \subseteq 1..flushed' /\ 1..flushed \subseteq 1..flushed'
        /\ 1..flushed' \subseteq 1..flushed \cup out /\ 1..0 = {}
    BY <1>2
  <2>2. ASSUME NEW m \in Levels, NEW i \in Survivors(m, 0, 0)
        PROVE levels[m][i] \cap out = {} /\ Newer(out, levels[m][i])
    BY <1>5, <1>6, Zenon DEF Newer
  <2>3. \A m \in Levels : ~(m < 0)
    BY <1>1
  <2> HIDE DEF out
  <2> QED
    BY <2>1, <2>2, <2>3, Zenon DEF Fits
<1>8. out \notin picked
  <2>1. SUFFICES ASSUME out \in picked PROVE FALSE
    BY Zenon
  <2>2. PICK m \in Levels : \E i \in DOMAIN levels[m] : out \subseteq levels[m][i]
    BY <2>1, Zenon DEF Inv, Covered
  <2>3. flushed + 1 \in 1..flushed
    BY <1>5, <2>2, Zenon
  <2> QED
    BY <1>6, <2>3, Zenon
<1>9. TasksKept
  BY TasksUnchanged, Zenon DEF Inv, Push
<1>10. ASSUME NEW m \in Levels PROVE Separates(m, 0, 0)
  <2>1. Open(m)' = Open(m)
    BY Zenon DEF Open, Push
  <2>2. turn'[m] \in 0..Len(tasks[m])
    BY Zenon DEF Inv, Queue, Push
  <2> QED
    BY <1>5, <2>1, <2>2, Zenon DEF Separates
<1>11. FirstDiscards'
  <2>1. levels'[LastLevel] = levels[LastLevel]
    BY <1>1, Zenon DEF Push, Inv, Shape
  <2> QED
    BY <2>1, ZenonT(60) DEF Inv, FirstDiscards, Push
<1>12. NoResurrection'
  <2>1. Placed(0, 0, 0, out)
    <3> HIDE DEF out
    <3> QED
      BY <1>1, <1>3, <1>4, MergedPlaces, Zenon DEF Inv
  <2>2. \A g \in collected : \A f \in out : f > g
    BY <1>2, <1>6, Zenon
  <2>3. collected' = collected /\ NoResurrection
    BY Zenon DEF Push, Inv
  <2> HIDE DEF out
  <2> QED
    BY <1>1, <2>1, <2>2, <2>3, MergedResurrection, Zenon
<1>13. \A i \in 1..0 : levels[0][i] \in picked
  OBVIOUS
<1>14. /\ turn' \in [Levels -> Nat] /\ flushed' \in Nat /\ collected' \subseteq 1..flushed'
       /\ UNCHANGED <<picked, errored, snapshot>>
  <2>1. 1..flushed \subseteq 1..flushed' /\ flushed' \in Nat
    BY <1>2
  <2> QED
    BY <1>2, <2>1, Zenon DEF Push, Inv, Shape
<1> HIDE DEF out
<1> QED
  BY <1>1, <1>3, <1>4, <1>7, <1>8, <1>9, <1>10, <1>11, <1>12, <1>13, <1>14, MergedInv, ZenonT(60)

=============================================================================
