------------------------- MODULE SequenceInduction -------------------------
(***************************************************************************)
(* Induction on the natural numbers, stated with sets instead of operators *)
(* so that every prover can use it, and what it gives: the least element   *)
(* of a set, functions defined by recursion on a position, and sequences   *)
(* of sequences put end to end.                                            *)
(***************************************************************************)
EXTENDS Integers, SequencesExt, FiniteSetsExt, SequenceTheorems, WellFoundedInduction, TLAPS

(* A set of natural numbers has a least element.                           *)
LEMMA Least ==
  ASSUME NEW S \in SUBSET Nat, S # {}
  PROVE  \E n \in S : \A m \in S : n <= m
<1> DEFINE R == OpToRel(<, Nat)
<1>1. IsWellFoundedOn(R, Nat)
  BY NatLessThanWellFounded, Zenon
<1>2. \A x, y \in Nat : <<x, y>> \in R <=> x < y
  BY DEF OpToRel
<1> HIDE DEF R
<1>3. PICK n \in S : \A m \in S : ~ (<<m, n>> \in R)
  BY <1>1, WFMin
<1>4. \A m \in S : ~ (m < n)
  BY <1>2, <1>3
<1>5. \A m \in S : m \in Nat /\ n \in Nat
  OBVIOUS
<1> QED
  BY <1>4, <1>5

(* Min chooses it.                                                         *)
LEMMA MinIsLeast ==
  ASSUME NEW S \in SUBSET Nat, S # {}
  PROVE  Min(S) \in S /\ \A m \in S : Min(S) <= m
BY Least DEF Min

(* A set that has 0, and with each number the next, has them all.          *)
LEMMA Induction ==
  ASSUME NEW S, 0 \in S, \A n \in Nat : n \in S => n + 1 \in S
  PROVE  Nat \subseteq S
<1> SUFFICES ASSUME Nat \ S # {} PROVE FALSE
  OBVIOUS
<1>1. PICK n \in Nat \ S : \A m \in Nat \ S : n <= m
  BY Least
<1> QED
  BY <1>1

(* The same up to a bound.                                                 *)
LEMMA InductionUpTo ==
  ASSUME NEW N \in Nat, NEW S, 0 \in S, \A n \in 0..(N - 1) : n \in S => n + 1 \in S
  PROVE  0..N \subseteq S
<1> DEFINE T == {n \in Nat : n <= N => n \in S}
<1>1. 0 \in T /\ \A n \in Nat : n \in T => n + 1 \in T
  OBVIOUS
<1> HIDE DEF T
<1>2. Nat \subseteq T
  BY <1>1, Induction
<1> QED
  BY <1>2 DEF T

(* A step G applied again and again, and its results.                      *)
StepOf(G, T, N) == G \in [T \X (1..N) -> T]
Results(u, base, G, N) == u[0] = base /\ \A i \in 1..N : u[i] = G[<<u[i - 1], i>>]

(* There is a function that has these results.                             *)
LEMMA Recursion ==
  ASSUME NEW T, NEW N \in Nat, NEW base \in T, NEW G, StepOf(G, T, N)
  PROVE  \E u \in [0..N -> T] : Results(u, base, G, N)
<1> USE DEF StepOf, Results
<1> DEFINE Upto(n) == \E u \in [0..n -> T] : u[0] = base /\ \A i \in 1..n : u[i] = G[<<u[i - 1], i>>]
           S == {n \in Nat : Upto(n)}
<1>1. Upto(0)
  <2> DEFINE w == [i \in 0..0 |-> base]
  <2>1. w \in [0..0 -> T] /\ w[0] = base
    OBVIOUS
  <2>2. \A i \in 1..0 : w[i] = G[<<w[i - 1], i>>]
    OBVIOUS
  <2> HIDE DEF w
  <2> QED
    BY <2>1, <2>2
<1>2. ASSUME NEW n \in 0..(N - 1), Upto(n) PROVE Upto(n + 1)
  <2>1. PICK u \in [0..n -> T] : u[0] = base /\ \A i \in 1..n : u[i] = G[<<u[i - 1], i>>]
    BY <1>2
  <2> DEFINE w == [i \in 0..(n + 1) |-> IF i = n + 1 THEN G[<<u[n], n + 1>>] ELSE u[i]]
  <2>2. u[n] \in T /\ n + 1 \in 1..N
    BY <2>1
  <2>3. G[<<u[n], n + 1>>] \in T
    BY <2>2
  <2>4. w \in [0..(n + 1) -> T] /\ w[0] = base /\ w[n + 1] = G[<<u[n], n + 1>>] /\ \A i \in 0..n : w[i] = u[i]
    BY <2>1, <2>3
  <2> HIDE DEF w
  <2>5. ASSUME NEW i \in 1..(n + 1) PROVE w[i] = G[<<w[i - 1], i>>]
    <3>1. CASE i = n + 1
      BY <2>4, <3>1
    <3>2. CASE i \in 1..n
      <4>1. i - 1 \in 0..n /\ i \in 0..n
        BY <3>2
      <4> QED
        BY <2>1, <2>4, <3>2, <4>1
    <3> QED
      BY <3>1, <3>2
  <2> QED
    BY <2>4, <2>5
<1> HIDE DEF Upto
<1>3. 0 \in S /\ \A n \in 0..(N - 1) : n \in S => n + 1 \in S
  BY <1>1, <1>2
<1> HIDE DEF S
<1>4. 0..N \subseteq S
  BY <1>3, InductionUpTo
<1>5. N \in S
  BY <1>4
<1> QED
  BY <1>5 DEF S, Upto

-----------------------------------------------------------------------------
(* FlattenSeq by prefixes: the results for the first n sequences.          *)
Accumulates(u, s) ==
  /\ u[0] = <<>>
  /\ \A i \in 1..Len(s) : u[i] = u[i - 1] \o s[i]

(* FlattenSeq is the last of the sequences Accumulates describes.          *)
LEMMA FlattenByPrefixes ==
  ASSUME NEW S, NEW s \in Seq(Seq(S))
  PROVE  \E u \in [0..Len(s) -> Seq(S)] : Accumulates(u, s) /\ FlattenSeq(s) = u[Len(s)]
<1> DEFINE N == Len(s)
           T == Seq(S)
           empty == <<>>
           G == [p \in T \X (1..N) |-> p[1] \o s[p[2]]]
<1>1. N \in Nat /\ empty \in T /\ (\A i \in 1..N : s[i] \in T) /\ \A x \in T : empty \o x = x
  OBVIOUS
<1>2. \A x, y \in T : x \o y \in T
  OBVIOUS
<1> HIDE DEF N, T, empty
<1>3. StepOf(G, T, N)
  BY <1>1, <1>2 DEF StepOf
<1>4. \A x \in T, i \in 1..N : G[<<x, i>>] = x \o s[i]
  OBVIOUS
<1> HIDE DEF G
<1>51. PICK u \in [0..N -> T] : Results(u, empty, G, N)
  BY <1>1, <1>3, Recursion
<1>5. u[0] = empty /\ \A i \in 1..N : u[i] = G[<<u[i - 1], i>>]
  BY <1>51 DEF Results
<1>52. 1 - 1 = 0
  OBVIOUS
<1>6. ASSUME NEW i \in 1..N PROVE u[i - 1] \in T /\ u[i] = u[i - 1] \o s[i]
  <2>1. i - 1 \in 0..N
    BY <1>1
  <2>2. u[i - 1] \in T
    BY <2>1
  <2> QED
    BY <1>4, <1>5, <2>2
<1>7. Accumulates(u, s)
  BY <1>5, <1>6 DEF Accumulates, N, empty
<1>8. CASE N = 0
  <2>1. s = <<>> /\ FlattenSeq(s) = s
    BY <1>8 DEF FlattenSeq, N
  <2> QED
    BY <1>5, <1>7, <1>8, <2>1 DEF empty, N, T
<1>9. CASE N # 0
  <2> DEFINE Eq(f) == f = [i \in 1..N |-> IF i = 1 THEN s[i] ELSE f[i - 1] \o s[i]]
             v == [i \in 1..N |-> u[i]]
  <2>1. ASSUME NEW i \in 1..N PROVE v[i] = IF i = 1 THEN s[i] ELSE v[i - 1] \o s[i]
    <3>1. CASE i = 1
      <4>1. u[1] = u[0] \o s[1]
        BY <1>6, <1>52, <3>1
      <4> QED
        BY <1>1, <1>5, <3>1, <4>1
    <3>2. CASE i # 1
      <4>1. i - 1 \in 1..N
        BY <1>1, <3>2
      <4> QED
        BY <1>6, <3>2, <4>1
    <3> QED
      BY <3>1, <3>2
  <2>2. Eq(v)
    BY <2>1
  <2> DEFINE f == CHOOSE g : Eq(g)
  <2> HIDE DEF v
  <2>3. Eq(f)
    BY <2>2
  <2>4. FlattenSeq(s) = f[N]
    BY <1>9 DEF FlattenSeq, N
  <2> HIDE DEF f
  <2> DEFINE I == {i \in Nat : i \in 1..N => f[i] = u[i]}
  <2>5. f[1] = u[1]
    <3>1. 1 \in 1..N
      BY <1>1, <1>9
    <3>2. f[1] = s[1]
      BY <2>3, <3>1
    <3>3. u[1] = u[0] \o s[1]
      BY <1>6, <1>52, <3>1
    <3> QED
      BY <1>1, <1>5, <3>1, <3>2, <3>3
  <2>6. ASSUME NEW i \in 1..(N - 1), f[i] = u[i] PROVE f[i + 1] = u[i + 1]
    <3>1. i + 1 \in 1..N /\ i + 1 # 1 /\ (i + 1) - 1 = i
      BY <1>1
    <3>2. f[i + 1] = f[i] \o s[i + 1]
      BY <2>3, <3>1
    <3>3. u[i + 1] = u[i] \o s[i + 1]
      BY <1>6, <3>1
    <3> QED
      BY <2>6, <3>2, <3>3
  <2>7. 0 \in I /\ \A n \in Nat : n \in I => n + 1 \in I
    BY <1>1, <2>5, <2>6
  <2> HIDE DEF I
  <2>8. N \in I
    BY <1>1, <2>7, Induction
  <2>9. f[N] = u[N]
    BY <1>1, <1>9, <2>8 DEF I
  <2> QED
    BY <1>7, <2>4, <2>9 DEF N, T
<1> QED
  BY <1>8, <1>9

(* Two sequences that begin with the same n elements.                      *)
SameUpTo(n, s, r) == \A i \in 1..n : s[i] = r[i]

(* Prefixes of one sequence are the beginning of those of a longer one.    *)
LEMMA SamePrefixes ==
  ASSUME NEW s, NEW r, NEW n \in Nat, n <= Len(s), n <= Len(r), Len(s) \in Nat, Len(r) \in Nat,
         NEW u, NEW v, Accumulates(u, s), Accumulates(v, r), SameUpTo(n, s, r)
  PROVE  u[n] = v[n]
<1> DEFINE S == {i \in Nat : i <= n => u[i] = v[i]}
<1>1. 0 \in S
  BY DEF Accumulates
<1>2. ASSUME NEW i \in Nat, i + 1 <= n, u[i] = v[i] PROVE u[i + 1] = v[i + 1]
  <2>1. i + 1 \in 1..Len(s) /\ i + 1 \in 1..Len(r) /\ i + 1 \in 1..n /\ (i + 1) - 1 = i
    BY <1>2
  <2>2. u[i + 1] = u[i] \o s[i + 1] /\ v[i + 1] = v[i] \o r[i + 1]
    BY <2>1 DEF Accumulates
  <2> QED
    BY <1>2, <2>1, <2>2 DEF SameUpTo
<1>3. \A i \in Nat : i \in S => i + 1 \in S
  BY <1>2
<1> HIDE DEF S
<1>4. n \in S
  BY <1>1, <1>3, Induction
<1> QED
  BY <1>4 DEF S

(* Flattening no sequences.                                                *)
LEMMA FlattenEmpty == FlattenSeq(<<>>) = <<>>
BY DEF FlattenSeq

(* Sequences of sequences flatten to a sequence.                           *)
LEMMA FlattenType ==
  ASSUME NEW S, NEW s \in Seq(Seq(S))
  PROVE  FlattenSeq(s) \in Seq(S)
<1>1. PICK u \in [0..Len(s) -> Seq(S)] : FlattenSeq(s) = u[Len(s)]
  BY FlattenByPrefixes
<1>2. Len(s) \in 0..Len(s)
  OBVIOUS
<1> QED
  BY <1>1, <1>2

(* One more sequence at the end.                                           *)
LEMMA FlattenAppend ==
  ASSUME NEW S, NEW s \in Seq(Seq(S)), NEW x \in Seq(S)
  PROVE  FlattenSeq(Append(s, x)) = FlattenSeq(s) \o x
<1> DEFINE r == Append(s, x)
           n == Len(s)
<1>1. r \in Seq(Seq(S)) /\ n \in Nat /\ Len(r) = n + 1 /\ r[n + 1] = x /\ \A i \in 1..n : s[i] = r[i]
  BY AppendProperties
<1> HIDE DEF r
<1>2. PICK u \in [0..n -> Seq(S)] : Accumulates(u, s) /\ FlattenSeq(s) = u[n]
  BY FlattenByPrefixes
<1>3. PICK v \in [0..Len(r) -> Seq(S)] : Accumulates(v, r) /\ FlattenSeq(r) = v[Len(r)]
  BY <1>1, FlattenByPrefixes
<1>4. u[n] = v[n]
  <2>1. n <= Len(s) /\ n <= Len(r) /\ Len(s) \in Nat /\ Len(r) \in Nat
    BY <1>1
  <2>2. Accumulates(u, s) /\ Accumulates(v, r) /\ n \in Nat /\ SameUpTo(n, s, r)
    BY <1>1, <1>2, <1>3 DEF SameUpTo
  <2> HIDE DEF n
  <2> QED
    BY <2>1, <2>2, SamePrefixes
<1>5. n + 1 \in 1..Len(r) /\ (n + 1) - 1 = n
  BY <1>1
<1>6. v[n + 1] = v[n] \o r[n + 1]
  BY <1>3, <1>5 DEF Accumulates
<1> QED
  BY <1>1, <1>2, <1>3, <1>4, <1>6 DEF r

Associates(S) == \A x, y, z \in Seq(S) : (x \o y) \o z = x \o (y \o z)

(* \o is associative.                                                      *)
LEMMA Regroups == ASSUME NEW S PROVE Associates(S)
BY ConcatAssociative DEF Associates

(* One more sequence at the front.                                         *)
LEMMA FlattenTail ==
  ASSUME NEW S, NEW s \in Seq(Seq(S)), s # <<>>
  PROVE  FlattenSeq(s) = Head(s) \o FlattenSeq(Tail(s))
<1> DEFINE r == Tail(s)
           n == Len(r)
           h == s[1]
<1>1. /\ r \in Seq(Seq(S)) /\ n \in Nat /\ Len(s) = n + 1 /\ Head(s) = h /\ h \in Seq(S)
      /\ \A i \in 1..n : r[i] = s[i + 1]
  OBVIOUS
<1> HIDE DEF r, n, h
<1>2. PICK u \in [0..Len(s) -> Seq(S)] : Accumulates(u, s) /\ FlattenSeq(s) = u[Len(s)]
  BY FlattenByPrefixes
<1>3. PICK v \in [0..n -> Seq(S)] : Accumulates(v, r) /\ FlattenSeq(r) = v[n]
  BY <1>1, FlattenByPrefixes DEF n
<1> DEFINE I == {i \in Nat : i <= n => u[i + 1] = h \o v[i]}
<1>4. 0 \in I
  <2>1. 1 \in 1..Len(s) /\ 0 + 1 = 1 /\ 1 - 1 = 0
    BY <1>1
  <2>2. u[1] = u[0] \o s[1] /\ u[0] = <<>> /\ v[0] = <<>>
    BY <1>2, <1>3, <2>1 DEF Accumulates
  <2>3. <<>> \o h = h /\ h \o <<>> = h
    BY <1>1
  <2>4. u[0 + 1] = h \o v[0]
    BY <2>1, <2>2, <2>3 DEF h
  <2> QED
    BY <2>4
<1>5. ASSUME NEW i \in Nat, i \in I PROVE i + 1 \in I
  <2> SUFFICES ASSUME i + 1 <= n PROVE u[i + 1 + 1] = h \o v[i + 1]
    OBVIOUS
  <2>1. i + 1 + 1 \in 1..Len(s) /\ i + 1 \in 1..n /\ (i + 1 + 1) - 1 = i + 1 /\ (i + 1) - 1 = i /\ i \in 0..n /\ i <= n
    BY <1>1
  <2>2. u[i + 1 + 1] = u[i + 1] \o s[i + 1 + 1] /\ v[i + 1] = v[i] \o r[i + 1]
    BY <1>2, <1>3, <2>1 DEF Accumulates, n
  <2>3. u[i + 1] = h \o v[i] /\ r[i + 1] = s[i + 1 + 1]
    BY <1>1, <1>5, <2>1
  <2>4. v[i] \in Seq(S) /\ r[i + 1] \in Seq(S)
    <3>1. \A j \in 1..Len(r) : r[j] \in Seq(S)
      BY <1>1
    <3> QED
      BY <1>3, <2>1, <3>1 DEF n
  <2>5. (h \o v[i]) \o r[i + 1] = h \o (v[i] \o r[i + 1])
    <3> DEFINE x == v[i]
               y == r[i + 1]
    <3>1. Associates(S)
      BY Regroups
    <3>2. h \in Seq(S)
      BY <1>1
    <3>3. x \in Seq(S)
      BY <2>4
    <3>4. y \in Seq(S)
      BY <2>4
    <3> HIDE DEF x, y
    <3>5. (h \o x) \o y = h \o (x \o y)
      BY <3>1, <3>2, <3>3, <3>4, Zenon DEF Associates
    <3> QED
      BY <3>5 DEF x, y
  <2> QED
    BY <2>2, <2>3, <2>5
<1> HIDE DEF I
<1>6. n \in I
  BY <1>1, <1>4, <1>5, Induction
<1>7. u[n + 1] = h \o v[n]
  BY <1>1, <1>6 DEF I
<1> QED
  BY <1>1, <1>2, <1>3, <1>7 DEF r
=============================================================================
