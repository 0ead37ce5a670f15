-------------------------- MODULE FmtStoresProofs --------------------------
(***************************************************************************)
(* Proofs about what a formatting call of fmt writes to and what it reads  *)
(* its arguments from.                                                     *)
(***************************************************************************)
EXTENDS MCFmtStores, SequenceInduction

(***************************************************************************)
(* The buffers.                                                            *)
(***************************************************************************)

(* Consecutive characters.                                                 *)
LEMMA CharsAre ==
  ASSUME NEW a \in Nat, NEW n \in Nat
  PROVE  /\ Buffer!Chars(a, n) \in Seq(Nat) /\ Len(Buffer!Chars(a, n)) = n
         /\ \A i \in 1..n : Buffer!Chars(a, n)[i] = a + i - 1
<1>1. \A i \in 1..n : a + i - 1 \in Nat
  OBVIOUS
<1>2. Buffer!Chars(a, n) \in [1..n -> Nat]
  BY <1>1 DEF Buffer!Chars
<1>3. Buffer!Chars(a, n) \in Seq(Nat) /\ Len(Buffer!Chars(a, n)) = n
  BY <1>2
<1> QED
  BY <1>3 DEF Buffer!Chars

(* A sequence of consecutive numbers is one of these.                      *)
LEMMA IsChars ==
  ASSUME NEW a \in Nat, NEW n \in Nat, NEW s \in Seq(Nat), Len(s) = n, \A i \in 1..n : s[i] = a + i - 1
  PROVE  s = Buffer!Chars(a, n)
<1>1. s \in [1..n -> Nat]
  BY LenProperties
<1>2. s = [i \in 1..n |-> s[i]]
  BY <1>1
<1> QED
  BY <1>2 DEF Buffer!Chars

LEMMA CharsJoin ==
  ASSUME NEW a \in Nat, NEW n \in Nat, NEW m \in Nat
  PROVE  Buffer!Chars(a, n) \o Buffer!Chars(a + n, m) = Buffer!Chars(a, n + m)
<1>1. PICK s \in Seq(Nat) : s = Buffer!Chars(a, n) /\ Len(s) = n /\ \A i \in 1..n : s[i] = a + i - 1
  BY CharsAre
<1>2. PICK t \in Seq(Nat) : t = Buffer!Chars(a + n, m) /\ Len(t) = m /\ \A i \in 1..m : t[i] = a + n + i - 1
  <2>1. a + n \in Nat
    OBVIOUS
  <2> QED
    BY <2>1, CharsAre
<1>3. PICK w \in Seq(Nat) : w = s \o t
  BY ConcatProperties
<1>4. Len(w) = n + m
  <2>1. Len(s \o t) = Len(s) + Len(t)
    BY ConcatProperties
  <2> QED
    BY <1>1, <1>2, <1>3, <2>1
<1>5. ASSUME NEW i \in 1..(n + m) PROVE w[i] = a + i - 1
  <2>1. CASE i <= n
    BY <1>1, <1>2, <1>3, <2>1, ConcatProperties
  <2>2. CASE i > n
    <3>1. i - n \in 1..m /\ w[i] = t[i - n]
      BY <1>1, <1>2, <1>3, <2>2, ConcatProperties, SMTT(30)
    <3> QED
      BY <1>2, <3>1
  <2> QED
    BY <2>1, <2>2
<1>6. w = Buffer!Chars(a, n + m)
  BY <1>4, <1>5, IsChars
<1> QED
  BY <1>1, <1>2, <1>3, <1>6

LEMMA CharsPart ==
  ASSUME NEW a \in Nat, NEW n \in Nat, NEW i \in 1..(n + 1), NEW j \in (i - 1)..n
  PROVE  SubSeq(Buffer!Chars(a, n), i, j) = Buffer!Chars(a + i - 1, j - i + 1)
<1>1. PICK s \in Seq(Nat) : s = Buffer!Chars(a, n) /\ Len(s) = n /\ \A k \in 1..n : s[k] = a + k - 1
  BY CharsAre
<1>2. PICK w : w = SubSeq(s, i, j)
  OBVIOUS
<1>3. PICK l \in Nat : l = j - i + 1
  OBVIOUS
<1>4. w \in Seq(Nat) /\ Len(w) = l /\ \A k \in 1..l : w[k] = s[i + k - 1]
  BY <1>1, <1>2, <1>3
<1>5. ASSUME NEW k \in 1..l PROVE w[k] = (a + i - 1) + k - 1
  <2>1. i + k - 1 \in 1..n
    BY <1>3
  <2> QED
    BY <1>1, <1>4, <2>1
<1>6. a + i - 1 \in Nat
  OBVIOUS
<1>7. w = Buffer!Chars(a + i - 1, l)
  BY <1>4, <1>5, <1>6, IsChars
<1> QED
  BY <1>1, <1>2, <1>3, <1>7

LEMMA CharsAppend ==
  ASSUME NEW a \in Nat, NEW n \in Nat
  PROVE  Append(Buffer!Chars(a, n), a + n) = Buffer!Chars(a, n + 1)
<1>1. PICK s \in Seq(Nat) : s = Buffer!Chars(a, n) /\ Len(s) = n /\ \A k \in 1..n : s[k] = a + k - 1
  BY CharsAre
<1>2. PICK w : w = Append(s, a + n)
  OBVIOUS
<1>3. w \in Seq(Nat) /\ Len(w) = n + 1 /\ \A k \in 1..(n + 1) : w[k] = a + k - 1
  <2>1. PICK x \in Nat : x = a + n
    OBVIOUS
  <2>2. w \in Seq(Nat) /\ Len(w) = n + 1 /\ w[n + 1] = x /\ \A k \in 1..n : w[k] = s[k]
    BY <1>1, <1>2, <2>1, AppendProperties
  <2>3. ASSUME NEW k \in 1..(n + 1) PROVE w[k] = a + k - 1
    <3>1. k \in 1..n \/ k = n + 1
      OBVIOUS
    <3> QED
      BY <1>1, <2>1, <2>2, <3>1
  <2> QED
    BY <2>2, <2>3
<1>4. w = Buffer!Chars(a, n + 1)
  BY <1>3, IsChars
<1> QED
  BY <1>1, <1>2, <1>4

(* What a flush with a limit takes of d characters when p have gone.        *)
Taken(l, p, d) == IF l > p THEN Buffer!Least(d, l - p) ELSE 0

(* What a flush with a limit leaves in the destination.                    *)
LEMMA LimitedChars ==
  ASSUME NEW l \in Nat, NEW p \in Nat, NEW d \in Nat
  PROVE  /\ Taken(l, p, d) \in 0..d
         /\ Buffer!Chars(1, Buffer!Least(l, p)) \o SubSeq(Buffer!Chars(1 + p, d), 1, Taken(l, p, d))
              = Buffer!Chars(1, Buffer!Least(l, p + d))
<1>1. Taken(l, p, d) \in 0..d
  <2>1. CASE l > p
    BY <2>1 DEF Taken, Buffer!Least
  <2>2. CASE ~ (l > p)
    BY <2>2 DEF Taken
  <2> QED
    BY <2>1, <2>2
<1>2. PICK n \in 0..d : n = Taken(l, p, d)
  BY <1>1
<1>3. SubSeq(Buffer!Chars(1 + p, d), 1, n) = Buffer!Chars(1 + p, n)
  <2>1. PICK a \in Nat : a = 1 + p
    OBVIOUS
  <2>2. 1 \in 1..(d + 1) /\ n \in (1 - 1)..d /\ a + 1 - 1 = a /\ n - 1 + 1 = n
    BY <2>1
  <2>3. SubSeq(Buffer!Chars(a, d), 1, n) = Buffer!Chars(a + 1 - 1, n - 1 + 1)
    BY <2>2, CharsPart, ZenonT(40)
  <2> QED
    BY <2>1, <2>2, <2>3
<1>4. PICK m \in Nat : m = Buffer!Least(l, p)
  BY DEF Buffer!Least
<1>5. CASE l > p
  <2>1. m = p /\ p + n = Buffer!Least(l, p + d)
    BY <1>2, <1>4, <1>5 DEF Buffer!Least, Taken
  <2>2. Buffer!Chars(1, p) \o Buffer!Chars(1 + p, n) = Buffer!Chars(1, p + n)
    <3>1. 1 \in Nat /\ n \in Nat
      OBVIOUS
    <3> QED
      BY <3>1, CharsJoin, ZenonT(40)
  <2> QED
    BY <1>1, <1>2, <1>3, <1>4, <2>1, <2>2
<1>6. CASE ~ (l > p)
  <2>1. n = 0 /\ m = l /\ l = Buffer!Least(l, p + d) /\ l + 0 = l /\ 1 \in Nat /\ 0 \in Nat
    BY <1>2, <1>4, <1>6 DEF Buffer!Least, Taken
  <2>2. Buffer!Chars(1 + p, 0) = Buffer!Chars(1 + l, 0)
    BY DEF Buffer!Chars
  <2>3. Buffer!Chars(1, l) \o Buffer!Chars(1 + l, 0) = Buffer!Chars(1, l + 0)
    BY <2>1, CharsJoin, ZenonT(40)
  <2> QED
    BY <1>1, <1>2, <1>3, <1>4, <2>1, <2>2, <2>3
<1> QED
  BY <1>5, <1>6

BufferType == [data : Seq(Nat), capacity : Nat, inplace : BOOLEAN, dest : Seq(Nat), count : Nat]
Is(e, d, k, i, x, c) == /\ e \in BufferType /\ e.data = d /\ e.capacity = k /\ e.inplace = i
                        /\ e.dest = x /\ e.count = c

(* What the functions of the buffers make of one, field by field.          *)
LEMMA Updates ==
  ASSUME NEW b \in BufferType
  PROVE  /\ \A d \in Seq(Nat), x \in Seq(Nat) : Is([b EXCEPT !.dest = x, !.data = d], d, b.capacity, b.inplace, x, b.count)
         /\ \A d \in Seq(Nat), x \in Seq(Nat), c \in Nat : Is([b EXCEPT !.dest = x, !.count = c, !.data = d], d, b.capacity, b.inplace, x, c)
         /\ \A k \in Nat : Is([b EXCEPT !.inplace = FALSE, !.capacity = k], b.data, k, FALSE, b.dest, b.count)
         /\ \A x \in Seq(Nat) : Is([b EXCEPT !.dest = x], b.data, b.capacity, b.inplace, x, b.count)
         /\ \A d \in Seq(Nat), c \in Nat : Is([b EXCEPT !.count = c, !.data = d], d, b.capacity, b.inplace, b.dest, c)
         /\ \A k \in Nat : Is([b EXCEPT !.capacity = k], b.data, k, b.inplace, b.dest, b.count)
         /\ \A k \in Nat : Is([b EXCEPT !.capacity = k, !.inplace = FALSE], b.data, k, FALSE, b.dest, b.count)
         /\ \A d \in Seq(Nat) : Is([b EXCEPT !.data = d], d, b.capacity, b.inplace, b.dest, b.count)
<1>1. \A d \in Seq(Nat), x \in Seq(Nat) : Is([b EXCEPT !.dest = x, !.data = d], d, b.capacity, b.inplace, x, b.count)
  BY Zenon DEF BufferType, Is
<1>2. \A d \in Seq(Nat), x \in Seq(Nat), c \in Nat : Is([b EXCEPT !.dest = x, !.count = c, !.data = d], d, b.capacity, b.inplace, x, c)
  BY Zenon DEF BufferType, Is
<1>3. \A k \in Nat : Is([b EXCEPT !.inplace = FALSE, !.capacity = k], b.data, k, FALSE, b.dest, b.count)
  BY Zenon DEF BufferType, Is
<1>4. \A x \in Seq(Nat) : Is([b EXCEPT !.dest = x], b.data, b.capacity, b.inplace, x, b.count)
  BY Zenon DEF BufferType, Is
<1>5. \A d \in Seq(Nat), c \in Nat : Is([b EXCEPT !.count = c, !.data = d], d, b.capacity, b.inplace, b.dest, c)
  BY Zenon DEF BufferType, Is
<1>6. \A k \in Nat : Is([b EXCEPT !.capacity = k], b.data, k, b.inplace, b.dest, b.count)
  BY Zenon DEF BufferType, Is
<1>7. \A k \in Nat : Is([b EXCEPT !.capacity = k, !.inplace = FALSE], b.data, k, FALSE, b.dest, b.count)
  BY Zenon DEF BufferType, Is
<1>8. \A d \in Seq(Nat) : Is([b EXCEPT !.data = d], d, b.capacity, b.inplace, b.dest, b.count)
  BY Zenon DEF BufferType, Is
<1> QED
  BY <1>1, <1>2, <1>3, <1>4, <1>5, <1>6, <1>7, <1>8, ZenonT(40)

(* How many characters are in the destination when p have left the block.  *)
DestLen(p) == IF kind = "iterator" THEN p
              ELSE IF kind \in {"limited", "array"} THEN Buffer!Least(limit, p) ELSE 0
Flushing == {"iterator", "limited", "array", "counting"}

(* The block has the last d of t characters, and the destination the       *)
(* first ones.                                                             *)
Holds(b, t, d) ==
  /\ d \in 0..t /\ b.data = Buffer!Chars(1 + (t - d), d)
  /\ b.dest = Buffer!Chars(1, DestLen(t - d))
  /\ b.count = (IF kind \in {"limited", "array", "counting"} THEN t - d ELSE 0)
  /\ kind \notin Flushing => d = t

(* The capacity is that of the kind.                                       *)
HasRoom(b, t, d) ==
  /\ d <= b.capacity
  /\ kind \in {"iterator", "limited", "counting"} => b.capacity = BufferSize
  /\ kind = "pointer" => b.capacity = NotLimited
  /\ kind = "array" => IF b.inplace THEN d = t /\ b.capacity = limit
                       ELSE t - d >= limit /\ b.capacity = BufferSize

(* flush() moves what the block has to the destination.                    *)
LEMMA FlushMoves ==
  ASSUME kind \in Flushing, limit \in Nat, NEW t \in Nat, NEW d, NEW b \in BufferType, Holds(b, t, d), HasRoom(b, t, d)
  PROVE  /\ Buffer!Flush(b) \in BufferType /\ Holds(Buffer!Flush(b), t, 0)
         /\ kind # "array" => Buffer!Flush(b).capacity = b.capacity
         /\ kind = "array" => ~ Buffer!Flush(b).inplace /\ Buffer!Flush(b).capacity = BufferSize
<1>1. PICK p \in Nat : p = t - d /\ t = p + d /\ d \in Nat
  BY DEF Holds
<1>2. b.data = Buffer!Chars(1 + p, d) /\ b.dest = Buffer!Chars(1, DestLen(p)) /\ Len(b.data) = d
  <2>1. b.data = Buffer!Chars(1 + p, d) /\ b.dest = Buffer!Chars(1, DestLen(p)) /\ 1 + p \in Nat /\ d \in Nat
    BY <1>1 DEF Holds
  <2> QED
    BY <2>1, CharsAre
<1>3. DestLen(t) \in Nat /\ DestLen(p) \in Nat
  BY <1>1 DEF DestLen, Buffer!Least
<1>4. Buffer!Chars(1, DestLen(t)) \in Seq(Nat) /\ <<>> \in Seq(Nat) /\ t - 0 = t
  BY <1>3, CharsAre
<1>5. ASSUME NEW e \in BufferType, e.data = <<>>, e.dest = Buffer!Chars(1, DestLen(t)),
             e.count = IF kind = "iterator" THEN 0 ELSE t
      PROVE  Holds(e, t, 0)
  <2>1. e.data = Buffer!Chars(1 + (t - 0), 0)
    BY <1>5 DEF Buffer!Chars
  <2> QED
    BY <1>4, <1>5, <2>1 DEF Holds, Flushing
<1>6. b.data \in Seq(Nat) /\ b.capacity \in Nat /\ b.inplace \in BOOLEAN /\ b.dest \in Seq(Nat) /\ b.count \in Nat
  BY DEF BufferType
<1>8. CASE kind = "iterator"
  <2>1. b.dest \o b.data = Buffer!Chars(1, DestLen(t)) /\ b.count = 0
    <3>1. DestLen(p) = p /\ DestLen(t) = p + d /\ 1 \in Nat /\ b.count = 0
      BY <1>1, <1>8 DEF DestLen, Holds
    <3>2. Buffer!Chars(1, p) \o Buffer!Chars(1 + p, d) = Buffer!Chars(1, p + d)
      BY <1>1, <3>1, CharsJoin, ZenonT(40)
    <3> QED
      BY <1>2, <3>1, <3>2
  <2>2. Buffer!Flush(b) = [b EXCEPT !.dest = Buffer!Chars(1, DestLen(t)), !.data = <<>>]
    BY <1>8, <2>1, ZenonT(40) DEF Buffer!Flush
  <2>3. \A u \in Seq(Nat), x \in Seq(Nat) : Is([b EXCEPT !.dest = x, !.data = u], u, b.capacity, b.inplace, x, b.count)
    BY Updates, ZenonT(40)
  <2>4. Is(Buffer!Flush(b), <<>>, b.capacity, b.inplace, Buffer!Chars(1, DestLen(t)), b.count)
    BY <1>4, <2>2, <2>3, ZenonT(40)
  <2> QED
    BY <1>5, <1>8, <2>1, <2>4 DEF Is
<1>9. CASE kind = "counting"
  <2>1. b.count + Len(b.data) = t /\ DestLen(p) = DestLen(t)
    BY <1>1, <1>2, <1>9 DEF Holds, DestLen
  <2>2. Buffer!Flush(b) = [b EXCEPT !.count = t, !.data = <<>>]
    BY <1>9, <2>1, ZenonT(40) DEF Buffer!Flush
  <2>3. Is(Buffer!Flush(b), <<>>, b.capacity, b.inplace, b.dest, t)
    BY <1>4, <2>2, Updates, ZenonT(40)
  <2> QED
    BY <1>2, <1>5, <1>9, <2>1, <2>3 DEF Is
<1>10. ASSUME kind \in {"limited", "array"}
       PROVE  Is(Buffer!LimitedPrefix(b), <<>>, b.capacity, b.inplace, Buffer!Chars(1, DestLen(t)), t)
  <2>1. b.count = p /\ b.count + Len(b.data) = t
    BY <1>1, <1>2, <1>10 DEF Holds
  <2>2. b.dest \o SubSeq(b.data, 1, Taken(limit, p, d)) = Buffer!Chars(1, DestLen(t))
    <3>1. DestLen(p) = Buffer!Least(limit, p) /\ DestLen(t) = Buffer!Least(limit, p + d)
      BY <1>1, <1>10 DEF DestLen
    <3>2. Buffer!Chars(1, Buffer!Least(limit, p)) \o SubSeq(Buffer!Chars(1 + p, d), 1, Taken(limit, p, d))
            = Buffer!Chars(1, Buffer!Least(limit, p + d))
      BY <1>1, LimitedChars, ZenonT(40)
    <3> QED
      BY <1>2, <3>1, <3>2
  <2>3. Taken(limit, p, d) = IF limit > b.count THEN Buffer!Least(Len(b.data), limit - b.count) ELSE 0
    BY <1>2, <2>1 DEF Taken
  <2>4. Buffer!LimitedPrefix(b) = [b EXCEPT !.dest = Buffer!Chars(1, DestLen(t)), !.count = t, !.data = <<>>]
    BY <2>1, <2>2, <2>3, ZenonT(40) DEF Buffer!LimitedPrefix
  <2>5. t \in Nat
    OBVIOUS
  <2>6. \A u \in Seq(Nat), x \in Seq(Nat), c \in Nat :
          Is([b EXCEPT !.dest = x, !.count = c, !.data = u], u, b.capacity, b.inplace, x, c)
    BY Updates, ZenonT(40)
  <2> QED
    BY <1>4, <2>4, <2>5, <2>6, ZenonT(40)
<1>11. CASE kind = "limited"
  <2>1. Buffer!Flush(b) = Buffer!LimitedPrefix(b)
    BY <1>11, ZenonT(40) DEF Buffer!Flush
  <2> QED
    BY <1>5, <1>10, <1>11, <2>1 DEF Is
<1>12. CASE kind = "array"
  <2>1. Buffer!Flush(b) = Buffer!FlushArray(b)
    BY <1>12, ZenonT(40) DEF Buffer!Flush
  <2>2. PICK l \in BufferType : l = Buffer!LimitedPrefix(b) /\ Is(l, <<>>, b.capacity, b.inplace, Buffer!Chars(1, DestLen(t)), t)
    BY <1>10, <1>12 DEF Is
  <2>3. CASE b.inplace
    <3>1. Buffer!Flush(b) = [l EXCEPT !.inplace = FALSE, !.capacity = BufferSize]
      BY <2>1, <2>2, <2>3, ZenonT(40) DEF Buffer!FlushArray
    <3>2. BufferSize \in Nat
      BY BufferAssumption
    <3>3. Is(Buffer!Flush(b), l.data, BufferSize, FALSE, l.dest, l.count)
      BY <3>1, <3>2, Updates, ZenonT(40)
    <3>4. Is(Buffer!Flush(b), <<>>, BufferSize, FALSE, Buffer!Chars(1, DestLen(t)), t)
      BY <2>2, <3>3 DEF Is
    <3> QED
      BY <1>5, <1>12, <3>4 DEF Is
  <2>4. CASE ~ b.inplace
    <3>1. Buffer!Flush(b) = [l EXCEPT !.dest = b.dest]
      BY <2>1, <2>2, <2>4, ZenonT(40) DEF Buffer!FlushArray
    <3>2. p >= limit /\ b.capacity = BufferSize
      BY <1>1, <1>12, <2>4 DEF HasRoom
    <3>3. DestLen(p) = DestLen(t)
      BY <1>1, <1>12, <3>2 DEF DestLen, Buffer!Least
    <3>4. Is(Buffer!Flush(b), l.data, l.capacity, l.inplace, b.dest, l.count)
      BY <1>6, <3>1, Updates, ZenonT(40)
    <3>5. Is(Buffer!Flush(b), <<>>, BufferSize, b.inplace, Buffer!Chars(1, DestLen(t)), t)
      BY <1>2, <2>2, <3>2, <3>3, <3>4 DEF Is
    <3> QED
      BY <1>5, <1>12, <2>4, <3>5 DEF Is
  <2> QED
    BY <2>3, <2>4
<1> QED
  BY <1>8, <1>9, <1>11, <1>12 DEF Flushing

LEMMA LargerOfTwo ==
  ASSUME NEW a \in Nat, NEW b \in Nat
  PROVE  Buffer!Max({a, b}) \in Nat /\ Buffer!Max({a, b}) >= a
<1>1. \E x \in {a, b} : \A y \in {a, b} : x >= y
  <2>1. CASE a >= b
    BY <2>1
  <2>2. CASE ~ (a >= b)
    BY <2>2
  <2> QED
    BY <2>1, <2>2
<1> QED
  BY <1>1 DEF Buffer!Max

(* grow_() and try_reserve() keep what the buffer holds and make room: for *)
(* all of it where the block can grow, for something where it is flushed.  *)
MadeRoom(b, e, t, d, n) ==
  /\ e \in BufferType /\ HasRoom(e, t, d) /\ Holds(e, t, d)
  /\ n > d => d < e.capacity
  /\ kind \notin Flushing => n <= e.capacity
  /\ kind = "container" => e.capacity = IF n > b.capacity THEN n ELSE b.capacity

LEMMA TryReserve ==
  ASSUME kind \in Kinds, limit \in Nat, NEW t \in 0..MaxChars, NEW d, NEW b \in BufferType, Holds(b, t, d), HasRoom(b, t, d),
         NEW n \in Nat, n <= MaxChars + MaxAtOnce
  PROVE  \E e \in BufferType, c \in 0..d : e = Buffer!try_reserve(b, n) /\ MadeRoom(b, e, t, c, n)
<1>1. t \in Nat /\ d \in 0..t /\ b.capacity \in Nat
  BY BufferAssumption DEF Holds, BufferType
<1>2. CASE ~ (n > b.capacity)
  <2>1. Buffer!try_reserve(b, n) = b
    BY <1>2 DEF Buffer!try_reserve
  <2>2. MadeRoom(b, b, t, d, n)
    BY <1>1, <1>2 DEF MadeRoom
  <2> QED
    BY <1>1, <2>1, <2>2
<1>3. CASE n > b.capacity /\ kind \in Flushing
  <2>1. Buffer!try_reserve(b, n) = IF Len(b.data) = b.capacity THEN Buffer!Flush(b) ELSE b
    <3>1. Buffer!try_reserve(b, n) = Buffer!Grow(b, n)
      BY <1>3, ZenonT(40) DEF Buffer!try_reserve
    <3> QED
      BY <1>3, <3>1, ZenonT(40) DEF Flushing, Buffer!Grow
  <2>2. Len(b.data) = d
    <3>1. 1 + (t - d) \in Nat /\ d \in Nat /\ b.data = Buffer!Chars(1 + (t - d), d)
      BY <1>1 DEF Holds
    <3> QED
      BY <3>1, CharsAre
  <2>3. CASE d = b.capacity
    <3>1. PICK e : e = Buffer!Flush(b)
      OBVIOUS
    <3>2. /\ e \in BufferType /\ Holds(e, t, 0)
          /\ kind # "array" => e.capacity = b.capacity
          /\ kind = "array" => ~ e.inplace /\ e.capacity = BufferSize
      BY <1>1, <1>3, <3>1, FlushMoves
    <3>3. e.capacity = BufferSize /\ BufferSize \in Nat \ {0}
      BY <1>3, <3>2, BufferAssumption DEF HasRoom, Flushing
    <3>4. kind = "array" => t - 0 >= limit
      BY <1>1, <2>3 DEF HasRoom
    <3>5. HasRoom(e, t, 0)
      BY <1>3, <3>2, <3>3, <3>4 DEF HasRoom, Flushing
    <3>6. MadeRoom(b, e, t, 0, n)
      BY <1>3, <3>2, <3>3, <3>5 DEF MadeRoom, Flushing
    <3>7. e = Buffer!try_reserve(b, n)
      BY <2>1, <2>2, <2>3, <3>1
    <3> QED
      BY <1>1, <3>2, <3>6, <3>7
  <2>4. CASE d # b.capacity
    <3>1. Buffer!try_reserve(b, n) = b
      BY <2>1, <2>2, <2>4
    <3>2. d < b.capacity
      BY <1>1, <2>4 DEF HasRoom
    <3>3. MadeRoom(b, b, t, d, n)
      BY <1>3, <3>2 DEF MadeRoom, Flushing
    <3> QED
      BY <1>1, <3>1, <3>3
  <2> QED
    BY <2>3, <2>4
<1>4. CASE n > b.capacity /\ kind = "container"
  <2>1. Buffer!try_reserve(b, n) = [b EXCEPT !.capacity = n]
    <3>1. Buffer!try_reserve(b, n) = Buffer!Grow(b, n)
      BY <1>4, ZenonT(40) DEF Buffer!try_reserve
    <3> QED
      BY <1>4, <3>1, ZenonT(40) DEF Buffer!Grow
  <2>2. PICK e \in BufferType : e = Buffer!try_reserve(b, n) /\ Is(e, b.data, n, b.inplace, b.dest, b.count)
    <3>1. \A k \in Nat : Is([b EXCEPT !.capacity = k], b.data, k, b.inplace, b.dest, b.count)
      BY Updates, ZenonT(40)
    <3> QED
      BY <2>1, <3>1, ZenonT(40) DEF Is
  <2>3. Holds(e, t, d) /\ HasRoom(e, t, d)
    BY <1>1, <1>4, <2>2 DEF Holds, HasRoom, Is
  <2>4. MadeRoom(b, e, t, d, n)
    BY <1>1, <1>4, <2>2, <2>3 DEF MadeRoom, Is, Flushing
  <2> QED
    BY <1>1, <2>2, <2>4
<1>5. CASE n > b.capacity /\ kind = "memory"
  <2>1. PICK k \in Nat : k = Buffer!MemoryCapacity(b, n) /\ k >= n
    <3>1. PICK l \in Nat : l = b.capacity + b.capacity \div 2
      BY <1>1
    <3>2. Buffer!MemoryCapacity(b, n) = IF n > l THEN n ELSE IF l > AllocMax THEN Buffer!Max({n, AllocMax}) ELSE l
      BY <3>1 DEF Buffer!MemoryCapacity
    <3>3. AllocMax \in Nat
      BY BufferAssumption
    <3>4. Buffer!Max({n, AllocMax}) \in Nat /\ Buffer!Max({n, AllocMax}) >= n
      BY <3>3, LargerOfTwo
    <3> QED
      BY <3>2, <3>4
  <2>2. Buffer!try_reserve(b, n) = [b EXCEPT !.capacity = k, !.inplace = FALSE]
    <3>1. Buffer!try_reserve(b, n) = Buffer!Grow(b, n)
      BY <1>5, ZenonT(40) DEF Buffer!try_reserve
    <3> QED
      BY <1>5, <2>1, <3>1, ZenonT(40) DEF Buffer!Grow
  <2>3. PICK e \in BufferType : e = Buffer!try_reserve(b, n) /\ Is(e, b.data, k, FALSE, b.dest, b.count)
    <3>1. \A j \in Nat : Is([b EXCEPT !.capacity = j, !.inplace = FALSE], b.data, j, FALSE, b.dest, b.count)
      BY Updates, ZenonT(40)
    <3> QED
      BY <2>2, <3>1, ZenonT(40) DEF Is
  <2>4. Holds(e, t, d) /\ HasRoom(e, t, d)
    BY <1>1, <1>5, <2>1, <2>3 DEF Holds, HasRoom, Is
  <2>5. MadeRoom(b, e, t, d, n)
    BY <1>1, <1>5, <2>1, <2>3, <2>4 DEF MadeRoom, Is, Flushing
  <2> QED
    BY <1>1, <2>3, <2>5
<1>6. CASE n > b.capacity /\ kind = "pointer"
  BY <1>1, <1>6, BufferAssumption DEF HasRoom
<1> QED
  BY <1>2, <1>3, <1>4, <1>5, <1>6, BufferAssumption DEF Flushing

(* The next characters are appended to the block.                          *)
Appended(b, s) == [b EXCEPT !.data = @ \o s]

LEMMA AppendChars ==
  ASSUME limit \in Nat, NEW t \in Nat, NEW d \in 0..t, NEW b \in BufferType, Holds(b, t, d), HasRoom(b, t, d),
         NEW m \in Nat, d + m <= b.capacity
  PROVE  LET e == Appended(b, Buffer!Chars(t + 1, m))
         IN  e \in BufferType /\ Holds(e, t + m, d + m) /\ HasRoom(e, t + m, d + m) /\ e.capacity = b.capacity
<1>1. PICK p \in Nat : p = t - d /\ t = p + d /\ t + 1 = 1 + p + d
  OBVIOUS
<1>2. b.data = Buffer!Chars(1 + p, d) /\ Buffer!Chars(1 + p, d) \o Buffer!Chars(1 + p + d, m) = Buffer!Chars(1 + p, d + m)
  <2>1. 1 + p \in Nat /\ d \in Nat
    OBVIOUS
  <2>2. Buffer!Chars(1 + p, d) \o Buffer!Chars(1 + p + d, m) = Buffer!Chars(1 + p, d + m)
    BY <2>1, CharsJoin, ZenonT(40)
  <2>3. b.data = Buffer!Chars(1 + p, d)
    BY <1>1 DEF Holds
  <2> QED
    BY <2>2, <2>3
<1>3. Buffer!Chars(1 + p, d + m) \in Seq(Nat)
  <2>1. 1 + p \in Nat /\ d + m \in Nat
    OBVIOUS
  <2> QED
    BY <2>1, CharsAre
<1>4. b.data \o Buffer!Chars(t + 1, m) = Buffer!Chars(1 + p, d + m)
  BY <1>1, <1>2
<1>5. PICK e : e = Appended(b, Buffer!Chars(t + 1, m))
  OBVIOUS
<1>6. e = [b EXCEPT !.data = Buffer!Chars(1 + p, d + m)]
  BY <1>4, <1>5, ZenonT(40) DEF Appended
<1>7. Is(e, Buffer!Chars(1 + p, d + m), b.capacity, b.inplace, b.dest, b.count)
  <2>1. \A u \in Seq(Nat) : Is([b EXCEPT !.data = u], u, b.capacity, b.inplace, b.dest, b.count)
    BY Updates, ZenonT(40)
  <2> QED
    BY <1>3, <1>6, <2>1, ZenonT(40)
<1>8. (t + m) - (d + m) = p /\ d + m \in 0..(t + m) /\ (d = t => d + m = t + m)
  BY <1>1
<1>9. Holds(e, t + m, d + m)
  BY <1>1, <1>7, <1>8 DEF Holds, Is
<1>10. HasRoom(e, t + m, d + m)
  BY <1>1, <1>7, <1>8 DEF HasRoom, Is
<1> QED
  BY <1>5, <1>7, <1>9, <1>10 DEF Is

-----------------------------------------------------------------------------
(* The state: t characters are in the buffer or passed on, d of them still *)
(* in the block, and r are to be copied.                                   *)
ContainerRoom(k, d, r, v) == k <= d + r + v /\ (v > 0 => k = d + r + v)
BufferAt(t, r, d) ==
  /\ next = t + r + 1 /\ rest = Buffer!Chars(t + 1, r)
  /\ Holds(Buffer!Buf, t, d) /\ d <= capacity
  /\ pc = "open" => HasRoom(Buffer!Buf, t, d)
  /\ pc = "closed" => /\ r = 0 /\ reserved = 0
                      /\ kind \in {"iterator", "limited", "array"} => d = 0
                      /\ kind = "array" => ~ inplace
  /\ kind = "container" => ContainerRoom(capacity, d, r, reserved)

BufferInv ==
  /\ kind \in Kinds /\ limit \in Nat /\ (kind \notin {"limited", "array"} => limit = NotLimited)
  /\ Buffer!Buf \in BufferType
  /\ next \in 1..(MaxChars + 1) /\ reserved \in 0..MaxAtOnce /\ pc \in {"open", "closed"}
  /\ \E t, r, d \in 0..MaxChars : BufferAt(t, r, d)

(* What a step that leaves the buffer open has to show.                    *)
StaysOpen(e, t, r, d) ==
  /\ Holds(e, t, d) /\ HasRoom(e, t, d) /\ t + r <= MaxChars
  /\ pc' = "open" /\ next' = t + r + 1 /\ rest' = Buffer!Chars(t + 1, r) /\ reserved' \in 0..MaxAtOnce
  /\ kind = "container" => ContainerRoom(e.capacity, d, r, reserved')

LEMMA Becomes ==
  ASSUME BufferInv, kind' = kind, limit' = limit, NEW e \in BufferType, Buffer!IsBuf(e),
         NEW t \in 0..MaxChars, NEW r \in 0..MaxChars, NEW d \in 0..MaxChars, StaysOpen(e, t, r, d)
  PROVE  BufferInv'
<1>1. Buffer!Buf' = e
  <2>1. Buffer!Buf' = [data |-> e.data, capacity |-> e.capacity, inplace |-> e.inplace, dest |-> e.dest, count |-> e.count]
    BY DEF Buffer!Buf, Buffer!IsBuf
  <2> QED
    BY <2>1, ZenonT(40) DEF BufferType
<1>2. Holds(Buffer!Buf, t, d)'
  BY <1>1 DEF Holds, DestLen, StaysOpen
<1>3. HasRoom(Buffer!Buf, t, d)'
  BY <1>1 DEF HasRoom, StaysOpen
<1>4. capacity' = e.capacity /\ d <= e.capacity
  BY DEF Buffer!IsBuf, StaysOpen, HasRoom
<1>5. BufferAt(t, r, d)'
  BY <1>2, <1>3, <1>4 DEF BufferAt, StaysOpen, ContainerRoom
<1>6. next' \in 1..(MaxChars + 1)
  BY BufferAssumption DEF StaysOpen
<1> QED
  BY <1>1, <1>5, <1>6 DEF BufferInv, StaysOpen

(* What the invariant says of an open buffer.                              *)
OpenAt(t, r, d) ==
  /\ next = t + r + 1 /\ rest = Buffer!Chars(t + 1, r) /\ Len(rest) = r /\ (r = 0 <=> rest = <<>>) /\ t + r <= MaxChars
  /\ Holds(Buffer!Buf, t, d) /\ HasRoom(Buffer!Buf, t, d) /\ Len(data) = d /\ d <= t
  /\ kind = "container" => ContainerRoom(capacity, d, r, reserved)

LEMMA ItIsOpen ==
  ASSUME BufferInv, pc = "open"
  PROVE  \E t, r, d \in 0..MaxChars : OpenAt(t, r, d)
<1>1. PICK t \in 0..MaxChars, r \in 0..MaxChars, d \in 0..MaxChars : BufferAt(t, r, d)
  BY DEF BufferInv
<1>2. Len(rest) = r /\ (r = 0 <=> rest = <<>>)
  <2>1. rest = Buffer!Chars(t + 1, r) /\ t + 1 \in Nat /\ r \in Nat
    BY <1>1, BufferAssumption DEF BufferAt
  <2>2. rest \in Seq(Nat) /\ Len(rest) = r
    BY <2>1, CharsAre
  <2> QED
    BY <2>1, <2>2
<1>3. Len(data) = d /\ d <= t
  <2>1. Buffer!Buf.data = Buffer!Chars(1 + (t - d), d) /\ 1 + (t - d) \in Nat /\ d \in Nat /\ d <= t
    BY <1>1, BufferAssumption DEF BufferAt, Holds
  <2>2. Buffer!Buf.data = data
    BY DEF Buffer!Buf
  <2>3. Len(Buffer!Chars(1 + (t - d), d)) = d
    BY <2>1, CharsAre
  <2> QED
    BY <2>1, <2>2, <2>3
<1>4. t + r <= MaxChars
  BY <1>1, BufferAssumption DEF BufferAt, BufferInv
<1>5. OpenAt(t, r, d)
  BY <1>1, <1>2, <1>3, <1>4 DEF OpenAt, BufferAt, ContainerRoom
<1> QED
  BY <1>5

LEMMA BlockLength ==
  ASSUME NEW t \in Nat, NEW d, NEW b, Holds(b, t, d)
  PROVE  Len(b.data) = d /\ b.data \in Seq(Nat)
<1>1. b.data = Buffer!Chars(1 + (t - d), d) /\ 1 + (t - d) \in Nat /\ d \in Nat
  BY DEF Holds
<1>2. Len(Buffer!Chars(1 + (t - d), d)) = d /\ Buffer!Chars(1 + (t - d), d) \in Seq(Nat)
  BY <1>1, CharsAre
<1> QED
  BY <1>1, <1>2

LEMMA PushBackKeeps == BufferInv /\ Buffer!PushBack => BufferInv'
<1> SUFFICES ASSUME BufferInv, Buffer!PushBack PROVE BufferInv'
  OBVIOUS
<1>1. pc = "open" /\ rest = <<>> /\ next <= MaxChars /\ kind' = kind /\ limit' = limit /\ rest' = rest /\ pc' = pc
  BY BufferAssumption DEF Buffer!PushBack, Buffer!Idle, Buffer!Room, BufferInv
<1>2. PICK t \in 0..MaxChars, r \in 0..MaxChars, d \in 0..MaxChars : OpenAt(t, r, d)
  BY <1>1, ItIsOpen
<1>3. r = 0 /\ next = t + 1 /\ d <= t /\ t + 1 <= MaxChars /\ Len(data) = d /\ t \in Nat /\ d \in Nat
  BY <1>1, <1>2, BufferAssumption DEF OpenAt
<1>4. PICK e \in BufferType, c \in 0..d : e = Buffer!try_reserve(Buffer!Buf, d + 1) /\ MadeRoom(Buffer!Buf, e, t, c, d + 1)
  <2>1. /\ kind \in Kinds /\ limit \in Nat /\ Buffer!Buf \in BufferType
        /\ Holds(Buffer!Buf, t, d) /\ HasRoom(Buffer!Buf, t, d) /\ d + 1 \in Nat /\ d + 1 <= MaxChars + MaxAtOnce
    BY <1>2, <1>3, BufferAssumption DEF BufferInv, OpenAt
  <2> QED
    BY <2>1, TryReserve
<1>5. c \in 0..t /\ 1 \in Nat /\ c + 1 <= e.capacity /\ Holds(e, t, c) /\ HasRoom(e, t, c)
  <2>1. e.capacity \in Nat
    BY DEF BufferType
  <2> QED
    BY <1>3, <1>4, <2>1 DEF MadeRoom
<1>6. PICK f : f = Appended(e, Buffer!Chars(t + 1, 1))
  OBVIOUS
<1>7. f \in BufferType /\ Holds(f, t + 1, c + 1) /\ HasRoom(f, t + 1, c + 1) /\ f.capacity = e.capacity
  <2>1. limit \in Nat
    BY DEF BufferInv
  <2> QED
    BY <1>3, <1>5, <1>6, <2>1, AppendChars
<1>8. Buffer!IsBuf(f)
  <2>1. Append(e.data, t + 1) = e.data \o Buffer!Chars(t + 1, 1)
    <3>1. <<t + 1>> = Buffer!Chars(t + 1, 1)
      <4>1. t + 1 \in Nat /\ 1 \in Nat /\ <<t + 1>> \in Seq(Nat) /\ Len(<<t + 1>>) = 1 /\ \A i \in 1..1 : <<t + 1>>[i] = t + 1 + i - 1
        BY <1>3
      <4> QED
        BY <4>1, IsChars
    <3>2. e.data \in Seq(Nat) /\ t + 1 \in Nat
      BY <1>3, <1>5, BlockLength
    <3>3. Append(e.data, t + 1) = e.data \o <<t + 1>>
      BY <3>2, AppendIsConcat
    <3> QED
      BY <3>1, <3>3
  <2>2. Buffer!IsBuf([e EXCEPT !.data = Append(@, t + 1)])
    BY <1>3, <1>4, ZenonT(40) DEF Buffer!PushBack
  <2> QED
    BY <1>6, <2>1, <2>2, ZenonT(40) DEF Appended
<1>9. next' = t + 2 /\ reserved' = IF reserved > 1 THEN reserved - 1 ELSE 0
  BY <1>3 DEF Buffer!PushBack, Buffer!Written
<1>10. kind = "container" => ContainerRoom(f.capacity, c + 1, 0, reserved')
  <2> SUFFICES ASSUME kind = "container" PROVE ContainerRoom(f.capacity, c + 1, 0, reserved')
    OBVIOUS
  <2>1. ContainerRoom(capacity, d, 0, reserved) /\ e.capacity = (IF d + 1 > capacity THEN d + 1 ELSE capacity) /\ c = d
    BY <1>2, <1>3, <1>4, ZenonT(40) DEF OpenAt, MadeRoom, Holds, Flushing, Buffer!Buf
  <2>2. capacity \in Nat /\ reserved \in Nat
    BY BufferAssumption DEF BufferInv, BufferType, Buffer!Buf
  <2> QED
    BY <1>3, <1>7, <1>9, <2>1, <2>2 DEF ContainerRoom
<1>11. rest' = Buffer!Chars(t + 2, 0)
  BY <1>1 DEF Buffer!Chars
<1>12. reserved' \in 0..MaxAtOnce
  BY <1>9, BufferAssumption DEF BufferInv
<1>13. StaysOpen(f, t + 1, 0, c + 1)
  BY <1>1, <1>3, <1>7, <1>9, <1>10, <1>11, <1>12 DEF StaysOpen
<1>14. t + 1 \in 0..MaxChars /\ 0 \in 0..MaxChars /\ c + 1 \in 0..MaxChars
  BY <1>3, BufferAssumption
<1> QED
  BY <1>1, <1>7, <1>8, <1>13, <1>14, Becomes

LEMMA BeginAppendKeeps == ASSUME BufferInv, NEW n \in Buffer!Sizes, Buffer!BeginAppend(n) PROVE BufferInv'
<1>1. /\ pc = "open" /\ rest = <<>> /\ next + n - 1 <= MaxChars /\ kind' = kind /\ limit' = limit /\ pc' = pc
      /\ rest' = Buffer!Chars(next, n) /\ Buffer!IsBuf(Buffer!Buf) /\ n \in Nat \ {0} /\ next' = next + n
      /\ reserved' = IF reserved > n THEN reserved - n ELSE 0
  BY BufferAssumption
     DEF Buffer!BeginAppend, Buffer!Idle, Buffer!Room, Buffer!Written, Buffer!IsBuf, Buffer!Buf, Buffer!Sizes
<1>2. PICK t \in 0..MaxChars, r \in 0..MaxChars, d \in 0..MaxChars : OpenAt(t, r, d)
  BY <1>1, ItIsOpen
<1>3. r = 0 /\ next = t + 1 /\ t + n <= MaxChars /\ t \in Nat /\ d \in Nat
  BY <1>1, <1>2, BufferAssumption DEF OpenAt
<1>4. kind = "container" => ContainerRoom(Buffer!Buf.capacity, d, n, reserved')
  <2> SUFFICES ASSUME kind = "container" PROVE ContainerRoom(Buffer!Buf.capacity, d, n, reserved')
    OBVIOUS
  <2>1. ContainerRoom(capacity, d, 0, reserved) /\ Buffer!Buf.capacity = capacity
    BY <1>2, <1>3, ZenonT(40) DEF OpenAt, Buffer!Buf
  <2>2. capacity \in Nat /\ reserved \in Nat
    BY BufferAssumption DEF BufferInv, BufferType, Buffer!Buf
  <2> QED
    BY <1>1, <1>3, <2>1, <2>2 DEF ContainerRoom
<1>5. reserved' \in 0..MaxAtOnce
  BY <1>1, BufferAssumption DEF BufferInv
<1>6. StaysOpen(Buffer!Buf, t, n, d)
  BY <1>1, <1>2, <1>3, <1>4, <1>5 DEF StaysOpen, OpenAt
<1>7. n \in 0..MaxChars /\ Buffer!Buf \in BufferType
  BY <1>1, <1>3, BufferAssumption DEF BufferInv
<1> QED
  BY <1>1, <1>6, <1>7, Becomes

LEMMA CopySomeKeeps == BufferInv /\ Buffer!CopySome => BufferInv'
<1> SUFFICES ASSUME BufferInv, Buffer!CopySome PROVE BufferInv'
  OBVIOUS
<1>1. /\ pc = "open" /\ rest # <<>> /\ kind' = kind /\ limit' = limit /\ pc' = pc /\ next' = next /\ reserved' = reserved
      /\ Buffer!IsBuf(Buffer!AppendTo(Buffer!Buf, rest).buf) /\ rest' = Buffer!AppendTo(Buffer!Buf, rest).rest
  BY DEF Buffer!CopySome
<1>2. PICK t \in 0..MaxChars, r \in 0..MaxChars, d \in 0..MaxChars : OpenAt(t, r, d)
  BY <1>1, ItIsOpen
<1>3. /\ r > 0 /\ rest = Buffer!Chars(t + 1, r) /\ d <= t /\ t + r <= MaxChars /\ Len(rest) = r /\ Len(Buffer!Buf.data) = d
      /\ t \in Nat /\ d \in Nat /\ r \in Nat
  BY <1>1, <1>2, BufferAssumption DEF OpenAt, Buffer!Buf
<1>4. PICK e \in BufferType, c \in 0..d : e = Buffer!try_reserve(Buffer!Buf, d + r) /\ MadeRoom(Buffer!Buf, e, t, c, d + r)
  <2>1. /\ kind \in Kinds /\ limit \in Nat /\ Buffer!Buf \in BufferType
        /\ Holds(Buffer!Buf, t, d) /\ HasRoom(Buffer!Buf, t, d) /\ d + r \in Nat /\ d + r <= MaxChars + MaxAtOnce
    BY <1>2, <1>3, BufferAssumption DEF BufferInv, OpenAt
  <2> QED
    BY <2>1, TryReserve
<1>5. c \in 0..t /\ c < e.capacity /\ Holds(e, t, c) /\ HasRoom(e, t, c) /\ e.capacity \in Nat /\ Len(e.data) = c
  <2>1. e.capacity \in Nat
    BY DEF BufferType
  <2>2. c \in 0..t /\ c < e.capacity /\ Holds(e, t, c) /\ HasRoom(e, t, c)
    BY <1>3, <1>4, <2>1 DEF MadeRoom
  <2> QED
    BY <1>3, <2>1, <2>2, BlockLength
<1>6. PICK n \in 1..r : n = Buffer!Least(r, e.capacity - c) /\ c + n <= e.capacity
  BY <1>3, <1>5 DEF Buffer!Least
<1>7. PICK f : f = Appended(e, Buffer!Chars(t + 1, n))
  OBVIOUS
<1>8. f \in BufferType /\ Holds(f, t + n, c + n) /\ HasRoom(f, t + n, c + n) /\ f.capacity = e.capacity
  <2>1. limit \in Nat /\ n \in Nat
    BY <1>3 DEF BufferInv
  <2> QED
    BY <1>3, <1>5, <1>6, <1>7, <2>1, AppendChars
<1>9. /\ Buffer!AppendTo(Buffer!Buf, rest).buf = f
      /\ Buffer!AppendTo(Buffer!Buf, rest).rest = Buffer!Chars(t + n + 1, r - n)
  <2>1. SubSeq(rest, 1, n) = Buffer!Chars(t + 1, n)
    <3>1. PICK a \in Nat : a = t + 1
      BY <1>3
    <3>2. r \in Nat /\ 1 \in 1..(r + 1) /\ n \in (1 - 1)..r /\ a + 1 - 1 = a /\ n - 1 + 1 = n
      BY <1>3, <3>1
    <3>3. SubSeq(Buffer!Chars(a, r), 1, n) = Buffer!Chars(a + 1 - 1, n - 1 + 1)
      BY <3>2, CharsPart, ZenonT(40)
    <3> QED
      BY <1>3, <3>1, <3>2, <3>3
  <2>2. SubSeq(rest, n + 1, r) = Buffer!Chars(t + n + 1, r - n)
    <3>1. PICK a \in Nat, m \in Nat : a = t + 1 /\ m = n + 1
      BY <1>3
    <3>2. r \in Nat /\ m \in 1..(r + 1) /\ r \in (m - 1)..r /\ a + m - 1 = t + n + 1 /\ r - m + 1 = r - n
      BY <1>3, <3>1
    <3>3. SubSeq(Buffer!Chars(a, r), m, r) = Buffer!Chars(a + m - 1, r - m + 1)
      BY <3>2, CharsPart, ZenonT(40)
    <3> QED
      BY <1>3, <3>1, <3>2, <3>3
  <2>3. Buffer!AppendTo(Buffer!Buf, rest) = [buf |-> [e EXCEPT !.data = @ \o SubSeq(rest, 1, n)], rest |-> SubSeq(rest, n + 1, r)]
    BY <1>3, <1>4, <1>5, <1>6, ZenonT(40) DEF Buffer!AppendTo
  <2>4. Buffer!AppendTo(Buffer!Buf, rest) = [buf |-> f, rest |-> Buffer!Chars(t + n + 1, r - n)]
    BY <1>7, <2>1, <2>2, <2>3, ZenonT(40) DEF Appended
  <2> QED
    BY <2>4
<1>10. kind = "container" => ContainerRoom(f.capacity, c + n, r - n, reserved)
  <2> SUFFICES ASSUME kind = "container" PROVE ContainerRoom(f.capacity, c + n, r - n, reserved)
    OBVIOUS
  <2>1. /\ ContainerRoom(capacity, d, r, reserved) /\ e.capacity = (IF d + r > capacity THEN d + r ELSE capacity)
        /\ c = t /\ d = t
    BY <1>2, <1>3, <1>4, ZenonT(40) DEF OpenAt, MadeRoom, Holds, Flushing, Buffer!Buf
  <2>2. capacity \in Nat /\ reserved \in Nat
    BY BufferAssumption DEF BufferInv, BufferType, Buffer!Buf
  <2> QED
    BY <1>3, <1>8, <2>1, <2>2 DEF ContainerRoom
<1>11. next' = (t + n) + (r - n) + 1 /\ (t + n) + (r - n) <= MaxChars
  BY <1>1, <1>2, <1>3, BufferAssumption DEF OpenAt
<1>12. reserved' \in 0..MaxAtOnce
  BY <1>1 DEF BufferInv
<1>13. StaysOpen(f, t + n, r - n, c + n)
  BY <1>1, <1>8, <1>9, <1>10, <1>11, <1>12 DEF StaysOpen
<1>14. t + n \in 0..MaxChars /\ r - n \in 0..MaxChars /\ c + n \in 0..MaxChars
  BY <1>3, <1>5, BufferAssumption
<1> QED
  BY <1>1, <1>8, <1>9, <1>13, <1>14, Becomes

LEMMA ReserveKeeps == ASSUME BufferInv, NEW n \in Buffer!Sizes, Buffer!Reserve(n) PROVE BufferInv'
<1>1. /\ pc = "open" /\ rest = <<>> /\ next + n - 1 <= MaxChars /\ kind' = kind /\ limit' = limit /\ pc' = pc
      /\ rest' = rest /\ next' = next /\ reserved = 0 /\ reserved' = n /\ n \in 1..MaxAtOnce /\ n \in Nat
      /\ Buffer!IsBuf(Buffer!try_reserve(Buffer!Buf, Len(data) + n))
  BY BufferAssumption DEF Buffer!Reserve, Buffer!Idle, Buffer!Room, Buffer!Sizes
<1>2. PICK t \in 0..MaxChars, r \in 0..MaxChars, d \in 0..MaxChars : OpenAt(t, r, d)
  BY <1>1, ItIsOpen
<1>3. r = 0 /\ next = t + 1 /\ d <= t /\ t \in Nat /\ d \in Nat /\ Len(data) = d
  BY <1>1, <1>2, BufferAssumption DEF OpenAt
<1>4. PICK e \in BufferType, c \in 0..d : e = Buffer!try_reserve(Buffer!Buf, d + n) /\ MadeRoom(Buffer!Buf, e, t, c, d + n)
  <2>1. /\ kind \in Kinds /\ limit \in Nat /\ Buffer!Buf \in BufferType
        /\ Holds(Buffer!Buf, t, d) /\ HasRoom(Buffer!Buf, t, d) /\ d + n \in Nat /\ d + n <= MaxChars + MaxAtOnce
    BY <1>1, <1>2, <1>3, BufferAssumption DEF BufferInv, OpenAt
  <2> QED
    BY <2>1, TryReserve
<1>5. kind = "container" => ContainerRoom(e.capacity, c, 0, reserved')
  <2> SUFFICES ASSUME kind = "container" PROVE ContainerRoom(e.capacity, c, 0, reserved')
    OBVIOUS
  <2>1. /\ ContainerRoom(capacity, d, 0, reserved) /\ e.capacity = (IF d + n > capacity THEN d + n ELSE capacity)
        /\ c = t /\ d = t
    BY <1>2, <1>3, <1>4, ZenonT(40) DEF OpenAt, MadeRoom, Holds, Flushing, Buffer!Buf
  <2>2. capacity \in Nat
    BY DEF BufferInv, BufferType, Buffer!Buf
  <2> QED
    BY <1>1, <1>3, <2>1, <2>2 DEF ContainerRoom
<1>6. rest' = Buffer!Chars(t + 1, 0)
  BY <1>1 DEF Buffer!Chars
<1>7. StaysOpen(e, t, 0, c)
  BY <1>1, <1>3, <1>4, <1>5, <1>6, BufferAssumption DEF StaysOpen, MadeRoom
<1>8. 0 \in 0..MaxChars /\ c \in 0..MaxChars
  BY <1>3, BufferAssumption
<1> QED
  BY <1>1, <1>3, <1>4, <1>7, <1>8, Becomes

LEMMA WriteInPlaceKeeps == ASSUME BufferInv, NEW n \in Buffer!Sizes, Buffer!WriteInPlace(n) PROVE BufferInv'
<1>1. /\ pc = "open" /\ rest = <<>> /\ next + n - 1 <= MaxChars /\ kind' = kind /\ limit' = limit /\ pc' = pc
      /\ next' = next + n /\ reserved' = (IF reserved > n THEN reserved - n ELSE 0) /\ n \in Nat \ {0} /\ n <= MaxAtOnce
  BY BufferAssumption DEF Buffer!WriteInPlace, Buffer!Idle, Buffer!Room, Buffer!Sizes, Buffer!Written
<1>2. PICK t \in 0..MaxChars, r \in 0..MaxChars, d \in 0..MaxChars : OpenAt(t, r, d)
  BY <1>1, ItIsOpen
<1>3. r = 0 /\ next = t + 1 /\ d <= t /\ t + n <= MaxChars /\ t \in Nat /\ d \in Nat /\ Len(data) = d
  BY <1>1, <1>2, BufferAssumption DEF OpenAt
<1>4. PICK e \in BufferType, c \in 0..d : e = Buffer!try_reserve(Buffer!Buf, d + n) /\ MadeRoom(Buffer!Buf, e, t, c, d + n)
  <2>1. /\ kind \in Kinds /\ limit \in Nat /\ Buffer!Buf \in BufferType
        /\ Holds(Buffer!Buf, t, d) /\ HasRoom(Buffer!Buf, t, d) /\ d + n \in Nat /\ d + n <= MaxChars + MaxAtOnce
    BY <1>1, <1>2, <1>3, BufferAssumption DEF BufferInv, OpenAt
  <2> QED
    BY <2>1, TryReserve
<1>5. c \in 0..t /\ Holds(e, t, c) /\ HasRoom(e, t, c) /\ e.capacity \in Nat /\ Len(e.data) = c
  <2>1. c \in 0..t /\ Holds(e, t, c) /\ HasRoom(e, t, c)
    BY <1>3, <1>4 DEF MadeRoom
  <2> QED
    BY <1>3, <2>1, BlockLength DEF BufferType
<1>6. /\ e.capacity < c + n => Buffer!IsBuf(e) /\ rest' = Buffer!Chars(t + 1, n)
      /\ ~ (e.capacity < c + n) => Buffer!IsBuf(Appended(e, Buffer!Chars(t + 1, n))) /\ rest' = rest
  BY <1>3, <1>4, <1>5, ZenonT(40) DEF Buffer!WriteInPlace, Appended
<1>7. kind = "container" => /\ ContainerRoom(e.capacity, c, n, reserved')
                            /\ ContainerRoom(e.capacity, c + n, 0, reserved')
  <2> SUFFICES ASSUME kind = "container"
               PROVE  ContainerRoom(e.capacity, c, n, reserved') /\ ContainerRoom(e.capacity, c + n, 0, reserved')
    OBVIOUS
  <2>1. /\ ContainerRoom(capacity, d, 0, reserved) /\ e.capacity = (IF d + n > capacity THEN d + n ELSE capacity)
        /\ c = t /\ d = t
    BY <1>2, <1>3, <1>4, ZenonT(40) DEF OpenAt, MadeRoom, Holds, Flushing, Buffer!Buf
  <2>2. capacity \in Nat /\ reserved \in Nat
    BY BufferAssumption DEF BufferInv, BufferType, Buffer!Buf
  <2> QED
    BY <1>1, <1>3, <2>1, <2>2 DEF ContainerRoom
<1>8. reserved' \in 0..MaxAtOnce
  BY <1>1, BufferAssumption DEF BufferInv
<1>9. CASE e.capacity < c + n
  <2>1. StaysOpen(e, t, n, c)
    BY <1>1, <1>3, <1>5, <1>6, <1>7, <1>8, <1>9 DEF StaysOpen
  <2>2. n \in 0..MaxChars /\ c \in 0..MaxChars
    BY <1>1, <1>3, BufferAssumption
  <2> QED
    BY <1>1, <1>6, <1>9, <2>1, <2>2, Becomes
<1>10. CASE ~ (e.capacity < c + n)
  <2>1. PICK f : f = Appended(e, Buffer!Chars(t + 1, n))
    OBVIOUS
  <2>2. f \in BufferType /\ Holds(f, t + n, c + n) /\ HasRoom(f, t + n, c + n) /\ f.capacity = e.capacity
    <3>1. limit \in Nat /\ n \in Nat /\ c + n <= e.capacity
      BY <1>1, <1>5, <1>10 DEF BufferInv
    <3> QED
      BY <1>3, <1>5, <2>1, <3>1, AppendChars
  <2>3. rest' = Buffer!Chars(t + n + 1, 0)
    BY <1>1, <1>6, <1>10 DEF Buffer!Chars
  <2>4. next' = t + n + 0 + 1 /\ t + n + 0 <= MaxChars
    BY <1>1, <1>3
  <2>5. StaysOpen(f, t + n, 0, c + n)
    BY <1>1, <1>7, <1>8, <2>2, <2>3, <2>4 DEF StaysOpen
  <2>6. t + n \in 0..MaxChars /\ 0 \in 0..MaxChars /\ c + n \in 0..MaxChars
    BY <1>1, <1>3, BufferAssumption
  <2> QED
    BY <1>1, <1>6, <1>10, <2>1, <2>2, <2>5, <2>6, Becomes
<1> QED
  BY <1>9, <1>10

LEMMA CloseKeeps == BufferInv /\ Buffer!Close => BufferInv'
<1> SUFFICES ASSUME BufferInv, Buffer!Close PROVE BufferInv'
  OBVIOUS
<1>1. /\ pc = "open" /\ rest = <<>> /\ reserved = 0 /\ kind' = kind /\ limit' = limit /\ pc' = "closed"
      /\ rest' = rest /\ next' = next /\ reserved' = reserved
      /\ Buffer!IsBuf(IF kind = "counting" THEN Buffer!Buf ELSE Buffer!Flush(Buffer!Buf))
  BY DEF Buffer!Close, Buffer!Idle
<1>2. PICK t \in 0..MaxChars, r \in 0..MaxChars, d \in 0..MaxChars : OpenAt(t, r, d)
  BY <1>1, ItIsOpen
<1>3. r = 0 /\ next = t + 1 /\ d <= t /\ t \in Nat /\ d \in Nat /\ t + 0 + 1 = t + 1
  BY <1>1, <1>2, BufferAssumption DEF OpenAt
<1>4. Buffer!Buf \in BufferType /\ limit \in Nat /\ kind \in Kinds /\ Holds(Buffer!Buf, t, d) /\ HasRoom(Buffer!Buf, t, d)
  BY <1>2 DEF BufferInv, OpenAt
<1>5. PICK e \in BufferType, c \in 0..d :
        /\ Buffer!IsBuf(e) /\ Holds(e, t, c) /\ c <= e.capacity
        /\ kind \in {"iterator", "limited", "array"} => c = 0
        /\ kind = "array" => ~ e.inplace
        /\ kind = "container" => ContainerRoom(e.capacity, c, 0, 0)
  <2>1. CASE kind \in {"iterator", "limited", "array"}
    <3>1. Buffer!IsBuf(Buffer!Flush(Buffer!Buf))
      BY <1>1, <2>1
    <3>2. /\ Buffer!Flush(Buffer!Buf) \in BufferType /\ Holds(Buffer!Flush(Buffer!Buf), t, 0)
          /\ kind = "array" => ~ Buffer!Flush(Buffer!Buf).inplace
      BY <1>3, <1>4, <2>1, FlushMoves DEF Flushing
    <3>3. 0 \in 0..d /\ 0 <= Buffer!Flush(Buffer!Buf).capacity
      BY <1>3, <3>2 DEF BufferType
    <3> QED
      BY <2>1, <3>1, <3>2, <3>3
  <2>2. CASE kind \notin {"iterator", "limited", "array"}
    <3>1. Buffer!IsBuf(Buffer!Buf)
      BY <1>1, <2>2, ZenonT(40) DEF Buffer!Flush
    <3>2. d \in 0..d /\ d <= Buffer!Buf.capacity
      BY <1>3, <1>4 DEF HasRoom
    <3>3. kind = "container" => ContainerRoom(Buffer!Buf.capacity, d, 0, 0)
      BY <1>1, <1>2, <1>3, ZenonT(40) DEF OpenAt, Buffer!Buf
    <3> QED
      BY <1>4, <2>2, <3>1, <3>2, <3>3
  <2> QED
    BY <2>1, <2>2
<1>6. Buffer!Buf' = e
  <2>1. Buffer!Buf' = [data |-> e.data, capacity |-> e.capacity, inplace |-> e.inplace, dest |-> e.dest, count |-> e.count]
    BY <1>5 DEF Buffer!Buf, Buffer!IsBuf
  <2> QED
    BY <2>1, ZenonT(40) DEF BufferType
<1>7. Holds(Buffer!Buf, t, c)'
  BY <1>1, <1>5, <1>6 DEF Holds, DestLen
<1>8. capacity' = e.capacity /\ inplace' = e.inplace
  BY <1>5 DEF Buffer!IsBuf
<1>9. next' = t + 0 + 1 /\ rest' = Buffer!Chars(t + 1, 0)
  BY <1>1, <1>3 DEF Buffer!Chars
<1>10. BufferAt(t, 0, c)'
  BY <1>1, <1>5, <1>7, <1>8, <1>9 DEF BufferAt
<1>11. 0 \in 0..MaxChars /\ c \in 0..MaxChars
  BY <1>3, BufferAssumption
<1> QED
  BY <1>1, <1>6, <1>10, <1>11 DEF BufferInv

LEMMA BufferInit == Buffer!Init => BufferInv
<1> SUFFICES ASSUME Buffer!Init PROVE BufferInv
  OBVIOUS
<1>1. /\ kind \in Kinds /\ data = <<>> /\ dest = <<>> /\ count = 0 /\ rest = <<>> /\ reserved = 0 /\ next = 1 /\ pc = "open"
      /\ inplace = (kind \in {"array", "memory"})
      /\ limit \in Nat /\ (kind \notin {"limited", "array"} => limit = NotLimited)
  BY BufferAssumption DEF Buffer!Init
<1>2. capacity = IF kind = "container" THEN 0 ELSE IF kind = "pointer" THEN NotLimited
                 ELSE IF kind = "array" THEN limit ELSE BufferSize
  <2>1. CASE kind = "container"
    BY <2>1, ZenonT(40) DEF Buffer!Init
  <2>2. CASE kind = "pointer"
    BY <2>2, ZenonT(40) DEF Buffer!Init
  <2>3. CASE kind = "array"
    BY <2>3, ZenonT(40) DEF Buffer!Init
  <2>4. CASE kind \notin {"container", "pointer", "array"}
    BY <2>4, ZenonT(40) DEF Buffer!Init
  <2> QED
    BY <2>1, <2>2, <2>3, <2>4
<1>3. capacity \in Nat /\ inplace \in BOOLEAN
  BY <1>1, <1>2, BufferAssumption
<1>4. Buffer!Buf \in BufferType
  BY <1>1, <1>3 DEF Buffer!Buf, BufferType
<1>5. /\ Buffer!Buf.data = <<>> /\ Buffer!Buf.dest = <<>> /\ Buffer!Buf.count = 0
      /\ Buffer!Buf.capacity = capacity /\ Buffer!Buf.inplace = inplace
  BY <1>1 DEF Buffer!Buf
<1>6. \A a \in Nat : <<>> = Buffer!Chars(a, 0)
  BY DEF Buffer!Chars
<1>7. DestLen(0) = 0 /\ 0 - 0 = 0 /\ 1 + 0 \in Nat /\ 1 \in Nat /\ 0 + 1 = 1
  BY <1>1 DEF DestLen, Buffer!Least
<1>8. Holds(Buffer!Buf, 0, 0)
  BY <1>5, <1>6, <1>7 DEF Holds
<1>9. HasRoom(Buffer!Buf, 0, 0)
  <2>1. kind = "array" => inplace = TRUE
    BY <1>1, ZenonT(40)
  <2>2. PICK e : /\ e.capacity = capacity /\ e.inplace = inplace /\ e = Buffer!Buf
    BY <1>5
  <2>3. HasRoom(e, 0, 0)
    BY <1>2, <1>3, <2>1, <2>2 DEF HasRoom
  <2> QED
    BY <2>2, <2>3
<1>10. BufferAt(0, 0, 0)
  BY <1>1, <1>2, <1>3, <1>6, <1>7, <1>8, <1>9 DEF BufferAt, ContainerRoom
<1> QED
  BY <1>1, <1>4, <1>10, BufferAssumption DEF BufferInv

LEMMA BufferNext == BufferInv /\ Buffer!Next => BufferInv'
BY PushBackKeeps, BeginAppendKeeps, CopySomeKeeps, ReserveKeeps, WriteInPlaceKeeps, CloseKeeps DEF Buffer!Next

LEMMA BufferStutter == BufferInv /\ UNCHANGED <<bufvars, capacity>> => BufferInv'
<1> SUFFICES ASSUME BufferInv, UNCHANGED <<bufvars, capacity>> PROVE BufferInv'
  OBVIOUS
<1>1. Buffer!Buf' = Buffer!Buf
  BY DEF Buffer!Buf, bufvars
<1>2. PICK t \in 0..MaxChars, r \in 0..MaxChars, d \in 0..MaxChars : BufferAt(t, r, d)
  BY DEF BufferInv
<1>3. BufferAt(t, r, d)'
  BY <1>1, <1>2 DEF BufferAt, Holds, HasRoom, DestLen, bufvars
<1> QED
  BY <1>1, <1>3 DEF BufferInv, bufvars

-----------------------------------------------------------------------------
(* What the invariant says of the characters.                              *)
LEMMA CutChars ==
  ASSUME limit \in Nat, NEW t \in Nat
  PROVE  Buffer!Cut(Buffer!Chars(1, t)) = Buffer!Chars(1, Buffer!Least(limit, t))
<1>1. Len(Buffer!Chars(1, t)) = t /\ 1 \in Nat
  BY CharsAre
<1>2. CASE t > limit
  <2>1. 1 \in 1..(t + 1) /\ limit \in (1 - 1)..t /\ 1 + 1 - 1 = 1 /\ limit - 1 + 1 = limit /\ Buffer!Least(limit, t) = limit
    BY <1>2 DEF Buffer!Least
  <2>2. SubSeq(Buffer!Chars(1, t), 1, limit) = Buffer!Chars(1 + 1 - 1, limit - 1 + 1)
    BY <1>1, <2>1, CharsPart
  <2>3. Buffer!Cut(Buffer!Chars(1, t)) = SubSeq(Buffer!Chars(1, t), 1, limit)
    BY <1>1, <1>2 DEF Buffer!Cut
  <2> QED
    BY <2>1, <2>2, <2>3
<1>3. CASE ~ (t > limit)
  <2>1. Buffer!Least(limit, t) = t
    BY <1>3 DEF Buffer!Least
  <2>2. Buffer!Cut(Buffer!Chars(1, t)) = Buffer!Chars(1, t)
    BY <1>1, <1>3 DEF Buffer!Cut
  <2> QED
    BY <2>1, <2>2
<1> QED
  BY <1>2, <1>3

(* What comes after the limit is cut.                                      *)
LEMMA CutPrefix ==
  ASSUME limit \in Nat, NEW s \in Seq(Nat)
  PROVE  Buffer!Cut(Buffer!Chars(1, limit) \o s) = Buffer!Chars(1, limit)
<1>1. PICK u \in Seq(Nat) : u = Buffer!Chars(1, limit) /\ Len(u) = limit
  <2>1. 1 \in Nat
    OBVIOUS
  <2> QED
    BY <2>1, CharsAre
<1>2. PICK w : w = u \o s
  OBVIOUS
<1>3. w \in Seq(Nat) /\ Len(w) = limit + Len(s) /\ Len(s) \in Nat /\ \A i \in 1..limit : w[i] = u[i]
  <2>1. w \in Seq(Nat) /\ Len(w) = Len(u) + Len(s)
    BY <1>2, ConcatProperties
  <2>2. \A i \in 1..Len(u) : w[i] = u[i]
    BY <1>2
  <2> QED
    BY <1>1, <2>1, <2>2
<1>4. CASE Len(w) > limit
  <2>1. PICK v : v = SubSeq(w, 1, limit)
    OBVIOUS
  <2>2. v \in Seq(Nat) /\ Len(v) = limit /\ \A i \in 1..limit : v[i] = w[i]
    BY <1>3, <1>4, <2>1
  <2>3. v = u
    BY <1>1, <1>3, <2>2
  <2>4. Buffer!Cut(w) = v
    BY <1>4, <2>1 DEF Buffer!Cut
  <2> QED
    BY <1>1, <1>2, <2>3, <2>4
<1>5. CASE ~ (Len(w) > limit)
  <2>1. Len(s) = 0
    BY <1>3, <1>5
  <2>2. w = u
    BY <1>1, <1>2, <2>1
  <2>3. Buffer!Cut(w) = w
    BY <1>5 DEF Buffer!Cut
  <2> QED
    BY <1>1, <1>2, <2>2, <2>3
<1> QED
  BY <1>4, <1>5

(* The characters, by what the invariant says of each field.               *)
Contents(t, d) ==
  /\ d \in 0..t /\ data = Buffer!Chars(1 + (t - d), d) /\ dest = Buffer!Chars(1, DestLen(t - d))
  /\ count = (IF kind \in {"limited", "array", "counting"} THEN t - d ELSE 0)
  /\ kind \notin Flushing => d = t
  /\ Buffer!Given = Buffer!Chars(1, t) /\ Len(data) = d

LEMMA ContentsAre ==
  ASSUME BufferInv, NEW t \in 0..MaxChars, NEW r \in 0..MaxChars, NEW d \in 0..MaxChars, BufferAt(t, r, d)
  PROVE  Contents(t, d) /\ Len(rest) = r /\ t \in Nat /\ t + r = next - 1
<1>1. t \in Nat /\ r \in Nat /\ next = t + r + 1 /\ rest = Buffer!Chars(t + 1, r) /\ t + 1 \in Nat
  BY BufferAssumption DEF BufferAt
<1>2. Len(Buffer!Chars(t + 1, r)) = r
  BY <1>1, CharsAre
<1>3. Buffer!Given = Buffer!Chars(1, t)
  <2>1. next - 1 - Len(rest) = t
    BY <1>1, <1>2
  <2> QED
    BY <2>1 DEF Buffer!Given
<1>4. Holds(Buffer!Buf, t, d) /\ Buffer!Buf.data = data /\ Buffer!Buf.dest = dest /\ Buffer!Buf.count = count
  BY DEF BufferAt, Buffer!Buf
<1>5. Len(Buffer!Buf.data) = d
  BY <1>1, <1>4, BlockLength
<1>6. Contents(t, d)
  BY <1>3, <1>4, <1>5 DEF Contents, Holds
<1> QED
  BY <1>1, <1>2, <1>6

LEMMA BufferTypes == BufferInv => Buffer!TypeOK
<1> SUFFICES ASSUME BufferInv PROVE Buffer!TypeOK
  OBVIOUS
<1>1. PICK t \in 0..MaxChars, r \in 0..MaxChars, d \in 0..MaxChars : BufferAt(t, r, d)
  BY DEF BufferInv
<1>2. Contents(t, d) /\ t \in Nat
  BY <1>1, ContentsAre
<1>3. Len(data) <= capacity /\ count \in 0..MaxChars
  BY <1>1, <1>2, BufferAssumption DEF Contents, BufferAt
<1>4. Len(dest) <= limit
  <2>1. PICK p \in Nat : p = t - d /\ p <= MaxChars
    BY <1>2, BufferAssumption DEF Contents
  <2>2. DestLen(p) \in Nat /\ DestLen(p) <= limit
    BY <2>1, BufferAssumption DEF DestLen, Buffer!Least, BufferInv
  <2>3. dest = Buffer!Chars(1, DestLen(p)) /\ 1 \in Nat
    BY <1>2, <2>1 DEF Contents
  <2>4. Len(dest) = DestLen(p)
    BY <2>2, <2>3, CharsAre
  <2> QED
    BY <2>2, <2>4
<1>5. inplace \in BOOLEAN
  BY DEF BufferInv, Buffer!Buf, BufferType
<1> QED
  BY <1>3, <1>4, <1>5 DEF Buffer!TypeOK, BufferInv

LEMMA BufferLosesNothing == BufferInv => Buffer!NothingIsLost
<1> SUFFICES ASSUME BufferInv PROVE Buffer!NothingIsLost
  OBVIOUS
<1>1. PICK t \in 0..MaxChars, r \in 0..MaxChars, d \in 0..MaxChars : BufferAt(t, r, d)
  BY DEF BufferInv
<1>2. Contents(t, d) /\ t \in Nat /\ limit \in Nat /\ kind \in Kinds
  BY <1>1, ContentsAre DEF BufferInv
<1>3. PICK p \in Nat : p = t - d /\ t = p + d /\ d \in Nat
  BY <1>2 DEF Contents
<1>4. data = Buffer!Chars(1 + p, d) /\ dest = Buffer!Chars(1, DestLen(p)) /\ Buffer!Given = Buffer!Chars(1, t)
  BY <1>2, <1>3 DEF Contents
<1>5. Buffer!Chars(1, p) \o Buffer!Chars(1 + p, d) = Buffer!Chars(1, t)
  <2>1. 1 \in Nat /\ d \in Nat
    BY <1>3
  <2>2. Buffer!Chars(1, p) \o Buffer!Chars(1 + p, d) = Buffer!Chars(1, p + d)
    BY <2>1, CharsJoin, ZenonT(40)
  <2> QED
    BY <1>3, <2>2
<1>6. Buffer!Chars(1 + p, d) \in Seq(Nat)
  <2>1. 1 + p \in Nat
    OBVIOUS
  <2> QED
    BY <1>3, <2>1, CharsAre
<1>7. CASE kind = "counting"
  <2>1. Len(Buffer!Given) = t
    <3>1. 1 \in Nat
      OBVIOUS
    <3> QED
      BY <1>2, <1>4, <3>1, CharsAre
  <2>2. count + Len(data) = t
    BY <1>2, <1>3, <1>7 DEF Contents
  <2> QED
    BY <1>7, <2>1, <2>2 DEF Buffer!NothingIsLost
<1>8. CASE kind \in {"memory", "container", "pointer"}
  <2>1. Buffer!Output = data
    BY <1>8, ZenonT(40) DEF Buffer!Output
  <2>2. d = t /\ p = 0 /\ 1 + 0 = 1
    BY <1>2, <1>3, <1>8 DEF Contents, Flushing
  <2>3. data = Buffer!Given
    BY <1>4, <2>2
  <2> QED
    BY <1>8, <2>1, <2>3 DEF Buffer!NothingIsLost
<1>9. CASE kind = "iterator"
  <2>1. Buffer!Output = dest \o data
    BY <1>9, ZenonT(40) DEF Buffer!Output
  <2>2. DestLen(p) = p
    BY <1>9 DEF DestLen
  <2>3. Buffer!Output = Buffer!Given
    BY <1>4, <1>5, <2>1, <2>2
  <2> QED
    BY <1>9, <2>3 DEF Buffer!NothingIsLost
<1>10. Buffer!Cut(Buffer!Given) = Buffer!Chars(1, Buffer!Least(limit, t))
  BY <1>2, <1>4, CutChars
<1>11. CASE kind = "limited"
  <2>1. Buffer!Output = dest \o data /\ DestLen(p) = Buffer!Least(limit, p)
    BY <1>11, ZenonT(40) DEF Buffer!Output, DestLen
  <2>2. CASE limit > p
    <3>1. Buffer!Least(limit, p) = p
      BY <1>2, <1>3, <2>2 DEF Buffer!Least
    <3>2. Buffer!Output = Buffer!Given
      BY <1>4, <1>5, <2>1, <3>1
    <3> QED
      BY <1>11, <3>2 DEF Buffer!NothingIsLost
  <2>3. CASE ~ (limit > p)
    <3>1. Buffer!Least(limit, p) = limit /\ Buffer!Least(limit, t) = limit
      BY <1>2, <1>3, <2>3 DEF Buffer!Least
    <3>2. Buffer!Output = Buffer!Chars(1, limit) \o Buffer!Chars(1 + p, d)
      BY <1>4, <2>1, <3>1
    <3>3. Buffer!Cut(Buffer!Chars(1, limit) \o Buffer!Chars(1 + p, d)) = Buffer!Chars(1, limit)
      BY <1>2, <1>6, CutPrefix
    <3> QED
      BY <1>10, <1>11, <3>1, <3>2, <3>3 DEF Buffer!NothingIsLost
  <2> QED
    BY <2>2, <2>3
<1>12. CASE kind = "array"
  <2>1. pc = "open" => IF inplace THEN d = t ELSE t - d >= limit
    BY <1>1, <1>12, ZenonT(40) DEF BufferAt, HasRoom, Buffer!Buf
  <2>2. pc = "closed" => d = 0 /\ ~ inplace
    BY <1>1, <1>12 DEF BufferAt
  <2>3. pc \in {"open", "closed"}
    BY DEF BufferInv
  <2>4. CASE inplace
    <3>1. p = 0 /\ d = t /\ 1 + 0 = 1
      BY <1>2, <1>3, <2>1, <2>2, <2>3, <2>4
    <3>2. Buffer!Output = data
      BY <1>12, <2>4, ZenonT(40) DEF Buffer!Output
    <3>3. Buffer!Output = Buffer!Given
      BY <1>4, <3>1, <3>2
    <3> QED
      BY <1>12, <3>3 DEF Buffer!NothingIsLost
  <2>5. CASE ~ inplace
    <3>1. Buffer!Output = dest /\ DestLen(p) = Buffer!Least(limit, p)
      BY <1>12, <2>5, ZenonT(40) DEF Buffer!Output, DestLen
    <3>2. p = t \/ p >= limit
      BY <1>2, <1>3, <2>1, <2>2, <2>3, <2>5
    <3>3. Buffer!Least(limit, p) = Buffer!Least(limit, t) /\ Buffer!Least(limit, Buffer!Least(limit, t)) = Buffer!Least(limit, t)
          /\ Buffer!Least(limit, t) \in Nat
      BY <1>2, <1>3, <3>2 DEF Buffer!Least
    <3>4. Buffer!Output = Buffer!Chars(1, Buffer!Least(limit, t))
      BY <1>4, <3>1, <3>3
    <3>5. Buffer!Cut(Buffer!Chars(1, Buffer!Least(limit, t))) = Buffer!Chars(1, Buffer!Least(limit, Buffer!Least(limit, t)))
      BY <1>2, <3>3, CutChars
    <3> QED
      BY <1>10, <1>12, <3>3, <3>4, <3>5 DEF Buffer!NothingIsLost
  <2> QED
    BY <2>4, <2>5
<1> QED
  BY <1>2, <1>7, <1>8, <1>9, <1>11, <1>12, BufferAssumption

LEMMA BufferResults == BufferInv => Buffer!Results
<1> SUFFICES ASSUME BufferInv, pc = "closed" PROVE Buffer!Results
  BY DEF Buffer!Results
<1>1. PICK t \in 0..MaxChars, r \in 0..MaxChars, d \in 0..MaxChars : BufferAt(t, r, d)
  BY DEF BufferInv
<1>2. Contents(t, d) /\ t \in Nat /\ limit \in Nat /\ r = 0 /\ reserved = 0 /\ next - 1 = t
  <2>1. r = 0 /\ reserved = 0
    BY <1>1 DEF BufferAt
  <2>2. Contents(t, d) /\ t \in Nat /\ t + r = next - 1
    BY <1>1, ContentsAre
  <2> QED
    BY <2>1, <2>2 DEF BufferInv
<1>3. d \in Nat /\ d <= t /\ Len(data) = d
  BY <1>2 DEF Contents
<1>4. Buffer!Given = Buffer!Chars(1, t) /\ Len(Buffer!Given) = t
  <2>1. 1 \in Nat /\ Buffer!Given = Buffer!Chars(1, t)
    BY <1>2 DEF Contents
  <2> QED
    BY <1>2, <2>1, CharsAre
<1>5. kind \in {"iterator", "limited", "array"} => dest = Buffer!Cut(Buffer!Given) /\ data = <<>>
  <2> SUFFICES ASSUME kind \in {"iterator", "limited", "array"} PROVE dest = Buffer!Cut(Buffer!Given) /\ data = <<>>
    OBVIOUS
  <2>1. d = 0 /\ t - d = t
    BY <1>1, <1>2 DEF BufferAt
  <2>2. DestLen(t) = Buffer!Least(limit, t)
    <3>1. CASE kind = "iterator"
      <4>1. limit > t
        BY <1>2, <3>1, BufferAssumption DEF BufferInv
      <4> QED
        BY <1>2, <3>1, <4>1 DEF DestLen, Buffer!Least
    <3>2. CASE kind # "iterator"
      BY <3>2 DEF DestLen
    <3> QED
      BY <3>1, <3>2
  <2>3. dest = Buffer!Chars(1, DestLen(t)) /\ data = <<>>
    BY <1>2, <2>1 DEF Contents, Buffer!Chars
  <2>4. Buffer!Cut(Buffer!Chars(1, t)) = Buffer!Chars(1, Buffer!Least(limit, t))
    BY <1>2, CutChars
  <2> QED
    BY <1>4, <2>2, <2>3, <2>4
<1>6. kind \in {"limited", "array", "counting"} => count + (IF kind = "counting" THEN Len(data) ELSE 0) = next - 1
  <2>1. CASE kind = "counting"
    BY <1>2, <1>3, <2>1 DEF Contents
  <2>2. CASE kind \in {"limited", "array"}
    <3>1. d = 0
      BY <1>1, <2>2 DEF BufferAt
    <3> QED
      BY <1>2, <2>2, <3>1 DEF Contents
  <2> QED
    BY <2>1, <2>2
<1>7. kind \in {"container", "memory", "pointer"} => data = Buffer!Given /\ d = t
  <2> SUFFICES ASSUME kind \in {"container", "memory", "pointer"} PROVE data = Buffer!Given /\ d = t
    OBVIOUS
  <2>1. d = t /\ 1 + (t - d) = 1
    BY <1>2 DEF Contents, Flushing
  <2> QED
    BY <1>2, <1>4, <2>1 DEF Contents
<1>8. kind = "container" => capacity = Len(Buffer!Given)
  <2> SUFFICES ASSUME kind = "container" PROVE capacity = t
    BY <1>4
  <2>1. d <= capacity /\ ContainerRoom(capacity, d, 0, 0) /\ d = t
    BY <1>1, <1>2, <1>7 DEF BufferAt
  <2>2. capacity \in Nat
    BY DEF BufferInv, Buffer!Buf, BufferType
  <2> QED
    BY <1>3, <2>1, <2>2 DEF ContainerRoom
<1> QED
  BY <1>5, <1>6, <1>7, <1>8 DEF Buffer!Results

(***************************************************************************)
(* The word of a call: its types, one after the other, and two flags.      *)
(***************************************************************************)

(* The powers of two up to that of the flag of names.                      *)
LEMMA Powers ==
  /\ Args!NamedBit \in Nat /\ packed_arg_bits \in 0..Args!NamedBit
  /\ Args!PowerOfTwo \in [0..Args!NamedBit -> Nat \ {0}] /\ Args!PowerOfTwo[0] = 1
  /\ \A i \in 1..Args!NamedBit : Args!PowerOfTwo[i] = 2 * Args!PowerOfTwo[i - 1]
<1>1. PICK N \in Nat : N = Args!NamedBit /\ packed_arg_bits \in 0..N
  <2>1. max_packed_args * packed_arg_bits \in Nat /\ packed_arg_bits <= max_packed_args * packed_arg_bits
    BY TypesFitTheirBits
  <2> QED
    BY <2>1, TypesFitTheirBits DEF Args!NamedBit
<1> DEFINE T == Nat \ {0}
           G == [p \in T \X (1..N) |-> 2 * p[1]]
           Eq(f) == f = [n \in 0..N |-> IF n = 0 THEN 1 ELSE 2 * f[n - 1]]
<1>2. StepOf(G, T, N) /\ \A x \in T, i \in 1..N : G[<<x, i>>] = 2 * x
  BY DEF StepOf
<1> HIDE DEF G
<1>3. PICK u \in [0..N -> T] : Results(u, 1, G, N)
  <2>1. 1 \in T
    OBVIOUS
  <2> HIDE DEF T
  <2> QED
    BY <1>2, <2>1, Recursion
<1>4. Eq(u)
  <2>0. \A i \in 1..N : i - 1 \in 0..N
    OBVIOUS
  <2>1. u[0] = 1 /\ \A i \in 1..N : u[i - 1] \in T /\ u[i] = G[<<u[i - 1], i>>]
    BY <1>3, <2>0 DEF Results
  <2>2. \A i \in 1..N : u[i] = 2 * u[i - 1]
    BY <1>2, <2>1
  <2> QED
    BY <2>1, <2>2
<1>5. PICK f : f = Args!PowerOfTwo /\ Eq(f)
  <2>1. Args!PowerOfTwo = CHOOSE g : Eq(g)
    BY <1>1 DEF Args!PowerOfTwo
  <2> QED
    BY <1>4, <2>1
<1>6. f[0] = 1 /\ \A i \in 1..N : f[i] = 2 * f[i - 1]
  <2>1. \A n \in 0..N : f[n] = IF n = 0 THEN 1 ELSE 2 * f[n - 1]
    BY <1>5
  <2> HIDE DEF Eq
  <2>2. 0 \in 0..N /\ \A i \in 1..N : i \in 0..N /\ i # 0
    OBVIOUS
  <2> QED
    BY <2>1, <2>2
<1>7. f = [n \in 0..N |-> f[n]]
  BY <1>5
<1> DEFINE S == {n \in 0..N : f[n] \in Nat \ {0}}
<1>8. 0 \in S /\ \A n \in 0..(N - 1) : n \in S => n + 1 \in S
  <2>1. 0 \in S
    BY <1>6
  <2>2. ASSUME NEW n \in 0..(N - 1), n \in S PROVE n + 1 \in S
    <3>1. n + 1 \in 1..N /\ (n + 1) - 1 = n
      OBVIOUS
    <3>2. f[n + 1] = 2 * f[n]
      BY <1>6, <3>1
    <3> QED
      BY <2>2, <3>1, <3>2
  <2> QED
    BY <2>1, <2>2
<1>9. \A n \in 0..N : f[n] \in Nat \ {0}
  <2> HIDE DEF S
  <2>1. 0..N \subseteq S
    BY <1>8, InductionUpTo
  <2> QED
    BY <2>1 DEF S
<1> HIDE DEF Eq
<1>10. f \in [0..N -> Nat \ {0}]
  BY <1>7, <1>9
<1> QED
  BY <1>1, <1>5, <1>6, <1>10

LEMMA PowersAdd ==
  ASSUME NEW i \in Nat, NEW j \in Nat, i + j <= Args!NamedBit
  PROVE  Args!PowerOfTwo[i + j] = Args!PowerOfTwo[i] * Args!PowerOfTwo[j]
<1>0. PICK N \in Nat : N = Args!NamedBit
  BY Powers
<1>1. PICK f \in [0..N -> Nat \ {0}] :
        N = Args!NamedBit /\ f = Args!PowerOfTwo /\ f[0] = 1 /\ \A n \in 1..N : f[n] = 2 * f[n - 1]
  BY <1>0, Powers
<1> DEFINE S == {n \in 0..j : f[i + n] = f[i] * f[n]}
<1>2. 0 \in S
  BY <1>1
<1>3. ASSUME NEW n \in 0..(j - 1), n \in S PROVE n + 1 \in S
  <2>1. i + n + 1 \in 1..N /\ (i + n + 1) - 1 = i + n /\ n + 1 \in 1..N /\ (n + 1) - 1 = n
    BY <1>1
  <2>2. f[i + n + 1] = 2 * f[i + n] /\ f[n + 1] = 2 * f[n]
    BY <1>1, <2>1
  <2>3. PICK a \in Nat, b \in Nat : a = f[i] /\ b = f[n]
    BY <1>1, <2>1
  <2>4. f[i + n] = a * b
    BY <1>3, <2>3
  <2>5. 2 * (a * b) = a * (2 * b)
    OBVIOUS
  <2>6. f[i + (n + 1)] = f[i] * f[n + 1]
    BY <2>2, <2>3, <2>4, <2>5
  <2> QED
    BY <2>6
<1> HIDE DEF S
<1>4. 0..j \subseteq S
  BY <1>2, <1>3, InductionUpTo
<1> QED
  BY <1>1, <1>4 DEF S

(* The number of a type fits below 16, is not that of none, and gives the  *)
(* type back.                                                              *)
LEMMA Codes ==
  /\ Args!TypeOf(0) = "none"
  /\ \A t \in CppTypes : Args!Code(Args!Mapped[t]) \in 1..15 /\ Args!TypeOf(Args!Code(Args!Mapped[t])) = Args!Mapped[t]
<1>1. ASSUME NEW i \in 2..16 PROVE Args!Code(Args!TypeNames[i]) \in 1..15 /\ Args!TypeOf(Args!Code(Args!TypeNames[i])) = Args!TypeNames[i]
  <2>1. PICK k : k = CHOOSE j \in DOMAIN Args!TypeNames : Args!TypeNames[j] = Args!TypeNames[i]
    OBVIOUS
  <2>2. DOMAIN Args!TypeNames = 1..16 /\ i \in 1..16
    BY DEF Args!TypeNames
  <2>3. k \in 1..16 /\ Args!TypeNames[k] = Args!TypeNames[i]
    BY <2>1, <2>2
  <2>4. \A j \in 2..16 : Args!TypeNames[j] # "none"
    BY DEF Args!TypeNames
  <2>5. Args!TypeNames[1] = "none"
    BY DEF Args!TypeNames
  <2>6. k # 1
    BY <2>3, <2>4, <2>5
  <2>7. Args!Code(Args!TypeNames[i]) = k - 1
    BY <2>1 DEF Args!Code
  <2>8. (k - 1) + 1 = k /\ k - 1 \in 1..15
    BY <2>3, <2>6
  <2> QED
    BY <2>3, <2>7, <2>8 DEF Args!TypeOf
<1>2. Args!TypeOf(0) = "none"
  BY DEF Args!TypeOf, Args!TypeNames
<1> DEFINE Types == {"int", "uint", "long_long", "ulong_long", "bool", "char", "float", "double", "long_double", "cstring", "string", "pointer", "custom"}
<1>3. \A t \in DOMAIN Args!Mapped : Args!Mapped[t] \in Types
  BY ZenonT(60) DEF Args!Mapped
<1>4. \A ty \in Types : \E i \in 2..16 : Args!TypeNames[i] = ty
  BY DEF Args!TypeNames
<1> HIDE DEF Types
<1>5. \A t \in CppTypes : \E i \in 2..16 : Args!TypeNames[i] = Args!Mapped[t]
  BY <1>3, <1>4, ArgsAssumption
<1> QED
  BY <1>1, <1>2, <1>5, ZenonT(40)

(* Numbers written with the base b.                                        *)
LEMMA QuotientAndRest ==
  ASSUME NEW x \in Nat, NEW b \in Nat \ {0}
  PROVE  \E q \in Nat, r \in 0..(b - 1) : q = x \div b /\ r = x % b /\ x = r + b * q
<1>1. x \div b \in Nat /\ x % b \in 0..(b - 1) /\ x = (x % b) + b * (x \div b)
  OBVIOUS
<1> QED
  BY <1>1

LEMMA LowDigit ==
  ASSUME NEW b \in Nat \ {0}, NEW c \in 0..(b - 1), NEW x \in Nat
  PROVE  (c + b * x) % b = c /\ (c + b * x) \div b = x
OBVIOUS

LEMMA DividedTwice ==
  ASSUME NEW x \in Nat, NEW b \in Nat \ {0}, NEW p \in Nat \ {0}
  PROVE  x \div (b * p) = (x \div b) \div p
<1>1. PICK q \in Nat, r \in 0..(b - 1) : q = x \div b /\ x = r + b * q
  BY QuotientAndRest
<1>2. PICK u \in Nat, v \in 0..(p - 1) : u = q \div p /\ q = v + p * u
  BY QuotientAndRest
<1>3. x = (r + b * v) + (b * p) * u
  <2>1. b * (v + p * u) = b * v + b * (p * u)
    OBVIOUS
  <2>2. b * (p * u) = (b * p) * u
    OBVIOUS
  <2>3. b * q = b * v + (b * p) * u /\ b * v \in Nat /\ (b * p) * u \in Nat
    BY <1>2, <2>1, <2>2
  <2>4. PICK y \in Nat, z \in Nat, w \in Nat : y = b * v /\ z = (b * p) * u /\ w = b * q
    BY <2>3
  <2> QED
    BY <1>1, <2>3, <2>4
<1>5. PICK m \in Nat \ {0} : m = b * p
  OBVIOUS
<1>6. PICK w \in 0..(m - 1) : w = r + b * v
  <2>1. v + 1 <= p /\ b * (v + 1) <= b * p
    BY <1>2
  <2>2. b * (v + 1) = b * v + b /\ b * v \in Nat /\ b * p \in Nat
    OBVIOUS
  <2> QED
    BY <1>1, <2>1, <2>2, <1>5
<1>7. x = w + m * u
  BY <1>3, <1>5, <1>6
<1>8. x \div m = u
  BY <1>7, LowDigit
<1> QED
  BY <1>1, <1>2, <1>5, <1>8

LEMMA HighPart ==
  ASSUME NEW x \in Nat, NEW p \in Nat \ {0}, NEW q \in Nat
  PROVE  (x + p * q) \div p = x \div p + q
OBVIOUS

LEMMA LowPart ==
  ASSUME NEW x \in Nat, NEW b \in Nat \ {0}, NEW q \in Nat
  PROVE  (x + b * q) % b = x % b
<1>1. PICK h \in Nat, r \in 0..(b - 1) : r = x % b /\ x = r + b * h
  BY QuotientAndRest
<1>2. x + b * q = r + b * (h + q) /\ h + q \in Nat
  BY <1>1
<1>3. PICK k \in Nat : k = h + q
  BY <1>2
<1>4. (r + b * k) % b = r
  OBVIOUS
<1> QED
  BY <1>1, <1>2, <1>3, <1>4

Base == Args!PowerOfTwo[packed_arg_bits]
IsEncoding(f, av) ==
  \A i \in 1..(Len(av) + 1) : f[i] = IF i > Len(av) THEN 0 ELSE Args!Code(Args!Mapped[av[i].cpp]) + f[i + 1] * Base

LEMMA BaseIs == Base \in Nat \ {0} /\ Base >= 16
  BY Powers, TypesFitTheirBits DEF Base

(* The number of the type of an argument.                                  *)
LEMMA CodeOf ==
  ASSUME NEW av \in Seq(Args!Arguments), NEW i \in 1..Len(av)
  PROVE  LET c == Args!Code(Args!Mapped[av[i].cpp]) IN c \in 1..15 /\ Args!TypeOf(c) = Args!Mapped[av[i].cpp]
<1>1. av[i] \in Args!Arguments
  OBVIOUS
<1>2. \A a \in Args!Arguments : a.cpp \in CppTypes
  BY DEF Args!Arguments
<1> QED
  BY <1>1, <1>2, Codes

(* encode_types() is the first of the words that begin at each argument.   *)
LEMMA Encoded ==
  ASSUME NEW av \in Seq(Args!Arguments)
  PROVE  \E f \in [1..(Len(av) + 1) -> Nat] : IsEncoding(f, av) /\ Args!encode_types(av) = f[1]
<1>1. PICK n \in Nat : n = Len(av)
  OBVIOUS
<1>2. PICK c \in [1..n -> Nat] : \A i \in 1..n : c[i] = Args!Code(Args!Mapped[av[i].cpp])
  <2> DEFINE d == [i \in 1..n |-> Args!Code(Args!Mapped[av[i].cpp])]
  <2>1. \A i \in 1..n : Args!Code(Args!Mapped[av[i].cpp]) \in Nat
    BY <1>1, CodeOf
  <2>2. d \in [1..n -> Nat] /\ \A i \in 1..n : d[i] = Args!Code(Args!Mapped[av[i].cpp])
    BY <2>1
  <2> QED
    BY <2>2
<1>3. PICK b \in Nat : b = Base
  BY BaseIs
<1> DEFINE G == [p \in Nat \X (1..n) |-> c[n + 1 - p[2]] + p[1] * b]
           Eq(f) == f = [i \in 1..(n + 1) |-> IF i > n THEN 0 ELSE c[i] + f[i + 1] * b]
           AsWritten(f) ==
             f = [i \in 1..(Len(av) + 1) |->
                    IF i > Len(av) THEN 0
                    ELSE Args!Code(Args!Mapped[av[i].cpp]) + f[i + 1] * Args!PowerOfTwo[packed_arg_bits]]
<1>4. StepOf(G, Nat, n) /\ \A x \in Nat, i \in 1..n : G[<<x, i>>] = c[n + 1 - i] + x * b
  <2>1. \A x \in Nat, i \in 1..n : c[n + 1 - i] \in Nat /\ x * b \in Nat /\ c[n + 1 - i] + x * b \in Nat
    OBVIOUS
  <2> QED
    BY <2>1 DEF StepOf
<1> HIDE DEF G
<1>5. PICK u \in [0..n -> Nat] : Results(u, 0, G, n)
  BY <1>4, Recursion
<1>6. u[0] = 0 /\ \A i \in 1..n : u[i] = c[n + 1 - i] + u[i - 1] * b
  <2>1. u[0] = 0 /\ \A i \in 1..n : u[i - 1] \in Nat /\ u[i] = G[<<u[i - 1], i>>]
    BY <1>5 DEF Results
  <2> QED
    BY <1>4, <2>1
<1>7. PICK v \in [1..(n + 1) -> Nat] : \A i \in 1..(n + 1) : v[i] = u[n + 1 - i]
  <2> DEFINE v == [i \in 1..(n + 1) |-> u[n + 1 - i]]
  <2>1. v \in [1..(n + 1) -> Nat] /\ \A i \in 1..(n + 1) : v[i] = u[n + 1 - i]
    OBVIOUS
  <2> QED
    BY <2>1
<1>8. ASSUME NEW i \in 1..(n + 1) PROVE v[i] = IF i > n THEN 0 ELSE c[i] + v[i + 1] * b
  <2>1. CASE i > n
    <3>1. n + 1 - i = 0
      BY <2>1
    <3> QED
      BY <1>6, <1>7, <2>1, <3>1
  <2>2. CASE i \in 1..n
    <3>1. PICK k \in 1..n : k = n + 1 - i
      BY <2>2
    <3>2. n + 1 - k = i /\ i + 1 \in 1..(n + 1) /\ n + 1 - (i + 1) = k - 1
      BY <2>2, <3>1
    <3>3. v[i] = u[k] /\ v[i + 1] = u[k - 1]
      BY <1>7, <3>1, <3>2
    <3>4. u[k] = c[i] + u[k - 1] * b
      BY <1>6, <3>2
    <3> QED
      BY <2>2, <3>3, <3>4
  <2> QED
    BY <2>1, <2>2
<1>9. Eq(v)
  BY <1>8
<1>10. \A f : Eq(f) <=> AsWritten(f)
  <2> SUFFICES ASSUME NEW f PROVE Eq(f) <=> AsWritten(f)
    OBVIOUS
  <2>1. ASSUME NEW i \in 1..(n + 1)
        PROVE  (IF i > n THEN 0 ELSE c[i] + f[i + 1] * b)
               = (IF i > Len(av) THEN 0 ELSE Args!Code(Args!Mapped[av[i].cpp]) + f[i + 1] * Args!PowerOfTwo[packed_arg_bits])
    BY <1>1, <1>2, <1>3 DEF Base
  <2> QED
    BY <1>1, <2>1
<1>11. PICK f : AsWritten(f) /\ Args!encode_types(av) = f[1]
  <2>1. Args!encode_types(av) = (CHOOSE g : AsWritten(g))[1]
    BY DEF Args!encode_types
  <2> HIDE DEF Eq, AsWritten
  <2>2. AsWritten(CHOOSE g : AsWritten(g))
    BY <1>9, <1>10
  <2> QED
    BY <2>1, <2>2
<1>12. Eq(f)
  BY <1>10, <1>11
<1>13. \A i \in 1..(n + 1) : f[i] = IF i > n THEN 0 ELSE c[i] + f[i + 1] * b
  BY <1>12
<1>14. f = [i \in 1..(n + 1) |-> f[i]]
  BY <1>12
<1> HIDE DEF Eq, AsWritten
<1> DEFINE S == {j \in 0..n : f[n + 1 - j] \in Nat}
<1>15. 0 \in S
  <2>1. f[n + 1] = 0 /\ n + 1 - 0 = n + 1
    BY <1>13
  <2> QED
    BY <2>1
<1>16. ASSUME NEW j \in 0..(n - 1), j \in S PROVE j + 1 \in S
  <2>1. PICK i \in 1..n : i = n + 1 - (j + 1)
    OBVIOUS
  <2>2. n + 1 - j = i + 1 /\ i \in 1..(n + 1)
    BY <2>1
  <2>3. f[i + 1] \in Nat
    BY <1>16, <2>2
  <2>4. f[i] = c[i] + f[i + 1] * b
    <3>1. f[i] = IF i > n THEN 0 ELSE c[i] + f[i + 1] * b
      BY <1>13, <2>2, Zenon
    <3>2. ~ (i > n)
      OBVIOUS
    <3> QED
      BY <3>1, <3>2, Zenon
  <2>5. PICK x \in Nat, y \in Nat : x = c[i] /\ y = f[i + 1]
    BY <2>3
  <2>6. PICK z \in Nat : z = y * b
    OBVIOUS
  <2>7. f[n + 1 - (j + 1)] \in Nat
    <3>1. f[i] = x + z
      BY <2>4, <2>5, <2>6
    <3> QED
      BY <2>1, <3>1
  <2>8. j + 1 \in 0..n
    OBVIOUS
  <2> QED
    BY <2>7, <2>8, Zenon
<1> HIDE DEF S
<1>17. 0..n \subseteq S
  BY <1>15, <1>16, InductionUpTo
<1>18. ASSUME NEW i \in 1..(n + 1) PROVE f[i] \in Nat
  <2>1. n + 1 - i \in S /\ n + 1 - (n + 1 - i) = i
    BY <1>17
  <2> QED
    BY <2>1 DEF S
<1>19. f \in [1..(n + 1) -> Nat]
  BY <1>14, <1>18
<1>20. IsEncoding(f, av)
  BY <1>1, <1>2, <1>3, <1>13 DEF IsEncoding
<1> QED
  BY <1>1, <1>11, <1>19, <1>20

CodeAt(av, i) == IF i \in 1..Len(av) THEN Args!Code(Args!Mapped[av[i].cpp]) ELSE 0
Encodes(f, av) == f \in [1..(Len(av) + 1) -> Nat] /\ IsEncoding(f, av)
Shift(k) == Args!PowerOfTwo[k * packed_arg_bits]

(* Shifting by so many fields.                                             *)
LEMMA Shifts ==
  /\ Shift(0) = 1
  /\ \A k \in 0..max_packed_args : Shift(k) \in Nat \ {0}
  /\ \A k \in 0..max_packed_args, j \in 0..max_packed_args : k + j <= max_packed_args => Shift(k + j) = Shift(k) * Shift(j)
  /\ Args!has_named_args_bit = Shift(max_packed_args) * 4
<1>1. PICK m \in Nat, b \in Nat, N \in Nat : m = max_packed_args /\ b = packed_arg_bits /\ N = m * b + 2 /\ N = Args!NamedBit
  <2>1. max_packed_args * packed_arg_bits + 2 \in Nat
    BY TypesFitTheirBits
  <2> QED
    BY <2>1, TypesFitTheirBits DEF Args!NamedBit
<1>2. ASSUME NEW k \in 0..m PROVE k * b \in Nat /\ k * b <= m * b
  <2>1. (m - k) * b \in Nat /\ k * b \in Nat /\ (m - k) * b = m * b - k * b /\ m * b \in Nat
    OBVIOUS
  <2> QED
    BY <2>1
<1>3. 0 * b = 0 /\ m * b \in Nat
  OBVIOUS
<1>4. Shift(0) = 1
  BY <1>1, <1>3, Powers DEF Shift
<1>5. ASSUME NEW k \in 0..m PROVE Shift(k) \in Nat \ {0}
  <2>1. PICK e \in 0..N : e = k * b
    BY <1>1, <1>2, <1>3
  <2> QED
    BY <1>1, <2>1, Powers DEF Shift
<1>6. ASSUME NEW k \in 0..m, NEW j \in 0..m, k + j <= m PROVE Shift(k + j) = Shift(k) * Shift(j)
  <2>1. (k + j) * b = k * b + j * b
    OBVIOUS
  <2>2. PICK x \in Nat, y \in Nat : x = k * b /\ y = j * b /\ (k + j) * b = x + y
    BY <1>2, <2>1
  <2>3. x + y <= N
    <3>1. k + j \in 0..m
      BY <1>6
    <3>2. (k + j) * b <= m * b
      BY <3>1, <1>2
    <3> QED
      BY <1>1, <1>3, <2>2, <3>2
  <2>4. Args!PowerOfTwo[x + y] = Args!PowerOfTwo[x] * Args!PowerOfTwo[y]
    BY <1>1, <2>3, PowersAdd
  <2> QED
    BY <1>1, <2>2, <2>4 DEF Shift
<1>7. Args!has_named_args_bit = Shift(m) * 4
  <2>1. PICK x \in Nat : x = m * b /\ x + 2 = N
    BY <1>1, <1>3
  <2>2. Args!PowerOfTwo[x + 2] = Args!PowerOfTwo[x] * Args!PowerOfTwo[2]
    BY <1>1, <2>1, PowersAdd
  <2>3. Args!PowerOfTwo[2] = 4
    <3>1. 1 \in 1..N /\ 2 \in 1..N /\ 1 - 1 = 0 /\ 2 - 1 = 1
      BY <2>1
    <3>2. Args!PowerOfTwo[1] = 2 * Args!PowerOfTwo[0] /\ Args!PowerOfTwo[2] = 2 * Args!PowerOfTwo[1] /\ Args!PowerOfTwo[0] = 1
      BY <1>1, <3>1, Powers
    <3> QED
      BY <3>2
  <2> QED
    BY <1>1, <2>1, <2>2, <2>3 DEF Shift, Args!has_named_args_bit
<1> QED
  BY <1>1, <1>4, <1>5, <1>6, <1>7

LEMMA ShiftOne == Shift(1) = Base
<1>1. 1 * packed_arg_bits = packed_arg_bits
  BY TypesFitTheirBits
<1> QED
  BY <1>1 DEF Shift, Base

(* The k-th field of a word of types, counted from any argument on.        *)
LEMMA Fields ==
  ASSUME NEW av \in Seq(Args!Arguments), NEW f, Encodes(f, av), Len(av) <= max_packed_args, NEW k \in 0..(max_packed_args - 1)
  PROVE  \A i \in 1..(Len(av) + 1) : (f[i] \div Shift(k)) % Base = CodeAt(av, i + k)
<1>1. PICK n \in Nat, m \in Nat, b \in Nat \ {0} : n = Len(av) /\ m = max_packed_args /\ b = Base /\ b >= 16
  <2>1. Len(av) \in Nat
    OBVIOUS
  <2> QED
    BY <2>1, BaseIs, TypesFitTheirBits
<1> DEFINE S == {j \in 0..k : \A i \in 1..(n + 1) : (f[i] \div Shift(j)) % b = CodeAt(av, i + j)}
<1>2. \A i \in 1..(n + 1) : f[i] \in Nat
  BY <1>1 DEF Encodes
<1>3. ASSUME NEW i \in 1..n
      PROVE  CodeAt(av, i) \in 0..(b - 1) /\ f[i] = CodeAt(av, i) + b * f[i + 1] /\ f[i + 1] \in Nat
  <2>1. i + 1 \in 1..(n + 1) /\ i \in 1..(n + 1) /\ ~ (i > n)
    OBVIOUS
  <2>2. PICK x \in Nat : x = f[i + 1]
    BY <1>2, <2>1
  <2>3. PICK c \in 1..15 : c = CodeAt(av, i) /\ c = Args!Code(Args!Mapped[av[i].cpp])
    BY <1>1, CodeOf DEF CodeAt
  <2>4. f[i] = c + x * b
    BY <1>1, <2>1, <2>2, <2>3 DEF Encodes, IsEncoding
  <2>5. f[i] = c + b * x
    BY <2>4
  <2>6. c \in 0..(b - 1)
    BY <1>1
  <2> QED
    BY <2>2, <2>3, <2>5, <2>6
<1>4. f[n + 1] = 0
  BY <1>1 DEF Encodes, IsEncoding
<1>5. \A i \in Nat : i > n => CodeAt(av, i) = 0
  BY <1>1 DEF CodeAt
<1>6. 0 \in S
  <2>1. ASSUME NEW i \in 1..(n + 1) PROVE (f[i] \div Shift(0)) % b = CodeAt(av, i + 0)
    <3>1. PICK x \in Nat : x = f[i]
      BY <1>2
    <3>2. f[i] \div Shift(0) = f[i]
      BY <3>1, Shifts
    <3>3. CASE i = n + 1
      BY <1>4, <1>5, <3>2, <3>3
    <3>4. CASE i \in 1..n
      <4>1. PICK c \in 0..(b - 1), y \in Nat : c = CodeAt(av, i) /\ f[i] = c + b * y
        BY <1>3, <3>4
      <4>2. (c + b * y) % b = c
        BY LowDigit
      <4> QED
        BY <3>2, <4>1, <4>2
    <3> QED
      BY <3>3, <3>4
  <2> QED
    BY <2>1
<1>7. ASSUME NEW j \in 0..(k - 1), j \in S PROVE j + 1 \in S
  <2>1. j \in 0..m /\ 1 \in 0..m /\ 1 + j <= m
    BY <1>1
  <2>2. PICK p \in Nat \ {0} : p = Shift(j) /\ Shift(j + 1) = b * p
    <3>1. Shift(j) \in Nat \ {0} /\ Shift(1 + j) = Shift(1) * Shift(j)
      BY <1>1, <2>1, Shifts
    <3>2. 1 + j = j + 1
      OBVIOUS
    <3> QED
      BY <1>1, <3>1, <3>2, ShiftOne
  <2>3. ASSUME NEW i \in 1..(n + 1) PROVE (f[i] \div Shift(j + 1)) % b = CodeAt(av, i + (j + 1))
    <3>1. CASE i = n + 1
      <4>1. PICK z \in Nat \ {0} : z = Shift(j + 1)
        BY <2>2
      <4>2. 0 \div z = 0 /\ 0 % b = 0
        OBVIOUS
      <4> QED
        BY <1>4, <1>5, <3>1, <4>1, <4>2
    <3>2. CASE i \in 1..n
      <4>1. PICK c \in 0..(b - 1), y \in Nat : y = f[i + 1] /\ f[i] = c + b * y
        BY <1>3, <3>2
      <4>2. PICK x \in Nat : x = f[i] /\ x \div b = y
        <5>1. (c + b * y) \div b = y
          BY LowDigit
        <5> QED
          BY <1>2, <4>1, <5>1
      <4>3. x \div (b * p) = (x \div b) \div p
        BY DividedTwice
      <4>4. i + 1 \in 1..(n + 1) /\ i + (j + 1) = (i + 1) + j
        BY <3>2
      <4>5. (f[i + 1] \div Shift(j)) % b = CodeAt(av, (i + 1) + j)
        BY <1>7, <4>4
      <4> QED
        BY <2>2, <4>1, <4>2, <4>3, <4>4, <4>5
    <3> QED
      BY <3>1, <3>2
  <2> QED
    BY <2>3
<1>8. k \in Nat
  OBVIOUS
<1> HIDE DEF S
<1>9. 0..k \subseteq S
  BY <1>6, <1>7, <1>8, InductionUpTo
<1> QED
  BY <1>1, <1>8, <1>9 DEF S

(* The types take less than the bits below those of the flags.             *)
LEMMA EncodingIsSmall ==
  ASSUME NEW av \in Seq(Args!Arguments), NEW f, Encodes(f, av), Len(av) <= max_packed_args
  PROVE  f[1] \in Nat /\ f[1] < Shift(max_packed_args)
<1>1. PICK n \in Nat, m \in Nat, b \in Nat \ {0} : n = Len(av) /\ m = max_packed_args /\ b = Base /\ b >= 16 /\ n <= m
  <2>1. Len(av) \in Nat
    OBVIOUS
  <2> QED
    BY <2>1, BaseIs, TypesFitTheirBits
<1> DEFINE S == {j \in 0..n : f[n + 1 - j] < Shift(j)}
<1>2. \A i \in 1..(n + 1) : f[i] \in Nat
  BY <1>1 DEF Encodes
<1>3. 0 \in S
  <2>1. f[n + 1] = 0 /\ n + 1 - 0 = n + 1
    BY <1>1 DEF Encodes, IsEncoding
  <2> QED
    BY <2>1, Shifts
<1>4. ASSUME NEW j \in 0..(n - 1), j \in S PROVE j + 1 \in S
  <2>1. PICK i \in 1..n : i = n + 1 - (j + 1)
    OBVIOUS
  <2>2. n + 1 - j = i + 1 /\ i \in 1..(n + 1) /\ i + 1 \in 1..(n + 1)
    BY <2>1
  <2>3. PICK x \in Nat, p \in Nat : x = f[i + 1] /\ p = Shift(j) /\ x < p
    <3>0. j \in 0..max_packed_args
      BY <1>1
    <3>1. Shift(j) \in Nat
      BY <3>0, Shifts
    <3> QED
      BY <1>2, <1>4, <2>2, <3>1
  <2>4. PICK c \in 1..15 : f[i] = c + x * b
    <3>1. Args!Code(Args!Mapped[av[i].cpp]) \in 1..15
      BY <1>1, CodeOf
    <3>2. f[i] = Args!Code(Args!Mapped[av[i].cpp]) + x * b
      BY <1>1, <2>2, <2>3 DEF Encodes, IsEncoding
    <3> QED
      BY <3>1, <3>2
  <2>5. Shift(j + 1) = b * p
    <3>1. j \in 0..m /\ 1 \in 0..m /\ 1 + j <= m /\ 1 + j = j + 1
      BY <1>1
    <3>2. Shift(1 + j) = Shift(1) * Shift(j)
      BY <1>1, <3>1, Shifts
    <3> QED
      BY <1>1, <2>3, <3>1, <3>2, ShiftOne
  <2>6. c + x * b < b * p
    <3>1. (x + 1) * b <= p * b /\ (x + 1) * b = x * b + b /\ p * b = b * p /\ p * b \in Nat
      <4>1. PICK e \in Nat : p = (x + 1) + e
        <5>1. p - (x + 1) \in Nat /\ p = (x + 1) + (p - (x + 1))
          BY <2>3
        <5> QED
          BY <5>1
      <4>2. e * b \in Nat /\ (x + 1) * b \in Nat /\ ((x + 1) + e) * b = (x + 1) * b + e * b
        OBVIOUS
      <4>3. p * b = b * p /\ (x + 1) * b = x * b + b /\ p * b \in Nat
        OBVIOUS
      <4> QED
        BY <4>1, <4>2, <4>3
    <3>2. PICK y \in Nat : y = x * b
      OBVIOUS
    <3>3. c < b
      BY <1>1
    <3> QED
      BY <3>1, <3>2, <3>3
  <2> QED
    BY <2>1, <2>4, <2>5, <2>6
<1> HIDE DEF S
<1>5. n \in S
  <2>1. 0..n \subseteq S
    BY <1>3, <1>4, InductionUpTo
  <2> QED
    BY <2>1
<1>6. f[1] < Shift(n)
  <2>1. n + 1 - n = 1
    OBVIOUS
  <2> QED
    BY <1>5, <2>1 DEF S
<1>7. Shift(n) <= Shift(m)
  <2>1. PICK d \in 0..m : n + d = m
    <3>1. m - n \in 0..m /\ n + (m - n) = m
      BY <1>1
    <3> QED
      BY <3>1
  <2>2. PICK x \in Nat \ {0}, y \in Nat \ {0} : x = Shift(n) /\ y = Shift(d) /\ Shift(m) = x * y
    <3>1. n \in 0..m /\ n + d <= m
      BY <1>1, <2>1
    <3>2. Shift(n + d) = Shift(n) * Shift(d)
      BY <1>1, <3>1, Shifts
    <3>3. Shift(n) \in Nat \ {0} /\ Shift(d) \in Nat \ {0}
      BY <1>1, <3>1, Shifts
    <3> QED
      BY <2>1, <3>2, <3>3
  <2>3. x <= x * y
    OBVIOUS
  <2> QED
    BY <2>2, <2>3
<1>8. f[1] \in Nat /\ 1 \in 1..(n + 1)
  BY <1>2
<1>9. PICK x \in Nat, y \in Nat, z \in Nat : x = f[1] /\ y = Shift(n) /\ z = Shift(m)
  <2>1. n \in 0..m /\ m \in 0..m
    BY <1>1
  <2> QED
    BY <1>1, <1>8, <2>1, Shifts
<1> QED
  BY <1>1, <1>6, <1>7, <1>9

LEMMA BitsBelow ==
  ASSUME NEW h \in Nat \ {0}, NEW e \in 0..(h - 1)
  PROVE  e \div h = 0 /\ (e + h) \div h = 1 /\ e \div (2 * h) = 0 /\ (e + h) \div (2 * h) = 0
OBVIOUS

(* A word of types, with or without the flag that there are names.         *)
LEMMA WordOfTypes ==
  ASSUME NEW av \in Seq(Args!Arguments), Len(av) <= max_packed_args, NEW named \in BOOLEAN,
         NEW w, w = Args!encode_types(av) + (IF named THEN Args!has_named_args_bit ELSE 0)
  PROVE  /\ ~ Args!Bit(w, Args!is_unpacked_bit)
         /\ Args!Bit(w, Args!has_named_args_bit) <=> named
         /\ \A k \in 0..(max_packed_args - 1) : (w \div Shift(k)) % Base = CodeAt(av, k + 1)
<1>1. PICK f : Encodes(f, av) /\ Args!encode_types(av) = f[1]
  BY Encoded DEF Encodes
<1>2. PICK h \in Nat, e \in Nat, m \in Nat, b \in Nat \ {0} :
        h = Args!has_named_args_bit /\ e = f[1] /\ m = max_packed_args /\ b = Base /\ e < h /\ h > 0
  <2>1. PICK s \in Nat \ {0} : s = Shift(max_packed_args) /\ Args!has_named_args_bit = s * 4
    BY Shifts, TypesFitTheirBits
  <2>2. f[1] \in Nat /\ f[1] < s
    BY <1>1, <2>1, EncodingIsSmall
  <2>3. s * 4 \in Nat /\ s * 4 > s
    OBVIOUS
  <2> QED
    BY <2>1, <2>2, <2>3, BaseIs, TypesFitTheirBits
<1>3. w = IF named THEN e + h ELSE e
  BY <1>1, <1>2
<1>4. ~ Args!Bit(w, Args!is_unpacked_bit) /\ (Args!Bit(w, h) <=> named)
  <2>0. h \in Nat \ {0} /\ e \in 0..(h - 1)
    BY <1>2
  <2>1. e \div h = 0 /\ (e + h) \div h = 1 /\ e \div (2 * h) = 0 /\ (e + h) \div (2 * h) = 0
    BY <2>0, BitsBelow, ZenonT(40)
  <2>2. /\ Args!Bit(w, Args!is_unpacked_bit) <=> (w \div (2 * h)) % 2 = 1
        /\ Args!Bit(w, h) <=> (w \div h) % 2 = 1
    BY <1>2 DEF Args!Bit, Args!is_unpacked_bit
  <2>3. w \div (2 * h) = 0 /\ w \div h = IF named THEN 1 ELSE 0
    BY <1>3, <2>1, Zenon
  <2>4. 0 % 2 # 1 /\ 1 % 2 = 1
    OBVIOUS
  <2> QED
    BY <2>2, <2>3, <2>4
<1>5. ASSUME NEW k \in 0..(m - 1) PROVE (w \div Shift(k)) % b = CodeAt(av, k + 1)
  <2>1. (e \div Shift(k)) % b = CodeAt(av, k + 1)
    <3>1. 1 \in 1..(Len(av) + 1) /\ 1 + k = k + 1
      OBVIOUS
    <3>2. (f[1] \div Shift(k)) % Base = CodeAt(av, 1 + k)
      BY <1>1, <1>2, <3>1, Fields
    <3> QED
      BY <1>2, <3>1, <3>2
  <2>2. PICK p \in Nat \ {0} : p = Shift(k)
    <3>1. k \in 0..m
      OBVIOUS
    <3>2. Shift(k) \in Nat \ {0}
      BY <1>2, <3>1, Shifts, Zenon
    <3> QED
      BY <3>2, Zenon
  <2>3. PICK q \in Nat : h = p * (b * q)
    <3>1. PICK r \in 0..m : k + 1 + r = m
      <4>1. m - (k + 1) \in 0..m /\ k + 1 + (m - (k + 1)) = m
        OBVIOUS
      <4> QED
        BY <4>1
    <3>2. k \in 0..m /\ 1 \in 0..m /\ 1 + r \in 0..m /\ k + (1 + r) = m
      BY <3>1
    <3>3. Shift(1 + r) = Shift(1) * Shift(r) /\ Shift(m) = Shift(k) * Shift(1 + r)
      <4>1. Shift(1 + r) = Shift(1) * Shift(r)
        BY <1>2, <3>2, Shifts
      <4>2. Shift(k + (1 + r)) = Shift(k) * Shift(1 + r)
        BY <1>2, <3>2, Shifts
      <4> QED
        BY <3>2, <4>1, <4>2
    <3>4. PICK u \in Nat : u = Shift(r)
      BY <1>2, Shifts
    <3>5. h = (p * (b * u)) * 4
      BY <1>2, <2>2, <3>3, <3>4, Shifts, ShiftOne
    <3>6. (p * (b * u)) * 4 = p * (b * (u * 4)) /\ u * 4 \in Nat
      OBVIOUS
    <3> QED
      BY <3>5, <3>6
  <2>4. (e + h) \div p = (e \div p) + b * q
    <3>1. PICK z \in Nat : z = b * q
      OBVIOUS
    <3>2. (e + p * z) \div p = (e \div p) + z
      BY HighPart
    <3> QED
      BY <2>3, <3>1, <3>2
  <2>5. PICK x \in Nat : x = e \div p
    BY QuotientAndRest
  <2>6. (x + b * q) % b = x % b
    BY LowPart
  <2> QED
    BY <1>3, <2>1, <2>2, <2>4, <2>5, <2>6
<1> QED
  BY <1>2, <1>4, <1>5

(* The word of a call with many arguments.                                 *)
LEMMA WordOfMany ==
  ASSUME NEW h \in Nat, h = Args!has_named_args_bit, NEW n \in Nat, n < h, NEW named \in BOOLEAN,
         NEW w, w = Args!is_unpacked_bit + n + (IF named THEN h ELSE 0)
  PROVE  Args!Bit(w, Args!is_unpacked_bit) /\ (Args!Bit(w, h) <=> named) /\ w % h = n
<1>1. Args!is_unpacked_bit = 2 * h
  BY DEF Args!is_unpacked_bit
<1>2. CASE ~ named
  <2>1. w = 2 * h + n
    BY <1>1, <1>2
  <2>2. w \div (2 * h) = 1 /\ w \div h = 2 /\ w % h = n
    BY <2>1
  <2> QED
    BY <1>1, <1>2, <2>2 DEF Args!Bit
<1>3. CASE named
  <2>1. w = 2 * h + n + h
    BY <1>1, <1>3
  <2>2. w \div (2 * h) = 1 /\ w \div h = 3 /\ w % h = n
    BY <2>1
  <2> QED
    BY <1>1, <1>3, <2>2 DEF Args!Bit
<1> QED
  BY <1>2, <1>3

LEMMA HighestBit == \E h \in Nat : h = Args!has_named_args_bit /\ MaxArgs + 1 < h
<1>1. Args!NamedBit \in 0..Args!NamedBit
  BY Powers
<1>2. Args!has_named_args_bit \in Nat
  BY <1>1, Powers DEF Args!has_named_args_bit
<1> QED
  BY <1>2, ArgsAssumption

(***************************************************************************)
(* The names of a call.                                                    *)
(***************************************************************************)

Infos == [name : ArgNames, id : Nat]

(* s has the names of the first i arguments: each that has one, and        *)
(* nothing else.                                                           *)
FitsNames(s, av, i) ==
  /\ s \in Seq(Infos)
  /\ \A j \in 1..Len(s) : s[j].id + 1 \in 1..i /\ av[s[j].id + 1].name = s[j].name
  /\ \A k \in 1..i : av[k].name # Args!Unnamed => \E j \in 1..Len(s) : s[j].id + 1 = k

InfoOf(av, i) == [name |-> av[i].name, id |-> i - 1]
WithName(s, av, i) == IF av[i].name = Args!Unnamed THEN s ELSE Append(s, InfoOf(av, i))

LEMMA InfoOfNamed ==
  ASSUME NEW av \in Seq(Args!Arguments), NEW i \in 1..Len(av), av[i].name # Args!Unnamed
  PROVE  InfoOf(av, i) \in Infos /\ InfoOf(av, i).name = av[i].name /\ InfoOf(av, i).id = i - 1
<1>1. av[i] \in Args!Arguments
  OBVIOUS
<1>2. \A a \in Args!Arguments : a.name \in ArgNames \cup {Args!Unnamed}
  BY DEF Args!Arguments
<1>3. av[i].name \in ArgNames /\ i - 1 \in Nat
  BY <1>1, <1>2
<1> QED
  BY <1>3 DEF InfoOf, Infos

LEMMA WithNameType ==
  ASSUME NEW av \in Seq(Args!Arguments), NEW i \in 1..Len(av), NEW s \in Seq(Infos)
  PROVE  WithName(s, av, i) \in Seq(Infos)
<1>1. CASE av[i].name = Args!Unnamed
  BY <1>1 DEF WithName
<1>2. CASE av[i].name # Args!Unnamed
  <2>1. InfoOf(av, i) \in Infos
    BY <1>2, InfoOfNamed
  <2>2. Append(s, InfoOf(av, i)) \in Seq(Infos)
    BY <2>1, AppendProperties
  <2> QED
    BY <1>2, <2>2 DEF WithName
<1> QED
  BY <1>1, <1>2

LEMMA NameFits ==
  ASSUME NEW av \in Seq(Args!Arguments), NEW i \in Nat, i + 1 <= Len(av), NEW s, FitsNames(s, av, i)
  PROVE  FitsNames(WithName(s, av, i + 1), av, i + 1)
<1>1. i + 1 \in 1..Len(av) /\ (i + 1) - 1 = i
  OBVIOUS
<1>2. CASE av[i + 1].name = Args!Unnamed
  <2>1. \A j \in 1..Len(s) : s[j].id + 1 \in 1..(i + 1) /\ av[s[j].id + 1].name = s[j].name
    BY DEF FitsNames
  <2>2. ASSUME NEW k \in 1..(i + 1), av[k].name # Args!Unnamed PROVE \E j \in 1..Len(s) : s[j].id + 1 = k
    <3>1. k # i + 1
      BY <1>2, <2>2
    <3>2. k \in 1..i
      BY <3>1
    <3> QED
      BY <2>2, <3>2 DEF FitsNames
  <2>3. WithName(s, av, i + 1) = s
    BY <1>2 DEF WithName
  <2> QED
    BY <2>1, <2>2, <2>3 DEF FitsNames
<1>3. CASE av[i + 1].name # Args!Unnamed
  <2>1. PICK e \in Infos : e = InfoOf(av, i + 1) /\ e.name = av[i + 1].name /\ e.id = i
    BY <1>1, <1>3, InfoOfNamed
  <2>2. PICK l \in Nat : l = Len(s) /\ s \in Seq(Infos)
    BY DEF FitsNames
  <2>3. PICK r : r = Append(s, e)
    OBVIOUS
  <2>4. r \in Seq(Infos) /\ Len(r) = l + 1 /\ r[l + 1] = e /\ \A j \in 1..l : r[j] = s[j]
    BY <2>2, <2>3, AppendProperties
  <2>5. WithName(s, av, i + 1) = r
    BY <1>3, <2>1, <2>3 DEF WithName
  <2>6. ASSUME NEW j \in 1..(l + 1) PROVE r[j].id + 1 \in 1..(i + 1) /\ av[r[j].id + 1].name = r[j].name
    <3>1. CASE j = l + 1
      BY <2>1, <2>4, <3>1
    <3>2. CASE j \in 1..l
      <4>1. s[j].id + 1 \in 1..i /\ av[s[j].id + 1].name = s[j].name /\ r[j] = s[j]
        BY <2>2, <2>4, <3>2 DEF FitsNames
      <4> QED
        BY <4>1
    <3> QED
      BY <3>1, <3>2
  <2>7. ASSUME NEW k \in 1..(i + 1), av[k].name # Args!Unnamed PROVE \E j \in 1..(l + 1) : r[j].id + 1 = k
    <3>1. CASE k = i + 1
      <4>1. r[l + 1].id + 1 = k /\ l + 1 \in 1..(l + 1)
        BY <2>1, <2>4, <3>1
      <4> QED
        BY <4>1
    <3>2. CASE k \in 1..i
      <4>1. PICK j \in 1..l : s[j].id + 1 = k
        BY <2>2, <2>7, <3>2 DEF FitsNames
      <4>2. r[j].id + 1 = k /\ j \in 1..(l + 1)
        BY <2>4, <4>1
      <4> QED
        BY <4>2
    <3> QED
      BY <3>1, <3>2
  <2> QED
    BY <2>4, <2>5, <2>6, <2>7 DEF FitsNames
<1> QED
  BY <1>2, <1>3

(* init_named_arg() of each gives the names of all arguments.              *)
LEMMA NamesOf ==
  ASSUME NEW av \in Seq(Args!Arguments)
  PROVE  FitsNames(Args!NamedArgs(av), av, Len(av))
<1>1. PICK n \in Nat : n = Len(av)
  OBVIOUS
<1> DEFINE T == Seq(Infos)
           G == [p \in T \X (1..n) |-> WithName(p[1], av, p[2])]
           Eq(f) == f = [i \in 0..n |-> IF i = 0 THEN <<>> ELSE WithName(f[i - 1], av, i)]
           AsWritten(f) ==
             f = [i \in 0..Len(av) |-> IF i = 0 THEN <<>>
                                       ELSE IF av[i].name = Args!Unnamed THEN f[i - 1]
                                       ELSE Append(f[i - 1], [name |-> av[i].name, id |-> i - 1])]
<1>2. \A x \in T, i \in 1..n : WithName(x, av, i) \in T
  BY <1>1, WithNameType
<1>3. <<>> \in T
  OBVIOUS
<1> HIDE DEF T
<1>4. StepOf(G, T, n) /\ \A x \in T, i \in 1..n : G[<<x, i>>] = WithName(x, av, i)
  BY <1>2 DEF StepOf
<1> HIDE DEF G
<1>5. PICK u \in [0..n -> T] : Results(u, <<>>, G, n)
  BY <1>3, <1>4, Recursion
<1>6. Eq(u)
  <2>1. \A i \in 1..n : i - 1 \in 0..n
    OBVIOUS
  <2>2. u[0] = <<>> /\ \A i \in 1..n : u[i - 1] \in T /\ u[i] = G[<<u[i - 1], i>>]
    BY <1>5, <2>1 DEF Results
  <2>3. \A i \in 1..n : u[i] = WithName(u[i - 1], av, i)
    BY <1>4, <2>2
  <2> QED
    BY <2>2, <2>3
<1>7. PICK f : Eq(f) /\ Args!NamedArgs(av) = f[n]
  <2>1. Args!NamedArgs(av) = (CHOOSE g : AsWritten(g))[Len(av)]
    BY DEF Args!NamedArgs
  <2>2. \A g : Eq(g) <=> AsWritten(g)
    BY <1>1 DEF WithName, InfoOf
  <2> HIDE DEF Eq, AsWritten
  <2>3. AsWritten(CHOOSE g : AsWritten(g))
    BY <1>6, <2>2
  <2> QED
    BY <1>1, <2>1, <2>2, <2>3
<1>8. f[0] = <<>> /\ \A i \in 1..n : f[i] = WithName(f[i - 1], av, i)
  <2>1. \A i \in 0..n : f[i] = IF i = 0 THEN <<>> ELSE WithName(f[i - 1], av, i)
    BY <1>7
  <2> HIDE DEF Eq
  <2>2. 0 \in 0..n /\ \A i \in 1..n : i \in 0..n /\ i # 0
    OBVIOUS
  <2> QED
    BY <2>1, <2>2
<1> HIDE DEF Eq, AsWritten
<1> DEFINE S == {i \in 0..n : FitsNames(f[i], av, i)}
<1>9. 0 \in S
  <2>1. FitsNames(<<>>, av, 0)
    BY DEF FitsNames
  <2> QED
    BY <1>8, <2>1
<1>10. ASSUME NEW i \in 0..(n - 1), i \in S PROVE i + 1 \in S
  <2>1. i + 1 \in 1..n /\ (i + 1) - 1 = i /\ i \in Nat /\ i + 1 <= Len(av)
    BY <1>1
  <2>2. f[i + 1] = WithName(f[i], av, i + 1)
    BY <1>8, <2>1
  <2>3. FitsNames(f[i], av, i)
    BY <1>10
  <2>4. FitsNames(WithName(f[i], av, i + 1), av, i + 1)
    BY <2>1, <2>3, NameFits
  <2>5. FitsNames(f[i + 1], av, i + 1)
    BY <2>2, <2>4
  <2> QED
    BY <2>1, <2>5
<1> HIDE DEF S
<1>11. n \in S
  <2>1. 0..n \subseteq S
    BY <1>9, <1>10, InductionUpTo
  <2> QED
    BY <2>1
<1>12. FitsNames(f[n], av, n)
  BY <1>11 DEF S
<1> QED
  BY <1>1, <1>7, <1>12

(***************************************************************************)
(* The dynamic store of arguments.                                         *)
(***************************************************************************)

(* A slot gives an argument back, and its copy is alive.                   *)
SlotIsFor(slot, a) == Args!Content(slot) = Args!AsString(Args!Slot(a))
IsAlive(slot, alive) == "node" \in DOMAIN slot => slot.node \in alive

SlotTypes == {Args!Mapped[t] : t \in CppTypes \cup {"string"}} \cup {"none"}
AnySlot == [type : SlotTypes, value : Nat] \cup [type : SlotTypes, value : Nat, node : Nat]
             \cup [type : SlotTypes, block : Nat, size : Nat]

(* Where the arguments begin: after the hidden slot.                       *)
Before(named) == IF named = <<>> THEN 0 ELSE 1

(* Each argument has its slot.                                             *)
HasSlots ==
  /\ data_ \in Seq(AnySlot) /\ Len(data_) = Len(added) + Before(named_info_)
  /\ \A i \in 1..Len(added) : SlotIsFor(data_[i + Before(named_info_)], added[i])

(* The names are those of the arguments, in their order.                   *)
HasNames ==
  /\ named_info_ \in Seq([name : ArgNames, id : Nat])
  /\ \A j \in 1..Len(named_info_) : /\ named_info_[j].id + 1 \in 1..Len(added)
                                    /\ added[named_info_[j].id + 1].name = named_info_[j].name
  /\ \A j, k \in 1..Len(named_info_) : j < k => named_info_[j].id < named_info_[k].id
  /\ \A i \in 1..Len(added) : added[i].name # Args!Unnamed => \E j \in 1..Len(named_info_) : named_info_[j].id + 1 = i

ArgsInv ==
  /\ added \in Seq(Args!Arguments) /\ Len(added) <= MaxArgs
  /\ HasSlots /\ HasNames
  /\ nodes \subseteq 1..Len(added) /\ \A i \in 1..Len(data_) : IsAlive(data_[i], nodes)
  /\ block \in Nat /\ moved \in BOOLEAN /\ Args!HiddenSlotIsFresh

LEMMA MappedTypes ==
  /\ Args!Mapped["char*"] = "cstring" /\ Args!Mapped["string"] = "string"
  /\ \A t \in CppTypes \ {"char*"} : Args!Mapped[t] # "cstring" /\ Args!Mapped[t] # "none"
<1>1. Args!Mapped["char*"] = "cstring"
  BY Zenon DEF Args!Mapped
<1>2. Args!Mapped["string"] = "string"
  BY Zenon DEF Args!Mapped
<1>3. ASSUME NEW t \in DOMAIN Args!Mapped, t # "char*" PROVE Args!Mapped[t] # "cstring" /\ Args!Mapped[t] # "none"
  BY <1>3, ZenonT(40) DEF Args!Mapped
<1> QED
  BY <1>1, <1>2, <1>3, ArgsAssumption, ZenonT(40)

LEMMA Greatest ==
  ASSUME NEW n \in Nat, NEW S \in SUBSET (1..n), S # {}
  PROVE  Args!Max(S) \in S
<1> DEFINE T == {n - x : x \in S}
<1>1. T \in SUBSET Nat /\ T # {}
  <2>1. \A x \in S : n - x \in Nat /\ n - x \in T
    OBVIOUS
  <2> QED
    BY <2>1
<1>2. PICK k \in T : \A m \in T : k <= m
  <2> HIDE DEF T
  <2> QED
    BY <1>1, Least
<1>3. PICK x \in S : k = n - x
  BY <1>2
<1>4. ASSUME NEW y \in S PROVE x >= y
  <2>1. n - y \in T
    OBVIOUS
  <2>2. n - x <= n - y
    BY <1>2, <1>3, <2>1
  <2> QED
    BY <2>2
<1> QED
  BY <1>4 DEF Args!Max

LEMMA FreshNode ==
  ASSUME NEW n \in Nat, nodes \subseteq 1..n
  PROVE  Args!Node \in 1..(n + 1)
<1>1. CASE nodes = {}
  BY <1>1 DEF Args!Node
<1>2. CASE nodes # {}
  <2>1. Args!Max(nodes) \in 1..n
    BY <1>2, Greatest
  <2> QED
    BY <1>2, <2>1 DEF Args!Node
<1> QED
  BY <1>1, <1>2

(* The slot of a new argument.                                             *)
NewSlot(a) == Args!Stored(Args!StringOf(a))
NewNodes(a) == nodes \cup (IF Args!NeedCopy(a.cpp) THEN {Args!Node} ELSE {})

LEMMA NewSlotIsFor ==
  ASSUME NEW n \in Nat, nodes \subseteq 1..n, NEW a \in Args!Arguments
  PROVE  NewSlot(a) \in AnySlot /\ SlotIsFor(NewSlot(a), a) /\ IsAlive(NewSlot(a), NewNodes(a)) /\ NewNodes(a) \subseteq 1..(n + 1)
<1>1. Args!Node \in 1..(n + 1) /\ Args!Node \in Nat
  BY FreshNode
<1>2. a.cpp \in CppTypes /\ a.value \in Nat
  BY ArgsAssumption DEF Args!Arguments, Args!Values
<1>3. PICK b : b = Args!StringOf(a)
  OBVIOUS
<1>4. b.cpp = (IF a.cpp = "char*" THEN "string" ELSE a.cpp) /\ b.value = a.value
  BY <1>3, ZenonT(40) DEF Args!StringOf, Args!Arguments
<1>5. Args!NeedCopy(b.cpp) <=> Args!NeedCopy(a.cpp)
  <2>1. CASE a.cpp = "char*"
    BY <1>4, <2>1, MappedTypes DEF Args!NeedCopy
  <2>2. CASE a.cpp # "char*"
    BY <1>4, <2>2
  <2> QED
    BY <2>1, <2>2
<1>6. Args!Mapped[b.cpp] \in SlotTypes
  BY <1>2, <1>4 DEF SlotTypes
<1>7. Args!Content([type |-> Args!Mapped[b.cpp], value |-> b.value]) = Args!AsString(Args!Slot(a))
  <2>1. CASE a.cpp = "char*"
    <3>1. Args!Slot(a) = [type |-> "cstring", value |-> a.value]
      BY <2>1, MappedTypes DEF Args!Slot
    <3>2. PICK r \in [type : {"cstring", "string"}, value : Nat] : r = Args!Slot(a) /\ r.type = "cstring" /\ r.value = a.value
      BY <1>2, <3>1
    <3>3. [r EXCEPT !.type = "string"] = [type |-> "string", value |-> a.value]
      <4>1. PICK e : e = [r EXCEPT !.type = "string"]
        OBVIOUS
      <4>2. "string" \in {"cstring", "string"}
        OBVIOUS
      <4>3. e \in [type : {"cstring", "string"}, value : Nat] /\ e.type = "string" /\ e.value = r.value
        BY <4>1, <4>2, ZenonT(40)
      <4>4. e = [type |-> "string", value |-> a.value]
        BY <3>2, <4>3
      <4> QED
        BY <4>1, <4>4, ZenonT(40)
    <3>4. Args!AsString(Args!Slot(a)) = [type |-> "string", value |-> a.value]
      BY <3>2, <3>3, ZenonT(40) DEF Args!AsString
    <3>5. Args!Mapped[b.cpp] = "string"
      BY <1>4, <2>1, MappedTypes
    <3> QED
      BY <1>4, <3>4, <3>5 DEF Args!Content
  <2>2. CASE a.cpp # "char*"
    <3>1. Args!Mapped[a.cpp] # "cstring" /\ Args!Mapped[a.cpp] # "none" /\ b.cpp = a.cpp
      BY <1>2, <1>4, <2>2, MappedTypes
    <3> QED
      BY <1>4, <3>1 DEF Args!Content, Args!AsString, Args!Slot
  <2> QED
    BY <2>1, <2>2
<1>8. CASE Args!NeedCopy(a.cpp)
  <2>1. NewSlot(a) = [type |-> Args!Mapped[b.cpp], value |-> b.value, node |-> Args!Node]
    BY <1>3, <1>5, <1>8 DEF NewSlot, Args!Stored
  <2>2. NewSlot(a) \in AnySlot
    BY <1>1, <1>2, <1>4, <1>6, <2>1 DEF AnySlot
  <2>3. Args!Content(NewSlot(a)) = Args!Content([type |-> Args!Mapped[b.cpp], value |-> b.value])
    BY <2>1 DEF Args!Content
  <2>4. IsAlive(NewSlot(a), NewNodes(a)) /\ NewNodes(a) \subseteq 1..(n + 1)
    BY <1>1, <1>8, <2>1 DEF IsAlive, NewNodes
  <2> QED
    BY <1>7, <2>2, <2>3, <2>4 DEF SlotIsFor
<1>9. CASE ~ Args!NeedCopy(a.cpp)
  <2>1. NewSlot(a) = [type |-> Args!Mapped[b.cpp], value |-> b.value]
    BY <1>3, <1>5, <1>9 DEF NewSlot, Args!Stored, Args!Slot
  <2>2. NewSlot(a) \in AnySlot
    BY <1>2, <1>4, <1>6, <2>1 DEF AnySlot
  <2>3. IsAlive(NewSlot(a), NewNodes(a)) /\ NewNodes(a) \subseteq 1..(n + 1)
    BY <1>1, <1>9, <2>1 DEF IsAlive, NewNodes
  <2> QED
    BY <1>7, <2>1, <2>2, <2>3 DEF SlotIsFor
<1> QED
  BY <1>8, <1>9

LEMMA StaysAlive ==
  ASSUME NEW slot, NEW alive, NEW later, alive \subseteq later, IsAlive(slot, alive)
  PROVE  IsAlive(slot, later)
BY DEF IsAlive

LEMMA ArgsInit == Args!Init => ArgsInv
<1> SUFFICES ASSUME Args!Init PROVE ArgsInv
  OBVIOUS
<1>1. added = <<>> /\ data_ = <<>> /\ named_info_ = <<>> /\ nodes = {} /\ block = 0
  BY DEF Args!Init
<1>2. moved \in BOOLEAN
  BY Zenon DEF Args!Init
<1>3. Args!HiddenSlotIsFresh
  BY <1>1 DEF Args!HiddenSlotIsFresh
<1> QED
  BY <1>1, <1>2, <1>3, ArgsAssumption DEF ArgsInv, HasSlots, HasNames, Before

LEMMA ArgsStutter == ArgsInv /\ UNCHANGED <<argvars, capacity>> => ArgsInv'
BY DEF ArgsInv, HasSlots, HasNames, argvars, Args!HiddenSlotIsFresh

LEMMA ClearKeeps == ArgsInv /\ Args!Clear => ArgsInv'
<1> SUFFICES ASSUME ArgsInv, Args!Clear PROVE ArgsInv'
  OBVIOUS
<1>1. added' = <<>> /\ data_' = <<>> /\ named_info_' = <<>> /\ nodes' = {} /\ block' = block
  BY DEF Args!Clear
<1>2. moved' \in BOOLEAN
  BY Zenon DEF Args!Clear
<1>3. Args!HiddenSlotIsFresh'
  BY <1>1 DEF Args!HiddenSlotIsFresh
<1>4. block \in Nat
  BY DEF ArgsInv
<1> QED
  BY <1>1, <1>2, <1>3, <1>4, ArgsAssumption DEF ArgsInv, HasSlots, HasNames, Before

(* Names that have moved are marked, and nothing else refers to them.      *)
LEMMA ReserveArgsKeeps == ArgsInv /\ Args!Reserve => ArgsInv'
<1> SUFFICES ASSUME ArgsInv, Args!Reserve PROVE ArgsInv'
  OBVIOUS
<1>1. /\ added' = added /\ data_' = data_ /\ named_info_' = named_info_ /\ nodes' = nodes
      /\ block' = block + 1 /\ moved' = (moved \/ named_info_ # <<>>)
  BY DEF Args!Reserve
<1>2. HasSlots' /\ HasNames'
  BY <1>1 DEF ArgsInv, HasSlots, HasNames, Before
<1>3. Args!HiddenSlotIsFresh'
  BY <1>1 DEF Args!HiddenSlotIsFresh
<1>4. block' \in Nat /\ moved' \in BOOLEAN
  BY <1>1 DEF ArgsInv
<1> QED
  BY <1>1, <1>2, <1>3, <1>4 DEF ArgsInv

(* One argument more, whose slot comes after w, the slots so far.          *)
LEMMA SlotsGrow ==
  ASSUME ArgsInv, NEW a \in Args!NextArguments, Len(added) < MaxArgs, added' = Append(added, a), nodes' = NewNodes(a),
         NEW w \in Seq(AnySlot), Len(w) = Len(added) + Before(named_info_'),
         \A i \in 1..Len(added) : w[i + Before(named_info_')] = data_[i + Before(named_info_)],
         \A i \in 1..Len(w) : IsAlive(w[i], nodes),
         data_' = Append(w, NewSlot(a))
  PROVE  /\ HasSlots' /\ added' \in Seq(Args!Arguments) /\ Len(added)' = Len(added) + 1
         /\ nodes' \subseteq 1..Len(added)' /\ (\A i \in 1..Len(data_)' : IsAlive(data_'[i], nodes'))
         /\ added'[Len(added) + 1] = a /\ (\A i \in 1..Len(added) : added'[i] = added[i])
<1>1. PICK n \in Nat : n = Len(added) /\ nodes \subseteq 1..n
  <2>1. Len(added) \in Nat /\ nodes \subseteq 1..Len(added)
    BY DEF ArgsInv
  <2> QED
    BY <2>1
<1>2. a \in Args!Arguments /\ added \in Seq(Args!Arguments)
  BY DEF Args!NextArguments, ArgsInv
<1>3. /\ added' \in Seq(Args!Arguments) /\ Len(added') = n + 1 /\ added'[n + 1] = a /\ \A i \in 1..n : added'[i] = added[i]
  BY <1>1, <1>2, AppendProperties
<1>4. /\ NewSlot(a) \in AnySlot /\ SlotIsFor(NewSlot(a), a) /\ IsAlive(NewSlot(a), NewNodes(a))
      /\ NewNodes(a) \subseteq 1..(n + 1)
  BY <1>1, <1>2, NewSlotIsFor
<1>5. PICK o \in {0, 1} : o = Before(named_info_')
  BY DEF Before
<1>6. /\ data_' \in Seq(AnySlot) /\ Len(data_') = n + o + 1 /\ data_'[n + o + 1] = NewSlot(a)
      /\ \A i \in 1..(n + o) : data_'[i] = w[i]
  BY <1>1, <1>4, <1>5, AppendProperties
<1>7. ASSUME NEW i \in 1..(n + 1) PROVE SlotIsFor(data_'[i + o], added'[i])
  <2>1. CASE i = n + 1
    <3>1. i + o = n + o + 1
      BY <1>5, <2>1
    <3> QED
      BY <1>3, <1>4, <1>6, <2>1, <3>1
  <2>2. CASE i \in 1..n
    <3>1. i + o \in 1..(n + o)
      BY <1>5, <2>2
    <3>2. data_'[i + o] = data_[i + Before(named_info_)] /\ added'[i] = added[i]
      BY <1>1, <1>3, <1>5, <1>6, <2>2, <3>1
    <3>3. SlotIsFor(data_[i + Before(named_info_)], added[i])
      BY <1>1, <2>2 DEF ArgsInv, HasSlots
    <3> QED
      BY <3>2, <3>3
  <2>3. i = n + 1 \/ i \in 1..n
    OBVIOUS
  <2> QED
    BY <2>1, <2>2, <2>3
<1>8. ASSUME NEW i \in 1..(n + o + 1) PROVE IsAlive(data_'[i], nodes')
  <2>1. CASE i = n + o + 1
    BY <1>4, <1>6, <2>1
  <2>2. CASE i \in 1..(n + o)
    <3>1. IsAlive(w[i], nodes) /\ nodes \subseteq NewNodes(a)
      BY <1>1, <1>5, <2>2 DEF NewNodes
    <3>2. IsAlive(w[i], NewNodes(a))
      BY <3>1, StaysAlive
    <3> QED
      BY <1>6, <2>2, <3>2
  <2> QED
    BY <1>1, <1>5, <2>1, <2>2
<1>9. Before(named_info_)' = o
  BY <1>5 DEF Before
<1>10. HasSlots'
  BY <1>1, <1>3, <1>6, <1>7, <1>9 DEF HasSlots
<1>11. nodes' \subseteq 1..(n + 1)
  BY <1>4
<1> QED
  BY <1>1, <1>3, <1>6, <1>8, <1>10, <1>11

LEMMA PushBackArgKeeps == ASSUME ArgsInv, NEW a \in Args!NextArguments, Args!PushBack(a) PROVE ArgsInv'
<1>1. /\ a.name = Args!Unnamed /\ Len(added) < MaxArgs /\ added' = Append(added, a) /\ data_' = Append(data_, NewSlot(a))
      /\ nodes' = NewNodes(a) /\ named_info_' = named_info_ /\ block' = block /\ moved' = moved
  BY DEF Args!PushBack, NewSlot, NewNodes
<1>2. /\ data_ \in Seq(AnySlot) /\ Len(data_) = Len(added) + Before(named_info_)
      /\ \A i \in 1..Len(data_) : IsAlive(data_[i], nodes)
  BY DEF ArgsInv, HasSlots
<1>3. /\ HasSlots' /\ added' \in Seq(Args!Arguments) /\ Len(added)' = Len(added) + 1
      /\ nodes' \subseteq 1..Len(added)' /\ (\A i \in 1..Len(data_)' : IsAlive(data_'[i], nodes'))
      /\ added'[Len(added) + 1] = a /\ (\A i \in 1..Len(added) : added'[i] = added[i])
  BY <1>1, <1>2, SlotsGrow
<1>4. PICK n \in Nat : n = Len(added)
  BY DEF ArgsInv
<1>5. HasNames'
  <2>1. named_info_ \in Seq([name : ArgNames, id : Nat])
    BY DEF ArgsInv, HasNames
  <2>2. ASSUME NEW j \in 1..Len(named_info_)
        PROVE  named_info_[j].id + 1 \in 1..(n + 1) /\ added'[named_info_[j].id + 1].name = named_info_[j].name
    <3>1. named_info_[j].id + 1 \in 1..n /\ added[named_info_[j].id + 1].name = named_info_[j].name
      BY <1>4 DEF ArgsInv, HasNames
    <3> QED
      BY <1>3, <1>4, <3>1
  <2>3. ASSUME NEW i \in 1..(n + 1), added'[i].name # Args!Unnamed PROVE \E j \in 1..Len(named_info_) : named_info_[j].id + 1 = i
    <3>1. i \in 1..n
      BY <1>1, <1>3, <1>4, <2>3
    <3>2. added[i].name # Args!Unnamed
      BY <1>3, <1>4, <2>3, <3>1
    <3> QED
      BY <1>4, <3>1, <3>2 DEF ArgsInv, HasNames
  <2>4. \A j, k \in 1..Len(named_info_) : j < k => named_info_[j].id < named_info_[k].id
    BY DEF ArgsInv, HasNames
  <2> QED
    BY <1>1, <1>3, <1>4, <2>1, <2>2, <2>3, <2>4 DEF HasNames
<1>6. Args!HiddenSlotIsFresh'
  <2> SUFFICES ASSUME named_info_ # <<>>, ~ moved PROVE data_'[1] = Args!Hidden(block, Len(named_info_))
    BY <1>1 DEF Args!HiddenSlotIsFresh, Args!Hidden
  <2>1. data_[1] = Args!Hidden(block, Len(named_info_))
    BY DEF ArgsInv, Args!HiddenSlotIsFresh
  <2>2. 1 \in 1..Len(data_)
    BY <1>2, <1>4 DEF Before
  <2>3. NewSlot(a) \in AnySlot
    BY <1>4, NewSlotIsFor DEF ArgsInv, Args!NextArguments
  <2>4. data_'[1] = data_[1]
    BY <1>1, <1>2, <2>2, <2>3, AppendProperties
  <2> QED
    BY <2>1, <2>4
<1>7. Len(added)' <= MaxArgs
  BY <1>1, <1>3, <1>4, ArgsAssumption
<1> QED
  BY <1>1, <1>3, <1>5, <1>6, <1>7 DEF ArgsInv

LEMMA InfoType ==
  ASSUME ArgsInv, NEW j \in 1..Len(named_info_)
  PROVE  /\ named_info_[j].name \in ArgNames /\ named_info_[j].id \in Nat /\ named_info_[j].id + 1 \in 1..Len(added)
         /\ added[named_info_[j].id + 1].name = named_info_[j].name
<1>1. PICK x : x = named_info_[j]
  OBVIOUS
<1>2. named_info_ \in Seq([name : ArgNames, id : Nat])
  BY DEF ArgsInv, HasNames
<1>3. x \in [name : ArgNames, id : Nat]
  BY <1>1, <1>2, ElementOfSeq
<1>4. named_info_[j].id + 1 \in 1..Len(added) /\ added[named_info_[j].id + 1].name = named_info_[j].name
  BY DEF ArgsInv, HasNames
<1> QED
  BY <1>1, <1>3, <1>4

LEMMA PushBackNamedKeeps == ASSUME ArgsInv, NEW a \in Args!NextArguments, Args!PushBackNamed(a) PROVE ArgsInv'
<1> DEFINE l == Len(named_info_)
           hidden == Args!Hidden(block', l + 1)
           slots == IF named_info_ = <<>> THEN <<Args!Hidden(0, 0)>> \o data_ ELSE data_
           w == [slots EXCEPT ![1] = hidden]
           info == [name |-> a.name, id |-> Len(added)]
<1>1. PICK n \in Nat : n = Len(added) /\ n < MaxArgs /\ nodes \subseteq 1..n
  <2>1. Len(added) \in Nat /\ nodes \subseteq 1..Len(added) /\ Len(added) < MaxArgs
    BY DEF ArgsInv, Args!PushBackNamed, Args!EmplaceNamed
  <2> QED
    BY <2>1
<1>2. /\ named_info_ \in Seq([name : ArgNames, id : Nat]) /\ data_ \in Seq(AnySlot)
      /\ Len(data_) = n + Before(named_info_) /\ \A i \in 1..Len(data_) : IsAlive(data_[i], nodes)
  BY <1>1 DEF ArgsInv, HasSlots, HasNames
<1>3. block' \in Nat /\ moved' = FALSE /\ a.name \in ArgNames /\ a.name # Args!Unnamed /\ l \in Nat
  BY <1>2 DEF ArgsInv, Args!PushBackNamed, Args!EmplaceNamed, Args!NextArguments, Args!Arguments
<1>4. Args!IdOfNext = n
  BY <1>1, <1>2 DEF Args!IdOfNext, Before
<1>5. /\ added' = Append(added, a) /\ nodes' = NewNodes(a) /\ named_info_' = Append(named_info_, info)
      /\ data_' = Append(w, NewSlot(a))
  <2>1. block' = IF Args!Grown THEN block + 1 ELSE block
    BY DEF Args!PushBackNamed, Args!EmplaceNamed
  <2> QED
    BY <1>1, <1>4, <2>1, ZenonT(40) DEF Args!PushBackNamed, Args!EmplaceNamed, NewSlot, NewNodes
<1>6. hidden \in AnySlot /\ Args!Hidden(0, 0) \in AnySlot /\ \A alive : IsAlive(hidden, alive) /\ IsAlive(Args!Hidden(0, 0), alive)
  <2>1. "none" \in SlotTypes
    BY DEF SlotTypes
  <2>2. \A x, y \in Nat : Args!Hidden(x, y) \in AnySlot /\ \A alive : IsAlive(Args!Hidden(x, y), alive)
    BY <2>1 DEF Args!Hidden, AnySlot, IsAlive
  <2> QED
    BY <1>3, <2>2
<1> HIDE DEF hidden
<1>7. PICK z \in Seq(AnySlot) : z = slots /\ Len(z) = n + 1 /\ (\A i \in 1..Len(z) : IsAlive(z[i], nodes))
                                /\ \A i \in 1..n : z[i + 1] = data_[i + Before(named_info_)]
  <2>1. CASE named_info_ = <<>>
    <3>1. PICK h \in AnySlot : h = Args!Hidden(0, 0) /\ IsAlive(h, nodes)
      BY <1>6
    <3>2. slots = <<h>> \o data_ /\ <<h>> \in Seq(AnySlot) /\ Len(<<h>>) = 1 /\ <<h>>[1] = h
      BY <2>1, <3>1
    <3>3. PICK z : z = <<h>> \o data_
      OBVIOUS
    <3>4. z \in Seq(AnySlot) /\ Len(z) = 1 + Len(data_) /\ z[1] = h /\ \A i \in 1..Len(data_) : z[i + 1] = data_[i]
      BY <1>2, <3>2, <3>3, ConcatProperties
    <3>5. Len(data_) = n /\ Before(named_info_) = 0
      BY <1>1, <1>2, <2>1 DEF Before
    <3>6. ASSUME NEW i \in 1..Len(z) PROVE IsAlive(z[i], nodes)
      <4>1. CASE i = 1
        BY <3>1, <3>4, <4>1
      <4>2. CASE i # 1
        <5>1. i - 1 \in 1..Len(data_) /\ (i - 1) + 1 = i
          BY <3>4, <3>5, <4>2
        <5> QED
          BY <1>2, <3>4, <5>1
      <4> QED
        BY <4>1, <4>2
    <3>7. \A i \in 1..n : z[i + 1] = data_[i + 0]
      BY <3>4, <3>5
    <3>8. Len(z) = n + 1
      BY <3>4, <3>5
    <3> QED
      BY <3>2, <3>3, <3>4, <3>5, <3>6, <3>7, <3>8, ZenonT(40)
  <2>2. CASE named_info_ # <<>>
    <3>1. slots = data_ /\ Before(named_info_) = 1
      BY <2>2 DEF Before
    <3> QED
      BY <1>2, <3>1
  <2> QED
    BY <2>1, <2>2
<1>8. PICK v \in Seq(AnySlot) : v = w /\ Len(v) = n + 1 /\ v[1] = hidden /\ \A i \in 2..(n + 1) : v[i] = z[i]
  <2> HIDE DEF slots
  <2>1. w = [z EXCEPT ![1] = hidden] /\ 1 \in 1..Len(z)
    BY <1>1, <1>7
  <2>2. PICK v : v = [z EXCEPT ![1] = hidden]
    OBVIOUS
  <2>3. v \in Seq(AnySlot) /\ Len(v) = n + 1 /\ v[1] = hidden /\ \A i \in 2..(n + 1) : v[i] = z[i]
    BY <1>6, <1>7, <2>1, <2>2
  <2> QED
    BY <2>1, <2>2, <2>3
<1>9. /\ Len(named_info_') = l + 1 /\ named_info_'[l + 1] = info /\ (\A j \in 1..l : named_info_'[j] = named_info_[j])
      /\ named_info_' \in Seq([name : ArgNames, id : Nat]) /\ Before(named_info_') = 1 /\ info.id = n /\ info.name = a.name
  <2>1. info \in [name : ArgNames, id : Nat] /\ info.id = n /\ info.name = a.name
    BY <1>1, <1>3
  <2> HIDE DEF info
  <2>2. /\ Len(named_info_') = l + 1 /\ named_info_'[l + 1] = info /\ (\A j \in 1..l : named_info_'[j] = named_info_[j])
        /\ named_info_' \in Seq([name : ArgNames, id : Nat])
    BY <1>2, <1>5, <2>1, AppendProperties
  <2>3. named_info_' # <<>>
    BY <1>3, <2>2
  <2> QED
    BY <2>1, <2>2, <2>3 DEF Before
<1> HIDE DEF w, slots, info
<1>10. /\ HasSlots' /\ added' \in Seq(Args!Arguments) /\ Len(added)' = Len(added) + 1
       /\ nodes' \subseteq 1..Len(added)' /\ (\A i \in 1..Len(data_)' : IsAlive(data_'[i], nodes'))
       /\ added'[Len(added) + 1] = a /\ (\A i \in 1..Len(added) : added'[i] = added[i])
  <2>1. Len(added) < MaxArgs /\ added' = Append(added, a) /\ nodes' = NewNodes(a) /\ data_' = Append(v, NewSlot(a))
    BY <1>1, <1>5, <1>8
  <2>2. Len(v) = Len(added) + Before(named_info_')
    BY <1>1, <1>8, <1>9
  <2>3. \A i \in 1..Len(added) : v[i + Before(named_info_')] = data_[i + Before(named_info_)]
    <3>1. ASSUME NEW i \in 1..n PROVE v[i + 1] = data_[i + Before(named_info_)]
      <4>1. i + 1 \in 2..(n + 1)
        OBVIOUS
      <4> QED
        BY <1>7, <1>8, <4>1
    <3> QED
      BY <1>1, <1>9, <3>1
  <2>4. \A i \in 1..Len(v) : IsAlive(v[i], nodes)
    <3>1. ASSUME NEW i \in 1..(n + 1) PROVE IsAlive(v[i], nodes)
      <4>1. i = 1 \/ i \in 2..(n + 1)
        OBVIOUS
      <4> QED
        BY <1>6, <1>7, <1>8, <4>1
    <3> QED
      BY <1>8, <3>1
  <2> QED
    BY <2>1, <2>2, <2>3, <2>4, SlotsGrow
<1>11. HasNames'
  <2>1. ASSUME NEW j \in 1..(l + 1)
        PROVE  named_info_'[j].id + 1 \in 1..(n + 1) /\ added'[named_info_'[j].id + 1].name = named_info_'[j].name
    <3>1. CASE j = l + 1
      BY <1>1, <1>9, <1>10, <3>1
    <3>2. CASE j \in 1..l
      <4>1. named_info_[j].id + 1 \in 1..n /\ added[named_info_[j].id + 1].name = named_info_[j].name
        BY <1>1, <3>2 DEF ArgsInv, HasNames
      <4>2. PICK x \in 1..n : x = named_info_[j].id + 1
        BY <4>1
      <4>3. added'[x] = added[x] /\ x \in 1..(n + 1)
        BY <1>1, <1>10, SMTT(30)
      <4>4. named_info_'[j] = named_info_[j]
        BY <1>9, <3>2
      <4> QED
        BY <4>1, <4>2, <4>3, <4>4
    <3> QED
      BY <1>3, <3>1, <3>2
  <2>2. ASSUME NEW i \in 1..(n + 1), added'[i].name # Args!Unnamed PROVE \E j \in 1..(l + 1) : named_info_'[j].id + 1 = i
    <3>1. CASE i = n + 1
      <4>1. l + 1 \in 1..(l + 1) /\ named_info_'[l + 1].id = n
        BY <1>3, <1>9
      <4> QED
        BY <3>1, <4>1
    <3>2. CASE i \in 1..n
      <4>1. added[i].name # Args!Unnamed
        BY <1>1, <1>10, <2>2, <3>2
      <4>2. PICK j \in 1..l : named_info_[j].id + 1 = i
        BY <1>1, <3>2, <4>1 DEF ArgsInv, HasNames
      <4> QED
        BY <1>3, <1>9, <4>2, SMTT(30)
    <3> QED
      BY <3>1, <3>2
  <2>3. ASSUME NEW j \in 1..(l + 1), NEW k \in 1..(l + 1), j < k PROVE named_info_'[j].id < named_info_'[k].id
    <3>1. CASE k = l + 1
      <4>1. j \in 1..l
        BY <1>3, <2>3, <3>1
      <4>2. named_info_[j].id + 1 \in 1..n /\ named_info_[j].id \in Nat
        BY <1>1, <4>1, InfoType
      <4> QED
        BY <1>9, <3>1, <4>1, <4>2, SMTT(30)
    <3>2. CASE k # l + 1
      <4>1. j \in 1..l /\ k \in 1..l
        BY <1>3, <2>3, <3>2
      <4>2. named_info_[j].id < named_info_[k].id
        BY <2>3, <4>1 DEF ArgsInv, HasNames
      <4> QED
        BY <1>9, <4>1, <4>2
    <3> QED
      BY <3>1, <3>2
  <2> QED
    BY <1>1, <1>9, <1>10, <2>1, <2>2, <2>3 DEF HasNames
<1>12. Args!HiddenSlotIsFresh'
  <2>1. NewSlot(a) \in AnySlot
    BY <1>1, NewSlotIsFor DEF Args!NextArguments
  <2>2. 1 \in 1..Len(v)
    BY <1>1, <1>8
  <2>3. data_' = Append(v, NewSlot(a))
    BY <1>5, <1>8
  <2>4. data_'[1] = v[1]
    BY <2>1, <2>2, <2>3, AppendProperties
  <2>5. data_'[1] = Args!Hidden(block', Len(named_info_'))
    BY <1>8, <1>9, <2>4 DEF hidden
  <2> QED
    BY <2>5 DEF Args!HiddenSlotIsFresh, Args!Hidden
<1>13. Len(added)' <= MaxArgs
  BY <1>1, <1>10, ArgsAssumption
<1> QED
  BY <1>3, <1>10, <1>11, <1>12, <1>13 DEF ArgsInv

LEMMA ArgsNext == ArgsInv /\ Args!Next => ArgsInv'
BY PushBackArgKeeps, PushBackNamedKeeps, ClearKeeps, ReserveArgsKeeps DEF Args!Next

LEMMA ArgsAreSound == ArgsInv => Args!Inv
<1> SUFFICES ASSUME ArgsInv PROVE Args!Inv
  OBVIOUS
<1>1. nodes \subseteq 1..MaxArgs
  BY ArgsAssumption DEF ArgsInv
<1>2. DOMAIN named_info_ = 1..Len(named_info_) /\ DOMAIN data_ = 1..Len(data_)
  BY DEF ArgsInv, HasSlots, HasNames
<1>3. ASSUME NEW i \in DOMAIN named_info_ PROVE named_info_[i].name \in ArgNames /\ named_info_[i].id \in 0..(Len(added) - 1)
  <2>1. named_info_[i].name \in ArgNames /\ named_info_[i].id \in Nat /\ named_info_[i].id + 1 \in 1..Len(added)
    BY <1>2, InfoType
  <2>2. Len(added) \in Nat
    BY DEF ArgsInv
  <2> QED
    BY <2>1, <2>2
<1>4. Args!TypeOK
  BY <1>1, <1>3 DEF Args!TypeOK, ArgsInv, HasSlots, Before
<1>5. Args!CopiesAreAlive
  BY <1>2 DEF Args!CopiesAreAlive, ArgsInv, IsAlive
<1> QED
  BY <1>4, <1>5 DEF Args!Inv, ArgsInv

(* The flags and the count of the dynamic store can be read again.         *)
LEMMA DynamicWord ==
  ASSUME ArgsInv, NEW names
  PROVE  /\ Args!Bit(Args!Dynamic(names).desc, Args!is_unpacked_bit)
         /\ Args!Bit(Args!Dynamic(names).desc, Args!has_named_args_bit) <=> named_info_ # <<>>
         /\ Args!MaxSize(Args!Dynamic(names)) = Len(data_)
<1>1. PICK h \in Nat : h = Args!has_named_args_bit /\ MaxArgs + 1 < h
  BY HighestBit
<1>2. PICK n \in Nat : n = Len(data_) /\ n < h
  <2>1. Len(added) \in Nat /\ Len(added) <= MaxArgs /\ Len(data_) = Len(added) + Before(named_info_)
    BY DEF ArgsInv, HasSlots
  <2> QED
    BY <1>1, <2>1, ArgsAssumption DEF Before
<1>3. PICK named \in BOOLEAN : named <=> named_info_ # <<>>
  OBVIOUS
<1>4. PICK w : w = Args!Dynamic(names).desc
  OBVIOUS
<1>5. w = Args!is_unpacked_bit + n + (IF named THEN h ELSE 0)
  BY <1>1, <1>2, <1>3, <1>4 DEF Args!Dynamic
<1>6. Args!Bit(w, Args!is_unpacked_bit) /\ (Args!Bit(w, h) <=> named) /\ w % h = n
  BY <1>1, <1>2, <1>5, WordOfMany
<1>7. Args!MaxSize(Args!Dynamic(names)) = n
  BY <1>1, <1>4, <1>6 DEF Args!MaxSize
<1> QED
  BY <1>1, <1>2, <1>3, <1>4, <1>6, <1>7

LEMMA FoundByIndex ==
  ASSUME ArgsInv, NEW names, NEW id \in Nat, id < Len(added)
  PROVE  Args!Content(Args!Get(Args!Dynamic(names), id)) = Args!AsString(Args!Slot(added[id + 1]))
<1>1. PICK n \in Nat : n = Len(added)
  BY DEF ArgsInv
<1>2. data_ \in Seq(AnySlot) /\ Len(data_) = n + Before(named_info_)
  BY <1>1 DEF ArgsInv, HasSlots
<1>3. Args!Get(Args!Dynamic(names), id) = Args!Dynamic(names).args[id + 1]
  <2>1. Args!Bit(Args!Dynamic(names).desc, Args!is_unpacked_bit) /\ Args!MaxSize(Args!Dynamic(names)) = Len(data_)
    BY DynamicWord
  <2>2. id < Len(data_)
    BY <1>1, <1>2 DEF Before
  <2> QED
    BY <2>1, <2>2 DEF Args!Get
<1>4. Args!Dynamic(names).args[id + 1] = data_[id + 1 + Before(named_info_)]
  <2>1. CASE named_info_ = <<>>
    BY <2>1 DEF Args!Dynamic, Before
  <2>2. CASE named_info_ # <<>>
    <3>1. Args!Dynamic(names).args = Tail(data_) /\ Before(named_info_) = 1
      BY <2>2 DEF Args!Dynamic, Before
    <3>2. id + 1 \in 1..Len(Tail(data_)) /\ Tail(data_)[id + 1] = data_[id + 1 + 1]
      BY <1>1, <1>2, <3>1
    <3> QED
      BY <3>1, <3>2
  <2> QED
    BY <2>1, <2>2
<1>5. id + 1 \in 1..Len(added)
  BY <1>1
<1>6. SlotIsFor(data_[id + 1 + Before(named_info_)], added[id + 1])
  BY <1>5 DEF ArgsInv, HasSlots
<1> QED
  BY <1>3, <1>4, <1>6 DEF SlotIsFor

(* Past the last argument there is nothing.                                *)
LEMMA NothingPastTheLast ==
  ASSUME ArgsInv, NEW names, NEW id \in Nat, id >= Len(added), ~ Args!PastTheEnd(id)
  PROVE  Args!Content(Args!Get(Args!Dynamic(names), id)) = Args!AsString(Args!Added(id))
<1>1. PICK n \in Nat : n = Len(added) /\ DOMAIN added = 1..n
  BY DEF ArgsInv
<1>2. Len(data_) = n + Before(named_info_)
  BY <1>1 DEF ArgsInv, HasSlots
<1>3. ~ (id < Len(data_))
  BY <1>1, <1>2 DEF Before, Args!PastTheEnd
<1>4. Args!Get(Args!Dynamic(names), id) = Args!NoArg
  BY <1>3, DynamicWord DEF Args!Get
<1>5. Args!Added(id) = Args!NoArg
  BY <1>1 DEF Args!Added
<1>6. Args!NoArg.type = "none"
  BY DEF Args!NoArg
<1> QED
  BY <1>4, <1>5, <1>6 DEF Args!Content, Args!AsString

(* While the hidden slot is fresh a lookup sees the names that were added. *)
LEMMA NamesAreSeen ==
  ASSUME ArgsInv, ~ moved, NEW names \in Args!NamesSeen
  PROVE  names = named_info_
<1>1. CASE named_info_ = <<>>
  BY <1>1 DEF Args!NamesSeen
<1>2. CASE named_info_ # <<>>
  <2>1. data_[1] = Args!Hidden(block, Len(named_info_))
    BY <1>2 DEF ArgsInv, Args!HiddenSlotIsFresh
  <2>2. data_[1].block = block /\ data_[1].size = Len(named_info_)
    BY <2>1 DEF Args!Hidden
  <2>3. names = SubSeq(named_info_, 1, Len(named_info_))
    BY <1>2, <2>2 DEF Args!NamesSeen
  <2>4. named_info_ \in Seq([name : ArgNames, id : Nat])
    BY DEF ArgsInv, HasNames
  <2> QED
    BY <2>3, <2>4
<1> QED
  BY <1>1, <1>2

LEMMA LeastChosen ==
  ASSUME NEW S \in SUBSET Nat, NEW m \in S, \A x \in S : m <= x
  PROVE  Args!Min(S) = m
<1>1. \E x \in S : \A y \in S : x <= y
  OBVIOUS
<1>2. Args!Min(S) \in S /\ \A y \in S : Args!Min(S) <= y
  BY <1>1 DEF Args!Min
<1>3. Args!Min(S) <= m /\ m <= Args!Min(S) /\ m \in Nat /\ Args!Min(S) \in Nat
  BY <1>2
<1> QED
  BY <1>3

LEMMA FoundByName ==
  ASSUME ArgsInv, ~ moved, NEW names \in Args!NamesSeen, NEW name \in ArgNames
  PROVE  Args!Content(Args!GetNamed(Args!Dynamic(names), name)) = Args!AsString(Args!FirstOf(name))
<1> DEFINE found == {i \in DOMAIN Args!Dynamic(names).named : Args!Dynamic(names).named[i].name = name}
           of == {i \in DOMAIN added : added[i].name = name}
<1>1. PICK l \in Nat : l = Len(named_info_) /\ DOMAIN named_info_ = 1..l
  BY DEF ArgsInv, HasNames
<1>2. PICK n \in Nat : n = Len(added) /\ DOMAIN added = 1..n
  BY DEF ArgsInv
<1>3. found = {i \in 1..l : named_info_[i].name = name} /\ Args!Dynamic(names).named = named_info_
  BY <1>1, NamesAreSeen DEF Args!Dynamic
<1>4. of = {i \in 1..n : added[i].name = name}
  BY <1>2
<1>5. Args!GetId(Args!Dynamic(names), name) = IF named_info_ = <<>> \/ found = {} THEN -1 ELSE named_info_[Args!Min(found)].id
  <2>1. Args!GetId(Args!Dynamic(names), name) = IF ~ Args!Bit(Args!Dynamic(names).desc, Args!has_named_args_bit) \/ found = {} THEN -1
                                         ELSE Args!Dynamic(names).named[Args!Min(found)].id
    BY DEF Args!GetId
  <2> QED
    BY <1>3, <2>1, DynamicWord
<1>6. Args!FirstOf(name) = IF of = {} THEN Args!NoArg ELSE Args!Slot(added[Args!Min(of)])
  BY DEF Args!FirstOf
<1> HIDE DEF found, of
<1>7. \A i \in of : \E j \in found : named_info_[j].id + 1 = i
  <2> SUFFICES ASSUME NEW i \in of PROVE \E j \in found : named_info_[j].id + 1 = i
    OBVIOUS
  <2>1. i \in 1..n /\ added[i].name = name /\ name # Args!Unnamed
    BY <1>4, ArgsAssumption
  <2>2. PICK j \in 1..l : named_info_[j].id + 1 = i
    BY <1>1, <1>2, <2>1 DEF ArgsInv, HasNames
  <2>3. named_info_[j].name = name
    BY <1>1, <2>1, <2>2, InfoType
  <2> QED
    BY <1>3, <2>2, <2>3
<1>8. CASE found = {}
  <2>1. of = {}
    BY <1>7, <1>8
  <2>2. Args!GetNamed(Args!Dynamic(names), name) = Args!NoArg
    <3>1. Args!GetId(Args!Dynamic(names), name) = -1
      BY <1>5, <1>8
    <3> QED
      BY <3>1 DEF Args!GetNamed
  <2>3. Args!Content(Args!NoArg) = Args!NoArg /\ Args!AsString(Args!NoArg) = Args!NoArg
    <3>1. Args!NoArg.type = "none"
      BY DEF Args!NoArg
    <3> QED
      BY <3>1 DEF Args!Content, Args!AsString
  <2> QED
    BY <1>6, <2>1, <2>2, <2>3
<1>9. CASE found # {}
  <2>1. found \in SUBSET Nat
    BY <1>3
  <2>2. PICK m \in found : \A j \in found : m <= j
    BY <1>9, <2>1, Least
  <2>3. Args!Min(found) = m /\ m \in 1..l /\ named_info_[m].name = name /\ named_info_ # <<>>
    BY <1>1, <1>3, <2>1, <2>2, LeastChosen
  <2>4. PICK id \in Nat : id = named_info_[m].id /\ id + 1 \in 1..n /\ added[id + 1].name = name
    BY <1>1, <1>2, <2>3, InfoType
  <2>5. Args!GetNamed(Args!Dynamic(names), name) = Args!Get(Args!Dynamic(names), id)
    <3>1. Args!GetId(Args!Dynamic(names), name) = id /\ id >= 0
      BY <1>5, <1>9, <2>3, <2>4
    <3> QED
      BY <3>1 DEF Args!GetNamed
  <2>6. Args!Min(of) = id + 1
    <3>1. of \in SUBSET Nat /\ id + 1 \in of
      BY <1>4, <2>4
    <3>2. ASSUME NEW i \in of PROVE id + 1 <= i
      <4>1. PICK j \in found : named_info_[j].id + 1 = i
        BY <1>7
      <4>2. m \in 1..l /\ j \in 1..l /\ m <= j
        BY <1>3, <2>2
      <4>3. m = j \/ named_info_[m].id < named_info_[j].id
        BY <1>1, <4>2 DEF ArgsInv, HasNames
      <4>4. named_info_[j].id \in Nat
        BY <1>1, <4>2, InfoType
      <4> QED
        BY <2>4, <4>1, <4>3, <4>4
    <3> QED
      BY <3>1, <3>2, LeastChosen
  <2>7. Args!FirstOf(name) = Args!Slot(added[id + 1])
    <3>1. id + 1 \in of
      BY <1>4, <2>4
    <3> QED
      BY <1>6, <2>6, <3>1
  <2>8. id < Len(added)
    BY <1>2, <2>4
  <2> QED
    BY <2>5, <2>7, <2>8, FoundByIndex
<1> QED
  BY <1>8, <1>9

LEMMA ArgsAreFound == ArgsInv => Args!StoreFindsArguments
<1> SUFFICES ASSUME ArgsInv PROVE Args!StoreFindsArguments
  OBVIOUS
<1>1. ASSUME NEW names, NEW id \in 0..(MaxArgs + 2), ~ Args!PastTheEnd(id)
      PROVE  Args!Content(Args!Get(Args!Dynamic(names), id)) = Args!AsString(Args!Added(id))
  <2>1. Len(added) \in Nat /\ DOMAIN added = 1..Len(added) /\ id \in Nat
    BY ArgsAssumption DEF ArgsInv
  <2>2. CASE id < Len(added)
    <3>1. id + 1 \in DOMAIN added
      BY <2>1, <2>2
    <3>2. Args!Added(id) = Args!Slot(added[id + 1])
      BY <3>1 DEF Args!Added
    <3> QED
      BY <2>1, <2>2, <3>2, FoundByIndex
  <2>3. CASE id >= Len(added)
    BY <1>1, <2>1, <2>3, NothingPastTheLast
  <2> QED
    BY <2>1, <2>2, <2>3
<1>2. ASSUME ~ moved, NEW names \in Args!NamesSeen, NEW n \in ArgNames
      PROVE  Args!Content(Args!GetNamed(Args!Dynamic(names), n)) = Args!AsString(Args!FirstOf(n))
  BY <1>2, FoundByName
<1> QED
  BY <1>1, <1>2 DEF Args!StoreFindsArguments

(***************************************************************************)
(* What a call finds.                                                      *)
(***************************************************************************)

NamesGiven(av) == Args!NamedArgs(av) # <<>>

(* What a call stores: its word, and a value for each argument.            *)
LEMMA CallStore ==
  ASSUME NEW av \in Seq(Args!Arguments)
  PROVE  /\ Args!Store(av).desc = (IF Len(av) <= max_packed_args THEN Args!encode_types(av) ELSE Args!is_unpacked_bit + Len(av))
                                  + (IF NamesGiven(av) THEN Args!has_named_args_bit ELSE 0)
         /\ \A i \in 1..Len(av) : Args!Store(av).args[i] = Args!Slot(av[i])
         /\ Args!Store(av).named = Args!NamedArgs(av)
<1>1. DOMAIN av = 1..Len(av)
  OBVIOUS
<1> QED
  BY <1>1, ZenonT(40) DEF Args!Store, Args!IsPacked, NamesGiven

(* The flag of names.                                                      *)
LEMMA CallNamed ==
  ASSUME NEW av \in Seq(Args!Arguments), Len(av) <= MaxArgs
  PROVE  Args!Bit(Args!Store(av).desc, Args!has_named_args_bit) <=> NamesGiven(av)
<1>1. PICK h \in Nat : h = Args!has_named_args_bit /\ MaxArgs + 1 < h
  BY HighestBit
<1>2. PICK n \in Nat, m \in Nat : n = Len(av) /\ m = max_packed_args /\ n < h
  BY <1>1, TypesFitTheirBits, ArgsAssumption
<1>3. PICK w, named : named = NamesGiven(av) /\ named \in BOOLEAN /\ w = Args!Store(av).desc
  BY DEF NamesGiven
<1>4. CASE n <= m
  <2>1. w = Args!encode_types(av) + (IF named THEN Args!has_named_args_bit ELSE 0)
    BY <1>2, <1>3, <1>4, CallStore
  <2> QED
    BY <1>2, <1>3, <1>4, <2>1, WordOfTypes
<1>5. CASE ~ (n <= m)
  <2>1. w = Args!is_unpacked_bit + n + (IF named THEN h ELSE 0)
    BY <1>1, <1>2, <1>3, <1>5, CallStore
  <2>2. Args!Bit(w, h) <=> named
    BY <1>1, <1>2, <2>1, WordOfMany
  <2> QED
    BY <1>1, <1>3, <2>2
<1> QED
  BY <1>4, <1>5

(* A call finds each argument by its index, and none past the last.        *)
LEMMA CallArgument ==
  ASSUME ArgsInv, NEW id \in Nat
  PROVE  Args!Get(Args!Store(added), id) = Args!Added(id)
<1>1. PICK n \in Nat, m \in Nat : n = Len(added) /\ m = max_packed_args /\ n <= MaxArgs /\ added \in Seq(Args!Arguments)
  <2>1. Len(added) \in Nat /\ Len(added) <= MaxArgs /\ added \in Seq(Args!Arguments)
    BY DEF ArgsInv
  <2> QED
    BY <2>1, TypesFitTheirBits
<1>2. DOMAIN added = 1..n
  BY <1>1
<1>3. PICK s : s = Args!Store(added)
  OBVIOUS
<1>4. \A i \in 1..n : s.args[i] = Args!Slot(added[i])
  BY <1>1, <1>3, CallStore
<1>5. Args!Added(id) = IF id < n THEN Args!Slot(added[id + 1]) ELSE Args!NoArg
  BY <1>2 DEF Args!Added
<1>6. id < n => s.args[id + 1] = Args!Slot(added[id + 1])
  <2>1. id < n => id + 1 \in 1..n
    OBVIOUS
  <2> QED
    BY <1>4, <2>1
<1>7. PICK named \in BOOLEAN : named = NamesGiven(added)
  BY DEF NamesGiven
<1>8. CASE n <= m
  <2>1. s.desc = Args!encode_types(added) + (IF named THEN Args!has_named_args_bit ELSE 0)
    BY <1>1, <1>3, <1>7, <1>8, CallStore
  <2>2. /\ ~ Args!Bit(s.desc, Args!is_unpacked_bit)
        /\ \A k \in 0..(m - 1) : (s.desc \div Shift(k)) % Base = CodeAt(added, k + 1)
    BY <1>1, <1>8, <2>1, WordOfTypes
  <2>3. Args!Get(s, id) = IF id >= m \/ Args!PackedType(s, id) = "none" THEN Args!NoArg
                          ELSE [type |-> Args!PackedType(s, id), value |-> s.args[id + 1].value]
    BY <1>1, <2>2 DEF Args!Get
  <2>4. CASE id >= m
    BY <1>3, <1>5, <1>8, <2>3, <2>4
  <2>5. CASE id < m
    <3>1. Args!PackedType(s, id) = Args!TypeOf(CodeAt(added, id + 1))
      <4>1. id \in 0..(m - 1)
        BY <2>5
      <4> QED
        BY <2>2, <4>1 DEF Args!PackedType, Shift, Base
    <3>2. CASE id < n
      <4>1. id + 1 \in 1..n
        BY <3>2
      <4>2. CodeAt(added, id + 1) = Args!Code(Args!Mapped[added[id + 1].cpp])
        BY <1>1, <4>1 DEF CodeAt
      <4>3. Args!PackedType(s, id) = Args!Mapped[added[id + 1].cpp]
        BY <1>1, <3>1, <4>1, <4>2, CodeOf
      <4>4. Args!Mapped[added[id + 1].cpp] # "none"
        <5>1. added[id + 1].cpp \in CppTypes
          <6>1. added[id + 1] \in Args!Arguments
            BY <1>1, <4>1
          <6>2. \A a \in Args!Arguments : a.cpp \in CppTypes
            BY DEF Args!Arguments
          <6> QED
            BY <6>1, <6>2
        <5> QED
          BY <5>1, MappedTypes
      <4>5. s.args[id + 1].value = added[id + 1].value
        BY <1>6, <3>2 DEF Args!Slot
      <4>6. Args!Get(s, id) = Args!Slot(added[id + 1])
        BY <2>3, <2>5, <4>3, <4>4, <4>5 DEF Args!Slot
      <4> QED
        BY <1>3, <1>5, <3>2, <4>6
    <3>3. CASE ~ (id < n)
      <4>1. CodeAt(added, id + 1) = 0
        BY <1>1, <3>3 DEF CodeAt
      <4>2. Args!PackedType(s, id) = "none"
        BY <3>1, <4>1, Codes
      <4> QED
        BY <1>3, <1>5, <2>3, <3>3, <4>2
    <3> QED
      BY <3>2, <3>3
  <2> QED
    BY <2>4, <2>5
<1>9. CASE ~ (n <= m)
  <2>1. PICK h \in Nat : h = Args!has_named_args_bit /\ n < h
    BY <1>1, HighestBit, ArgsAssumption
  <2>2. s.desc = Args!is_unpacked_bit + n + (IF named THEN h ELSE 0)
    BY <1>1, <1>3, <1>7, <1>9, <2>1, CallStore
  <2>3. PICK w : w = s.desc
    OBVIOUS
  <2>4. Args!Bit(s.desc, Args!is_unpacked_bit) /\ s.desc % h = n
    BY <2>1, <2>2, <2>3, WordOfMany
  <2>5. Args!MaxSize(s) = n
    BY <2>1, <2>4 DEF Args!MaxSize
  <2>6. Args!Get(s, id) = IF id < n THEN s.args[id + 1] ELSE Args!NoArg
    BY <2>4, <2>5 DEF Args!Get
  <2> QED
    BY <1>3, <1>5, <1>6, <2>6
<1> QED
  BY <1>8, <1>9

(* A call finds an argument by its name, if no name was given twice.       *)
LEMMA CallName ==
  ASSUME ArgsInv, ~ Args!Duplicate(added), NEW name \in ArgNames
  PROVE  Args!GetNamed(Args!Store(added), name) = Args!FirstOf(name)
<1>1. PICK n \in Nat : n = Len(added) /\ DOMAIN added = 1..n /\ n <= MaxArgs /\ added \in Seq(Args!Arguments)
  BY DEF ArgsInv
<1>2. PICK infos \in Seq(Infos) : infos = Args!NamedArgs(added) /\ FitsNames(infos, added, n)
  BY <1>1, NamesOf DEF FitsNames
<1>3. PICK l \in Nat : l = Len(infos) /\ DOMAIN infos = 1..l
  BY <1>2
<1> DEFINE found == {i \in DOMAIN Args!Store(added).named : Args!Store(added).named[i].name = name}
           of == {i \in DOMAIN added : added[i].name = name}
<1>4. Args!Store(added).named = infos
  BY <1>1, <1>2, CallStore
<1>5. found = {j \in 1..l : infos[j].name = name}
  BY <1>3, <1>4
<1>6. of = {i \in 1..n : added[i].name = name}
  BY <1>1
<1>7. Args!GetId(Args!Store(added), name) = IF infos = <<>> \/ found = {} THEN -1 ELSE infos[Args!Min(found)].id
  <2>1. Args!GetId(Args!Store(added), name) = IF ~ Args!Bit(Args!Store(added).desc, Args!has_named_args_bit) \/ found = {} THEN -1
                                              ELSE Args!Store(added).named[Args!Min(found)].id
    BY DEF Args!GetId
  <2>2. Args!Bit(Args!Store(added).desc, Args!has_named_args_bit) <=> infos # <<>>
    BY <1>1, <1>2, CallNamed DEF NamesGiven
  <2> QED
    BY <1>4, <2>1, <2>2
<1>8. Args!FirstOf(name) = IF of = {} THEN Args!NoArg ELSE Args!Slot(added[Args!Min(of)])
  BY DEF Args!FirstOf
<1> HIDE DEF found, of
<1>9. \A i \in of : \E j \in found : infos[j].id + 1 = i
  <2> SUFFICES ASSUME NEW i \in of PROVE \E j \in found : infos[j].id + 1 = i
    OBVIOUS
  <2>1. i \in 1..n /\ added[i].name = name /\ name # Args!Unnamed
    BY <1>6, ArgsAssumption
  <2>2. PICK j \in 1..l : infos[j].id + 1 = i
    BY <1>2, <1>3, <2>1 DEF FitsNames
  <2>3. added[infos[j].id + 1].name = infos[j].name
    BY <1>2, <1>3 DEF FitsNames
  <2> QED
    BY <1>5, <2>1, <2>2, <2>3
<1>10. CASE found = {}
  <2>1. of = {}
    BY <1>9, <1>10
  <2>2. Args!GetNamed(Args!Store(added), name) = Args!NoArg
    <3>1. Args!GetId(Args!Store(added), name) = -1
      BY <1>7, <1>10
    <3> QED
      BY <3>1 DEF Args!GetNamed
  <2> QED
    BY <1>8, <2>1, <2>2
<1>11. CASE found # {}
  <2>1. found \in SUBSET Nat
    BY <1>5
  <2>2. PICK m \in found : \A j \in found : m <= j
    BY <1>11, <2>1, Least
  <2>3. Args!Min(found) = m /\ m \in 1..l /\ infos[m].name = name /\ infos # <<>>
    BY <1>3, <1>5, <2>1, <2>2, LeastChosen
  <2>4. PICK id \in Nat : id = infos[m].id /\ id + 1 \in 1..n /\ added[id + 1].name = name
    <3>1. infos[m] \in Infos
      BY <1>3, <2>3
    <3>2. infos[m].id \in Nat
      BY <3>1 DEF Infos
    <3>3. infos[m].id + 1 \in 1..n /\ added[infos[m].id + 1].name = infos[m].name
      BY <1>2, <1>3, <2>3 DEF FitsNames
    <3> QED
      BY <2>3, <3>2, <3>3
  <2>5. Args!GetNamed(Args!Store(added), name) = Args!Get(Args!Store(added), id)
    <3>1. Args!GetId(Args!Store(added), name) = id /\ id >= 0
      BY <1>7, <1>11, <2>3, <2>4
    <3> QED
      BY <3>1 DEF Args!GetNamed
  <2>6. of \in SUBSET Nat /\ id + 1 \in of
    BY <1>6, <2>4
  <2>7. Args!Min(of) = id + 1
    <3>1. ASSUME NEW i \in of PROVE id + 1 <= i
      <4>1. i \in 1..n /\ added[i].name = name /\ name # Args!Unnamed
        BY <1>6, ArgsAssumption
      <4>2. ~ (i < id + 1)
        BY <1>1, <2>4, <4>1 DEF Args!Duplicate
      <4> QED
        BY <2>4, <4>1, <4>2
    <3> QED
      BY <2>6, <3>1, LeastChosen
  <2>8. Args!FirstOf(name) = Args!Slot(added[id + 1])
    BY <1>8, <2>6, <2>7
  <2>9. Args!Added(id) = Args!Slot(added[id + 1])
    BY <1>1, <2>4 DEF Args!Added
  <2> QED
    BY <2>5, <2>8, <2>9, CallArgument
<1> QED
  BY <1>10, <1>11

LEMMA CallsFind == ArgsInv => Args!CallFindsArguments
<1> SUFFICES ASSUME ArgsInv, ~ Args!Duplicate(added) PROVE Args!CallFindsArguments
  BY DEF Args!CallFindsArguments
<1>1. ASSUME NEW id \in 0..(MaxArgs + 2) PROVE Args!Get(Args!Store(added), id) = Args!Added(id)
  <2>1. id \in Nat
    BY ArgsAssumption
  <2> QED
    BY <2>1, CallArgument
<1> QED
  BY <1>1, CallName DEF Args!CallFindsArguments

(***************************************************************************)
(* The theorems.                                                           *)
(***************************************************************************)
StoresInv == part \in {"args", "buffer"} /\ (part = "args" => ArgsInv) /\ (part = "buffer" => BufferInv)

LEMMA StoresAlways == Spec => []StoresInv
<1>1. Init => StoresInv
  BY ArgsInit, BufferInit DEF Init, StoresInv
<1>2. StoresInv /\ [Next]_vars => StoresInv'
  <2> SUFFICES ASSUME StoresInv, [Next]_vars PROVE StoresInv'
    OBVIOUS
  <2>1. CASE ArgsStep
    <3>1. part = "args" /\ part' = part /\ Args!Next
      BY <2>1 DEF ArgsStep
    <3> QED
      BY <3>1, ArgsNext DEF StoresInv
  <2>2. CASE BufferStep
    <3>1. part = "buffer" /\ part' = part /\ Buffer!Next
      BY <2>2 DEF BufferStep
    <3> QED
      BY <3>1, BufferNext DEF StoresInv
  <2>3. CASE UNCHANGED vars
    <3>1. part' = part /\ UNCHANGED <<argvars, capacity>> /\ UNCHANGED <<bufvars, capacity>>
      BY <2>3 DEF vars
    <3> QED
      BY <3>1, ArgsStutter, BufferStutter DEF StoresInv
  <2> QED
    BY <2>1, <2>2, <2>3 DEF Next
<1> QED
  BY <1>1, <1>2, PTL DEF Spec

(* Whatever characters are given to a buffer, one by one, in blocks, after *)
(* a reserve() or straight into the block, none is lost, repeated or out   *)
(* of order on the way, and the caller finds all of them, up to the limit: *)
(* for every kind of buffer, every size of the block and every limit.      *)
THEOREM NoCharacterIsLost == Spec => []NothingIsLost
<1>1. StoresInv => NothingIsLost
  <2> SUFFICES ASSUME BufferInv PROVE Buffer!Inv
    BY DEF StoresInv, NothingIsLost
  <2> QED
    BY BufferTypes, BufferLosesNothing, BufferResults DEF Buffer!Inv
<1> QED
  BY <1>1, StoresAlways, PTL

(* In a dynamic_format_arg_store no slot ever refers to a copy that has    *)
(* been freed, and the hidden slot refers to the names where they are now, *)
(* whatever was pushed, reserved and cleared and in whatever order, but    *)
(* from a reserve() that moves the names to the next one pushed: the code  *)
(* leaves the slot as it is there.                                         *)
THEOREM StoreRefersToWhatLives == Spec => []StoreIsSound
<1>1. StoresInv => StoreIsSound
  BY ArgsAreSound DEF StoresInv, StoreIsSound
<1> QED
  BY <1>1, StoresAlways, PTL

(* A dynamic_format_arg_store finds every argument it was given by its     *)
(* index, and nothing past the last one but, with names, at the index one  *)
(* past it.  It finds them by name, through the hidden slot, if no         *)
(* reserve() has moved the names since the last was pushed.  So it is      *)
(* however many there are, and whether the named ones came first, last,    *)
(* between the others or not at all.                                       *)
THEOREM StoreFindsAll == Spec => []StoreFindsArguments
<1>1. StoresInv => StoreFindsArguments
  BY ArgsAreFound DEF StoresInv, StoreFindsArguments
<1> QED
  BY <1>1, StoresAlways, PTL

(* A call finds each of its arguments by its index and, if no name is      *)
(* given twice, the one with a name by that; it finds nothing past the     *)
(* last one or by another name.  So it is for every list of arguments,     *)
(* packed in one word with any number of bits for a type that holds all    *)
(* types, or not packed.                                                   *)
THEOREM CallFindsAll == Spec => []CallFindsArguments
<1>1. StoresInv => CallFindsArguments
  BY CallsFind DEF StoresInv, CallFindsArguments
<1> QED
  BY <1>1, StoresAlways, PTL
=============================================================================
