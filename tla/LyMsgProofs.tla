---------------------------- MODULE LyMsgProofs ----------------------------
(***************************************************************************)
(* Proofs about LyMsg, for every size of the ring, of messages and of the  *)
(* flag: if the texts that are too long for the reader contain no flag,    *)
(* every other text is read whole and in order, whatever has to be skipped *)
(* between them and however reader and writer interleave.                  *)
(***************************************************************************)
EXTENDS LyMsg, SequenceInduction, FiniteSetTheorems

Longest == MaxExpected - HeadLen - TailLen

(* Texts are UTF-8 in which the byte 255 does not occur; only that the     *)
(* long ones have no flag is needed.                                       *)
LongTextsArePlain ==
  \A data \in Text : Len(data) > Longest =>
    \A i \in 1..(Len(data) - FlagLen + 1) : \E j \in i..(i + FlagLen - 1) : data[j] # Flag

Cell == [byte : 0..Flag, start : BOOLEAN]

(* The bytes of a message, and of messages one after the other.            *)
TailOf(data) == Bytes(<<TailValue(Len(data) + TailLen)>>)
Frame(data) == Start(Header(Len(data) + TailLen)) \o (Bytes(data) \o TailOf(data))
Frames(texts) == [i \in DOMAIN texts |-> Frame(texts[i])]

(* What a frame looks like.                                                *)
Layout(f, data) ==
  /\ f \in Seq(Cell) /\ Len(f) = HeadLen + Len(data) + TailLen
  /\ \A i \in 1..FlagLen : f[i].byte = Flag
  /\ f[HeadLen].byte = Len(data) + TailLen
  /\ \A i \in 1..Len(data) : f[HeadLen + i].byte = data[i]
  /\ f[HeadLen + Len(data) + TailLen].byte = TailValue(Len(data) + TailLen)
  /\ \A i \in 1..Len(f) : f[i].start <=> i = 1

(* Two sequences put together.                                             *)
Puts(c, a, b, S) ==
  /\ c \in Seq(S) /\ Len(c) = Len(a) + Len(b)
  /\ \A i \in 1..Len(a) : c[i] = a[i]
  /\ \A i \in 1..Len(b) : c[Len(a) + i] = b[i]

LEMMA Joins ==
  ASSUME NEW S, NEW a \in Seq(S), NEW b \in Seq(S)
  PROVE  Puts(a \o b, a, b, S)
<1> DEFINE c == a \o b
           m == Len(a)
           n == Len(b)
<1>0. m \in Nat /\ n \in Nat
  OBVIOUS
<1>1. /\ c \in Seq(S) /\ Len(c) = m + n
      /\ \A i \in 1..(m + n) : c[i] = IF i <= m THEN a[i] ELSE b[i - m]
  BY ConcatProperties
<1> HIDE DEF c, m, n
<1>2. \A i \in 1..m : i \in 1..(m + n) /\ i <= m
  BY <1>0
<1>3. \A i \in 1..n : m + i \in 1..(m + n) /\ ~(m + i <= m) /\ (m + i) - m = i
  BY <1>0
<1>4. (\A i \in 1..m : c[i] = a[i]) /\ \A i \in 1..n : c[m + i] = b[i]
  BY <1>1, <1>2, <1>3
<1> QED
  BY <1>1, <1>4 DEF Puts, c, m, n

(* A text and its length.                                                  *)
LEMMA TextLength ==
  ASSUME NEW data \in Text
  PROVE  /\ data \in Seq(0..Flag) /\ Len(data) \in Nat /\ Len(data) >= 1
         /\ Len(data) + TailLen \in 1..Flag /\ Len(data) + TailLen # Flag
         /\ TailValue(Len(data) + TailLen) \in 0..Flag /\ TailValue(Len(data) + TailLen) # Flag
<1>1. data \in Seq(0..Flag) /\ Len(data) \in 1..(Flag - 2) /\ Flag \in Nat
  BY LyMsgAssumption
<1> QED
  BY <1>1 DEF TailLen, TailValue

(* The three writes of a message make the bytes they are meant to make.    *)
LEMMA HeaderCells ==
  ASSUME NEW len \in 1..Flag
  PROVE  LET h == Start(Header(len))
         IN  /\ h \in Seq(Cell) /\ Len(h) = HeadLen
             /\ \A i \in 1..FlagLen : h[i].byte = Flag
             /\ h[HeadLen].byte = len
             /\ \A i \in 1..HeadLen : h[i].start <=> i = 1
<1> DEFINE a == [i \in 1..FlagLen |-> Flag]
           b == <<len>>
           c == Header(len)
<1>1. Flag \in Nat /\ FlagLen \in Nat /\ FlagLen >= 1 /\ Flag \in 0..Flag /\ len \in 0..Flag
  BY LyMsgAssumption
<1>2. a \in Seq(0..Flag) /\ Len(a) = FlagLen /\ \A i \in 1..FlagLen : a[i] = Flag
  BY <1>1
<1>3. b \in Seq(0..Flag) /\ Len(b) = 1 /\ b[1] = len
  BY <1>1
<1>4. c = a \o b
  BY DEF Header
<1> HIDE DEF a, b, c
<1>5. /\ c \in Seq(0..Flag) /\ Len(c) = FlagLen + 1
      /\ \A i \in 1..FlagLen : c[i] = a[i]
      /\ \A i \in 1..1 : c[FlagLen + i] = b[i]
  <2>1. Puts(c, a, b, 0..Flag)
    BY <1>2, <1>3, <1>4, Joins
  <2> QED
    BY <1>2, <1>3, <2>1 DEF Puts
<1>6. (\A i \in 1..FlagLen : c[i] = Flag) /\ c[FlagLen + 1] = len
  BY <1>2, <1>3, <1>5
<1> DEFINE h == Start(c)
<1>7. DOMAIN c = 1..(FlagLen + 1) /\ \A i \in 1..(FlagLen + 1) : c[i] \in 0..Flag
  BY <1>1, <1>5
<1>8. h = [i \in 1..(FlagLen + 1) |-> [byte |-> c[i], start |-> i = 1]]
  BY <1>7 DEF Start
<1>9. /\ h \in Seq(Cell) /\ Len(h) = FlagLen + 1
      /\ \A i \in 1..(FlagLen + 1) : h[i].byte = c[i] /\ (h[i].start <=> i = 1)
  <2> DEFINE n == FlagLen + 1
  <2>1. n \in Nat /\ h = [i \in 1..n |-> [byte |-> c[i], start |-> i = 1]] /\ \A i \in 1..n : c[i] \in 0..Flag
    BY <1>1, <1>7, <1>8
  <2> HIDE DEF n, h
  <2>2. \A i \in 1..n : h[i] = [byte |-> c[i], start |-> i = 1] /\ h[i] \in Cell
    <3> SUFFICES ASSUME NEW i \in 1..n PROVE h[i] = [byte |-> c[i], start |-> i = 1] /\ h[i] \in Cell
      OBVIOUS
    <3>1. h[i] = [byte |-> c[i], start |-> i = 1]
      BY <2>1
    <3>2. c[i] \in 0..Flag /\ (i = 1) \in BOOLEAN
      BY <2>1
    <3> QED
      BY <3>1, <3>2 DEF Cell
  <2>3. h \in [1..n -> Cell]
    BY <2>1, <2>2
  <2>4. h \in Seq(Cell) /\ Len(h) = n
    BY <2>1, <2>3
  <2>5. \A i \in 1..n : h[i].byte = c[i] /\ (h[i].start <=> i = 1)
    <3> SUFFICES ASSUME NEW i \in 1..n PROVE h[i].byte = c[i] /\ (h[i].start <=> i = 1)
      OBVIOUS
    <3>1. h[i] = [byte |-> c[i], start |-> i = 1]
      BY <2>2
    <3>2. h[i].byte = c[i]
      BY <3>1
    <3>3. CASE i = 1
      <4>1. (i = 1) = TRUE
        BY <3>3
      <4>2. h[i] = [byte |-> c[i], start |-> TRUE]
        BY <3>1, <4>1, Zenon
      <4> QED
        BY <3>3, <4>2
    <3>4. CASE i # 1
      <4>1. (i = 1) = FALSE
        BY <3>4
      <4>2. h[i] = [byte |-> c[i], start |-> FALSE]
        BY <3>1, <4>1, Zenon
      <4> QED
        BY <3>4, <4>2
    <3> QED
      BY <3>2, <3>3, <3>4
  <2> QED
    BY <2>4, <2>5 DEF n
<1> HIDE DEF h
<1>10. /\ h \in Seq(Cell) /\ Len(h) = HeadLen
       /\ \A i \in 1..FlagLen : h[i].byte = Flag
       /\ h[HeadLen].byte = len
       /\ \A i \in 1..HeadLen : h[i].start <=> i = 1
  BY <1>1, <1>6, <1>9 DEF HeadLen
<1> QED
  BY <1>10 DEF h, c

(* Neither text nor tail start a message.                                  *)
LEMMA OtherCells ==
  ASSUME NEW s \in Seq(0..Flag)
  PROVE  LET b == Bytes(s)
         IN  /\ b \in Seq(Cell) /\ Len(b) = Len(s)
             /\ \A i \in 1..Len(s) : b[i].byte = s[i] /\ ~b[i].start
<1> DEFINE n == Len(s)
           b == Bytes(s)
<1>0. n \in Nat /\ DOMAIN s = 1..n
  OBVIOUS
<1>1. n \in Nat /\ DOMAIN s = 1..n /\ \A i \in 1..n : s[i] \in 0..Flag
  <2> DEFINE S == 0..Flag
  <2>1. s \in Seq(S)
    OBVIOUS
  <2> HIDE DEF S, n
  <2>2. \A i \in 1..n : s[i] \in S
    BY <1>0, <2>1
  <2> QED
    BY <1>0, <2>2 DEF S
<1>2. b = [i \in 1..n |-> [byte |-> s[i], start |-> FALSE]]
  BY <1>1 DEF Bytes
<1> HIDE DEF n, b
<1>3. \A i \in 1..n : b[i] = [byte |-> s[i], start |-> FALSE] /\ b[i] \in Cell
  BY <1>1, <1>2 DEF Cell
<1>4. b \in [1..n -> Cell]
  BY <1>2, <1>3
<1>5. b \in Seq(Cell) /\ Len(b) = n
  BY <1>1, <1>4
<1>6. /\ b \in Seq(Cell) /\ Len(b) = n
      /\ \A i \in 1..n : b[i].byte = s[i] /\ ~b[i].start
  BY <1>3, <1>5
<1> QED
  BY <1>6 DEF n, b

LEMMA FrameLayout ==
  ASSUME NEW data \in Text
  PROVE  Layout(Frame(data), data)
<1> DEFINE len == Len(data) + TailLen
           n == Len(data)
           h == Start(Header(len))
           b == Bytes(data)
           t == TailOf(data)
           f == Frame(data)
<1>1. /\ data \in Seq(0..Flag) /\ n \in Nat /\ len \in 1..Flag /\ TailValue(len) \in 0..Flag
      /\ FlagLen \in Nat /\ FlagLen >= 1 /\ HeadLen = FlagLen + 1
  BY TextLength, LyMsgAssumption DEF HeadLen
<1>2. /\ h \in Seq(Cell) /\ Len(h) = HeadLen
      /\ \A i \in 1..FlagLen : h[i].byte = Flag
      /\ h[HeadLen].byte = len
      /\ \A i \in 1..HeadLen : h[i].start <=> i = 1
  <2> HIDE DEF len
  <2> QED
    BY <1>1, HeaderCells
<1>3. b \in Seq(Cell) /\ Len(b) = n /\ \A i \in 1..n : b[i].byte = data[i] /\ ~b[i].start
  BY <1>1, OtherCells
<1>4. t \in Seq(Cell) /\ Len(t) = 1 /\ t[1].byte = TailValue(len) /\ ~t[1].start
  <2> DEFINE s == <<TailValue(len)>>
  <2>1. s \in Seq(0..Flag) /\ Len(s) = 1 /\ s[1] = TailValue(len) /\ t = Bytes(s)
    BY <1>1 DEF TailOf
  <2> HIDE DEF s, t
  <2>2. 1 \in 1..Len(s)
    BY <2>1
  <2> QED
    BY <2>1, <2>2, OtherCells
<1>5. f = h \o (b \o t)
  BY DEF Frame
<1> HIDE DEF h, b, t, f
<1> DEFINE c == b \o t
<1>6. /\ c \in Seq(Cell) /\ Len(c) = n + 1
      /\ \A i \in 1..n : c[i] = b[i]
      /\ \A i \in 1..1 : c[n + i] = t[i]
  <2>1. Puts(c, b, t, Cell)
    BY <1>3, <1>4, Joins
  <2> HIDE DEF n, c
  <2> QED
    BY <1>3, <1>4, <2>1 DEF Puts
<1> HIDE DEF c
<1>7. (\A i \in 1..n : c[i] = b[i]) /\ c[n + 1] = t[1]
  BY <1>6
<1>8. f = h \o c
  BY <1>5 DEF c
<1>9. /\ f \in Seq(Cell) /\ Len(f) = HeadLen + (n + 1)
      /\ \A i \in 1..HeadLen : f[i] = h[i]
      /\ \A i \in 1..(n + 1) : f[HeadLen + i] = c[i]
  <2>1. Puts(f, h, c, Cell)
    BY <1>2, <1>6, <1>8, Joins
  <2> HIDE DEF n
  <2> QED
    BY <1>2, <1>6, <2>1 DEF Puts
<1> HIDE DEF n, len
<1>10. (\A i \in 1..HeadLen : f[i] = h[i]) /\ (\A i \in 1..(n + 1) : f[HeadLen + i] = c[i])
  BY <1>9
<1>11. /\ \A i \in 1..FlagLen : f[i].byte = Flag
       /\ f[HeadLen].byte = len
       /\ \A i \in 1..n : f[HeadLen + i].byte = data[i]
       /\ f[HeadLen + (n + 1)].byte = TailValue(len)
  <2>1. /\ HeadLen \in 1..HeadLen /\ n + 1 \in 1..(n + 1) /\ \A i \in 1..FlagLen : i \in 1..HeadLen
        /\ \A i \in 1..n : i \in 1..(n + 1)
    BY <1>1
  <2>2. \A i \in 1..FlagLen : f[i].byte = Flag
    BY <1>2, <1>10, <2>1
  <2>3. f[HeadLen].byte = len
    BY <1>2, <1>10, <2>1
  <2>4. \A i \in 1..n : f[HeadLen + i].byte = data[i]
    <3> SUFFICES ASSUME NEW i \in 1..n PROVE f[HeadLen + i].byte = data[i]
      OBVIOUS
    <3>1. f[HeadLen + i] = b[i]
      BY <1>7, <1>10, <2>1
    <3>2. b[i].byte = data[i]
      BY <1>3
    <3> QED
      BY <3>1, <3>2
  <2>5. f[HeadLen + (n + 1)].byte = TailValue(len)
    BY <1>4, <1>7, <1>10, <2>1
  <2> QED
    BY <2>2, <2>3, <2>4, <2>5
<1>12. \A i \in 1..Len(f) : f[i].start <=> i = 1
  <2> SUFFICES ASSUME NEW i \in 1..(HeadLen + (n + 1)) PROVE f[i].start <=> i = 1
    BY <1>9
  <2>1. CASE i <= HeadLen
    <3>1. i \in 1..HeadLen
      BY <1>1, <2>1
    <3> QED
      BY <1>2, <1>10, <3>1
  <2>2. CASE i > HeadLen
    <3>1. i - HeadLen \in 1..(n + 1) /\ HeadLen + (i - HeadLen) = i /\ i # 1
      BY <1>1, <2>2
    <3>2. f[i] = c[i - HeadLen]
      BY <1>10, <3>1
    <3>3. i - HeadLen \in 1..n \/ i - HeadLen = n + 1
      BY <1>1, <3>1
    <3> QED
      BY <1>3, <1>4, <1>7, <3>1, <3>2, <3>3
  <2> QED
    BY <1>1, <2>1, <2>2
<1>13. HeadLen + n + TailLen = HeadLen + (n + 1)
  BY <1>1 DEF TailLen
<1> QED
  BY <1>9, <1>11, <1>12, <1>13 DEF Layout, n, len, f

-----------------------------------------------------------------------------
(* What is left of a sequence without its first n elements.                *)
Rest(s, n) == SubSeq(s, n + 1, Len(s))

LEMMA RestOf ==
  ASSUME NEW S, NEW s \in Seq(S), NEW n \in Nat, n <= Len(s)
  PROVE  /\ Rest(s, n) \in Seq(S) /\ Len(Rest(s, n)) = Len(s) - n
         /\ \A i \in 1..(Len(s) - n) : Rest(s, n)[i] = s[n + i]
<1> DEFINE r == SubSeq(s, n + 1, Len(s))
<1>1. /\ Len(s) \in Nat /\ n + 1 \in 1..(Len(s) + 1) /\ Len(s) \in n..Len(s)
      /\ Len(s) - (n + 1) + 1 = Len(s) - n /\ \A i \in 1..(Len(s) - n) : n + 1 + i - 1 = n + i
  OBVIOUS
<1>2. r \in Seq(S) /\ Len(r) = Len(s) - n /\ \A i \in 1..(Len(s) - n) : r[i] = s[n + i]
  <2>1. r = [i \in 1..(Len(s) - n) |-> s[n + i]]
    BY <1>1
  <2>2. \A i \in 1..(Len(s) - n) : n + i \in 1..Len(s)
    BY <1>1
  <2>3. \A i \in 1..(Len(s) - n) : s[n + i] \in S
    BY <2>2
  <2> DEFINE m == Len(s) - n
  <2>4. m \in Nat /\ r = [i \in 1..m |-> s[n + i]] /\ \A i \in 1..m : s[n + i] \in S
    BY <1>1, <2>1, <2>3
  <2> HIDE DEF m, r
  <2>5. r \in [1..m -> S]
    BY <2>4
  <2>6. r \in Seq(S) /\ Len(r) = m /\ \A i \in 1..m : r[i] = s[n + i]
    BY <2>4, <2>5
  <2> QED
    BY <2>6 DEF m
<1> QED
  BY <1>2 DEF Rest

(* What is left of two sequences put together.                             *)
LEMMA RestOfJoined ==
  ASSUME NEW S, NEW a \in Seq(S), NEW b \in Seq(S), NEW n \in Nat, n <= Len(a)
  PROVE  Rest(a, n) \o b = Rest(a \o b, n)
<1> DEFINE e == a \o b
           r == Rest(a, n)
           p == r \o b
           q == Rest(e, n)
           la == Len(a)
           lb == Len(b)
<1>1. la \in Nat /\ lb \in Nat /\ n <= la
  OBVIOUS
<1>2. /\ e \in Seq(S) /\ Len(e) = la + lb
      /\ (\A i \in 1..la : e[i] = a[i]) /\ \A i \in 1..lb : e[la + i] = b[i]
  BY Joins DEF Puts
<1>3. r \in Seq(S) /\ Len(r) = la - n /\ \A i \in 1..(la - n) : r[i] = a[n + i]
  BY RestOf
<1> HIDE DEF e, r
<1>4. /\ p \in Seq(S) /\ Len(p) = (la - n) + lb
      /\ (\A i \in 1..(la - n) : p[i] = r[i]) /\ \A i \in 1..lb : p[(la - n) + i] = b[i]
  <2>1. Puts(p, r, b, S)
    BY <1>3, Joins
  <2> HIDE DEF p, la, lb
  <2>2. Puts(p, r, b, S)
    BY <2>1
  <2> QED
    BY <1>3, <2>2 DEF Puts, lb
<1>5. q \in Seq(S) /\ Len(q) = (la + lb) - n /\ \A i \in 1..((la + lb) - n) : q[i] = e[n + i]
  <2>1. n <= Len(e)
    BY <1>1, <1>2
  <2>2. q \in Seq(S) /\ Len(q) = Len(e) - n /\ \A i \in 1..(Len(e) - n) : q[i] = e[n + i]
    <3>1. e \in Seq(S) /\ n \in Nat /\ n <= Len(e)
      BY <1>2, <2>1
    <3> HIDE DEF la, lb
    <3> QED
      BY <3>1, RestOf
  <2> HIDE DEF q, la, lb
  <2> QED
    BY <1>2, <2>2
<1> HIDE DEF p, q, la, lb
<1>6. ASSUME NEW i \in 1..((la + lb) - n) PROVE p[i] = q[i]
  <2>1. q[i] = e[n + i]
    BY <1>5
  <2>2. CASE i <= la - n
    <3>1. i \in 1..(la - n) /\ n + i \in 1..la
      BY <1>1, <2>2
    <3> QED
      BY <1>2, <1>3, <1>4, <2>1, <3>1
  <2>3. CASE i > la - n
    <3>1. i - (la - n) \in 1..lb /\ (la - n) + (i - (la - n)) = i /\ la + (i - (la - n)) = n + i
      BY <1>1, <2>3
    <3>2. p[i] = b[i - (la - n)] /\ e[n + i] = b[i - (la - n)]
      BY <1>2, <1>4, <3>1
    <3> QED
      BY <2>1, <3>2
  <2> QED
    BY <1>1, <2>2, <2>3
<1>7. Len(p) = Len(q) /\ \A i \in 1..Len(p) : p[i] = q[i]
  <2>1. (la - n) + lb = (la + lb) - n
    BY <1>1
  <2> QED
    BY <1>4, <1>5, <1>6, <2>1
<1>8. p = q
  <2>1. p \in Seq(S) /\ q \in Seq(S)
    BY <1>4, <1>5
  <2> QED
    BY <1>7, <2>1
<1> QED
  BY <1>8 DEF p, q, r, e

(* Two ways to see one sequence: what is at the front of both, and what is *)
(* left when some of it is taken away.                                     *)
SameFront(a, c) == \A i \in 1..Len(a) : i <= Len(c) => a[i] = c[i]
SameRest(a, b, c, d) ==
  \A n \in Nat : n <= Len(a) /\ n <= Len(c) => Rest(a, n) \o b = Rest(c, n) \o d

LEMMA TwoViews ==
  ASSUME NEW S, NEW a \in Seq(S), NEW b \in Seq(S), NEW c \in Seq(S), NEW d \in Seq(S),
         a \o b = c \o d
  PROVE  SameFront(a, c) /\ SameRest(a, b, c, d)
<1> DEFINE e == a \o b
<1>1. (\A i \in 1..Len(a) : e[i] = a[i]) /\ \A i \in 1..Len(c) : e[i] = c[i]
  BY Joins DEF Puts
<1>2. Len(a) \in Nat /\ Len(c) \in Nat
  OBVIOUS
<1> HIDE DEF e
<1>3. ASSUME NEW i \in 1..Len(a), i <= Len(c) PROVE a[i] = c[i]
  <2>1. i \in 1..Len(c)
    BY <1>2, <1>3
  <2> QED
    BY <1>1, <2>1
<1>4. ASSUME NEW n \in Nat, n <= Len(a), n <= Len(c)
      PROVE  Rest(a, n) \o b = Rest(c, n) \o d
  <2>1. Rest(a, n) \o b = Rest(a \o b, n)
    BY <1>4, RestOfJoined
  <2>2. Rest(c, n) \o d = Rest(c \o d, n)
    BY <1>4, RestOfJoined
  <2> QED
    BY <2>1, <2>2, Zenon
<1> QED
  BY <1>3, <1>4 DEF SameFront, SameRest

-----------------------------------------------------------------------------
(* Frames of texts, one more text at the end and one less at the front.    *)
LEMMA FramesType ==
  ASSUME NEW texts \in Seq(Text)
  PROVE  Frames(texts) \in Seq(Seq(Cell)) /\ FlattenSeq(Frames(texts)) \in Seq(Cell)
<1>1. \A data \in Text : Frame(data) \in Seq(Cell)
  BY FrameLayout DEF Layout
<1>2. \A i \in 1..Len(texts) : texts[i] \in Text
  OBVIOUS
<1> DEFINE f == Frames(texts)
<1>3. f \in Seq(Seq(Cell))
  <2>1. f = [i \in 1..Len(texts) |-> Frame(texts[i])]
    BY DEF Frames
  <2>2. \A i \in 1..Len(texts) : Frame(texts[i]) \in Seq(Cell)
    BY <1>1, <1>2
  <2> QED
    BY <2>1, <2>2
<1> QED
  BY <1>3, FlattenType

LEMMA FramesAppend ==
  ASSUME NEW texts \in Seq(Text), NEW data \in Text
  PROVE  FlattenSeq(Frames(Append(texts, data))) = FlattenSeq(Frames(texts)) \o Frame(data)
<1> DEFINE r == Append(texts, data)
           n == Len(texts)
           f == Frames(texts)
           x == Frame(data)
           g == Frames(r)
           T == Seq(Cell)
<1>1. r \in Seq(Text) /\ n \in Nat /\ Len(r) = n + 1 /\ r[n + 1] = data /\ \A i \in 1..n : r[i] = texts[i]
  BY AppendProperties
<1>2. f \in Seq(T) /\ Len(f) = n /\ \A i \in 1..n : f[i] = Frame(texts[i])
  <2>1. f \in Seq(T)
    BY FramesType
  <2> HIDE DEF T
  <2>2. f = [i \in 1..n |-> Frame(texts[i])]
    BY DEF Frames
  <2> QED
    BY <1>1, <2>1, <2>2
<1>3. x \in T
  BY FrameLayout DEF Layout
<1>4. g \in Seq(T) /\ Len(g) = n + 1 /\ \A i \in 1..(n + 1) : g[i] = Frame(r[i])
  <2>1. g \in Seq(T)
    BY <1>1, FramesType
  <2> HIDE DEF r
  <2>2. g = [i \in 1..(n + 1) |-> Frame(r[i])]
    BY <1>1 DEF Frames
  <2> QED
    BY <1>1, <2>1, <2>2
<1>5. Append(f, x) \in Seq(T) /\ Len(Append(f, x)) = n + 1 /\ Append(f, x)[n + 1] = x
      /\ \A i \in 1..n : Append(f, x)[i] = f[i]
  <2> HIDE DEF T, f, x
  <2> QED
    BY <1>2, <1>3, AppendProperties
<1>6. \A i \in 1..(n + 1) : g[i] = Append(f, x)[i]
  <2> HIDE DEF g, f, r, n
  <2> SUFFICES ASSUME NEW i \in 1..(n + 1) PROVE g[i] = Append(f, x)[i]
    OBVIOUS
  <2>1. CASE i \in 1..n
    BY <1>1, <1>2, <1>4, <1>5, <2>1
  <2>2. CASE i = n + 1
    <3>1. i \in 1..(n + 1) /\ g[i] = Frame(r[i]) /\ r[i] = data
      BY <1>1, <1>4, <2>2
    <3>2. Append(f, x)[i] = x
      BY <1>5, <2>2
    <3> QED
      BY <3>1, <3>2 DEF x
  <2>3. i \in 1..n \/ i = n + 1
    BY <1>1
  <2> QED
    BY <2>1, <2>2, <2>3
<1>7. g = Append(f, x)
  <2> HIDE DEF g, f, r, n, x, T
  <2> QED
    BY <1>4, <1>5, <1>6
<1>8. FlattenSeq(Append(f, x)) = FlattenSeq(f) \o x
  <2> HIDE DEF f, x
  <2> QED
    BY <1>2, <1>3, FlattenAppend
<1> QED
  BY <1>7, <1>8

LEMMA FramesTail ==
  ASSUME NEW texts \in Seq(Text), texts # <<>>
  PROVE  /\ Head(texts) \in Text /\ Tail(texts) \in Seq(Text)
         /\ FlattenSeq(Frames(texts)) = Frame(Head(texts)) \o FlattenSeq(Frames(Tail(texts)))
<1> DEFINE r == Tail(texts)
           n == Len(r)
           f == Frames(texts)
           g == Frames(r)
           T == Seq(Cell)
<1>1. /\ r \in Seq(Text) /\ n \in Nat /\ Len(texts) = n + 1 /\ Head(texts) = texts[1] /\ Head(texts) \in Text
      /\ \A i \in 1..n : r[i] = texts[i + 1]
  OBVIOUS
<1>2. f \in Seq(T) /\ Len(f) = n + 1 /\ \A i \in 1..(n + 1) : f[i] = Frame(texts[i])
  <2>1. f \in Seq(T)
    BY FramesType
  <2> HIDE DEF n
  <2>2. f = [i \in 1..(n + 1) |-> Frame(texts[i])]
    BY <1>1 DEF Frames
  <2> QED
    BY <1>1, <2>1, <2>2
<1> HIDE DEF r
<1>3. g \in Seq(T) /\ Len(g) = n /\ \A i \in 1..n : g[i] = Frame(r[i])
  <2>1. g \in Seq(T)
    BY <1>1, FramesType
  <2>2. g = [i \in 1..n |-> Frame(r[i])]
    BY <1>1 DEF Frames
  <2> QED
    BY <1>1, <2>1, <2>2
<1> HIDE DEF n, f, g, T
<1>4. f # <<>> /\ Head(f) = Frame(Head(texts))
  BY <1>1, <1>2
<1>5. g = Tail(f)
  <2>1. Tail(f) \in Seq(T) /\ Len(Tail(f)) = n /\ \A i \in 1..n : Tail(f)[i] = f[i + 1]
    BY <1>1, <1>2
  <2>2. \A i \in 1..n : f[i + 1] = Frame(texts[i + 1]) /\ g[i] = Frame(texts[i + 1])
    BY <1>1, <1>2, <1>3
  <2> QED
    BY <1>1, <1>3, <2>1, <2>2
<1>6. FlattenSeq(f) = Head(f) \o FlattenSeq(Tail(f))
  BY <1>2, <1>4, FlattenTail DEF T
<1>7. FlattenSeq(f) = Frame(Head(texts)) \o FlattenSeq(g)
  BY <1>4, <1>5, <1>6
<1> QED
  BY <1>1, <1>7 DEF f, g, r

-----------------------------------------------------------------------------
(* Bytes the reader has to skip, the rest of a message too long for it:    *)
(* no message starts in them and wherever it looks, there is something     *)
(* that is not a flag before the bytes end.                                *)
Skipped(rest) ==
  \A i \in DOMAIN rest :
    /\ ~rest[i].start
    /\ \E j \in DOMAIN rest : i <= j /\ j < i + FlagLen /\ rest[j].byte # Flag

(* The bytes r in the ring and m still to be written are the rest of a     *)
(* message and the frames of the texts.                                    *)
Stream(r, m, rest, texts) == r \o m = rest \o FlattenSeq(Frames(texts))

(* If nothing has to be skipped, a frame is in front.                      *)
LEMMA FirstFrame ==
  ASSUME NEW r \in Seq(Cell), NEW m \in Seq(Cell), NEW texts \in Seq(Text),
         Stream(r, m, <<>>, texts), r # <<>>
  PROVE  LET h == Head(texts)
         IN  /\ texts # <<>> /\ h \in Text /\ Tail(texts) \in Seq(Text)
             /\ \A i \in 1..Len(r) : i <= Len(Frame(h)) => r[i] = Frame(h)[i]
             /\ \A n \in Nat : n <= Len(r) /\ n <= Len(Frame(h)) =>
                  Stream(Rest(r, n), m, Rest(Frame(h), n), Tail(texts))
<1> DEFINE all == FlattenSeq(Frames(texts))
           h == Head(texts)
           f == Frame(h)
           others == FlattenSeq(Frames(Tail(texts)))
<1>1. r \o m = all
  <2>1. all \in Seq(Cell) /\ r \o m = <<>> \o all
    BY FramesType DEF Stream
  <2> HIDE DEF all
  <2> QED
    BY <2>1
<1>2. texts # <<>>
  <2> SUFFICES ASSUME texts = <<>> PROVE FALSE
    OBVIOUS
  <2>1. Frames(texts) = <<>>
    BY DEF Frames
  <2>2. all = <<>>
    BY <2>1, FlattenEmpty
  <2>3. Len(r \o m) = Len(r) + Len(m) /\ Len(r) \in Nat /\ Len(m) \in Nat /\ Len(r) # 0
    OBVIOUS
  <2> QED
    BY <1>1, <2>2, <2>3
<1>3. h \in Text /\ Tail(texts) \in Seq(Text) /\ all = f \o others
  BY <1>2, FramesTail
<1>4. f \in Seq(Cell) /\ others \in Seq(Cell)
  BY <1>3, FrameLayout, FramesType DEF Layout
<1> HIDE DEF all, f, others, h
<1>5. SameFront(r, f) /\ SameRest(r, m, f, others)
  <2>1. r \o m = f \o others
    BY <1>1, <1>3
  <2> QED
    BY <1>4, <2>1, TwoViews
<1> QED
  BY <1>2, <1>3, <1>5 DEF SameFront, SameRest, Stream, f, others, h

(* A flag in front tells that nothing has to be skipped.                   *)
LEMMA FlagTells ==
  ASSUME NEW r \in Seq(Cell), NEW m \in Seq(Cell), NEW rest \in Seq(Cell), NEW texts \in Seq(Text),
         Stream(r, m, rest, texts), Skipped(rest), FlagLen <= Len(r)
  PROVE  FlagInFront(r) <=> rest = <<>>
<1>1. FlagLen \in Nat /\ FlagLen >= 1 /\ Len(r) \in Nat /\ Len(rest) \in Nat
  BY LyMsgAssumption
<1>2. CASE rest = <<>>
  <2>1. r # <<>>
    BY <1>1
  <2> DEFINE f == Frame(Head(texts))
  <2>2. Head(texts) \in Text /\ \A i \in 1..Len(r) : i <= Len(f) => r[i] = f[i]
    BY <1>2, <2>1, FirstFrame
  <2>3. Layout(f, Head(texts))
    BY <2>2, FrameLayout
  <2>4. Len(Head(texts)) \in Nat
    BY <2>2, TextLength
  <2> HIDE DEF f
  <2>5. FlagLen <= Len(f) /\ \A i \in 1..FlagLen : f[i].byte = Flag
    <3>1. Len(f) = (FlagLen + 1) + Len(Head(texts)) + 1
      BY <2>3 DEF Layout, HeadLen, TailLen
    <3>2. \A i \in 1..FlagLen : f[i].byte = Flag
      BY <2>3 DEF Layout
    <3> DEFINE k == Len(Head(texts))
    <3>3. FlagLen <= (FlagLen + 1) + k + 1
      <4>1. k \in Nat
        BY <2>4
      <4> HIDE DEF k
      <4> QED
        BY <1>1, <4>1
    <3> QED
      BY <3>1, <3>2, <3>3
  <2>6. \A i \in 1..FlagLen : i \in 1..Len(r) /\ i <= Len(f)
    <3>1. Len(f) \in Nat
      BY <2>3 DEF Layout
    <3> QED
      BY <1>1, <2>5, <3>1
  <2>7. \A i \in 1..FlagLen : r[i].byte = Flag
    BY <2>2, <2>5, <2>6
  <2> QED
    BY <1>2, <2>7 DEF FlagInFront
<1>3. CASE rest # <<>>
  <2>1. 1 \in DOMAIN rest /\ DOMAIN rest = 1..Len(rest)
    BY <1>1, <1>3
  <2>2. PICK j \in DOMAIN rest : 1 <= j /\ j < 1 + FlagLen /\ rest[j].byte # Flag
    BY <2>1 DEF Skipped
  <2>3. j \in 1..FlagLen /\ j \in 1..Len(r) /\ j <= Len(rest)
    BY <1>1, <2>1, <2>2
  <2> DEFINE d == FlattenSeq(Frames(texts))
  <2>4. d \in Seq(Cell) /\ r \o m = rest \o d
    BY FramesType DEF Stream
  <2> HIDE DEF d
  <2>5. SameFront(r, rest)
    BY <2>4, TwoViews
  <2>6. r[j] = rest[j]
    BY <2>3, <2>5 DEF SameFront
  <2> QED
    BY <1>3, <2>2, <2>3, <2>6 DEF FlagInFront
<1> QED
  BY <1>2, <1>3

(* One byte is skipped.                                                    *)
LEMMA SkipOne ==
  ASSUME NEW r \in Seq(Cell), NEW m \in Seq(Cell), NEW rest \in Seq(Cell), NEW texts \in Seq(Text),
         Stream(r, m, rest, texts), Skipped(rest), r # <<>>, rest # <<>>
  PROVE  /\ ~r[1].start
         /\ Rest(rest, 1) \in Seq(Cell) /\ Skipped(Rest(rest, 1))
         /\ Stream(Rest(r, 1), m, Rest(rest, 1), texts)
<1> DEFINE d == FlattenSeq(Frames(texts))
           c == Rest(rest, 1)
<1>1. d \in Seq(Cell) /\ r \o m = rest \o d
  BY FramesType DEF Stream
<1>2. Len(r) \in Nat /\ Len(rest) \in Nat /\ 1 <= Len(r) /\ 1 <= Len(rest) /\ 1 \in Nat
      /\ DOMAIN rest = 1..Len(rest) /\ FlagLen \in Nat
  BY LyMsgAssumption
<1> HIDE DEF d
<1>3. r[1] = rest[1] /\ Rest(r, 1) \o m = c \o d
  <2>1. SameFront(r, rest) /\ SameRest(r, m, rest, d)
    BY <1>1, TwoViews
  <2>2. 1 \in 1..Len(r)
    BY <1>2
  <2> QED
    BY <1>2, <2>1, <2>2 DEF SameFront, SameRest, c
<1>4. c \in Seq(Cell) /\ Len(c) = Len(rest) - 1 /\ \A i \in 1..(Len(rest) - 1) : c[i] = rest[1 + i]
  BY <1>2, RestOf
<1> HIDE DEF c
<1>5. ~rest[1].start
  BY <1>2 DEF Skipped
<1>6. ASSUME NEW i \in DOMAIN c
      PROVE  /\ ~c[i].start
             /\ \E j \in DOMAIN c : i <= j /\ j < i + FlagLen /\ c[j].byte # Flag
  <2>1. DOMAIN c = 1..(Len(rest) - 1) /\ 1 + i \in DOMAIN rest /\ i \in 1..(Len(rest) - 1)
    BY <1>2, <1>4
  <2>2. ~rest[1 + i].start
    BY <2>1 DEF Skipped
  <2>3. PICK j \in DOMAIN rest : 1 + i <= j /\ j < 1 + i + FlagLen /\ rest[j].byte # Flag
    BY <2>1 DEF Skipped
  <2>4. j - 1 \in DOMAIN c /\ i <= j - 1 /\ j - 1 < i + FlagLen /\ 1 + (j - 1) = j
    BY <1>2, <2>1, <2>3
  <2>5. c[j - 1].byte # Flag
    BY <1>4, <2>1, <2>3, <2>4
  <2>6. ~c[i].start
    BY <1>4, <2>1, <2>2
  <2> QED
    BY <2>4, <2>5, <2>6
<1>7. Skipped(c)
  BY <1>6 DEF Skipped
<1> QED
  BY <1>3, <1>4, <1>5, <1>7 DEF Stream, c, d

(* What is left of a message too long for the reader, once it has given up *)
(* the first byte, it has to skip.                                         *)
LEMMA SkipFrame ==
  ASSUME NEW data \in Text, LongTextsArePlain, Len(data) > Longest
  PROVE  Rest(Frame(data), 1) \in Seq(Cell) /\ Skipped(Rest(Frame(data), 1))
<1> DEFINE f == Frame(data)
           c == Rest(f, 1)
           n == Len(data)
<1>1. /\ n \in Nat /\ n >= 1 /\ n + TailLen # Flag /\ TailValue(n + TailLen) # Flag
      /\ FlagLen \in Nat /\ FlagLen >= 1 /\ HeadLen = FlagLen + 1 /\ TailLen = 1
  BY TextLength, LyMsgAssumption DEF HeadLen, TailLen
<1>2. Layout(f, data)
  BY FrameLayout
<1> HIDE DEF f
<1>3. /\ f \in Seq(Cell) /\ Len(f) = FlagLen + n + 2
      /\ f[FlagLen + 1].byte # Flag
      /\ \A i \in 1..n : f[FlagLen + 1 + i].byte = data[i]
      /\ f[FlagLen + n + 2].byte # Flag
      /\ \A i \in 1..Len(f) : f[i].start <=> i = 1
  <2> HIDE DEF n
  <2>1. HeadLen + n + TailLen = FlagLen + n + 2
    BY <1>1
  <2> QED
    BY <1>1, <1>2, <2>1 DEF Layout, n
<1>4. c \in Seq(Cell) /\ Len(c) = FlagLen + n + 1 /\ \A i \in 1..(FlagLen + n + 1) : c[i] = f[1 + i]
  <2>1. 1 <= Len(f) /\ 1 \in Nat /\ Len(f) - 1 = FlagLen + n + 1
    BY <1>1, <1>3
  <2>2. c \in Seq(Cell) /\ Len(c) = Len(f) - 1 /\ \A i \in 1..(Len(f) - 1) : c[i] = f[1 + i]
    <3>1. f \in Seq(Cell) /\ 1 <= Len(f) /\ 1 \in Nat
      BY <1>3, <2>1
    <3> QED
      BY <3>1, RestOf
  <2> HIDE DEF n, c
  <2> QED
    BY <2>1, <2>2
<1>5. \A i \in 1..(n - FlagLen + 1) : \E j \in i..(i + FlagLen - 1) : data[j] # Flag
  BY DEF LongTextsArePlain
<1> HIDE DEF n, c
<1>6. /\ c[FlagLen].byte # Flag
      /\ \A i \in 1..n : c[FlagLen + i].byte = data[i]
      /\ c[FlagLen + n + 1].byte # Flag
      /\ \A i \in 1..(FlagLen + n + 1) : ~c[i].start
  <2>1. c[FlagLen] = f[FlagLen + 1]
    BY <1>1, <1>4
  <2>2. \A i \in 1..n : FlagLen + i \in 1..(FlagLen + n + 1) /\ 1 + (FlagLen + i) = FlagLen + 1 + i
    BY <1>1
  <2>3. \A i \in 1..n : c[FlagLen + i].byte = data[i]
    BY <1>3, <1>4, <2>2
  <2>4. FlagLen + n + 1 \in 1..(FlagLen + n + 1) /\ 1 + (FlagLen + n + 1) = FlagLen + n + 2
    BY <1>1
  <2>5. c[FlagLen + n + 1].byte # Flag
    BY <1>3, <1>4, <2>4
  <2>6. \A i \in 1..(FlagLen + n + 1) : 1 + i \in 1..Len(f) /\ 1 + i # 1
    BY <1>1, <1>3
  <2>7. \A i \in 1..(FlagLen + n + 1) : ~c[i].start
    BY <1>3, <1>4, <2>6
  <2> QED
    BY <1>3, <2>1, <2>3, <2>5, <2>7
<1>7. DOMAIN c = 1..(FlagLen + n + 1)
  BY <1>1, <1>4
<1>8. ASSUME NEW i \in 1..(FlagLen + n + 1)
      PROVE  \E j \in 1..(FlagLen + n + 1) : i <= j /\ j < i + FlagLen /\ c[j].byte # Flag
  <2>1. CASE i <= FlagLen
    <3>1. FlagLen \in 1..(FlagLen + n + 1) /\ FlagLen < i + FlagLen
      BY <1>1
    <3> QED
      BY <1>6, <2>1, <3>1
  <2>2. CASE i > n + 1
    <3>1. FlagLen + n + 1 \in 1..(FlagLen + n + 1) /\ i <= FlagLen + n + 1 /\ FlagLen + n + 1 < i + FlagLen
      BY <1>1, <2>2
    <3> QED
      BY <1>6, <3>1
  <2>3. CASE i > FlagLen /\ i <= n + 1
    <3>1. i - FlagLen \in 1..(n - FlagLen + 1)
      BY <1>1, <2>3
    <3>2. PICK j \in (i - FlagLen)..(i - FlagLen + FlagLen - 1) : data[j] # Flag
      BY <1>5, <3>1
    <3>3. j \in 1..n /\ FlagLen + j \in 1..(FlagLen + n + 1) /\ i <= FlagLen + j /\ FlagLen + j < i + FlagLen
      BY <1>1, <2>3, <3>2
    <3>4. c[FlagLen + j].byte # Flag
      BY <1>6, <3>2, <3>3
    <3> QED
      BY <3>3, <3>4
  <2> QED
    BY <1>1, <2>1, <2>2, <2>3
<1>9. Skipped(c)
  BY <1>6, <1>7, <1>8 DEF Skipped
<1> QED
  BY <1>4, <1>9 DEF c, f

-----------------------------------------------------------------------------
(* Where messages start.                                                   *)
Starts(r) == {i \in DOMAIN r : r[i].start}

LEMMA StartsFinite ==
  ASSUME NEW r \in Seq(Cell)
  PROVE  IsFiniteSet(Starts(r)) /\ Cardinality(Starts(r)) \in Nat /\ Starts(r) \subseteq 1..Len(r)
<1>1. Len(r) \in Nat /\ DOMAIN r = 1..Len(r)
  OBVIOUS
<1>2. Starts(r) \in SUBSET (1..Len(r)) /\ IsFiniteSet(1..Len(r))
  BY <1>1, FS_Interval DEF Starts
<1> QED
  BY <1>2, FS_Subset, FS_CardinalityType

(* A header added.                                                         *)
LEMMA StartsWithHeader ==
  ASSUME NEW r \in Seq(Cell), NEW h \in Seq(Cell), Len(h) >= 1,
         \A i \in 1..Len(h) : h[i].start <=> i = 1
  PROVE  Cardinality(Starts(r \o h)) = Cardinality(Starts(r)) + 1
<1> DEFINE e == r \o h
           m == Len(r)
           n == Len(h)
<1>1. m \in Nat /\ n \in Nat /\ n >= 1 /\ DOMAIN r = 1..m
  OBVIOUS
<1>2. e \in Seq(Cell) /\ Len(e) = m + n /\ (\A i \in 1..m : e[i] = r[i]) /\ \A i \in 1..n : e[m + i] = h[i]
  BY Joins DEF Puts
<1>3. \A i \in 1..n : h[i].start <=> i = 1
  OBVIOUS
<1> HIDE DEF e, m, n
<1>4. DOMAIN e = 1..(m + n)
  BY <1>2
<1>5. Starts(e) = Starts(r) \cup {m + 1}
  <2>1. ASSUME NEW i \in 1..(m + n) PROVE e[i].start <=> (i \in 1..m /\ r[i].start) \/ i = m + 1
    <3>1. CASE i \in 1..m
      BY <1>1, <1>2, <3>1
    <3>2. CASE i \notin 1..m
      <4>1. i - m \in 1..n /\ m + (i - m) = i
        BY <1>1, <3>2
      <4>2. e[i] = h[i - m]
        BY <1>2, <4>1
      <4>3. i - m = 1 <=> i = m + 1
        BY <1>1, <4>1
      <4> QED
        BY <1>3, <3>2, <4>1, <4>2, <4>3
    <3> QED
      BY <3>1, <3>2
  <2>2. m + 1 \in 1..(m + n) /\ \A i \in 1..m : i \in 1..(m + n)
    BY <1>1
  <2> QED
    BY <1>1, <1>4, <2>1, <2>2 DEF Starts
<1>6. m + 1 \notin Starts(r)
  BY <1>1 DEF Starts
<1>7. IsFiniteSet(Starts(r))
  BY StartsFinite
<1> QED
  BY <1>5, <1>6, <1>7, FS_AddElement DEF e

(* Text or tail added.                                                     *)
LEMMA StartsWithOther ==
  ASSUME NEW r \in Seq(Cell), NEW h \in Seq(Cell), \A i \in 1..Len(h) : ~h[i].start
  PROVE  Starts(r \o h) = Starts(r)
<1> DEFINE e == r \o h
           m == Len(r)
           n == Len(h)
<1>1. m \in Nat /\ n \in Nat /\ DOMAIN r = 1..m
  OBVIOUS
<1>2. e \in Seq(Cell) /\ Len(e) = m + n /\ (\A i \in 1..m : e[i] = r[i]) /\ \A i \in 1..n : e[m + i] = h[i]
  BY Joins DEF Puts
<1>3. \A i \in 1..n : ~h[i].start
  OBVIOUS
<1> HIDE DEF e, m, n
<1>4. DOMAIN e = 1..(m + n)
  BY <1>2
<1>5. ASSUME NEW i \in 1..(m + n) PROVE e[i].start <=> (i \in 1..m /\ r[i].start)
  <2>1. CASE i \in 1..m
    BY <1>1, <1>2, <2>1
  <2>2. CASE i \notin 1..m
    <3>1. i - m \in 1..n /\ m + (i - m) = i
      BY <1>1, <2>2
    <3> QED
      BY <1>2, <1>3, <2>2, <3>1
  <2> QED
    BY <2>1, <2>2
<1>6. \A i \in 1..m : i \in 1..(m + n)
  BY <1>1
<1> QED
  BY <1>1, <1>4, <1>5, <1>6 DEF Starts, e

(* The same positions, n further to the front.                             *)
LEMMA Shifted ==
  ASSUME NEW A, NEW B, NEW n \in Nat, IsFiniteSet(A), A \subseteq Nat, B \subseteq Nat,
         \A i \in Nat : i \in B <=> n + i \in A,
         \A i \in A : i >= n
  PROVE  Cardinality(B) = Cardinality(A)
<1> DEFINE f == [i \in A |-> i - n]
<1>1. \A i \in A : i - n \in B /\ i \in Nat
  <2> SUFFICES ASSUME NEW i \in A PROVE i - n \in B /\ i \in Nat
    OBVIOUS
  <2>1. i \in Nat /\ i - n \in Nat /\ n + (i - n) = i
    OBVIOUS
  <2> QED
    BY <2>1
<1>2. f \in [A -> B] /\ \A i \in A : f[i] = i - n
  BY <1>1
<1> HIDE DEF f
<1>3. \A i, j \in A : f[i] = f[j] => i = j
  BY <1>1, <1>2
<1>4. \A k \in B : \E i \in A : f[i] = k
  <2> SUFFICES ASSUME NEW k \in B PROVE \E i \in A : f[i] = k
    OBVIOUS
  <2>1. n + k \in A /\ (n + k) - n = k
    OBVIOUS
  <2> QED
    BY <1>2, <2>1
<1>5. f \in Bijection(A, B)
  BY <1>2, <1>3, <1>4 DEF Bijection, Injection, Surjection, IsInjective
<1>6. ExistsBijection(A, B)
  BY <1>5 DEF ExistsBijection
<1> QED
  BY <1>6, FS_Bijection

(* Bytes taken from the front.                                             *)
LEMMA StartsOfRest ==
  ASSUME NEW r \in Seq(Cell), NEW n \in Nat, 1 <= n, n <= Len(r),
         \A i \in 2..n : ~r[i].start
  PROVE  Cardinality(Starts(Rest(r, n))) =
           IF r[1].start THEN Cardinality(Starts(r)) - 1 ELSE Cardinality(Starts(r))
<1> DEFINE q == Rest(r, n)
           A == Starts(r) \ {1}
           m == Len(r)
<1>1. m \in Nat /\ DOMAIN r = 1..m /\ n <= m
  OBVIOUS
<1>2. q \in Seq(Cell) /\ Len(q) = m - n /\ \A i \in 1..(m - n) : q[i] = r[n + i]
  BY RestOf
<1>3. IsFiniteSet(Starts(r)) /\ Starts(r) \subseteq 1..m /\ 1 \in 1..m
  BY <1>1, StartsFinite
<1>4. /\ IsFiniteSet(A)
      /\ Cardinality(A) = IF 1 \in Starts(r) THEN Cardinality(Starts(r)) - 1 ELSE Cardinality(Starts(r))
  BY <1>3, FS_RemoveElement
<1>5. 1 \in Starts(r) <=> r[1].start
  BY <1>1, <1>3 DEF Starts
<1> HIDE DEF q, m
<1>6. \A i \in A : i > n
  <2> SUFFICES ASSUME NEW i \in A, i <= n PROVE FALSE
    BY <1>1, <1>3
  <2>1. i \in 2..n /\ r[i].start
    BY <1>1, <1>3 DEF Starts
  <2> QED
    BY <2>1
<1>7. \A i \in Nat : i \in Starts(q) <=> n + i \in A
  <2> SUFFICES ASSUME NEW i \in Nat PROVE i \in Starts(q) <=> n + i \in A
    OBVIOUS
  <2>1. DOMAIN q = 1..(m - n)
    BY <1>1, <1>2
  <2>2. i \in 1..(m - n) <=> n + i \in 1..m /\ n + i > n
    BY <1>1
  <2>3. n + i \in A <=> n + i \in 1..m /\ n + i # 1 /\ r[n + i].start
    BY <1>1 DEF Starts
  <2>4. i \in Starts(q) <=> i \in 1..(m - n) /\ q[i].start
    BY <2>1 DEF Starts
  <2>5. i \in 1..(m - n) => q[i] = r[n + i] /\ n + i # 1
    BY <1>2
  <2> QED
    BY <1>6, <2>2, <2>3, <2>4, <2>5
<1>8. Starts(q) \subseteq Nat /\ A \subseteq Nat /\ \A i \in A : i >= n
  <2>1. Starts(q) \subseteq 1..Len(q)
    BY <1>2, StartsFinite
  <2> QED
    BY <1>3, <1>6, <2>1
<1> HIDE DEF A
<1>9. Cardinality(Starts(q)) = Cardinality(A)
  BY <1>4, <1>7, <1>8, Shifted
<1> QED
  BY <1>4, <1>5, <1>9 DEF q

-----------------------------------------------------------------------------
(* The ring and the texts that start in it; the writer, which has kept     *)
(* room for what it has not written yet; the reader.                       *)
RingInv ==
  /\ ring \in Seq(Cell) /\ sent \in Seq(Text)
  /\ Len(sent) = Cardinality(Starts(ring))

WriterInv ==
  /\ wpc \in {"idle", "data", "tail"}
  /\ wdata \in Text \cup {<<>>} /\ (wpc # "idle" => wdata \in Text)
  /\ Len(ring) <= RingSize
  /\ wpc = "data" => Len(ring) + Len(wdata) + TailLen <= RingSize
  /\ wpc = "tail" => Len(ring) + TailLen <= RingSize
  /\ written \in 0..MaxMessages

ReaderInv ==
  /\ rpc \in {"idle", "body", "abandon"}
  /\ rlen \in 0..(MaxExpected - HeadLen)
  /\ rerror \in 0..AbandonMax
  /\ m_using_tail \in BOOLEAN /\ m_check_msg_version \in BOOLEAN
  /\ TailsAreUsed
  /\ got \in Seq(Seq(0..Flag))

(* What write() has still to put into the ring.                            *)
Missing == IF wpc = "data" THEN Bytes(wdata) \o TailOf(wdata)
           ELSE IF wpc = "tail" THEN TailOf(wdata) ELSE <<>>

(* What is in the ring and still to be written is the rest of a message    *)
(* that is too long, and the frames of the texts that are to come.  Inside *)
(* read() of a message, a text is in front and its length known; in        *)
(* abandon_error_data(), there is a byte to be given up.                   *)
View(rest) ==
  /\ rest \in Seq(Cell)
  /\ Stream(ring, Missing, rest, sent)
  /\ Skipped(rest)
  /\ rpc = "body" => /\ rest = <<>> /\ ring # <<>>
                     /\ rlen = Len(Head(sent)) + TailLen /\ LenAccepted(rlen)
  /\ rpc = "abandon" => rest # <<>> /\ ring # <<>>

StreamInv == \E rest : View(rest)

IInv == RingInv /\ WriterInv /\ ReaderInv /\ StreamInv

LEMMA IInvIsEnough == ASSUME IInv PROVE FramesAreSound
BY DEF IInv, RingInv, WriterInv, ReaderInv, FramesAreSound, TypeOK, Starts, Cell

LEMMA InitInv == ASSUME Init PROVE IInv
<1>1. RingInv
  <2>1. Starts(ring) = {} /\ Len(sent) = 0 /\ ring \in Seq(Cell) /\ sent \in Seq(Text)
    BY DEF Init, Starts
  <2> QED
    BY <2>1, FS_EmptySet DEF RingInv
<1>2. WriterInv
  BY LyMsgAssumption DEF Init, WriterInv
<1>3. ReaderInv
  <2>1. 0 \in 0..(MaxExpected - HeadLen) /\ 0 \in 0..AbandonMax
    <3>1. FlagLen \in Nat /\ MaxExpected \in Nat /\ AbandonMax \in Nat /\ MaxExpected > FlagLen
      BY LyMsgAssumption
    <3> QED
      BY <3>1 DEF HeadLen
  <2>2. got \in Seq(Seq(0..Flag))
    BY DEF Init
  <2> QED
    BY <2>1, <2>2 DEF Init, ReaderInv, TailsAreUsed
<1>4. View(<<>>)
  <2>1. Frames(sent) = <<>> /\ ring = <<>> /\ Missing = <<>>
    BY DEF Init, Frames, Missing
  <2>2. <<>> \o <<>> = <<>>
    OBVIOUS
  <2>3. Stream(ring, Missing, <<>>, sent)
    BY <2>1, <2>2, FlattenEmpty DEF Stream
  <2>4. Skipped(<<>>) /\ <<>> \in Seq(Cell)
    BY DEF Skipped
  <2> QED
    BY <2>3, <2>4 DEF View, Init
<1> QED
  BY <1>1, <1>2, <1>3, <1>4 DEF IInv, StreamInv

(* What write() puts into the ring.                                        *)
LEMMA WriterBytes ==
  ASSUME NEW data \in Text
  PROVE  LET h == Start(Header(Len(data) + TailLen))
         IN  /\ h \in Seq(Cell) /\ Len(h) = HeadLen /\ \A i \in 1..HeadLen : h[i].start <=> i = 1
             /\ Bytes(data) \in Seq(Cell) /\ Len(Bytes(data)) = Len(data)
             /\ \A i \in 1..Len(data) : ~Bytes(data)[i].start
             /\ TailOf(data) \in Seq(Cell) /\ Len(TailOf(data)) = 1 /\ ~TailOf(data)[1].start
<1>1. Len(data) + TailLen \in 1..Flag /\ data \in Seq(0..Flag) /\ TailValue(Len(data) + TailLen) \in 0..Flag
  BY TextLength
<1> DEFINE s == <<TailValue(Len(data) + TailLen)>>
           len == Len(data) + TailLen
<1>2. s \in Seq(0..Flag) /\ Len(s) = 1 /\ TailOf(data) = Bytes(s)
  BY <1>1 DEF TailOf
<1> HIDE DEF s
<1>3. 1 \in 1..Len(s)
  BY <1>2
<1>4. TailOf(data) \in Seq(Cell) /\ Len(TailOf(data)) = 1 /\ ~TailOf(data)[1].start
  BY <1>2, <1>3, OtherCells
<1>5. /\ Bytes(data) \in Seq(Cell) /\ Len(Bytes(data)) = Len(data)
      /\ \A i \in 1..Len(data) : ~Bytes(data)[i].start
  BY <1>1, OtherCells
<1> DEFINE h == Start(Header(len))
<1>6. h \in Seq(Cell) /\ Len(h) = HeadLen /\ \A i \in 1..HeadLen : h[i].start <=> i = 1
  <2> HIDE DEF len
  <2>1. len \in 1..Flag
    BY <1>1 DEF len
  <2> QED
    BY <2>1, HeaderCells
<1> QED
  BY <1>4, <1>5, <1>6

(* Nothing is missing that would not be cells.                             *)
LEMMA MissingCells == ASSUME WriterInv PROVE Missing \in Seq(Cell)
<1>1. CASE wpc = "data"
  <2> DEFINE b == Bytes(wdata)
             t == TailOf(wdata)
  <2>1. b \in Seq(Cell) /\ t \in Seq(Cell)
    BY <1>1, WriterBytes DEF WriterInv
  <2>2. Missing = b \o t
    BY <1>1 DEF Missing
  <2> HIDE DEF b, t
  <2> QED
    BY <2>1, <2>2
<1>2. CASE wpc = "tail"
  BY <1>2, WriterBytes DEF WriterInv, Missing
<1>3. CASE wpc = "idle"
  BY <1>3 DEF Missing
<1> QED
  BY <1>1, <1>2, <1>3 DEF WriterInv

(* What a step of the writer does not touch: it only adds to the ring.     *)
LEMMA ReaderKept ==
  ASSUME ReaderInv, UNCHANGED <<rvars, got>>
  PROVE  ReaderInv'
BY DEF ReaderInv, rvars, TailsAreUsed

LEMMA WriteHeaderStep ==
  ASSUME IInv, NEW data \in Text, WriteHeader(data)
  PROVE  IInv' /\ Channel!Send(data)
<1> DEFINE h == Start(Header(Len(data) + TailLen))
           b == Bytes(data)
           t == TailOf(data)
<1>1. /\ h \in Seq(Cell) /\ Len(h) = HeadLen /\ \A i \in 1..HeadLen : h[i].start <=> i = 1
      /\ b \in Seq(Cell) /\ t \in Seq(Cell)
  BY WriterBytes
<1>2. /\ wpc = "idle" /\ written < MaxMessages
      /\ HeadLen + Len(data) + TailLen <= RingSize - Len(ring)
      /\ ring' = ring \o h /\ wpc' = "data" /\ wdata' = data /\ written' = written + 1
      /\ sent' = Append(sent, data) /\ UNCHANGED <<rvars, got>>
  BY DEF WriteHeader
<1>3. RingInv /\ WriterInv /\ ReaderInv
  BY DEF IInv
<1> HIDE DEF h, b, t
<1>4. ring \in Seq(Cell) /\ sent \in Seq(Text) /\ HeadLen \in Nat /\ HeadLen >= 1
  BY <1>3, LyMsgAssumption DEF RingInv, HeadLen
<1>5. ring' \in Seq(Cell) /\ Len(ring') = Len(ring) + HeadLen
  <2>1. Puts(ring \o h, ring, h, Cell)
    BY <1>1, <1>4, Joins
  <2> QED
    BY <1>1, <1>2, <2>1 DEF Puts
<1>6. RingInv'
  <2>1. Len(h) >= 1 /\ \A i \in 1..Len(h) : h[i].start <=> i = 1
    BY <1>1, <1>4
  <2>2. Cardinality(Starts(ring')) = Cardinality(Starts(ring)) + 1
    BY <1>1, <1>2, <1>4, <2>1, StartsWithHeader
  <2>3. sent' \in Seq(Text) /\ Len(sent') = Len(sent) + 1
    BY <1>2, <1>4
  <2> QED
    BY <1>3, <1>5, <2>2, <2>3 DEF RingInv
<1>7. WriterInv'
  <2>1. Len(data) \in Nat /\ Len(ring) \in Nat /\ RingSize \in Nat /\ MaxMessages \in Nat
    BY <1>4, TextLength, LyMsgAssumption
  <2>2. Len(ring') + Len(data) + TailLen <= RingSize /\ Len(ring') <= RingSize
    BY <1>2, <1>4, <1>5, <2>1 DEF TailLen
  <2>3. written' \in 0..MaxMessages
    BY <1>2, <1>3, <2>1 DEF WriterInv
  <2> QED
    BY <1>2, <2>2, <2>3 DEF WriterInv
<1>8. ReaderInv'
  BY <1>2, <1>3, ReaderKept
<1>9. PICK rest : View(rest)
  BY DEF IInv, StreamInv
<1>10. Stream(ring', Missing', rest, sent')
  <2> DEFINE d == FlattenSeq(Frames(sent))
  <2>1. rest \in Seq(Cell) /\ d \in Seq(Cell) /\ ring \o <<>> = rest \o d
    BY <1>2, <1>4, <1>9, FramesType DEF View, Stream, Missing
  <2>2. FlattenSeq(Frames(sent')) = d \o (h \o (b \o t))
    BY <1>2, <1>4, FramesAppend DEF Frame, h, b, t
  <2>3. Missing' = b \o t
    BY <1>2 DEF Missing, b, t
  <2> HIDE DEF d
  <2> DEFINE m == b \o t
             x == h \o m
  <2>4. m \in Seq(Cell) /\ ring \o <<>> = ring
    <3>1. Puts(m, b, t, Cell)
      BY <1>1, Joins
    <3>2. ring \o <<>> = ring
      BY <1>4
    <3> HIDE DEF m
    <3> QED
      BY <3>1, <3>2 DEF Puts
  <2>5. Associates(Cell)
    BY Regroups
  <2> HIDE DEF m
  <2>6. x \in Seq(Cell)
    <3>1. Puts(x, h, m, Cell)
      BY <1>1, <2>4, Joins
    <3> HIDE DEF x
    <3> QED
      BY <3>1 DEF Puts
  <2>7. (ring \o h) \o m = ring \o x
    <3>1. ring \in Seq(Cell) /\ h \in Seq(Cell) /\ m \in Seq(Cell)
      BY <1>1, <1>4, <2>4
    <3> QED
      BY <2>5, <3>1, Zenon DEF Associates
  <2> HIDE DEF x
  <2>8. (rest \o d) \o x = rest \o (d \o x)
    BY <2>1, <2>5, <2>6, Zenon DEF Associates
  <2>9. ring' \o Missing' = rest \o FlattenSeq(Frames(sent'))
    BY <1>2, <2>1, <2>2, <2>3, <2>4, <2>7, <2>8 DEF m, x
  <2> QED
    BY <2>9 DEF Stream
<1>11. View(rest)'
  <2>1. ring # <<>> => ring' # <<>> /\ (sent # <<>> => Head(sent') = Head(sent))
    BY <1>2, <1>4, <1>5
  <2>2. rpc' = rpc /\ rlen' = rlen
    BY <1>2 DEF rvars
  <2>3. rpc = "body" => sent # <<>>
    <3>1. ASSUME rpc = "body" PROVE sent # <<>>
      <4>1. rest = <<>> /\ ring # <<>> /\ Stream(ring, Missing, <<>>, sent)
        BY <1>9, <3>1 DEF View
      <4> QED
        BY <1>3, <1>4, <4>1, MissingCells, FirstFrame
    <3> QED
      BY <3>1
  <2> QED
    BY <1>9, <1>10, <2>1, <2>2, <2>3 DEF View
<1> QED
  BY <1>2, <1>6, <1>7, <1>8, <1>11 DEF IInv, StreamInv, Channel!Send

(* write() goes on: what was missing is now in the ring.                   *)
LEMMA WriterAdds ==
  ASSUME IInv, NEW x \in Seq(Cell), \A i \in 1..Len(x) : ~x[i].start,
         ring' = ring \o x, Missing' \in Seq(Cell), Missing = x \o Missing',
         UNCHANGED <<rvars, sent, got>>
  PROVE  RingInv' /\ ReaderInv' /\ StreamInv' /\ Len(ring') = Len(ring) + Len(x)
<1>1. RingInv /\ ReaderInv /\ ring \in Seq(Cell) /\ sent \in Seq(Text)
  BY DEF IInv, RingInv
<1>2. ring' \in Seq(Cell) /\ Len(ring') = Len(ring) + Len(x)
  <2>1. Puts(ring \o x, ring, x, Cell)
    BY <1>1, Joins
  <2> QED
    BY <2>1 DEF Puts
<1>3. RingInv'
  <2>1. Starts(ring') = Starts(ring)
    BY <1>1, StartsWithOther
  <2> QED
    BY <1>1, <1>2, <2>1 DEF RingInv
<1>4. ReaderInv'
  BY <1>1, ReaderKept
<1>5. PICK rest : View(rest)
  BY DEF IInv, StreamInv
<1>6. Stream(ring', Missing', rest, sent')
  <2> DEFINE m == Missing'
  <2>1. Associates(Cell) /\ m \in Seq(Cell)
    BY Regroups
  <2>2. (ring \o x) \o m = ring \o (x \o m)
    BY <1>1, <2>1, Zenon DEF Associates
  <2>3. Stream(ring, Missing, rest, sent)
    BY <1>5 DEF View
  <2> QED
    BY <2>2, <2>3 DEF Stream
<1>7. View(rest)'
  <2>1. ring # <<>> => ring' # <<>>
    BY <1>1, <1>2
  <2>2. rpc' = rpc /\ rlen' = rlen
    BY DEF rvars
  <2> QED
    BY <1>5, <1>6, <2>1, <2>2 DEF View
<1> QED
  BY <1>2, <1>3, <1>4, <1>7 DEF StreamInv

LEMMA WriteDataStep ==
  ASSUME IInv, WriteData
  PROVE  IInv' /\ UNCHANGED <<sent, got>>
<1> DEFINE x == Bytes(wdata)
           t == TailOf(wdata)
<1>1. /\ wpc = "data" /\ ring' = ring \o x /\ wpc' = "tail" /\ wdata' = wdata /\ written' = written
      /\ UNCHANGED <<rvars, sent, got>>
  BY DEF WriteData
<1>2. wdata \in Text /\ WriterInv /\ ring \in Seq(Cell)
  BY <1>1 DEF IInv, WriterInv, RingInv
<1>3. /\ x \in Seq(Cell) /\ Len(x) = Len(wdata) /\ (\A i \in 1..Len(wdata) : ~x[i].start)
      /\ t \in Seq(Cell)
  BY <1>2, WriterBytes
<1>4. Missing = x \o t /\ Missing' = t
  BY <1>1 DEF Missing
<1> HIDE DEF x, t
<1>5. RingInv' /\ ReaderInv' /\ StreamInv' /\ Len(ring') = Len(ring) + Len(wdata)
  <2>1. Missing' \in Seq(Cell) /\ Missing = x \o Missing' /\ \A i \in 1..Len(x) : ~x[i].start
    BY <1>3, <1>4
  <2> QED
    BY <1>1, <1>3, <2>1, WriterAdds
<1>6. WriterInv'
  <2>1. Len(ring) \in Nat /\ Len(wdata) \in Nat /\ RingSize \in Nat
    BY <1>2, TextLength, LyMsgAssumption
  <2>2. Len(ring') + TailLen <= RingSize /\ Len(ring') <= RingSize
    BY <1>1, <1>2, <1>5, <2>1 DEF WriterInv, TailLen
  <2> QED
    BY <1>1, <1>2, <2>2 DEF WriterInv
<1> QED
  BY <1>1, <1>5, <1>6 DEF IInv

LEMMA WriteTailStep ==
  ASSUME IInv, WriteTail
  PROVE  IInv' /\ UNCHANGED <<sent, got>>
<1> DEFINE t == TailOf(wdata)
<1>1. /\ wpc = "tail" /\ ring' = ring \o t /\ wpc' = "idle" /\ wdata' = <<>> /\ written' = written
      /\ UNCHANGED <<rvars, sent, got>>
  BY DEF WriteTail, TailOf
<1>2. wdata \in Text /\ WriterInv /\ ring \in Seq(Cell)
  BY <1>1 DEF IInv, WriterInv, RingInv
<1>3. t \in Seq(Cell) /\ Len(t) = 1 /\ ~t[1].start
  BY <1>2, WriterBytes
<1>4. Missing = t /\ Missing' = <<>>
  BY <1>1 DEF Missing
<1> HIDE DEF t
<1>5. RingInv' /\ ReaderInv' /\ StreamInv' /\ Len(ring') = Len(ring) + 1
  <2>1. Missing' \in Seq(Cell) /\ Missing = t \o Missing' /\ \A i \in 1..Len(t) : ~t[i].start
    BY <1>3, <1>4
  <2> QED
    BY <1>1, <1>3, <2>1, WriterAdds
<1>6. WriterInv'
  <2>1. Len(ring) \in Nat /\ RingSize \in Nat
    BY <1>2, LyMsgAssumption
  <2>2. Len(ring') <= RingSize
    BY <1>1, <1>2, <1>5, <2>1 DEF WriterInv, TailLen
  <2> QED
    BY <1>1, <1>2, <2>2 DEF WriterInv
<1> QED
  BY <1>1, <1>5, <1>6 DEF IInv

-----------------------------------------------------------------------------
(* A step of the reader that takes no byte changes nothing for the writer. *)
LEMMA NothingTaken ==
  ASSUME IInv, UNCHANGED <<ring, wvars, sent>>
  PROVE  RingInv' /\ WriterInv' /\ Missing' = Missing
<1>1. RingInv'
  BY DEF IInv, RingInv
<1>2. WriterInv' /\ Missing' = Missing
  <2>1. wpc' = wpc /\ wdata' = wdata /\ written' = written /\ ring' = ring
    BY DEF wvars
  <2> QED
    BY <2>1 DEF IInv, WriterInv, Missing
<1> QED
  BY <1>1, <1>2

(* A step of the reader that takes n bytes in which no second message      *)
(* starts.                                                                 *)
LEMMA BytesTaken ==
  ASSUME IInv, NEW n \in Nat, 1 <= n, n <= Len(ring), \A i \in 2..n : ~ring[i].start,
         TakeFront(n), UNCHANGED wvars
  PROVE  /\ RingInv' /\ WriterInv' /\ Missing' = Missing /\ ring' = Rest(ring, n)
         /\ sent' = IF ring[1].start THEN Tail(sent) ELSE sent
<1>1. RingInv /\ WriterInv /\ ring \in Seq(Cell) /\ sent \in Seq(Text) /\ Len(ring) \in Nat
  BY DEF IInv, RingInv
<1>2. ring' = Rest(ring, n) /\ sent' = IF ring[1].start THEN Tail(sent) ELSE sent
  <2>1. Head(ring) = ring[1]
    BY <1>1
  <2> QED
    BY <2>1 DEF TakeFront, Rest
<1>3. ring' \in Seq(Cell) /\ Len(ring') = Len(ring) - n
  BY <1>1, <1>2, RestOf
<1>4. Cardinality(Starts(ring')) = IF ring[1].start THEN Cardinality(Starts(ring)) - 1 ELSE Cardinality(Starts(ring))
  BY <1>1, <1>2, StartsOfRest
<1>5. RingInv'
  <2>1. CASE ring[1].start
    <3>1. 1 \in Starts(ring) /\ IsFiniteSet(Starts(ring)) /\ Cardinality(Starts(ring)) \in Nat
      BY <1>1, <2>1, StartsFinite DEF Starts
    <3>2. Cardinality(Starts(ring)) # 0
      BY <3>1, FS_EmptySet
    <3>3. sent # <<>>
      BY <1>1, <3>2 DEF RingInv
    <3>4. sent' \in Seq(Text) /\ Len(sent') = Len(sent) - 1
      BY <1>1, <1>2, <2>1, <3>3
    <3> QED
      BY <1>1, <1>3, <1>4, <2>1, <3>4 DEF RingInv
  <2>2. CASE ~ring[1].start
    BY <1>1, <1>2, <1>3, <1>4, <2>2 DEF RingInv
  <2> QED
    BY <2>1, <2>2
<1>6. WriterInv' /\ Missing' = Missing
  <2>1. wpc' = wpc /\ wdata' = wdata /\ written' = written
    BY DEF wvars
  <2>2. Len(ring') \in Nat /\ Len(ring') <= Len(ring) /\ RingSize \in Nat
    BY <1>1, <1>3, LyMsgAssumption
  <2>3. Missing' = Missing
    BY <2>1 DEF Missing
  <2>4. Len(ring') <= RingSize
    BY <1>1, <2>2 DEF WriterInv
  <2>5. ASSUME wpc = "tail" PROVE Len(ring') + TailLen <= RingSize
    BY <1>1, <2>2, <2>5 DEF WriterInv, TailLen
  <2>6. ASSUME wpc = "data" PROVE Len(ring') + Len(wdata) + TailLen <= RingSize
    <3>1. wdata \in Text
      BY <1>1, <2>6 DEF WriterInv
    <3>2. Len(wdata) \in Nat
      BY <3>1, TextLength
    <3>3. Len(ring) + Len(wdata) + TailLen <= RingSize
      BY <1>1, <2>6 DEF WriterInv
    <3> QED
      BY <1>1, <2>2, <3>2, <3>3 DEF TailLen
  <2> QED
    BY <1>1, <2>1, <2>3, <2>4, <2>5, <2>6 DEF WriterInv
<1> QED
  BY <1>2, <1>5, <1>6

(* When read() finds a header, nothing has to be skipped, and what it      *)
(* reads as length is the length of the next text with its tail.           *)
LEMMA HeaderOfFirst ==
  ASSUME IInv, HeaderInFront, NEW rest, View(rest)
  PROVE  /\ rest = <<>> /\ ring # <<>> /\ sent # <<>> /\ Head(sent) \in Text
         /\ IntAt(HeadLen) = Len(Head(sent)) + TailLen
<1>1. /\ ring \in Seq(Cell) /\ sent \in Seq(Text) /\ Missing \in Seq(Cell)
      /\ rest \in Seq(Cell) /\ Stream(ring, Missing, rest, sent) /\ Skipped(rest)
  BY MissingCells DEF IInv, RingInv, View
<1>2. FlagInFront(ring) /\ Len(ring) > HeadLen /\ Len(ring) \in Nat /\ FlagLen \in Nat /\ HeadLen = FlagLen + 1
  BY <1>1, LyMsgAssumption DEF HeaderInFront, HeadLen
<1>3. FlagLen <= Len(ring) /\ ring # <<>>
  BY <1>1, <1>2
<1>4. rest = <<>>
  BY <1>1, <1>2, <1>3, FlagTells
<1> DEFINE h == Head(sent)
           f == Frame(h)
<1>5. sent # <<>> /\ h \in Text /\ \A i \in 1..Len(ring) : i <= Len(f) => ring[i] = f[i]
  BY <1>1, <1>3, <1>4, FirstFrame
<1>6. Layout(f, h) /\ Len(h) + TailLen \in 1..Flag /\ Len(h) + TailLen # Flag /\ Len(h) \in Nat
  BY <1>5, FrameLayout, TextLength
<1> HIDE DEF f, h
<1>7. ring[HeadLen] = f[HeadLen]
  <2>1. HeadLen \in 1..Len(ring) /\ HeadLen <= Len(f)
    <3>1. Len(f) = HeadLen + Len(h) + TailLen
      BY <1>6 DEF Layout
    <3>2. HeadLen <= HeadLen + Len(h) + TailLen
      BY <1>2, <1>6 DEF TailLen
    <3> QED
      BY <1>2, <3>1, <3>2
  <2> QED
    BY <1>5, <2>1
<1>8. ring[HeadLen].byte = Len(h) + TailLen
  BY <1>6, <1>7 DEF Layout
<1>9. IntAt(HeadLen) = Len(h) + TailLen
  BY <1>6, <1>8 DEF IntAt
<1> QED
  BY <1>3, <1>4, <1>5, <1>9 DEF h

LEMMA ReadBadLengthStep ==
  ASSUME IInv, LongTextsArePlain, ReadBadLength
  PROVE  IInv' /\ Channel!GiveUp
<1> DEFINE h == Head(sent)
           f == Frame(h)
<1>1. HeaderInFront /\ ~LenAccepted(IntAt(HeadLen)) /\ TakeFront(1) /\ UNCHANGED <<wvars, rvars, got>>
  BY DEF ReadBadLength
<1>2. PICK rest : View(rest)
  BY DEF IInv, StreamInv
<1>3. rest = <<>> /\ ring # <<>> /\ sent # <<>> /\ h \in Text /\ IntAt(HeadLen) = Len(h) + TailLen
  BY <1>1, <1>2, HeaderOfFirst
<1>4. RingInv /\ WriterInv /\ ReaderInv /\ ring \in Seq(Cell) /\ sent \in Seq(Text) /\ Missing \in Seq(Cell)
  BY MissingCells DEF IInv, RingInv
<1>5. Stream(ring, Missing, <<>>, sent)
  BY <1>2, <1>3 DEF View
<1>6. /\ \A i \in 1..Len(ring) : i <= Len(f) => ring[i] = f[i]
      /\ \A n \in Nat : n <= Len(ring) /\ n <= Len(f) =>
           Stream(Rest(ring, n), Missing, Rest(f, n), Tail(sent))
  BY <1>3, <1>4, <1>5, FirstFrame
<1>7. Len(h) > Longest
  <2>1. Len(h) \in Nat /\ Len(h) >= 1 /\ MaxExpected \in Nat /\ HeadLen \in Nat
    BY <1>3, TextLength, LyMsgAssumption DEF HeadLen
  <2> HIDE DEF h
  <2> QED
    BY <1>1, <1>3, <2>1 DEF LenAccepted, Longest, TailLen
<1>8. Rest(f, 1) \in Seq(Cell) /\ Skipped(Rest(f, 1))
  BY <1>3, <1>7, SkipFrame
<1>9. 1 \in 1..Len(ring) /\ 1 <= Len(ring) /\ 1 \in Nat /\ 1 <= Len(f) /\ f[1].start
  <2>1. Layout(f, h) /\ Len(h) \in Nat /\ HeadLen \in Nat
    BY <1>3, FrameLayout, TextLength, LyMsgAssumption DEF HeadLen
  <2> HIDE DEF f, h
  <2>2. Len(f) = HeadLen + Len(h) + TailLen /\ \A i \in 1..Len(f) : f[i].start <=> i = 1
    BY <2>1 DEF Layout
  <2>3. HeadLen + Len(h) + TailLen \in Nat /\ HeadLen + Len(h) + TailLen >= 1
    BY <2>1 DEF TailLen
  <2>4. 1 \in 1..Len(f) /\ 1 <= Len(f)
    BY <2>2, <2>3
  <2>5. f[1].start
    BY <2>2, <2>4
  <2>6. 1 \in 1..Len(ring) /\ 1 <= Len(ring)
    BY <1>3, <1>4
  <2> QED
    BY <2>4, <2>5, <2>6
<1> HIDE DEF f
<1>10. ring[1].start /\ Stream(Rest(ring, 1), Missing, Rest(f, 1), Tail(sent))
  BY <1>6, <1>9
<1>11. RingInv' /\ WriterInv' /\ Missing' = Missing /\ ring' = Rest(ring, 1) /\ sent' = Tail(sent)
  <2>1. \A i \in 2..1 : ~ring[i].start
    OBVIOUS
  <2> QED
    BY <1>1, <1>9, <1>10, <2>1, BytesTaken
<1>12. ReaderInv' /\ rpc' = "idle"
  BY <1>1, <1>4, ReaderKept DEF HeaderInFront, rvars
<1>13. StreamInv'
  <2>1. PICK c : c = Rest(f, 1)
    OBVIOUS
  <2>2. c \in Seq(Cell) /\ Skipped(c) /\ Stream(ring', Missing', c, sent')
    BY <1>8, <1>10, <1>11, <2>1
  <2>3. View(c)'
    BY <1>12, <2>2 DEF View
  <2> QED
    BY <2>3 DEF StreamInv
<1>14. Channel!GiveUp
  BY <1>1, <1>3, <1>7, <1>11 DEF Channel!GiveUp, Longest, h
<1> QED
  BY <1>11, <1>12, <1>13, <1>14 DEF IInv

LEMMA ReadHeaderStep ==
  ASSUME IInv, ReadHeader
  PROVE  IInv' /\ UNCHANGED <<sent, got>>
<1>1. /\ HeaderInFront /\ LenAccepted(IntAt(HeadLen)) /\ rlen' = IntAt(HeadLen) /\ rpc' = "body"
      /\ UNCHANGED <<ring, wvars, rerror, m_using_tail, m_check_msg_version, sent, got>>
  BY DEF ReadHeader
<1>2. PICK rest : View(rest)
  BY DEF IInv, StreamInv
<1>3. rest = <<>> /\ ring # <<>> /\ sent # <<>> /\ Head(sent) \in Text /\ IntAt(HeadLen) = Len(Head(sent)) + TailLen
  BY <1>1, <1>2, HeaderOfFirst
<1>4. RingInv' /\ WriterInv' /\ Missing' = Missing
  BY <1>1, NothingTaken
<1>5. ReaderInv'
  <2> DEFINE n == Len(Head(sent))
  <2>1. n \in Nat /\ MaxExpected \in Nat /\ HeadLen \in Nat
    BY <1>3, TextLength, LyMsgAssumption DEF HeadLen
  <2> HIDE DEF n
  <2>2. n + TailLen \in 0..(MaxExpected - HeadLen)
    BY <1>1, <1>3, <2>1 DEF LenAccepted, TailLen, n
  <2>3. rlen' \in 0..(MaxExpected - HeadLen)
    BY <1>1, <1>3, <2>2 DEF n
  <2> QED
    BY <1>1, <2>3 DEF IInv, ReaderInv, TailsAreUsed
<1>6. View(rest)'
  BY <1>1, <1>2, <1>3, <1>4 DEF View
<1> QED
  BY <1>1, <1>4, <1>5, <1>6 DEF IInv, StreamInv

LEMMA ReadNoHeaderStep ==
  ASSUME IInv, ReadNoHeader
  PROVE  IInv' /\ UNCHANGED <<sent, got>>
<1>1. /\ rpc = "idle" /\ Len(ring) > HeadLen /\ ~FlagInFront(ring) /\ rpc' = "abandon" /\ rerror' = 0
      /\ UNCHANGED <<ring, wvars, rlen, m_using_tail, m_check_msg_version, sent, got>>
  BY DEF ReadNoHeader
<1>2. PICK rest : View(rest)
  BY DEF IInv, StreamInv
<1>3. RingInv' /\ WriterInv' /\ Missing' = Missing
  BY <1>1, NothingTaken
<1>4. ReaderInv'
  <2>1. 0 \in 0..AbandonMax
    BY LyMsgAssumption
  <2> QED
    BY <1>1, <2>1 DEF IInv, ReaderInv, TailsAreUsed
<1>5. rest # <<>> /\ ring # <<>>
  <2>1. ring \in Seq(Cell) /\ sent \in Seq(Text) /\ Missing \in Seq(Cell)
    BY MissingCells DEF IInv, RingInv
  <2>2. FlagLen <= Len(ring) /\ ring # <<>>
    BY <1>1, <2>1, LyMsgAssumption DEF HeadLen
  <2> QED
    BY <1>1, <1>2, <2>1, <2>2, FlagTells DEF View
<1>6. View(rest)'
  BY <1>1, <1>2, <1>3, <1>5 DEF View
<1> QED
  BY <1>1, <1>3, <1>4, <1>6 DEF IInv, StreamInv

LEMMA ReadNotYetStep ==
  ASSUME IInv, ReadNotYet
  PROVE  IInv' /\ UNCHANGED <<sent, got>>
<1>1. /\ rpc' = "idle" /\ rlen' = 0
      /\ UNCHANGED <<ring, wvars, rerror, m_using_tail, m_check_msg_version, sent, got>>
  BY DEF ReadNotYet
<1>2. PICK rest : View(rest)
  BY DEF IInv, StreamInv
<1>3. RingInv' /\ WriterInv' /\ Missing' = Missing
  BY <1>1, NothingTaken
<1>4. ReaderInv'
  <2>1. 0 \in 0..(MaxExpected - HeadLen)
    BY LyMsgAssumption DEF HeadLen
  <2> QED
    BY <1>1, <2>1 DEF IInv, ReaderInv, TailsAreUsed
<1>5. View(rest)'
  BY <1>1, <1>2, <1>3 DEF View
<1> QED
  BY <1>1, <1>3, <1>4, <1>5 DEF IInv, StreamInv

LEMMA AbandonEnoughStep ==
  ASSUME IInv, AbandonEnough
  PROVE  IInv' /\ UNCHANGED <<sent, got>>
<1>1. /\ rpc' = "idle"
      /\ UNCHANGED <<ring, wvars, rlen, rerror, m_using_tail, m_check_msg_version, sent, got>>
  BY DEF AbandonEnough
<1>2. PICK rest : View(rest)
  BY DEF IInv, StreamInv
<1>3. RingInv' /\ WriterInv' /\ Missing' = Missing
  BY <1>1, NothingTaken
<1>4. ReaderInv'
  BY <1>1 DEF IInv, ReaderInv, TailsAreUsed
<1>5. View(rest)'
  BY <1>1, <1>2, <1>3 DEF View
<1> QED
  BY <1>1, <1>3, <1>4, <1>5 DEF IInv, StreamInv

LEMMA AbandonByteStep ==
  ASSUME IInv, AbandonByte
  PROVE  IInv' /\ UNCHANGED <<sent, got>>
<1>1. /\ rpc = "abandon" /\ rerror < AbandonMax /\ TakeFront(1) /\ rerror' = rerror + 1
      /\ rpc' = IF Len(ring') >= FlagLen /\ ~FlagInFront(ring') THEN "abandon" ELSE "idle"
      /\ UNCHANGED <<wvars, rlen, m_using_tail, m_check_msg_version, got>>
  BY DEF AbandonByte
<1>2. PICK rest : View(rest)
  BY DEF IInv, StreamInv
<1>3. RingInv /\ WriterInv /\ ReaderInv /\ ring \in Seq(Cell) /\ sent \in Seq(Text) /\ Missing \in Seq(Cell)
  BY MissingCells DEF IInv, RingInv
<1> DEFINE c == Rest(rest, 1)
<1>4. /\ ring # <<>> /\ rest # <<>> /\ rest \in Seq(Cell)
      /\ Stream(ring, Missing, rest, sent) /\ Skipped(rest)
  BY <1>1, <1>2 DEF View
<1>5. ~ring[1].start /\ c \in Seq(Cell) /\ Skipped(c) /\ Stream(Rest(ring, 1), Missing, c, sent)
  BY <1>3, <1>4, SkipOne
<1> HIDE DEF c
<1>6. RingInv' /\ WriterInv' /\ Missing' = Missing /\ ring' = Rest(ring, 1) /\ sent' = sent
  <2>1. 1 \in Nat /\ 1 <= Len(ring) /\ \A i \in 2..1 : ~ring[i].start
    BY <1>3, <1>4
  <2> QED
    BY <1>1, <1>5, <2>1, BytesTaken
<1>7. ReaderInv'
  <2>1. rerror' \in 0..AbandonMax /\ rpc' \in {"idle", "abandon"}
    <3>1. rerror \in 0..AbandonMax /\ AbandonMax \in Nat
      BY <1>3, LyMsgAssumption DEF ReaderInv
    <3> QED
      BY <1>1, <3>1
  <2> QED
    BY <1>1, <1>3, <2>1 DEF ReaderInv, TailsAreUsed
<1>8. ASSUME rpc' = "abandon" PROVE c # <<>> /\ ring' # <<>>
  <2>1. Len(ring') >= FlagLen /\ ~FlagInFront(ring')
    BY <1>1, <1>8
  <2>2. ring' \in Seq(Cell) /\ Stream(ring', Missing, c, sent)
    BY <1>5, <1>6 DEF RingInv
  <2>3. ring' # <<>>
    BY <2>1, <2>2, LyMsgAssumption
  <2> DEFINE r == ring'
  <2>4. r \in Seq(Cell) /\ FlagLen <= Len(r) /\ ~FlagInFront(r) /\ Stream(r, Missing, c, sent)
    <3>1. Len(ring') \in Nat /\ FlagLen \in Nat
      BY <2>2, LyMsgAssumption
    <3> QED
      BY <2>1, <2>2, <3>1
  <2> HIDE DEF r
  <2>5. c # <<>>
    BY <1>3, <1>5, <2>4, FlagTells
  <2> QED
    BY <2>3, <2>5
<1>9. View(c)'
  <2>1. rpc' # "body"
    BY <1>1
  <2>2. Stream(ring', Missing', c, sent')
    BY <1>5, <1>6
  <2> QED
    BY <1>5, <1>8, <2>1, <2>2 DEF View
<1> QED
  BY <1>1, <1>6, <1>7, <1>9 DEF IInv, StreamInv

(* The tail is where it is expected: read() never finds a wrong one, and   *)
(* the text is taken, whole.                                               *)
LEMMA ReadMessageStep ==
  ASSUME IInv, ReadMessage \/ ReadWrongTail
  PROVE  IInv' /\ Channel!Receive
<1> DEFINE h == Head(sent)
           f == Frame(h)
           n == HeadLen + rlen
<1>1. rpc = "body" /\ Len(ring) >= n
  BY DEF ReadMessage, ReadWrongTail
<1>2. PICK rest : View(rest)
  BY DEF IInv, StreamInv
<1>3. /\ rest = <<>> /\ ring # <<>> /\ rlen = Len(h) + TailLen /\ LenAccepted(rlen)
      /\ Stream(ring, Missing, <<>>, sent)
  BY <1>1, <1>2 DEF View
<1>4. RingInv /\ WriterInv /\ ReaderInv /\ ring \in Seq(Cell) /\ sent \in Seq(Text) /\ Missing \in Seq(Cell)
  BY MissingCells DEF IInv, RingInv
<1>5. /\ sent # <<>> /\ h \in Text /\ Tail(sent) \in Seq(Text)
      /\ \A i \in 1..Len(ring) : i <= Len(f) => ring[i] = f[i]
      /\ \A k \in Nat : k <= Len(ring) /\ k <= Len(f) =>
           Stream(Rest(ring, k), Missing, Rest(f, k), Tail(sent))
  BY <1>3, <1>4, FirstFrame
<1>6. /\ Layout(f, h) /\ h \in Seq(0..Flag) /\ Len(h) \in Nat /\ Len(h) >= 1
      /\ HeadLen \in Nat /\ HeadLen >= 2 /\ Len(ring) \in Nat
  <2>1. Layout(f, h)
    BY <1>5, FrameLayout
  <2>2. h \in Seq(0..Flag) /\ Len(h) \in Nat /\ Len(h) >= 1
    BY <1>5, TextLength
  <2>3. HeadLen \in Nat /\ HeadLen >= 2 /\ Len(ring) \in Nat
    BY <1>4, LyMsgAssumption DEF HeadLen
  <2> QED
    BY <2>1, <2>2, <2>3
<1> DEFINE m == Len(h)
<1>7. /\ m \in Nat /\ m >= 1 /\ rlen = m + 1 /\ n = HeadLen + m + 1 /\ Len(f) = n /\ n \in Nat /\ n >= 1
      /\ n <= Len(ring)
  <2>1. m \in Nat /\ m >= 1 /\ rlen = m + 1 /\ Len(f) = HeadLen + m + 1
    BY <1>3, <1>6 DEF Layout, TailLen
  <2> HIDE DEF m, f
  <2> QED
    BY <1>1, <1>6, <2>1
<1> HIDE DEF h, f, n, m
<1>8. /\ f \in Seq(Cell)
      /\ \A i \in 1..m : f[HeadLen + i].byte = h[i]
      /\ f[n].byte = TailValue(rlen)
      /\ \A i \in 1..n : f[i].start <=> i = 1
  <2>1. HeadLen + Len(h) + TailLen = n /\ Len(h) + TailLen = rlen /\ Len(h) = m
    BY <1>7 DEF TailLen, m
  <2> QED
    BY <1>6, <1>7, <2>1 DEF Layout
<1>9. \A i \in 1..n : ring[i] = f[i]
  BY <1>5, <1>6, <1>7
<1>10. TailMatches /\ UsingTail
  <2>1. n \in 1..n
    BY <1>7
  <2>2. ring[n].byte = TailValue(rlen)
    BY <1>8, <1>9, <2>1
  <2>3. TailMatches
    BY <2>2 DEF TailMatches, n
  <2> QED
    BY <1>4, <2>3 DEF UsingTail, ReaderInv, TailsAreUsed
<1>11. /\ m_using_tail' = UsingTail /\ m_check_msg_version' = FALSE
       /\ got' = Append(got, [i \in 1..(rlen - TailLen) |-> ring[HeadLen + i].byte])
       /\ TakeFront(n) /\ rpc' = "idle" /\ rlen' = 0 /\ UNCHANGED <<wvars, rerror>>
  BY <1>10 DEF ReadMessage, ReadWrongTail, n
<1>12. [i \in 1..(rlen - TailLen) |-> ring[HeadLen + i].byte] = h
  <2>1. rlen - TailLen = m
    BY <1>7 DEF TailLen
  <2>2. \A i \in 1..m : HeadLen + i \in 1..n
    BY <1>6, <1>7
  <2>3. \A i \in 1..m : ring[HeadLen + i].byte = h[i]
    BY <1>8, <1>9, <2>2
  <2>4. h = [i \in 1..m |-> h[i]]
    BY <1>6 DEF m
  <2> QED
    BY <2>1, <2>3, <2>4
<1>13. ring[1].start /\ \A i \in 2..n : ~ring[i].start
  <2>1. 1 \in 1..n /\ \A i \in 2..n : i \in 1..n /\ i # 1
    BY <1>7
  <2> QED
    BY <1>8, <1>9, <2>1
<1>14. RingInv' /\ WriterInv' /\ Missing' = Missing /\ ring' = Rest(ring, n) /\ sent' = Tail(sent)
  <2>1. TakeFront(n) /\ UNCHANGED wvars
    BY <1>11
  <2>2. n \in Nat /\ 1 <= n /\ n <= Len(ring) /\ \A i \in 2..n : ~ring[i].start
    BY <1>7, <1>13
  <2> QED
    BY <1>13, <2>1, <2>2, BytesTaken
<1>15. got' = Append(got, h)
  BY <1>11, <1>12
<1>16. ReaderInv'
  <2>1. got' \in Seq(Seq(0..Flag))
    <3> DEFINE T == Seq(0..Flag)
    <3>1. got \in Seq(T) /\ h \in T
      BY <1>4, <1>6 DEF ReaderInv
    <3> HIDE DEF T
    <3>2. got' \in Seq(T)
      BY <1>15, <3>1
    <3> QED
      BY <3>2 DEF T
  <2>2. 0 \in 0..(MaxExpected - HeadLen)
    BY LyMsgAssumption DEF HeadLen
  <2>3. m_using_tail' = TRUE
    BY <1>10, <1>11 DEF UsingTail, TailMatches
  <2> QED
    BY <1>4, <1>11, <2>1, <2>2, <2>3 DEF ReaderInv, TailsAreUsed
<1>17. View(<<>>)'
  <2>1. Rest(f, n) = <<>>
    BY <1>7, <1>8, RestOf
  <2>2. Stream(ring', Missing', <<>>, sent')
    BY <1>5, <1>7, <1>14, <2>1
  <2>3. Skipped(<<>>) /\ <<>> \in Seq(Cell)
    BY DEF Skipped
  <2> QED
    BY <1>11, <2>2, <2>3 DEF View
<1>18. Channel!Receive
  <2>1. m <= Longest
    <3>1. MaxExpected \in Nat
      BY LyMsgAssumption
    <3> QED
      BY <1>3, <1>6, <1>7, <3>1 DEF LenAccepted, Longest, TailLen
  <2> QED
    BY <1>5, <1>14, <1>15, <2>1 DEF Channel!Receive, Longest, h, m
<1> QED
  BY <1>14, <1>16, <1>17, <1>18 DEF IInv, StreamInv

-----------------------------------------------------------------------------
LEMMA NextStep ==
  ASSUME IInv, LongTextsArePlain, [Next]_vars
  PROVE  IInv' /\ [Channel!Next]_(Channel!vars)
<1>1. ASSUME NEW data \in (IF written = 0 THEN FirstText ELSE Text), WriteHeader(data)
      PROVE  IInv' /\ Channel!Next
  <2>1. data \in Text
    BY <1>1, LyMsgAssumption
  <2> QED
    BY <1>1, <2>1, WriteHeaderStep DEF Channel!Next
<1>2. CASE WriteData
  BY <1>2, WriteDataStep DEF Channel!vars
<1>3. CASE WriteTail
  BY <1>3, WriteTailStep DEF Channel!vars
<1>4. CASE ReadBadLength
  BY <1>4, ReadBadLengthStep DEF Channel!Next
<1>5. CASE ReadHeader
  BY <1>5, ReadHeaderStep DEF Channel!vars
<1>6. CASE ReadNoHeader
  BY <1>6, ReadNoHeaderStep DEF Channel!vars
<1>7. CASE ReadNotYet
  BY <1>7, ReadNotYetStep DEF Channel!vars
<1>8. CASE ReadMessage \/ ReadWrongTail
  BY <1>8, ReadMessageStep DEF Channel!Next
<1>9. CASE AbandonByte
  BY <1>9, AbandonByteStep DEF Channel!vars
<1>10. CASE AbandonEnough
  BY <1>10, AbandonEnoughStep DEF Channel!vars
<1>11. CASE UNCHANGED vars
  <2>1. UNCHANGED <<ring, wvars, rvars, sent, got>>
    BY <1>11 DEF vars
  <2>2. RingInv' /\ WriterInv' /\ Missing' = Missing
    BY <2>1, NothingTaken
  <2>3. ReaderInv'
    BY <2>1, ReaderKept DEF IInv
  <2>4. PICK rest : View(rest)
    BY DEF IInv, StreamInv
  <2>5. View(rest)'
    BY <2>1, <2>2, <2>4 DEF View, rvars
  <2> QED
    BY <2>1, <2>2, <2>3, <2>5 DEF IInv, StreamInv, Channel!vars
<1> QED
  BY <1>1, <1>2, <1>3, <1>4, <1>5, <1>6, <1>7, <1>8, <1>9, <1>10, <1>11 DEF Next, Writer, Reader

THEOREM Invariance == LongTextsArePlain => (Spec => []IInv)
<1> SUFFICES ASSUME LongTextsArePlain PROVE Spec => []IInv
  OBVIOUS
<1>1. Init => IInv
  BY InitInv
<1>2. IInv /\ [Next]_vars => IInv'
  BY NextStep
<1> QED
  BY <1>1, <1>2, PTL DEF Spec

(* For every size of ring, message and flag: the ring never holds more     *)
(* than fits, a message that has been begun can be written to its end, and *)
(* the reader never takes a tail for text - although it decides once and   *)
(* for all, by the first message, whether messages have tails.             *)
THEOREM FramesStaySound == LongTextsArePlain => (Spec => []FramesAreSound)
<1> SUFFICES ASSUME LongTextsArePlain PROVE Spec => []FramesAreSound
  OBVIOUS
<1>1. IInv => FramesAreSound
  BY IInvIsEnough
<1>2. Spec => []IInv
  BY Invariance
<1> QED
  BY <1>1, <1>2, PTL

(* read() gives the texts of write(), whole and in order; only those that  *)
(* are too long for it are missing.                                        *)
THEOREM FramingIsAChannel == LongTextsArePlain => (Spec => ChannelSpec)
<1> SUFFICES ASSUME LongTextsArePlain PROVE Spec => ChannelSpec
  OBVIOUS
<1>1. Init => Channel!Init
  BY DEF Init, Channel!Init
<1>2. IInv /\ [Next]_vars => [Channel!Next]_(Channel!vars)
  BY NextStep
<1>3. Spec => []IInv
  BY Invariance
<1> QED
  BY <1>1, <1>2, <1>3, PTL DEF Spec, ChannelSpec, Channel!Spec
=============================================================================
