----------------------------- MODULE ULogProofs -----------------------------
(***************************************************************************)
(* Proofs about ULog, for every set of threads, every length of their      *)
(* lines and every size of the rings.                                      *)
(***************************************************************************)
EXTENDS ULog, SequenceInduction

(* The types, the buffer the background thread is at is one of the map,    *)
(* its hand is empty except between read and save, and what is left of a   *)
(* message given up holds no line.                                         *)
StateInv ==
  /\ TypeOK
  /\ bpc \in {"read", "save"} => bat \in registered
  /\ bpc # "save" => hand = <<>>
  /\ ExitIsClean
  /\ \A t \in Thread : \A i \in DOMAIN ring[t] : ~ring[t][i].ok => ring[t][i].lines = <<>>

(* As long as no flush() of a thread failed, every message of it is short  *)
(* enough to be read back, and nothing of it waits in m_current_log.       *)
ShortLines == \A len \in UNION Range(LineLen) : HeadLen + len + TailLen <= MaxExpected

CauseOf(t) ==
  ~refused[t] =>
    /\ current[t] = Empty
    /\ \A i \in DOMAIN ring[t] : ring[t][i].ok => ~Overlong(ring[t][i])
    /\ lost[t] # {} => missed \/ mpc = "gone"

CauseInv == ShortLines => \A t \in Thread : CauseOf(t)

(* After a message that is not marked as one of a large backlog the screen *)
(* does not end with a notice.                                             *)
MarkInv ==
  \A t \in Thread : ~large_log_mark[t] /\ screen[t] # <<>> => screen[t][Len(screen[t])] = "text"

(* The way of the lines of a thread to the file.                           *)
RingLines(t) == [i \in DOMAIN ring[t] |-> ring[t][i].lines]

Way(t) == [saved |-> saved[t], hand |-> InHand(t), ring |-> RingLines(t),
           current |-> current[t].lines, lost |-> lost[t], logged |-> logged[t]]

WayType == [saved : Seq(Nat), hand : Seq(Nat), ring : Seq(Seq(Nat)),
            current : Seq(Nat), lost : SUBSET Nat, logged : Nat]

(* What one step can do to it.                                             *)
Collected(p, q) ==
  /\ q.logged = p.logged + 1 /\ q.current = Append(p.current, p.logged + 1)
  /\ q.saved = p.saved /\ q.hand = p.hand /\ q.ring = p.ring /\ q.lost = p.lost

Flushed(p, q) ==
  /\ q.logged = p.logged + 1
  /\ q.ring = Append(p.ring, Append(p.current, p.logged + 1)) /\ q.current = <<>>
  /\ q.saved = p.saved /\ q.hand = p.hand /\ q.lost = p.lost

Taken(p, q) ==
  /\ p.hand = <<>> /\ p.ring # <<>>
  /\ q.hand = Head(p.ring) /\ q.ring = Tail(p.ring)
  /\ q.saved = p.saved /\ q.current = p.current /\ q.lost = p.lost /\ q.logged = p.logged

GivenUp(p, q) ==
  /\ p.hand = <<>> /\ p.ring # <<>>
  /\ q.ring = [p.ring EXCEPT ![1] = <<>>] /\ q.lost = p.lost \cup ToSet(Head(p.ring))
  /\ q.saved = p.saved /\ q.hand = p.hand /\ q.current = p.current /\ q.logged = p.logged

Abandoned(p, q) ==
  /\ p.ring # <<>> /\ Head(p.ring) = <<>>
  /\ q.ring = Tail(p.ring)
  /\ q.saved = p.saved /\ q.hand = p.hand /\ q.current = p.current /\ q.lost = p.lost /\ q.logged = p.logged

Saved(p, q) ==
  /\ q.saved = p.saved \o p.hand /\ q.hand = <<>>
  /\ q.ring = p.ring /\ q.current = p.current /\ q.lost = p.lost /\ q.logged = p.logged

Missed(p, q) ==
  /\ q.lost = p.lost \cup ToSet(p.hand) /\ q.hand = <<>>
  /\ q.saved = p.saved /\ q.ring = p.ring /\ q.current = p.current /\ q.logged = p.logged

Ended(p, q) ==
  /\ q.hand = <<>> /\ q.ring = <<>> /\ q.current = <<>>
  /\ q.lost = (1..p.logged) \ ToSet(p.saved)
  /\ q.saved = p.saved /\ q.logged = p.logged

Produced(p, q) == Collected(p, q) \/ Flushed(p, q)
Handled(p, q) == Taken(p, q) \/ GivenUp(p, q) \/ Abandoned(p, q) \/ Saved(p, q) \/ Missed(p, q)
Moved(p, q) == q = p \/ Produced(p, q) \/ Handled(p, q) \/ Ended(p, q)

(* Older lines are ahead of younger ones, and none is younger than the     *)
(* last that was logged.                                                   *)
Ascending(s) == \A a, b \in DOMAIN s : a < b => s[a] < s[b]
Before(s, later) == \A a \in DOMAIN s, b \in DOMAIN later : s[a] < later[b]
UpTo(s, n) == \A a \in DOMAIN s : 1 <= s[a] /\ s[a] <= n

Ordered(p) ==
  /\ Ascending(p.saved) /\ Ascending(p.hand) /\ Ascending(p.current)
  /\ UpTo(p.saved, p.logged) /\ UpTo(p.hand, p.logged) /\ UpTo(p.current, p.logged)
  /\ Before(p.saved, p.hand) /\ Before(p.saved, p.current) /\ Before(p.hand, p.current)
  /\ \A i \in DOMAIN p.ring :
       /\ Ascending(p.ring[i]) /\ UpTo(p.ring[i], p.logged)
       /\ Before(p.saved, p.ring[i]) /\ Before(p.hand, p.ring[i]) /\ Before(p.ring[i], p.current)
  /\ \A i, j \in DOMAIN p.ring : i < j => Before(p.ring[i], p.ring[j])

(* Each line logged is somewhere or lost, and not both.                    *)
InRing(r) == UNION {ToSet(r[i]) : i \in DOMAIN r}
Kept(p) == ToSet(p.saved) \cup ToSet(p.hand) \cup InRing(p.ring) \cup ToSet(p.current)

Accounted(p) == Kept(p) \cup p.lost = 1..p.logged /\ Kept(p) \cap p.lost = {}

WayInv == \A t \in Thread : Ordered(Way(t)) /\ Accounted(Way(t))

IInv == StateInv /\ CauseInv /\ NoticesAreApart /\ MarkInv /\ WayInv

-----------------------------------------------------------------------------
(* UsedLen by prefixes: the bytes of the first n frames.                   *)
Sizes(u, frames) ==
  /\ u[0] = 0
  /\ \A i \in 1..Len(frames) : /\ u[i] \in Nat /\ frames[i].bytes \in Nat
                              /\ u[i] = u[i - 1] + frames[i].bytes

(* UsedLen is the last of the sums Sizes describes.                        *)
LEMMA UsedByPrefixes ==
  ASSUME NEW frames \in Seq(FrameType)
  PROVE  \E u : Sizes(u, frames) /\ UsedLen(frames) = u[Len(frames)]
<1> DEFINE N == Len(frames)
           G == [p \in Nat \X (1..N) |-> p[1] + frames[p[2]].bytes]
<1>1. N \in Nat /\ \A i \in 1..N : frames[i].bytes \in Nat
  <2>1. \A i \in 1..N : frames[i] \in FrameType
    OBVIOUS
  <2> QED
    BY <2>1 DEF FrameType
<1> HIDE DEF N
<1>2. StepOf(G, Nat, N) /\ \A x \in Nat, i \in 1..N : G[<<x, i>>] = x + frames[i].bytes
  BY <1>1 DEF StepOf
<1> HIDE DEF G
<1>3. PICK u \in [0..N -> Nat] : Results(u, 0, G, N)
  BY <1>1, <1>2, Recursion
<1>4. u[0] = 0 /\ \A i \in 1..N : u[i] = G[<<u[i - 1], i>>]
  BY <1>3 DEF Results
<1>5. ASSUME NEW i \in 1..N PROVE u[i - 1] \in Nat /\ u[i] \in Nat /\ u[i] = u[i - 1] + frames[i].bytes
  <2>1. i - 1 \in 0..N
    BY <1>1
  <2>2. u[i - 1] \in Nat
    BY <2>1
  <2>3. u[i] = u[i - 1] + frames[i].bytes
    BY <1>2, <1>4, <2>2
  <2> QED
    BY <1>1, <2>2, <2>3
<1> DEFINE Eq(f) == f = [i \in 0..N |-> IF i = 0 THEN 0 ELSE f[i - 1] + frames[i].bytes]
           f == CHOOSE g : Eq(g)
<1>6. Eq(u)
  <2>1. \A i \in 0..N : i = 0 \/ i \in 1..N
    BY <1>1
  <2>2. \A i \in 0..N : u[i] = IF i = 0 THEN 0 ELSE u[i - 1] + frames[i].bytes
    BY <1>4, <1>5, <2>1
  <2> QED
    BY <2>2
<1>7. Eq(f)
  BY <1>6
<1>8. UsedLen(frames) = f[N]
  BY DEF UsedLen, N
<1> HIDE DEF f
<1> DEFINE S == {i \in Nat : i <= N => f[i] = u[i]}
<1>9. 0 \in S
  BY <1>1, <1>4, <1>7
<1>10. ASSUME NEW i \in Nat, i + 1 <= N, f[i] = u[i] PROVE f[i + 1] = u[i + 1]
  <2>1. i + 1 \in 1..N /\ i + 1 \in 0..N /\ i + 1 # 0 /\ (i + 1) - 1 = i
    BY <1>1, <1>10
  <2>2. f[i + 1] = f[i] + frames[i + 1].bytes
    BY <1>7, <2>1
  <2>3. u[i + 1] = u[i] + frames[i + 1].bytes
    BY <1>5, <2>1
  <2> QED
    BY <1>10, <2>2, <2>3
<1>11. \A i \in Nat : i \in S => i + 1 \in S
  BY <1>1, <1>10
<1> HIDE DEF S
<1>12. N \in S
  BY <1>1, <1>9, <1>11, Induction
<1>13. f[N] = u[N]
  BY <1>1, <1>12 DEF S
<1> QED
  BY <1>1, <1>4, <1>5, <1>8, <1>13 DEF Sizes, N

(* Frames of the same sizes add the same.                                  *)
SameBytes(n, frames, j, rest, k) == \A i \in 1..n : frames[j + i].bytes = rest[k + i].bytes

(* Sums over sequences that agree so far agree.                            *)
LEMMA SameSizes ==
  ASSUME NEW frames, NEW rest, NEW u, NEW v, Sizes(u, frames), Sizes(v, rest),
         Len(frames) \in Nat, Len(rest) \in Nat, NEW j \in Nat, NEW k \in Nat, NEW n \in Nat,
         j + n <= Len(frames), k + n <= Len(rest),
         SameBytes(n, frames, j, rest, k)
  PROVE  /\ u[j + n] - u[j] = v[k + n] - v[k]
         /\ u[j + n] \in Nat /\ u[j] \in Nat /\ v[k + n] \in Nat /\ v[k] \in Nat
<1> DEFINE S == {i \in Nat : i <= n => u[j + i] - u[j] = v[k + i] - v[k]}
<1>1. ASSUME NEW i \in 0..n PROVE u[j + i] \in Nat /\ v[k + i] \in Nat
  <2>1. u[0] \in Nat /\ v[0] \in Nat
    BY DEF Sizes
  <2>2. j + i = 0 \/ j + i \in 1..Len(frames)
    OBVIOUS
  <2>3. k + i = 0 \/ k + i \in 1..Len(rest)
    OBVIOUS
  <2> QED
    BY <2>1, <2>2, <2>3 DEF Sizes
<1>2. u[j] \in Nat /\ v[k] \in Nat
  <2>1. j + 0 = j /\ k + 0 = k /\ 0 \in 0..n
    OBVIOUS
  <2> QED
    BY <1>1, <2>1
<1>3. 0 \in S
  BY <1>2
<1>4. ASSUME NEW i \in Nat, i + 1 <= n, u[j + i] - u[j] = v[k + i] - v[k]
      PROVE  u[j + (i + 1)] - u[j] = v[k + (i + 1)] - v[k]
  <2>1. j + (i + 1) \in 1..Len(frames) /\ k + (i + 1) \in 1..Len(rest) /\ i + 1 \in 1..n /\ i \in 0..n
    BY <1>4
  <2>2. (j + (i + 1)) - 1 = j + i /\ (k + (i + 1)) - 1 = k + i
    OBVIOUS
  <2>3. u[j + (i + 1)] = u[j + i] + frames[j + (i + 1)].bytes /\ frames[j + (i + 1)].bytes \in Nat
    BY <2>1, <2>2 DEF Sizes
  <2>4. v[k + (i + 1)] = v[k + i] + rest[k + (i + 1)].bytes
    BY <2>1, <2>2 DEF Sizes
  <2>5. frames[j + (i + 1)].bytes = rest[k + (i + 1)].bytes
    BY <2>1 DEF SameBytes
  <2>6. u[j + i] \in Nat /\ v[k + i] \in Nat
    BY <1>1, <2>1
  <2> DEFINE x == frames[j + (i + 1)].bytes
  <2>7. x \in Nat /\ u[j + (i + 1)] = u[j + i] + x /\ v[k + (i + 1)] = v[k + i] + x
    BY <2>3, <2>4, <2>5
  <2> HIDE DEF x
  <2> DEFINE a == u[j + i]
             b == v[k + i]
             c == u[j]
             d == v[k]
  <2>8. a \in Nat /\ b \in Nat /\ c \in Nat /\ d \in Nat /\ x \in Nat
    BY <1>2, <2>6, <2>7
  <2>9. a - c = b - d
    BY <1>4
  <2>10. u[j + (i + 1)] = a + x /\ v[k + (i + 1)] = b + x
    BY <2>7
  <2> HIDE DEF a, b, c, d
  <2>11. (a + x) - c = (b + x) - d
    BY <2>8, <2>9
  <2> QED
    BY <2>10, <2>11 DEF c, d
<1>5. \A i \in Nat : i \in S => i + 1 \in S
  BY <1>4
<1> HIDE DEF S
<1>6. n \in S
  BY <1>3, <1>5, Induction
<1> QED
  BY <1>1, <1>2, <1>6 DEF S

(* An empty ring uses nothing.                                             *)
LEMMA UsedNothing == UsedLen(<<>>) = 0
<1>1. <<>> \in Seq(FrameType) /\ Len(<<>>) = 0
  OBVIOUS
<1> QED
  BY <1>1, UsedByPrefixes DEF Sizes

(* What the frames use is a number of bytes.                               *)
LEMMA UsedType ==
  ASSUME NEW frames \in Seq(FrameType)
  PROVE  UsedLen(frames) \in Nat
<1>1. PICK u : Sizes(u, frames) /\ UsedLen(frames) = u[Len(frames)]
  BY UsedByPrefixes
<1>2. Len(frames) = 0 \/ Len(frames) \in 1..Len(frames)
  OBVIOUS
<1> QED
  BY <1>1, <1>2 DEF Sizes

(* A frame written adds its bytes.                                         *)
LEMMA UsedAppend ==
  ASSUME NEW frames \in Seq(FrameType), NEW f \in FrameType
  PROVE  UsedLen(Append(frames, f)) = UsedLen(frames) + f.bytes
<1> DEFINE r == Append(frames, f)
           n == Len(frames)
<1>1. r \in Seq(FrameType) /\ n \in Nat /\ Len(r) = n + 1 /\ r[n + 1] = f /\ \A i \in 1..n : frames[i] = r[i]
  OBVIOUS
<1> HIDE DEF r
<1>2. PICK u : Sizes(u, frames) /\ UsedLen(frames) = u[n]
  BY UsedByPrefixes
<1>3. PICK v : Sizes(v, r) /\ UsedLen(r) = v[n + 1]
  BY <1>1, UsedByPrefixes
<1>4. SameBytes(n, frames, 0, r, 0) /\ 0 + n <= Len(frames) /\ 0 + n <= Len(r) /\ Len(frames) \in Nat /\ Len(r) \in Nat
  BY <1>1 DEF SameBytes
<1>8. 0 \in Nat /\ Sizes(u, frames) /\ Sizes(v, r) /\ n \in Nat
  BY <1>1, <1>2, <1>3
<1> HIDE DEF n
<1>5. u[0 + n] - u[0] = v[0 + n] - v[0] /\ u[0 + n] \in Nat /\ v[0 + n] \in Nat
  BY <1>4, <1>8, SameSizes
<1>6. n + 1 \in 1..Len(r) /\ (n + 1) - 1 = n /\ 0 + n = n
  BY <1>1
<1>7. v[n + 1] = v[n] + f.bytes /\ u[0] = 0 /\ v[0] = 0
  BY <1>1, <1>2, <1>3, <1>6 DEF Sizes
<1> QED
  BY <1>2, <1>3, <1>5, <1>6, <1>7 DEF r

(* A sequence whose first frame is f, and another that continues the same. *)
LEMMA UsedTail ==
  ASSUME NEW frames \in Seq(FrameType), frames # <<>>
  PROVE  UsedLen(frames) = Head(frames).bytes + UsedLen(Tail(frames))
<1> DEFINE r == Tail(frames)
           n == Len(r)
<1>1. /\ r \in Seq(FrameType) /\ n \in Nat /\ Len(frames) = n + 1 /\ Head(frames) = frames[1]
      /\ \A i \in 1..n : frames[1 + i] = r[i]
  OBVIOUS
<1> HIDE DEF r
<1>2. PICK u : Sizes(u, frames) /\ UsedLen(frames) = u[n + 1]
  BY <1>1, UsedByPrefixes
<1>3. PICK v : Sizes(v, r) /\ UsedLen(r) = v[n]
  BY <1>1, UsedByPrefixes
<1>4. SameBytes(n, frames, 1, r, 0) /\ 1 + n <= Len(frames) /\ 0 + n <= Len(r) /\ Len(frames) \in Nat /\ Len(r) \in Nat
  BY <1>1 DEF SameBytes
<1> HIDE DEF n
<1>5. u[1 + n] - u[1] = v[0 + n] - v[0] /\ u[1 + n] \in Nat /\ v[0 + n] \in Nat
  BY <1>1, <1>2, <1>3, <1>4, SameSizes
<1>6. 1 \in 1..Len(frames) /\ 1 - 1 = 0 /\ 0 + n = n /\ 1 + n = n + 1
  BY <1>1
<1>7. u[1] = u[0] + frames[1].bytes /\ frames[1].bytes \in Nat /\ u[0] = 0 /\ v[0] = 0
  BY <1>2, <1>3, <1>6 DEF Sizes
<1> QED
  BY <1>1, <1>2, <1>3, <1>5, <1>6, <1>7 DEF r

(* A frame replaced by another changes the sum by the difference.          *)
LEMMA UsedReplaced ==
  ASSUME NEW frames \in Seq(FrameType), frames # <<>>, NEW f \in FrameType
  PROVE  UsedLen([frames EXCEPT ![1] = f]) = f.bytes + UsedLen(Tail(frames))
<1> DEFINE r == [frames EXCEPT ![1] = f]
<1>1. r \in Seq(FrameType) /\ r # <<>> /\ Head(r) = f /\ Len(r) = Len(frames)
  OBVIOUS
<1>2. Tail(r) = Tail(frames)
  OBVIOUS
<1> HIDE DEF r
<1> QED
  BY <1>1, <1>2, UsedTail DEF r

-----------------------------------------------------------------------------
(* What is put together from parts in order is in order.                   *)
LEMMA OrderAppended ==
  ASSUME NEW s \in Seq(Nat), NEW n \in Nat, Ascending(s), UpTo(s, n)
  PROVE  /\ Append(s, n + 1) \in Seq(Nat)
         /\ Ascending(Append(s, n + 1)) /\ UpTo(Append(s, n + 1), n + 1)
         /\ \A u \in Seq(Nat) : UpTo(u, n) => /\ UpTo(u, n + 1)
                                              /\ Before(u, s) => Before(u, Append(s, n + 1))
<1> DEFINE r == Append(s, n + 1)
<1>1. r \in Seq(Nat) /\ Len(r) = Len(s) + 1 /\ r[Len(s) + 1] = n + 1 /\ \A i \in 1..Len(s) : r[i] = s[i]
  OBVIOUS
<1>2. DOMAIN r = 1..(Len(s) + 1) /\ DOMAIN s = 1..Len(s) /\ \A i \in DOMAIN r : i \in DOMAIN s \/ i = Len(s) + 1
  BY <1>1
<1>3. \A i \in DOMAIN s : s[i] \in Nat
  OBVIOUS
<1> HIDE DEF r
<1>4. \A i \in DOMAIN s : i \in DOMAIN r /\ r[i] = s[i] /\ 1 <= s[i] /\ s[i] < n + 1 /\ i < Len(s) + 1 /\ i \in Int
  BY <1>1, <1>2, <1>3 DEF UpTo
<1>5. Ascending(r)
  <2> SUFFICES ASSUME NEW i \in DOMAIN r, NEW j \in DOMAIN r, i < j PROVE r[i] < r[j]
    BY DEF Ascending
  <2>1. i \in DOMAIN s
    BY <1>2, <1>4
  <2>2. CASE j \in DOMAIN s
    BY <1>4, <2>1, <2>2 DEF Ascending
  <2>3. CASE j = Len(s) + 1
    BY <1>1, <1>4, <2>1, <2>3
  <2> QED
    BY <1>2, <2>2, <2>3
<1>6. UpTo(r, n + 1)
  BY <1>1, <1>2, <1>3, <1>4 DEF UpTo
<1>7. ASSUME NEW u \in Seq(Nat), UpTo(u, n) PROVE UpTo(u, n + 1) /\ (Before(u, s) => Before(u, r))
  <2>1. \A i \in DOMAIN u : u[i] \in Nat /\ 1 <= u[i] /\ u[i] < n + 1
    BY <1>7 DEF UpTo
  <2>2. UpTo(u, n + 1)
    BY <2>1 DEF UpTo
  <2>3. ASSUME Before(u, s), NEW a \in DOMAIN u, NEW b \in DOMAIN r PROVE u[a] < r[b]
    <3>1. CASE b \in DOMAIN s
      BY <1>4, <2>3, <3>1 DEF Before
    <3>2. CASE b = Len(s) + 1
      BY <1>1, <2>1, <3>2
    <3> QED
      BY <1>2, <3>1, <3>2
  <2> QED
    BY <2>2, <2>3 DEF Before
<1> QED
  BY <1>1, <1>5, <1>6, <1>7 DEF r

(* Order is kept when a sequence is followed by a later one.               *)
LEMMA OrderJoined ==
  ASSUME NEW s \in Seq(Nat), NEW h \in Seq(Nat), Ascending(s), Ascending(h), Before(s, h)
  PROVE  /\ s \o h \in Seq(Nat) /\ Ascending(s \o h)
         /\ \A n \in Nat : UpTo(s, n) /\ UpTo(h, n) => UpTo(s \o h, n)
         /\ \A u \in Seq(Nat) : Before(s, u) /\ Before(h, u) => Before(s \o h, u)
<1> DEFINE r == s \o h
<1>1. r \in Seq(Nat) /\ \A i \in DOMAIN r : \/ i \in DOMAIN s /\ r[i] = s[i]
                                            \/ i > Len(s) /\ i - Len(s) \in DOMAIN h /\ r[i] = h[i - Len(s)]
  OBVIOUS
<1>2. DOMAIN s = 1..Len(s) /\ \A i \in DOMAIN r : i \in Int
  OBVIOUS
<1> HIDE DEF r
<1>3. Len(s) \in Nat
  OBVIOUS
<1>4. ASSUME NEW i \in DOMAIN r, NEW j \in DOMAIN r, i < j PROVE r[i] < r[j]
  <2>1. CASE j \in DOMAIN s
    <3>1. i \in DOMAIN s /\ r[i] = s[i] /\ r[j] = s[j]
      BY <1>1, <1>2, <1>3, <1>4, <2>1
    <3> QED
      BY <1>4, <2>1, <3>1 DEF Ascending
  <2>2. CASE j \notin DOMAIN s /\ i \in DOMAIN s
    <3>1. r[i] = s[i]
      BY <1>1, <1>2, <1>3, <2>2
    <3>2. j - Len(s) \in DOMAIN h /\ r[j] = h[j - Len(s)]
      BY <1>1, <2>2
    <3> QED
      BY <2>2, <3>1, <3>2 DEF Before
  <2>3. CASE j \notin DOMAIN s /\ i \notin DOMAIN s
    <3>1. j - Len(s) \in DOMAIN h /\ r[j] = h[j - Len(s)] /\ i - Len(s) \in DOMAIN h /\ r[i] = h[i - Len(s)]
      BY <1>1, <2>3
    <3>2. i - Len(s) < j - Len(s)
      BY <1>1, <1>3, <1>4
    <3> QED
      BY <3>1, <3>2 DEF Ascending
  <2> QED
    BY <2>1, <2>2, <2>3
<1>5. Ascending(r)
  BY <1>4 DEF Ascending
<1>6. \A n \in Nat : UpTo(s, n) /\ UpTo(h, n) => UpTo(r, n)
  BY <1>1 DEF UpTo
<1>7. \A u \in Seq(Nat) : Before(s, u) /\ Before(h, u) => Before(r, u)
  BY <1>1 DEF Before
<1> QED
  BY <1>1, <1>5, <1>6, <1>7 DEF r

(* Nothing is out of order where nothing is.                               *)
LEMMA NothingIsOrdered ==
  \A n, u : /\ Ascending(<<>>) /\ UpTo(<<>>, n) /\ Before(<<>>, u) /\ Before(u, <<>>)
BY DEF Ascending, UpTo, Before

(* The lines of a thread stay in order whatever step is taken.             *)
LEMMA StaysOrdered ==
  ASSUME NEW p \in WayType, NEW q \in WayType, Ordered(p), Moved(p, q)
  PROVE  Ordered(q)
<1>1. /\ p.saved \in Seq(Nat) /\ p.hand \in Seq(Nat) /\ p.current \in Seq(Nat) /\ p.logged \in Nat
      /\ p.ring \in Seq(Seq(Nat)) /\ \A i \in DOMAIN p.ring : p.ring[i] \in Seq(Nat)
  BY DEF WayType
<1>2. CASE q = p
  BY <1>2
<1>3. CASE Collected(p, q)
  <2>1. Ascending(q.current) /\ UpTo(q.current, q.logged)
    BY <1>1, <1>3, OrderAppended DEF Collected, Ordered
  <2>2. \A u \in Seq(Nat) : UpTo(u, p.logged) => UpTo(u, q.logged) /\ (Before(u, p.current) => Before(u, q.current))
    BY <1>1, <1>3, OrderAppended DEF Collected, Ordered
  <2> QED
    BY <1>1, <1>3, <2>1, <2>2 DEF Collected, Ordered
<1>4. CASE Flushed(p, q)
  <2> DEFINE m == Append(p.current, p.logged + 1)
             r == Append(p.ring, m)
             n == Len(p.ring)
  <2>1. m \in Seq(Nat) /\ Ascending(m) /\ UpTo(m, q.logged)
    BY <1>1, <1>4, OrderAppended DEF Flushed, Ordered
  <2>2. \A u \in Seq(Nat) : UpTo(u, p.logged) => UpTo(u, q.logged) /\ (Before(u, p.current) => Before(u, m))
    BY <1>1, <1>4, OrderAppended DEF Flushed, Ordered
  <2> HIDE DEF m
  <2>3. /\ DOMAIN r = 1..(n + 1) /\ DOMAIN p.ring = 1..n /\ n \in Nat /\ r[n + 1] = m
        /\ \A i \in DOMAIN r : \/ i \in DOMAIN p.ring /\ r[i] = p.ring[i]
                               \/ i = n + 1 /\ r[i] = m
    BY <1>1, <2>1
  <2>4. q.ring = r
    BY <1>4 DEF Flushed, m
  <2> HIDE DEF r, n
  <2>5. ASSUME NEW i \in DOMAIN r
        PROVE  Ascending(r[i]) /\ UpTo(r[i], q.logged) /\ Before(p.saved, r[i]) /\ Before(p.hand, r[i])
    BY <1>1, <2>1, <2>2, <2>3 DEF Ordered
  <2>6. ASSUME NEW i \in DOMAIN r, NEW j \in DOMAIN r, i < j PROVE Before(r[i], r[j])
    <3>1. i \in DOMAIN p.ring /\ r[i] = p.ring[i]
      BY <2>3, <2>6
    <3>2. CASE j \in DOMAIN p.ring /\ r[j] = p.ring[j]
      BY <2>6, <3>1, <3>2 DEF Ordered
    <3>3. CASE r[j] = m
      BY <1>1, <2>2, <3>1, <3>3 DEF Ordered
    <3> QED
      BY <2>3, <3>2, <3>3
  <2>7. q.saved = p.saved /\ q.hand = p.hand /\ q.current = <<>>
    BY <1>4 DEF Flushed
  <2>8. UpTo(q.saved, q.logged) /\ UpTo(q.hand, q.logged) /\ Ascending(q.saved) /\ Ascending(q.hand) /\ Before(q.saved, q.hand)
    BY <1>1, <2>2, <2>7 DEF Ordered
  <2> QED
    BY <2>4, <2>5, <2>6, <2>7, <2>8, NothingIsOrdered DEF Ordered
<1>5. CASE Taken(p, q)
  <2>1. /\ 1 \in DOMAIN p.ring /\ q.hand = p.ring[1]
        /\ \A i \in DOMAIN q.ring : i + 1 \in DOMAIN p.ring /\ 1 < i + 1 /\ q.ring[i] = p.ring[i + 1]
        /\ \A i, j \in DOMAIN q.ring : i < j => i + 1 < j + 1
    BY <1>1, <1>5 DEF Taken
  <2> QED
    BY <1>5, <2>1 DEF Taken, Ordered
<1>6. CASE GivenUp(p, q)
  <2>1. DOMAIN q.ring = DOMAIN p.ring /\ \A i \in DOMAIN q.ring : q.ring[i] = p.ring[i] \/ q.ring[i] = <<>>
    BY <1>1, <1>6 DEF GivenUp
  <2>2. q.saved = p.saved /\ q.hand = p.hand /\ q.current = p.current /\ q.logged = p.logged
    BY <1>6 DEF GivenUp
  <2> QED
    BY <2>1, <2>2, NothingIsOrdered DEF Ordered
<1>7. CASE Abandoned(p, q)
  <2>1. /\ \A i \in DOMAIN q.ring : i + 1 \in DOMAIN p.ring /\ q.ring[i] = p.ring[i + 1]
        /\ \A i, j \in DOMAIN q.ring : i < j => i + 1 < j + 1
    <3>1. p.ring # <<>> /\ q.ring = Tail(p.ring)
      BY <1>7 DEF Abandoned
    <3> DEFINE r == p.ring
    <3>2. r \in Seq(Seq(Nat)) /\ r # <<>>
      BY <1>1, <3>1
    <3> HIDE DEF r
    <3>3. /\ \A i \in DOMAIN Tail(r) : i + 1 \in DOMAIN r /\ Tail(r)[i] = r[i + 1] /\ i \in Int
      BY <3>2
    <3> QED
      BY <3>1, <3>3 DEF r
  <2> QED
    BY <1>7, <2>1 DEF Abandoned, Ordered
<1>8. CASE Saved(p, q)
  <2> DEFINE r == p.saved \o p.hand
  <2>1. Ascending(r) /\ UpTo(r, p.logged) /\ \A u \in Seq(Nat) : Before(p.saved, u) /\ Before(p.hand, u) => Before(r, u)
    BY <1>1, OrderJoined DEF Ordered
  <2>2. q.saved = r /\ q.hand = <<>> /\ q.ring = p.ring /\ q.current = p.current /\ q.logged = p.logged
    BY <1>8 DEF Saved
  <2> HIDE DEF r
  <2> QED
    BY <1>1, <2>1, <2>2, NothingIsOrdered DEF Ordered
<1>9. CASE Missed(p, q)
  BY <1>9, NothingIsOrdered DEF Missed, Ordered
<1>10. CASE Ended(p, q)
  <2>1. DOMAIN q.ring = {}
    BY <1>10 DEF Ended
  <2> QED
    BY <1>10, <2>1, NothingIsOrdered DEF Ended, Ordered
<1> QED
  BY <1>2, <1>3, <1>4, <1>5, <1>6, <1>7, <1>8, <1>9, <1>10 DEF Moved, Produced, Handled

(* The same of the accounts.                                               *)
LEMMA StaysAccounted ==
  ASSUME NEW p \in WayType, NEW q \in WayType, Ordered(p), Accounted(p), Moved(p, q)
  PROVE  Accounted(q)
<1>1. /\ p.saved \in Seq(Nat) /\ p.hand \in Seq(Nat) /\ p.current \in Seq(Nat) /\ p.logged \in Nat
      /\ p.ring \in Seq(Seq(Nat)) /\ \A i \in DOMAIN p.ring : p.ring[i] \in Seq(Nat)
  BY DEF WayType
<1>2. CASE q = p
  BY <1>2
<1>3. ASSUME q.logged = p.logged + 1, Kept(q) = Kept(p) \cup {p.logged + 1}, q.lost = p.lost
      PROVE  Accounted(q)
  <2>1. 1..(p.logged + 1) = (1..p.logged) \cup {p.logged + 1} /\ p.logged + 1 \notin 1..p.logged
    BY <1>1
  <2> QED
    BY <1>3, <2>1 DEF Accounted
<1>4. \A s \in Seq(Nat), n \in Nat : ToSet(Append(s, n)) = ToSet(s) \cup {n}
  <2> SUFFICES ASSUME NEW s \in Seq(Nat), NEW n \in Nat PROVE ToSet(Append(s, n)) = ToSet(s) \cup {n}
    OBVIOUS
  <2> DEFINE r == Append(s, n)
  <2>1. DOMAIN r = DOMAIN s \cup {Len(s) + 1} /\ r[Len(s) + 1] = n /\ \A i \in DOMAIN s : r[i] = s[i]
    OBVIOUS
  <2> HIDE DEF r
  <2>2. ToSet(r) = ToSet(s) \cup {n}
    BY <2>1 DEF ToSet
  <2> QED
    BY <2>2 DEF r
<1>5. CASE Collected(p, q)
  <2>1. ToSet(q.current) = ToSet(p.current) \cup {p.logged + 1}
    BY <1>1, <1>4, <1>5 DEF Collected
  <2>2. Kept(q) = Kept(p) \cup {p.logged + 1}
    BY <1>5, <2>1 DEF Collected, Kept
  <2> QED
    BY <1>3, <1>5, <2>2 DEF Collected
<1>6. CASE Flushed(p, q)
  <2> DEFINE m == Append(p.current, p.logged + 1)
             n == Len(p.ring)
  <2>1. m \in Seq(Nat) /\ ToSet(m) = ToSet(p.current) \cup {p.logged + 1}
    BY <1>1, <1>4
  <2>2. q.ring = Append(p.ring, m)
    BY <1>6 DEF Flushed
  <2> HIDE DEF m
  <2>3. DOMAIN q.ring = DOMAIN p.ring \cup {n + 1} /\ q.ring[n + 1] = m /\ \A i \in DOMAIN p.ring : q.ring[i] = p.ring[i]
    BY <1>1, <2>1, <2>2
  <2>4. InRing(q.ring) = InRing(p.ring) \cup ToSet(m)
    BY <2>3 DEF InRing
  <2>5. ToSet(<<>>) = {}
    BY DEF ToSet
  <2>6. Kept(q) = Kept(p) \cup {p.logged + 1}
    BY <1>6, <2>1, <2>4, <2>5 DEF Flushed, Kept
  <2> QED
    BY <1>3, <1>6, <2>6 DEF Flushed
<1>7. ASSUME p.ring # <<>>
      PROVE  InRing(p.ring) = ToSet(Head(p.ring)) \cup InRing(Tail(p.ring))
  <2> DEFINE r == p.ring
  <2>1. r \in Seq(Seq(Nat)) /\ r # <<>>
    BY <1>1, <1>7
  <2> HIDE DEF r
  <2>2. /\ \A i \in DOMAIN r : i = 1 \/ (i - 1 \in DOMAIN Tail(r) /\ Tail(r)[i - 1] = r[i])
        /\ \A i \in DOMAIN Tail(r) : i + 1 \in DOMAIN r /\ Tail(r)[i] = r[i + 1]
        /\ 1 \in DOMAIN r /\ Head(r) = r[1]
    BY <2>1
  <2> DEFINE u == Tail(r)
             x == Head(r)
  <2> HIDE DEF u, x
  <2>3. /\ \A i \in DOMAIN r : i = 1 \/ (i - 1 \in DOMAIN u /\ u[i - 1] = r[i])
        /\ \A i \in DOMAIN u : i + 1 \in DOMAIN r /\ u[i] = r[i + 1]
        /\ 1 \in DOMAIN r /\ x = r[1]
    BY <2>2 DEF u, x
  <2>4. \A i \in DOMAIN r : ToSet(r[i]) \subseteq ToSet(x) \cup InRing(u)
    BY <2>3 DEF InRing
  <2>5. ToSet(x) \subseteq InRing(r) /\ \A i \in DOMAIN u : ToSet(u[i]) \subseteq InRing(r)
    BY <2>3 DEF InRing
  <2>6. InRing(r) = ToSet(x) \cup InRing(u)
    BY <2>4, <2>5 DEF InRing
  <2> QED
    BY <2>6 DEF r, u, x
<1>8. CASE Taken(p, q)
  <2>1. Kept(q) = Kept(p)
    <3>1. ToSet(<<>>) = {}
      BY DEF ToSet
    <3> QED
      BY <1>7, <1>8, <3>1 DEF Taken, Kept
  <2> QED
    BY <1>8, <2>1 DEF Taken, Accounted
<1>9. CASE Abandoned(p, q)
  <2>1. Kept(q) = Kept(p)
    <3>1. ToSet(<<>>) = {}
      BY DEF ToSet
    <3> QED
      BY <1>7, <1>9, <3>1 DEF Abandoned, Kept
  <2> QED
    BY <1>9, <2>1 DEF Abandoned, Accounted
<1>10. CASE Saved(p, q)
  <2>1. Kept(q) = Kept(p)
    <3>1. \A s, h \in Seq(Nat) : ToSet(s \o h) = ToSet(s) \cup ToSet(h)
      <4> SUFFICES ASSUME NEW s \in Seq(Nat), NEW h \in Seq(Nat) PROVE ToSet(s \o h) = ToSet(s) \cup ToSet(h)
        OBVIOUS
      <4>1. Range(s \o h) = Range(s) \cup Range(h)
        BY RangeConcatenation
      <4> QED
        BY <4>1 DEF Range, ToSet
    <3>2. ToSet(<<>>) = {}
      BY DEF ToSet
    <3> QED
      BY <1>1, <1>10, <3>1, <3>2 DEF Saved, Kept
  <2> QED
    BY <1>10, <2>1 DEF Saved, Accounted
<1>11. \A s, u : Before(s, u) /\ (\A a \in DOMAIN s : s[a] \in Nat) => ToSet(s) \cap ToSet(u) = {}
  BY DEF Before, ToSet
<1>12. \A s \in Seq(Nat) : \A a \in DOMAIN s : s[a] \in Nat
  OBVIOUS
<1>13. CASE Missed(p, q)
  <2>1. /\ ToSet(p.hand) \cap ToSet(p.saved) = {} /\ ToSet(p.hand) \cap ToSet(p.current) = {}
        /\ \A i \in DOMAIN p.ring : ToSet(p.hand) \cap ToSet(p.ring[i]) = {}
    BY <1>1, <1>11, <1>12 DEF Ordered
  <2>2. ToSet(p.hand) \cap InRing(p.ring) = {}
    BY <2>1 DEF InRing
  <2>3. ToSet(<<>>) = {}
    BY DEF ToSet
  <2>4. Kept(p) = Kept(q) \cup ToSet(p.hand) /\ Kept(q) \cap ToSet(p.hand) = {} /\ q.lost = p.lost \cup ToSet(p.hand) /\ q.logged = p.logged
    BY <1>13, <2>1, <2>2, <2>3 DEF Missed, Kept
  <2> QED
    BY <2>4 DEF Accounted
<1>14. CASE GivenUp(p, q)
  <2> DEFINE h == p.ring[1]
             r == p.ring
  <2>1. 1 \in DOMAIN r /\ Head(r) = h /\ r # <<>> /\ q.ring = [r EXCEPT ![1] = <<>>] /\ r \in Seq(Seq(Nat)) /\ h \in Seq(Nat)
    BY <1>1, <1>14 DEF GivenUp
  <2>2. /\ ToSet(h) \cap ToSet(p.saved) = {} /\ ToSet(h) \cap ToSet(p.current) = {} /\ ToSet(h) \cap ToSet(p.hand) = {}
        /\ \A i \in DOMAIN r : 1 < i => ToSet(h) \cap ToSet(r[i]) = {}
    BY <1>1, <1>11, <1>12, <2>1 DEF Ordered
  <2> HIDE DEF h, r
  <2>3. ToSet(<<>>) = {}
    BY DEF ToSet
  <2>4. DOMAIN q.ring = DOMAIN r /\ q.ring[1] = <<>> /\ (\A i \in DOMAIN r : 1 < i => q.ring[i] = r[i]) /\ \A i \in DOMAIN r : i = 1 \/ 1 < i
    BY <2>1
  <2>5. r[1] = h
    BY DEF r, h
  <2>6. InRing(r) = InRing(q.ring) \cup ToSet(h) /\ InRing(q.ring) \cap ToSet(h) = {}
    BY <2>1, <2>2, <2>3, <2>4, <2>5 DEF InRing
  <2>7. q.saved = p.saved /\ q.hand = p.hand /\ q.current = p.current /\ q.lost = p.lost \cup ToSet(h) /\ q.logged = p.logged
    BY <1>14, <2>1 DEF GivenUp, r
  <2>8. Kept(p) = Kept(q) \cup ToSet(h) /\ Kept(q) \cap ToSet(h) = {}
    BY <2>2, <2>6, <2>7 DEF Kept, r
  <2> QED
    BY <2>7, <2>8 DEF Accounted
<1>15. CASE Ended(p, q)
  <2>1. ToSet(<<>>) = {} /\ InRing(<<>>) = {}
    BY DEF ToSet, InRing
  <2>2. Kept(q) = ToSet(p.saved)
    BY <1>15, <2>1 DEF Ended, Kept
  <2>3. ToSet(p.saved) \subseteq 1..p.logged
    BY DEF Accounted, Kept
  <2> QED
    BY <1>15, <2>2, <2>3 DEF Ended, Accounted
<1> QED
  BY <1>2, <1>5, <1>6, <1>8, <1>9, <1>10, <1>13, <1>14, <1>15 DEF Moved, Produced, Handled

-----------------------------------------------------------------------------
(* StateInv.                                                               *)
RingOK ==
  /\ ring \in [Thread -> Seq(FrameType)]
  /\ \A t \in Thread : UsedLen(ring[t]) <= RingSize
  /\ \A t \in Thread : \A i \in DOMAIN ring[t] : ~ring[t][i].ok => ring[t][i].lines = <<>>

(* The constants as the proofs use them.                                   *)
LEMMA ConstantTypes ==
  /\ HeadLen \in Nat /\ TailLen \in Nat /\ RingSize \in Nat /\ MaxExpected \in Nat /\ MaxOpens \in Nat
  /\ AbandonMax \in Nat /\ OpenMayFail \in BOOLEAN
  /\ Thread \subseteq Nat
  /\ LineNumbers \subseteq Nat
  /\ \A t \in Thread : \A len \in LineLen[t] : len \in Nat
  /\ \A t \in Thread : MaxLines[t] \in Nat
  /\ \A t \in Thread, n \in Nat : n < MaxLines[t] => n + 1 \in LineNumbers
<1>1. \A t \in Thread : MaxLines[t] \in Nat
  BY ULogAssumption
<1>2. LineNumbers \subseteq Nat
  BY <1>1 DEF LineNumbers
<1>3. \A t \in Thread, n \in Nat : n < MaxLines[t] => n + 1 \in LineNumbers
  BY <1>1 DEF LineNumbers
<1>4. \A t \in Thread : \A len \in LineLen[t] : len \in Nat
  <2>1. \A t \in Thread : LineLen[t] \in SUBSET (Nat \ {0})
    BY ULogAssumption
  <2> QED
    BY <2>1
<1> QED
  BY <1>1, <1>2, <1>3, <1>4, ULogAssumption

(* The frame that flush() writes is whole.                                 *)
LEMMA FrameWritten ==
  ASSUME TypeOK, NEW t \in Thread, NEW len \in LineLen[t], Log(t)
  PROVE  /\ WithLine(t, len) \in [lines : Seq(LineNumbers), size : Nat]
         /\ WithLine(t, len).lines = Append(current[t].lines, logged[t] + 1)
         /\ WithLine(t, len).size = current[t].size + len
         /\ Frame(WithLine(t, len)) \in FrameType
         /\ Frame(WithLine(t, len)).ok
         /\ Frame(WithLine(t, len)).lines = Append(current[t].lines, logged[t] + 1)
         /\ Frame(WithLine(t, len)).bytes = HeadLen + (current[t].size + len) + TailLen
         /\ logged' \in [Thread -> LineNumbers \cup {0}] /\ logged'[t] = logged[t] + 1
         /\ registered' \subseteq Thread
<1>1. /\ current[t] \in [lines : Seq(LineNumbers), size : Nat] /\ logged[t] \in LineNumbers \cup {0}
      /\ logged \in [Thread -> LineNumbers \cup {0}] /\ registered \subseteq Thread
  BY DEF TypeOK
<1>2. current[t].lines \in Seq(LineNumbers) /\ current[t].size \in Nat
  BY <1>1
<1>3. len \in Nat /\ logged[t] \in Nat /\ logged[t] + 1 \in LineNumbers
  <2>1. len \in Nat /\ LineNumbers \subseteq Nat
    BY ConstantTypes
  <2>2. logged[t] \in Nat
    <3>1. logged[t] \in LineNumbers \/ logged[t] = 0
      BY <1>1
    <3>2. \A n \in LineNumbers : n \in Nat
      BY <2>1
    <3> QED
      BY <3>1, <3>2
  <2>3. logged[t] < MaxLines[t]
    BY DEF Log
  <2> QED
    BY <2>1, <2>2, <2>3, ConstantTypes
<1>4. Append(current[t].lines, logged[t] + 1) \in Seq(LineNumbers) /\ current[t].size + len \in Nat
  BY <1>2, <1>3
<1>5. HeadLen + (current[t].size + len) + TailLen \in Nat
  BY <1>4, ConstantTypes
<1>6. WithLine(t, len) \in [lines : Seq(LineNumbers), size : Nat]
  BY <1>4 DEF WithLine
<1>7. Frame(WithLine(t, len)) \in FrameType
  BY <1>4, <1>5 DEF WithLine, Frame, FrameType
<1> QED
  BY <1>1, <1>3, <1>6, <1>7 DEF WithLine, Frame, Log

(* One ring is replaced.                                                   *)
LEMMA RingReplaced ==
  ASSUME RingOK, NEW t \in Thread, NEW r \in Seq(FrameType), ring' = [ring EXCEPT ![t] = r],
         UsedLen(r) <= RingSize, \A i \in DOMAIN r : ~r[i].ok => r[i].lines = <<>>
  PROVE  RingOK'
<1>1. ring' \in [Thread -> Seq(FrameType)] /\ \A u \in Thread : ring'[u] = IF u = t THEN r ELSE ring[u]
  BY DEF RingOK
<1> QED
  BY <1>1 DEF RingOK

(* A frame for which flush() found room is written.                        *)
LEMMA RingAppended ==
  ASSUME RingOK, NEW t \in Thread, NEW f \in FrameType, f.ok,
         ring' = [ring EXCEPT ![t] = Append(@, f)], f.bytes <= RingSize - UsedLen(ring[t])
  PROVE  RingOK'
<1> DEFINE r == Append(ring[t], f)
<1>1. ring[t] \in Seq(FrameType) /\ UsedLen(ring[t]) \in Nat /\ f.bytes \in Nat
  BY UsedType DEF RingOK, FrameType
<1>2. r \in Seq(FrameType) /\ UsedLen(r) = UsedLen(ring[t]) + f.bytes
  BY <1>1, UsedAppend
<1>3. UsedLen(r) <= RingSize
  BY <1>1, <1>2, ConstantTypes
<1>4. \A i \in DOMAIN r : r[i] = f \/ (i \in DOMAIN ring[t] /\ r[i] = ring[t][i])
  BY <1>1
<1>5. \A i \in DOMAIN r : ~r[i].ok => r[i].lines = <<>>
  BY <1>4 DEF RingOK
<1>6. ring' = [ring EXCEPT ![t] = r]
  OBVIOUS
<1> HIDE DEF r
<1> QED
  BY <1>2, <1>3, <1>5, <1>6, RingReplaced

(* What the background thread finds at the head of a ring.                 *)
LEMMA HeadOfRing ==
  ASSUME RingOK, NEW t \in Thread, UsedLen(ring[t]) > HeadLen
  PROVE  /\ ring[t] # <<>> /\ ring[t] \in Seq(FrameType) /\ Head(ring[t]) = ring[t][1] /\ 1 \in DOMAIN ring[t]
         /\ Head(ring[t]) \in FrameType /\ Tail(ring[t]) \in Seq(FrameType)
         /\ Head(ring[t]).bytes \in Nat /\ Head(ring[t]).lines \in Seq(LineNumbers)
         /\ Head(ring[t]).bytes + UsedLen(Tail(ring[t])) <= RingSize
         /\ UsedLen(Tail(ring[t])) \in Nat
         /\ \A i \in DOMAIN Tail(ring[t]) : i + 1 \in DOMAIN ring[t] /\ Tail(ring[t])[i] = ring[t][i + 1]
<1>1. ring[t] \in Seq(FrameType) /\ UsedLen(ring[t]) <= RingSize
  BY DEF RingOK
<1>2. ring[t] # <<>>
  BY UsedNothing, ConstantTypes
<1> DEFINE r == ring[t]
<1>3. r \in Seq(FrameType) /\ r # <<>>
  BY <1>1, <1>2
<1> HIDE DEF r
<1>4. /\ Head(r) = r[1] /\ 1 \in DOMAIN r /\ Head(r) \in FrameType /\ Tail(r) \in Seq(FrameType)
      /\ \A i \in DOMAIN Tail(r) : i + 1 \in DOMAIN r /\ Tail(r)[i] = r[i + 1]
  BY <1>3
<1>5. UsedLen(r) = Head(r).bytes + UsedLen(Tail(r)) /\ UsedLen(Tail(r)) \in Nat
  BY <1>3, <1>4, UsedTail, UsedType
<1>6. Head(r).bytes \in Nat /\ Head(r).lines \in Seq(LineNumbers)
  BY <1>4 DEF FrameType
<1> QED
  BY <1>1, <1>2, <1>4, <1>5, <1>6 DEF r

(* The first frame is taken.                                               *)
LEMMA RingTailed ==
  ASSUME RingOK, NEW t \in Thread, UsedLen(ring[t]) > HeadLen, ring' = [ring EXCEPT ![t] = Tail(@)]
  PROVE  RingOK'
<1> DEFINE r == Tail(ring[t])
<1>1. r \in Seq(FrameType) /\ UsedLen(r) <= RingSize
  BY HeadOfRing, ConstantTypes
<1>2. \A i \in DOMAIN r : ~r[i].ok => r[i].lines = <<>>
  BY HeadOfRing DEF RingOK
<1>3. ring' = [ring EXCEPT ![t] = r]
  OBVIOUS
<1> HIDE DEF r
<1> QED
  BY <1>1, <1>2, <1>3, RingReplaced

(* The header of a message given up is taken, or a part of error data.     *)
LEMMA RingShortened ==
  ASSUME RingOK, NEW t \in Thread, UsedLen(ring[t]) > HeadLen, NEW n \in Nat, n <= Head(ring[t]).bytes,
         ring' = [ring EXCEPT ![t] = [@ EXCEPT ![1] = Remains(n)]]
  PROVE  RingOK'
<1> DEFINE f == Remains(n)
           r == [ring[t] EXCEPT ![1] = f]
<1>1. f \in FrameType /\ f.bytes = n /\ ~f.ok /\ f.lines = <<>>
  BY DEF FrameType, Remains
<1> HIDE DEF f
<1>2. /\ ring[t] # <<>> /\ ring[t] \in Seq(FrameType) /\ UsedLen(Tail(ring[t])) \in Nat /\ Head(ring[t]).bytes \in Nat
      /\ Head(ring[t]).bytes + UsedLen(Tail(ring[t])) <= RingSize
  BY HeadOfRing
<1>3. UsedLen(r) = n + UsedLen(Tail(ring[t]))
  BY <1>1, <1>2, UsedReplaced
<1>4. r \in Seq(FrameType) /\ \A i \in DOMAIN r : i \in DOMAIN ring[t] /\ (r[i] = ring[t][i] \/ r[i] = f)
  BY <1>1, <1>2
<1>5. \A i \in DOMAIN r : ~r[i].ok => r[i].lines = <<>>
  BY <1>1, <1>4 DEF RingOK
<1>6. UsedLen(r) <= RingSize
  <2> DEFINE a == UsedLen(Tail(ring[t]))
             b == Head(ring[t]).bytes
  <2>1. a \in Nat /\ b \in Nat /\ b + a <= RingSize /\ n <= b /\ UsedLen(r) = n + a
    BY <1>2, <1>3
  <2> HIDE DEF a, b, r
  <2> QED
    BY <2>1, ConstantTypes
<1>7. ring' = [ring EXCEPT ![t] = r]
  BY DEF f
<1> HIDE DEF r
<1> QED
  BY <1>4, <1>5, <1>6, <1>7, RingReplaced

(* The types and the clean end, at the beginning.                          *)
LEMMA StateInit == Init => StateInv
<1> SUFFICES ASSUME Init PROVE StateInv
  OBVIOUS
<1>1. UsedLen(<<>>) <= RingSize
  BY UsedNothing, ConstantTypes
<1>2. <<>> \in Seq(LineNumbers) /\ <<>> \in Seq(FrameType) /\ <<>> \in Seq({"text", "notice"})
  OBVIOUS
<1>3. Empty \in [lines : Seq(LineNumbers), size : Nat]
  BY <1>2 DEF Empty
<1>4. /\ current \in [Thread -> [lines : Seq(LineNumbers), size : Nat]] /\ ring \in [Thread -> Seq(FrameType)]
      /\ screen \in [Thread -> Seq({"text", "notice"})] /\ saved \in [Thread -> Seq(LineNumbers)] /\ hand \in Seq(LineNumbers)
  BY <1>2, <1>3 DEF Init
<1>5. /\ logged \in [Thread -> LineNumbers \cup {0}] /\ lost \in [Thread -> SUBSET LineNumbers]
      /\ refused \in [Thread -> BOOLEAN] /\ large_log_mark \in [Thread -> BOOLEAN] /\ opens \in 0..MaxOpens
  BY ConstantTypes DEF Init
<1>6. \A t \in Thread : ring[t] = <<>>
  BY DEF Init
<1>7. TypeOK
  BY <1>1, <1>4, <1>5, <1>6 DEF Init, TypeOK
<1> QED
  BY <1>6, <1>7 DEF Init, StateInv, ExitIsClean

(* Producers.                                                              *)
LEMMA StateProduced ==
  ASSUME StateInv, NEW t \in Thread, NEW len \in LineLen[t], LogFlushed(t, len) \/ LogKept(t, len)
  PROVE  StateInv'
<1>1. TypeOK /\ RingOK /\ Log(t)
  BY DEF StateInv, RingOK, TypeOK, LogFlushed, LogKept
<1>2. RingOK'
  <2>1. CASE LogFlushed(t, len)
    BY <1>1, <2>1, FrameWritten, RingAppended DEF LogFlushed, Fits
  <2>2. CASE LogKept(t, len)
    BY <1>1, <2>2 DEF LogKept, RingOK
  <2> QED
    BY <2>1, <2>2
<1>3. current' \in [Thread -> [lines : Seq(LineNumbers), size : Nat]]
  <2>1. Empty \in [lines : Seq(LineNumbers), size : Nat]
    BY DEF Empty
  <2>2. WithLine(t, len) \in [lines : Seq(LineNumbers), size : Nat]
    BY <1>1, FrameWritten
  <2>3. current \in [Thread -> [lines : Seq(LineNumbers), size : Nat]]
    BY <1>1 DEF TypeOK
  <2>4. current' = [current EXCEPT ![t] = Empty] \/ current' = [current EXCEPT ![t] = WithLine(t, len)]
    BY DEF LogFlushed, LogKept
  <2> QED
    BY <2>1, <2>2, <2>3, <2>4
<1>4. logged' \in [Thread -> LineNumbers \cup {0}] /\ registered' \subseteq Thread /\ registered \subseteq registered'
  BY <1>1, FrameWritten DEF Log
<1>5. refused' \in [Thread -> BOOLEAN]
  BY <1>1 DEF LogFlushed, LogKept, TypeOK
<1>6. UNCHANGED <<m_is_running, fileOpen, mpc, opens, bpc, bat, hand, m_std_out, large_log_mark, screen, saved, lost, missed>>
  BY DEF LogFlushed, LogKept, avars, bvars, svars
<1>7. TypeOK'
  BY <1>1, <1>2, <1>3, <1>4, <1>5, <1>6 DEF TypeOK, RingOK
<1> QED
  BY <1>2, <1>4, <1>6, <1>7 DEF StateInv, RingOK, ExitIsClean

(* The background thread.                                                  *)
LEMMA StateBackground ==
  ASSUME StateInv, Background
  PROVE  StateInv'
<1>1. TypeOK /\ RingOK
  BY DEF StateInv, RingOK, TypeOK
<1>2. \A t \in registered : t \in Thread
  BY <1>1 DEF TypeOK
<1>3. CASE BgTest
  <2>1. UNCHANGED ring
    BY <1>3 DEF BgTest
  <2>2. RingOK'
    BY <1>1, <2>1 DEF RingOK
  <2>3. TypeOK'
    BY <1>1, <1>3, <2>2 DEF TypeOK, RingOK, BgTest, avars, svars, hvars
  <2> QED
    BY <1>3, <2>2, <2>3 DEF StateInv, RingOK, BgTest, ExitIsClean, avars
<1>4. CASE BgNext
  <2> DEFINE ahead == {t \in registered : t > bat}
  <2>1. ahead # {} => Min(ahead) \in ahead
    <3>1. ahead \in SUBSET Nat
      BY <1>2, ConstantTypes
    <3> QED
      BY <3>1, MinIsLeast
  <2>2. /\ bpc' = IF ahead = {} THEN "test" ELSE "read"
        /\ bat' = IF ahead = {} THEN 0 ELSE Min(ahead)
        /\ bpc = "pass"
        /\ UNCHANGED <<current, registered, ring, m_is_running, fileOpen, avars, hand, svars, hvars>>
    BY <1>4 DEF BgNext
  <2>3. ahead \subseteq registered
    OBVIOUS
  <2> HIDE DEF ahead
  <2>4. bat' \in Thread \cup {0} /\ bpc' \in {"test", "read"} /\ (bpc' = "read" => bat' \in registered)
    BY <1>2, <2>1, <2>2, <2>3
  <2>5. RingOK'
    BY <1>1, <2>2 DEF RingOK
  <2>6. TypeOK'
    BY <1>1, <2>2, <2>4, <2>5 DEF TypeOK, RingOK, avars, svars, hvars
  <2> QED
    BY <2>2, <2>4, <2>5, <2>6 DEF StateInv, RingOK, ExitIsClean, avars
<1>5. CASE BgReadNothing
  <2>1. UNCHANGED ring
    BY <1>5 DEF BgReadNothing
  <2>2. RingOK'
    BY <1>1, <2>1 DEF RingOK
  <2>3. TypeOK'
    BY <1>1, <1>5, <2>2 DEF TypeOK, RingOK, BgReadNothing, avars, svars, hvars
  <2> QED
    BY <1>5, <2>2, <2>3 DEF StateInv, RingOK, BgReadNothing, ExitIsClean, avars
<1>6. CASE BgReadMessage
  <2>1. bat \in Thread /\ UsedLen(ring[bat]) > HeadLen /\ bpc = "read"
    BY <1>2, <1>6 DEF StateInv, BgReadMessage
  <2>2. RingOK'
    BY <1>1, <1>6, <2>1, RingTailed DEF BgReadMessage
  <2>3. hand' \in Seq(LineNumbers)
    BY <1>1, <1>6, <2>1, HeadOfRing DEF BgReadMessage
  <2>4. bpc' = "save" /\ UNCHANGED <<current, registered, m_is_running, fileOpen, avars, bat, svars, hvars>>
    BY <1>6 DEF BgReadMessage
  <2>5. TypeOK'
    BY <1>1, <2>2, <2>3, <2>4 DEF TypeOK, RingOK, avars, svars, hvars
  <2> QED
    BY <2>1, <2>2, <2>4, <2>5 DEF StateInv, RingOK, ExitIsClean, avars
<1>7. CASE BgReadOverlong
  <2> DEFINE f == Head(ring[bat])
  <2>1. bat \in Thread /\ UsedLen(ring[bat]) > HeadLen /\ bpc = "read"
    BY <1>2, <1>7 DEF StateInv, BgReadOverlong
  <2>2. f.bytes \in Nat /\ f.lines \in Seq(LineNumbers) /\ f.bytes > MaxExpected
    BY <1>1, <1>7, <2>1, HeadOfRing DEF BgReadOverlong, Overlong
  <2>3. /\ ring' = [ring EXCEPT ![bat] = [@ EXCEPT ![1] = Remains(f.bytes - 1)]]
        /\ lost' = [lost EXCEPT ![bat] = @ \cup ToSet(f.lines)]
        /\ bpc' = "pass"
        /\ UNCHANGED <<current, registered, m_is_running, fileOpen, avars, bat, hand, svars, logged, saved, refused, missed>>
    BY <1>7 DEF BgReadOverlong
  <2> HIDE DEF f
  <2>4. f.bytes - 1 \in Nat /\ f.bytes - 1 <= f.bytes
    BY <2>2, ConstantTypes
  <2>5. RingOK'
    BY <1>1, <2>1, <2>3, <2>4, RingShortened DEF f
  <2>6. ToSet(f.lines) \subseteq LineNumbers
    BY <2>2 DEF ToSet
  <2>7. lost' \in [Thread -> SUBSET LineNumbers]
    BY <1>1, <2>1, <2>3, <2>6 DEF TypeOK
  <2>8. TypeOK'
    BY <1>1, <2>3, <2>5, <2>7 DEF TypeOK, RingOK, avars, svars
  <2> QED
    BY <2>1, <2>3, <2>5, <2>8 DEF StateInv, RingOK, ExitIsClean, avars
<1>8. CASE BgAbandon
  <2> DEFINE f == Head(ring[bat])
             n == f.bytes - AbandonMax
  <2>1. bat \in Thread /\ UsedLen(ring[bat]) > HeadLen /\ bpc = "read"
    BY <1>2, <1>8 DEF StateInv, BgAbandon
  <2>2. bpc' = "pass" /\ UNCHANGED <<current, registered, m_is_running, fileOpen, avars, bat, hand, svars, hvars>>
    BY <1>8 DEF BgAbandon
  <2>3. RingOK'
    <3>1. CASE f.bytes <= AbandonMax
      <4>1. ring' = [ring EXCEPT ![bat] = Tail(@)]
        BY <1>8, <3>1 DEF BgAbandon
      <4> QED
        BY <1>1, <2>1, <4>1, RingTailed
    <3>2. CASE ~(f.bytes <= AbandonMax)
      <4>1. f.bytes \in Nat
        BY <1>1, <2>1, HeadOfRing
      <4>2. n \in Nat /\ n <= f.bytes
        BY <3>2, <4>1, ConstantTypes
      <4>3. ring' = [ring EXCEPT ![bat] = [@ EXCEPT ![1] = Remains(n)]]
        BY <1>8, <3>2 DEF BgAbandon
      <4> HIDE DEF n, f
      <4> QED
        BY <1>1, <2>1, <4>2, <4>3, RingShortened DEF f
    <3> QED
      BY <3>1, <3>2
  <2>4. TypeOK'
    BY <1>1, <2>2, <2>3 DEF TypeOK, RingOK, avars, svars, hvars
  <2> QED
    BY <2>1, <2>2, <2>3, <2>4 DEF StateInv, RingOK, ExitIsClean, avars
<1>9. CASE BgSave
  <2>1. bat \in Thread /\ bpc = "save" /\ bpc' = "pass" /\ hand' = <<>> /\ hand \in Seq(LineNumbers)
    BY <1>1, <1>2, <1>9 DEF StateInv, BgSave, TypeOK
  <2>2. UNCHANGED <<current, registered, ring, m_is_running, avars, bat, m_std_out, logged, refused>>
    BY <1>9 DEF BgSave
  <2>3. RingOK'
    BY <1>1, <2>2 DEF RingOK
  <2>4. saved' \in [Thread -> Seq(LineNumbers)] /\ lost' \in [Thread -> SUBSET LineNumbers] /\ fileOpen' \in BOOLEAN /\ missed' \in BOOLEAN
    <3>1. ToSet(hand) \subseteq LineNumbers
      BY <2>1 DEF ToSet
    <3>2. saved[bat] \o hand \in Seq(LineNumbers)
      BY <1>1, <2>1 DEF TypeOK
    <3>3. lost[bat] \cup ToSet(hand) \in SUBSET LineNumbers
      BY <1>1, <2>1, <3>1 DEF TypeOK
    <3> QED
      BY <1>1, <1>9, <3>2, <3>3, ConstantTypes DEF BgSave, TypeOK
  <2>5. large_log_mark' \in [Thread -> BOOLEAN] /\ screen' \in [Thread -> Seq({"text", "notice"})]
    <3>1. Echo /\ large_log_mark \in [Thread -> BOOLEAN] /\ screen \in [Thread -> Seq({"text", "notice"})]
      BY <1>1, <1>9 DEF BgSave, TypeOK
    <3>2. Append(screen[bat], "text") \in Seq({"text", "notice"}) /\ Append(screen[bat], "notice") \in Seq({"text", "notice"})
      BY <2>1, <3>1
    <3> DEFINE large == UsedLen(ring[bat]) > LargeBacklog
    <3>3. large_log_mark' \in [Thread -> BOOLEAN]
      <4>1. large \in BOOLEAN
        OBVIOUS
      <4>2. large_log_mark' = large_log_mark \/ large_log_mark' = [large_log_mark EXCEPT ![bat] = large]
        BY <3>1 DEF Echo
      <4> HIDE DEF large
      <4> QED
        BY <2>1, <3>1, <4>1, <4>2
    <3>4. screen' = screen \/ \E s \in Seq({"text", "notice"}) : screen' = [screen EXCEPT ![bat] = s]
      BY <2>1, <3>1, <3>2 DEF Echo
    <3> QED
      BY <2>1, <3>1, <3>3, <3>4
  <2>6. TypeOK'
    BY <1>1, <2>1, <2>2, <2>3, <2>4, <2>5 DEF TypeOK, RingOK, avars
  <2> QED
    BY <2>1, <2>2, <2>3, <2>6 DEF StateInv, RingOK, ExitIsClean, avars
<1> QED
  BY <1>3, <1>4, <1>5, <1>6, <1>7, <1>8, <1>9 DEF Background

(* The application.                                                        *)
LEMMA StateApplication ==
  ASSUME StateInv, Application
  PROVE  StateInv'
<1>1. TypeOK /\ RingOK
  BY DEF StateInv, RingOK, TypeOK
<1>2. CASE Join
  <2>1. hand = <<>> /\ bpc \in {"none", "exit"} /\ mpc' = "gone"
    BY <1>2 DEF Join, StateInv
  <2>2. RingOK'
    <3>1. UsedLen(<<>>) <= RingSize /\ <<>> \in Seq(FrameType) /\ DOMAIN <<>> = {}
      BY UsedNothing, ConstantTypes
    <3>2. ring' = [t \in Thread |-> <<>>]
      BY <1>2 DEF Join
    <3> QED
      BY <3>1, <3>2 DEF RingOK
  <2>3. current' \in [Thread -> [lines : Seq(LineNumbers), size : Nat]]
    <3>1. Empty \in [lines : Seq(LineNumbers), size : Nat]
      BY DEF Empty
    <3> QED
      BY <1>2, <3>1 DEF Join
  <2>4. lost' \in [Thread -> SUBSET LineNumbers]
    <3>1. \A t \in Thread : 1..logged[t] \subseteq LineNumbers
      <4> SUFFICES ASSUME NEW t \in Thread, NEW i \in 1..logged[t] PROVE i \in LineNumbers
        OBVIOUS
      <4>1. logged[t] \in LineNumbers
        BY <1>1 DEF TypeOK
      <4>2. PICK u \in Thread : logged[t] \in 1..MaxLines[u]
        BY <4>1 DEF LineNumbers
      <4>3. i \in 1..MaxLines[u]
        BY <4>2, ConstantTypes
      <4> QED
        BY <4>3 DEF LineNumbers
    <3> QED
      BY <1>2, <3>1 DEF Join
  <2>5. UNCHANGED <<registered, m_is_running, fileOpen, opens, bvars, svars, logged, saved, refused, missed>>
    BY <1>2 DEF Join
  <2>6. TypeOK'
    BY <1>1, <2>1, <2>2, <2>3, <2>4, <2>5 DEF TypeOK, RingOK, bvars, svars
  <2> QED
    BY <2>1, <2>2, <2>5, <2>6 DEF StateInv, RingOK, ExitIsClean, bvars
<1>3. ASSUME UNCHANGED <<current, registered, ring, bat, hand, large_log_mark, screen, hvars>>,
             m_is_running' \in BOOLEAN, fileOpen' \in BOOLEAN, m_std_out' \in BOOLEAN,
             mpc' \in {"idle", "opening", "exiting"}, opens' \in 0..MaxOpens,
             bpc' = bpc \/ (bpc = "none" /\ bpc' = "test")
      PROVE  StateInv'
  <2>1. RingOK'
    BY <1>1, <1>3 DEF RingOK
  <2>2. TypeOK'
    BY <1>1, <1>3, <2>1 DEF TypeOK, RingOK, hvars
  <2> QED
    BY <1>3, <2>1, <2>2 DEF StateInv, RingOK, ExitIsClean
<1>4. m_is_running \in BOOLEAN /\ fileOpen \in BOOLEAN /\ m_std_out \in BOOLEAN /\ opens \in 0..MaxOpens /\ mpc \in {"idle", "opening", "exiting", "gone"}
  BY <1>1 DEF TypeOK
<1>5. CASE OpenBegin
  <2>1. UNCHANGED <<current, registered, ring, bat, hand, large_log_mark, screen, hvars, m_std_out>> /\ opens' = opens + 1
    BY <1>5 DEF OpenBegin, svars
  <2>2. opens' \in 0..MaxOpens
    BY <1>4, <1>5, <2>1, ConstantTypes DEF OpenBegin
  <2>3. bpc' = bpc \/ (bpc = "none" /\ bpc' = "test")
    BY <1>5 DEF OpenBegin
  <2> QED
    BY <1>3, <1>4, <1>5, <2>1, <2>2, <2>3 DEF OpenBegin
<1>6. CASE OpenThrows
  BY <1>3, <1>4, <1>6, ConstantTypes DEF OpenThrows, bvars, svars
<1>7. CASE OpenEnd
  BY <1>3, <1>4, <1>7, ConstantTypes DEF OpenEnd, bvars
<1>8. CASE SetStdOut
  BY <1>3, <1>4, <1>8 DEF SetStdOut, avars, bvars
<1>9. CASE Stop
  BY <1>3, <1>4, <1>9 DEF Stop, avars, bvars, svars
<1>10. CASE ExitBegin
  BY <1>3, <1>4, <1>10 DEF ExitBegin, bvars, svars
<1> QED
  BY <1>2, <1>5, <1>6, <1>7, <1>8, <1>9, <1>10 DEF Application

(* StateInv is inductive.                                                  *)
LEMMA StateStep == StateInv /\ [Next]_vars => StateInv'
<1> SUFFICES ASSUME StateInv, [Next]_vars PROVE StateInv'
  OBVIOUS
<1>1. CASE UNCHANGED vars
  BY <1>1 DEF StateInv, TypeOK, ExitIsClean, vars, avars, bvars, svars, hvars
<1> QED
  BY <1>1, StateProduced, StateBackground, StateApplication DEF Next, Producer

-----------------------------------------------------------------------------
(* Every step moves the lines of a thread on their way, or leaves them.    *)
LEMMA WayTyped ==
  ASSUME StateInv, NEW t \in Thread
  PROVE  Way(t) \in WayType
<1>1. TypeOK /\ LineNumbers \subseteq Nat
  BY ConstantTypes DEF StateInv
<1>2. saved[t] \in Seq(Nat) /\ InHand(t) \in Seq(Nat) /\ lost[t] \in SUBSET Nat /\ logged[t] \in Nat
  <2>1. saved[t] \in Seq(LineNumbers) /\ hand \in Seq(LineNumbers) /\ lost[t] \in SUBSET LineNumbers
    BY <1>1 DEF TypeOK
  <2>2. \A s \in Seq(LineNumbers) : s \in Seq(Nat)
    BY <1>1, SeqMonotonic
  <2>3. logged[t] \in LineNumbers \/ logged[t] = 0
    BY <1>1 DEF TypeOK
  <2>4. \A n \in LineNumbers : n \in Nat
    BY <1>1
  <2>5. logged[t] \in Nat
    BY <2>3, <2>4
  <2>6. InHand(t) \in Seq(Nat)
    BY <2>1, <2>2 DEF InHand
  <2> QED
    BY <1>1, <2>1, <2>2, <2>5, <2>6
<1>3. current[t].lines \in Seq(Nat)
  <2>1. current[t].lines \in Seq(LineNumbers)
    BY <1>1 DEF TypeOK
  <2> QED
    BY <1>1, <2>1, SeqMonotonic
<1>4. RingLines(t) \in Seq(Seq(Nat))
  <2>1. ring[t] \in Seq(FrameType)
    BY <1>1 DEF TypeOK
  <2>2. \A i \in DOMAIN ring[t] : ring[t][i].lines \in Seq(Nat)
    <3> SUFFICES ASSUME NEW i \in DOMAIN ring[t] PROVE ring[t][i].lines \in Seq(Nat)
      OBVIOUS
    <3>1. ring[t][i] \in FrameType
      BY <2>1
    <3>2. ring[t][i].lines \in Seq(LineNumbers)
      BY <3>1 DEF FrameType
    <3> QED
      BY <1>1, <3>2, SeqMonotonic
  <2>3. DOMAIN ring[t] = 1..Len(ring[t]) /\ Len(ring[t]) \in Nat
    BY <2>1
  <2> DEFINE T == Seq(Nat)
  <2>4. \A i \in DOMAIN ring[t] : ring[t][i].lines \in T
    BY <2>2
  <2> HIDE DEF T
  <2>5. RingLines(t) \in Seq(T)
    BY <2>3, <2>4 DEF RingLines
  <2> QED
    BY <2>5 DEF T
<1> HIDE DEF RingLines
<1> QED
  BY <1>2, <1>3, <1>4 DEF Way, WayType

(* The lines of a ring that is replaced.                                   *)
LEMMA LinesAppended ==
  ASSUME RingOK, NEW t \in Thread, NEW f \in FrameType, ring' = [ring EXCEPT ![t] = Append(@, f)]
  PROVE  RingLines(t)' = Append(RingLines(t), f.lines)
<1> DEFINE r == ring[t]
           n == Len(r)
<1>1. r \in Seq(FrameType) /\ ring'[t] = Append(r, f) /\ RingLines(t) = [i \in DOMAIN r |-> r[i].lines]
      /\ RingLines(t)' = [i \in DOMAIN ring'[t] |-> ring'[t][i].lines]
  BY DEF RingOK, RingLines
<1> HIDE DEF r
<1>2. /\ n \in Nat /\ DOMAIN r = 1..n /\ DOMAIN ring'[t] = 1..(n + 1) /\ ring'[t][n + 1] = f
      /\ \A i \in 1..n : ring'[t][i] = r[i]
  <2> DEFINE q == Append(r, f)
  <2>1. /\ n \in Nat /\ DOMAIN r = 1..n /\ DOMAIN q = 1..(n + 1) /\ q[n + 1] = f
        /\ \A i \in 1..n : q[i] = r[i]
    BY <1>1
  <2>2. ring'[t] = q
    BY <1>1
  <2> HIDE DEF q, n
  <2> QED
    BY <2>1, <2>2
<1>3. RingLines(t) = [i \in 1..n |-> r[i].lines]
  BY <1>1, <1>2
<1>4. RingLines(t)' = [i \in 1..(n + 1) |-> IF i = n + 1 THEN f.lines ELSE r[i].lines]
  BY <1>1, <1>2
<1> HIDE DEF n
<1>5. Append([i \in 1..n |-> r[i].lines], f.lines) = [i \in 1..(n + 1) |-> IF i = n + 1 THEN f.lines ELSE r[i].lines]
  BY <1>2
<1> QED
  BY <1>3, <1>4, <1>5

(* Without its first frame a ring has lost the lines of it.                *)
LEMMA LinesTailed ==
  ASSUME RingOK, NEW t \in Thread, ring[t] # <<>>, ring' = [ring EXCEPT ![t] = Tail(@)]
  PROVE  RingLines(t) # <<>> /\ Head(RingLines(t)) = Head(ring[t]).lines /\ RingLines(t)' = Tail(RingLines(t))
<1> DEFINE r == ring[t]
           n == Len(r)
<1>1. r \in Seq(FrameType) /\ r # <<>> /\ ring'[t] = Tail(r) /\ RingLines(t) = [i \in DOMAIN r |-> r[i].lines]
      /\ RingLines(t)' = [i \in DOMAIN ring'[t] |-> ring'[t][i].lines]
  BY DEF RingOK, RingLines
<1>2. Head(ring[t]) = r[1]
  BY <1>1
<1> HIDE DEF r
<1>3. /\ n \in Nat /\ n >= 1 /\ DOMAIN r = 1..n /\ DOMAIN ring'[t] = 1..(n - 1)
      /\ \A i \in 1..(n - 1) : ring'[t][i] = r[i + 1]
  <2> DEFINE q == Tail(r)
  <2>1. /\ n \in Nat /\ n >= 1 /\ DOMAIN r = 1..n /\ DOMAIN q = 1..(n - 1)
        /\ \A i \in 1..(n - 1) : q[i] = r[i + 1]
    BY <1>1
  <2>2. ring'[t] = q
    BY <1>1
  <2> HIDE DEF q, n
  <2> QED
    BY <2>1, <2>2
<1>4. RingLines(t) = [i \in 1..n |-> r[i].lines]
  BY <1>1, <1>3
<1>5. RingLines(t)' = [i \in 1..(n - 1) |-> r[i + 1].lines]
  BY <1>1, <1>3
<1> HIDE DEF n
<1> DEFINE s == [i \in 1..n |-> r[i].lines]
<1>6. Len(s) = n /\ s # <<>> /\ Head(s) = r[1].lines
  BY <1>3
<1>7. Tail(s) = [i \in 1..(n - 1) |-> r[i + 1].lines]
  BY <1>3
<1> QED
  BY <1>2, <1>4, <1>5, <1>6, <1>7

(* What is left of a frame holds no line.                                  *)
LEMMA LinesOfRemains ==
  ASSUME RingOK, NEW t \in Thread, ring[t] # <<>>, NEW n, ring' = [ring EXCEPT ![t] = [@ EXCEPT ![1] = Remains(n)]]
  PROVE  /\ RingLines(t) # <<>> /\ Head(RingLines(t)) = Head(ring[t]).lines
         /\ RingLines(t)' = [RingLines(t) EXCEPT ![1] = <<>>]
<1> DEFINE r == ring[t]
           s == RingLines(t)
<1>1. r \in Seq(FrameType) /\ r # <<>> /\ ring'[t] = [r EXCEPT ![1] = Remains(n)] /\ s = [i \in DOMAIN r |-> r[i].lines]
      /\ s' = [i \in DOMAIN ring'[t] |-> ring'[t][i].lines]
  BY DEF RingOK, RingLines
<1>2. Head(ring[t]) = r[1]
  BY <1>1
<1>3. Remains(n).lines = <<>>
  BY DEF Remains
<1> HIDE DEF r, s
<1>4. /\ Len(r) \in Nat /\ Len(r) >= 1 /\ DOMAIN r = 1..Len(r) /\ DOMAIN ring'[t] = DOMAIN r
      /\ ring'[t][1] = Remains(n) /\ \A i \in DOMAIN r : i # 1 => ring'[t][i] = r[i]
  BY <1>1
<1>5. s = [i \in 1..Len(r) |-> r[i].lines]
  BY <1>1, <1>4
<1>6. s' = [i \in 1..Len(r) |-> IF i = 1 THEN <<>> ELSE r[i].lines]
  BY <1>1, <1>3, <1>4
<1>7. s # <<>> /\ Head(s) = r[1].lines
  BY <1>4, <1>5
<1>8. s' = [s EXCEPT ![1] = <<>>]
  BY <1>4, <1>5, <1>6
<1> QED
  BY <1>2, <1>7, <1>8 DEF s

(* A thread whose lines are not touched.                                   *)
LEMMA WayUntouched ==
  ASSUME NEW t \in Thread, saved'[t] = saved[t], InHand(t)' = InHand(t), ring'[t] = ring[t],
         current'[t] = current[t], lost'[t] = lost[t], logged'[t] = logged[t]
  PROVE  Way(t)' = Way(t)
<1>1. RingLines(t)' = RingLines(t)
  BY DEF RingLines
<1> QED
  BY <1>1 DEF Way

(* A line logged is collected or flushed, by its thread alone.             *)
LEMMA WayProduced ==
  ASSUME StateInv, NEW u \in Thread, NEW len \in LineLen[u], LogFlushed(u, len) \/ LogKept(u, len), NEW t \in Thread
  PROVE  Way(t)' = Way(t) \/ (t = u /\ Produced(Way(t), Way(t)'))
<1>1. TypeOK /\ RingOK /\ Log(u) /\ UNCHANGED <<bat, hand, saved, lost>>
  BY DEF StateInv, RingOK, TypeOK, LogFlushed, LogKept, bvars
<1>2. InHand(t)' = InHand(t) /\ saved'[t] = saved[t] /\ lost'[t] = lost[t]
  BY <1>1 DEF InHand
<1>3. CASE t # u
  <2>1. ring'[t] = ring[t] /\ current'[t] = current[t] /\ logged'[t] = logged[t]
    BY <1>1, <1>3 DEF Log, LogFlushed, LogKept, TypeOK
  <2> QED
    BY <1>2, <2>1, WayUntouched
<1>4. CASE t = u
  <2> DEFINE m == Append(current[t].lines, logged[t] + 1)
  <2>1. /\ WithLine(t, len).lines = m /\ Frame(WithLine(t, len)).lines = m
        /\ Frame(WithLine(t, len)) \in FrameType /\ logged'[t] = logged[t] + 1
    BY <1>1, <1>4, FrameWritten
  <2> HIDE DEF m
  <2>2. CASE LogFlushed(u, len)
    <3>1. ring' = [ring EXCEPT ![t] = Append(@, Frame(WithLine(t, len)))] /\ current'[t] = Empty
      BY <1>1, <1>4, <2>2 DEF LogFlushed, TypeOK
    <3>2. RingLines(t)' = Append(RingLines(t), m)
      BY <1>1, <2>1, <3>1, LinesAppended
    <3>3. current'[t].lines = <<>>
      BY <3>1 DEF Empty
    <3> HIDE DEF RingLines
    <3>4. Flushed(Way(t), Way(t)')
      BY <1>2, <2>1, <3>2, <3>3 DEF Flushed, Way, m
    <3> QED
      BY <1>4, <3>4 DEF Produced
  <2>3. CASE LogKept(u, len)
    <3>1. ring'[t] = ring[t] /\ current'[t] = WithLine(t, len)
      BY <1>1, <1>4, <2>3 DEF LogKept, TypeOK
    <3>2. RingLines(t)' = RingLines(t)
      BY <3>1 DEF RingLines
    <3>3. current'[t].lines = m
      BY <2>1, <3>1
    <3>4. Collected(Way(t), Way(t)')
      BY <1>2, <2>1, <3>2, <3>3 DEF Collected, Way, m
    <3> QED
      BY <1>4, <3>4 DEF Produced
  <2> QED
    BY <2>2, <2>3
<1> QED
  BY <1>3, <1>4

(* The background thread handles the lines of the thread it is at, if any. *)
LEMMA WayBackground ==
  ASSUME StateInv, Background, NEW t \in Thread
  PROVE  Way(t)' = Way(t) \/ (t = bat /\ Handled(Way(t), Way(t)'))
<1>1. TypeOK /\ RingOK /\ \A b \in registered : b \in Thread
  BY DEF StateInv, RingOK, TypeOK
<1>2. CASE BgTest \/ BgNext \/ BgReadNothing
  <2>1. UNCHANGED <<current, ring, logged, saved, lost, hand>> /\ hand = <<>>
    BY <1>2 DEF BgTest, BgNext, BgReadNothing, StateInv, hvars
  <2>2. InHand(t)' = InHand(t)
    BY <2>1 DEF InHand
  <2> QED
    BY <2>1, <2>2, WayUntouched
<1>3. CASE BgReadMessage
  <2>1. bat \in Thread /\ UsedLen(ring[bat]) > HeadLen /\ hand = <<>>
    BY <1>1, <1>3 DEF StateInv, BgReadMessage
  <2>2. ring' = [ring EXCEPT ![bat] = Tail(@)] /\ hand' = Head(ring[bat]).lines /\ UNCHANGED <<current, bat, logged, saved, lost>>
    BY <1>3 DEF BgReadMessage, hvars
  <2>3. CASE t = bat
    <3>1. ring[t] # <<>>
      BY <1>1, <2>1, <2>3, HeadOfRing
    <3>2. RingLines(t) # <<>> /\ Head(RingLines(t)) = hand' /\ RingLines(t)' = Tail(RingLines(t))
      BY <1>1, <2>2, <2>3, <3>1, LinesTailed
    <3>3. InHand(t) = <<>> /\ InHand(t)' = hand'
      BY <2>1, <2>2, <2>3 DEF InHand
    <3>4. Taken(Way(t), Way(t)')
      BY <2>2, <3>2, <3>3 DEF Taken, Way
    <3> QED
      BY <2>3, <3>4 DEF Handled
  <2>4. CASE t # bat
    <3>1. InHand(t)' = InHand(t) /\ ring'[t] = ring[t]
      BY <1>1, <2>1, <2>2, <2>4 DEF InHand, RingOK
    <3> QED
      BY <2>2, <3>1, WayUntouched
  <2> QED
    BY <2>3, <2>4
<1>4. CASE BgReadOverlong
  <2> DEFINE f == Head(ring[bat])
  <2>1. bat \in Thread /\ UsedLen(ring[bat]) > HeadLen /\ hand = <<>>
    BY <1>1, <1>4 DEF StateInv, BgReadOverlong
  <2>2. /\ ring' = [ring EXCEPT ![bat] = [@ EXCEPT ![1] = Remains(f.bytes - 1)]]
        /\ lost' = [lost EXCEPT ![bat] = @ \cup ToSet(f.lines)]
        /\ UNCHANGED <<current, bat, hand, logged, saved>>
    BY <1>4 DEF BgReadOverlong
  <2> DEFINE n == f.bytes - 1
  <2> HIDE DEF n
  <2>3. ring' = [ring EXCEPT ![bat] = [@ EXCEPT ![1] = Remains(n)]]
    BY <2>2 DEF n
  <2>4. InHand(t)' = InHand(t)
    BY <2>2 DEF InHand
  <2>5. CASE t = bat
    <3>1. ring[t] # <<>>
      BY <1>1, <2>1, <2>5, HeadOfRing
    <3>2. RingLines(t) # <<>> /\ Head(RingLines(t)) = f.lines /\ RingLines(t)' = [RingLines(t) EXCEPT ![1] = <<>>]
      BY <1>1, <2>3, <2>5, <3>1, LinesOfRemains
    <3>3. InHand(t) = <<>>
      BY <2>1 DEF InHand
    <3>4. lost'[t] = lost[t] \cup ToSet(f.lines)
      BY <1>1, <2>1, <2>2, <2>5 DEF TypeOK
    <3> HIDE DEF f
    <3>5. GivenUp(Way(t), Way(t)')
      BY <2>2, <2>4, <3>2, <3>3, <3>4 DEF GivenUp, Way
    <3> QED
      BY <2>5, <3>5 DEF Handled
  <2>6. CASE t # bat
    <3>1. ring'[t] = ring[t] /\ lost'[t] = lost[t]
      BY <1>1, <2>1, <2>2, <2>6 DEF RingOK, TypeOK
    <3> QED
      BY <2>2, <2>4, <3>1, WayUntouched
  <2> QED
    BY <2>5, <2>6
<1>5. CASE BgAbandon
  <2> DEFINE f == Head(ring[bat])
             n == f.bytes - AbandonMax
  <2>1. bat \in Thread /\ UsedLen(ring[bat]) > HeadLen /\ hand = <<>>
    BY <1>1, <1>5 DEF StateInv, BgAbandon
  <2>2. UNCHANGED <<current, bat, hand, logged, saved, lost>>
    BY <1>5 DEF BgAbandon, hvars
  <2>3. InHand(t)' = InHand(t)
    BY <2>2 DEF InHand
  <2>4. CASE t # bat
    <3>1. ring'[t] = ring[t]
      BY <1>1, <1>5, <2>1, <2>4 DEF BgAbandon, RingOK
    <3> QED
      BY <2>2, <2>3, <3>1, WayUntouched
  <2>5. CASE t = bat
    <3>1. ring[t] # <<>> /\ f = ring[t][1] /\ 1 \in DOMAIN ring[t]
      BY <1>1, <2>1, <2>5, HeadOfRing
    <3>2. ~f.ok
      BY <1>5 DEF BgAbandon
    <3>3. f.lines = <<>>
      BY <2>5, <3>1, <3>2 DEF StateInv
    <3>4. CASE f.bytes <= AbandonMax
      <4>1. ring' = [ring EXCEPT ![t] = Tail(@)]
        BY <1>5, <2>5, <3>4 DEF BgAbandon
      <4>2. RingLines(t) # <<>> /\ Head(RingLines(t)) = <<>> /\ RingLines(t)' = Tail(RingLines(t))
        BY <1>1, <2>5, <3>1, <3>3, <4>1, LinesTailed
      <4>3. Abandoned(Way(t), Way(t)')
        BY <2>2, <2>3, <4>2 DEF Abandoned, Way
      <4> QED
        BY <2>5, <4>3 DEF Handled
    <3>5. CASE ~(f.bytes <= AbandonMax)
      <4>1. ring' = [ring EXCEPT ![t] = [@ EXCEPT ![1] = Remains(n)]]
        BY <1>5, <2>5, <3>5 DEF BgAbandon
      <4> HIDE DEF n
      <4>2. RingLines(t) # <<>> /\ Head(RingLines(t)) = <<>> /\ RingLines(t)' = [RingLines(t) EXCEPT ![1] = <<>>]
        BY <1>1, <2>5, <3>1, <3>3, <4>1, LinesOfRemains
      <4>3. InHand(t) = <<>> /\ ToSet(<<>>) = {}
        BY <2>1 DEF InHand, ToSet
      <4>4. GivenUp(Way(t), Way(t)')
        BY <2>2, <2>3, <4>2, <4>3 DEF GivenUp, Way
      <4> QED
        BY <2>5, <4>4 DEF Handled
    <3> QED
      BY <3>4, <3>5
  <2> QED
    BY <2>4, <2>5
<1>6. CASE BgSave
  <2>1. bat \in Thread /\ hand' = <<>> /\ UNCHANGED <<current, ring, bat, logged>>
    BY <1>1, <1>6 DEF StateInv, BgSave
  <2>2. CASE t # bat
    <3>1. InHand(t)' = InHand(t) /\ saved'[t] = saved[t] /\ lost'[t] = lost[t]
      BY <1>1, <1>6, <2>1, <2>2 DEF InHand, BgSave, TypeOK
    <3> QED
      BY <2>1, <3>1, WayUntouched
  <2>3. CASE t = bat
    <3>1. InHand(t) = hand /\ InHand(t)' = <<>> /\ RingLines(t)' = RingLines(t)
      BY <2>1, <2>3 DEF InHand, RingLines
    <3>2. CASE saved' = [saved EXCEPT ![bat] = @ \o hand] /\ UNCHANGED lost
      <4>1. saved'[t] = saved[t] \o hand
        BY <1>1, <2>3, <3>2 DEF TypeOK
      <4>2. Saved(Way(t), Way(t)')
        BY <2>1, <3>1, <3>2, <4>1 DEF Saved, Way
      <4> QED
        BY <2>3, <4>2 DEF Handled
    <3>3. CASE lost' = [lost EXCEPT ![bat] = @ \cup ToSet(hand)] /\ UNCHANGED saved
      <4>1. lost'[t] = lost[t] \cup ToSet(hand)
        BY <1>1, <2>3, <3>3 DEF TypeOK
      <4>2. Missed(Way(t), Way(t)')
        BY <2>1, <3>1, <3>3, <4>1 DEF Missed, Way
      <4> QED
        BY <2>3, <4>2 DEF Handled
    <3> QED
      BY <1>6, <3>2, <3>3 DEF BgSave
  <2> QED
    BY <2>2, <2>3
<1> QED
  BY <1>2, <1>3, <1>4, <1>5, <1>6 DEF Background

(* What ~ULog() leaves.                                                    *)
LEMMA WayEnds ==
  ASSUME StateInv, Join, NEW t \in Thread
  PROVE  Ended(Way(t), Way(t)')
<1>1. /\ hand = <<>> /\ UNCHANGED <<bat, hand, logged, saved>>
      /\ ring'[t] = <<>> /\ current'[t] = Empty /\ lost'[t] = (1..logged[t]) \ ToSet(saved[t])
  BY DEF Join, StateInv, bvars
<1>2. InHand(t)' = <<>> /\ RingLines(t)' = <<>> /\ current'[t].lines = <<>>
  <2>1. [i \in DOMAIN <<>> |-> <<>>[i].lines] = <<>>
    OBVIOUS
  <2> QED
    BY <1>1, <2>1 DEF InHand, RingLines, Empty
<1> QED
  BY <1>1, <1>2 DEF Ended, Way

(* The application moves no line except at the end.                        *)
LEMMA WayApplication ==
  ASSUME StateInv, Application, NEW t \in Thread
  PROVE  Way(t)' = Way(t) \/ (Join /\ Ended(Way(t), Way(t)'))
<1>1. CASE Join
  BY <1>1, WayEnds
<1>2. CASE OpenBegin \/ OpenThrows \/ OpenEnd \/ SetStdOut \/ Stop \/ ExitBegin
  <2>1. UNCHANGED <<current, ring, logged, saved, lost, hand, bat>>
    BY <1>2 DEF OpenBegin, OpenThrows, OpenEnd, SetStdOut, Stop, ExitBegin, bvars, hvars
  <2>2. InHand(t)' = InHand(t)
    BY <2>1 DEF InHand
  <2> QED
    BY <2>1, <2>2, WayUntouched
<1> QED
  BY <1>1, <1>2 DEF Application

(* A stuttering step moves none.                                           *)
LEMMA WayStutters ==
  ASSUME UNCHANGED vars, NEW t \in Thread
  PROVE  Way(t)' = Way(t)
<1>1. InHand(t)' = InHand(t)
  BY DEF InHand, vars, bvars
<1> QED
  BY <1>1, WayUntouched DEF vars, hvars

(* What any step does to the way of a thread.                              *)
LEMMA WayMoves ==
  ASSUME StateInv, [Next]_vars, NEW t \in Thread
  PROVE  Moved(Way(t), Way(t)')
<1> HIDE DEF Way
<1> QED
  BY WayStutters, WayProduced, WayBackground, WayApplication DEF Next, Producer, Moved

(* At the beginning every way is empty.                                    *)
LEMMA WayInit == Init => WayInv
<1> SUFFICES ASSUME Init, NEW t \in Thread PROVE Ordered(Way(t)) /\ Accounted(Way(t))
  BY DEF WayInv
<1>1. /\ Way(t).saved = <<>> /\ Way(t).hand = <<>> /\ Way(t).ring = <<>> /\ Way(t).current = <<>>
      /\ Way(t).lost = {} /\ Way(t).logged = 0
  <2>1. ring[t] = <<>> /\ current[t] = Empty /\ saved[t] = <<>> /\ lost[t] = {} /\ logged[t] = 0 /\ hand = <<>>
    BY DEF Init
  <2>2. RingLines(t) = <<>> /\ InHand(t) = <<>> /\ current[t].lines = <<>>
    <3>1. [i \in DOMAIN <<>> |-> <<>>[i].lines] = <<>>
      OBVIOUS
    <3> QED
      BY <2>1, <3>1 DEF InHand, RingLines, Empty
  <2> QED
    BY <2>1, <2>2 DEF Way
<1>2. DOMAIN <<>> = {}
  OBVIOUS
<1>3. Ordered(Way(t))
  BY <1>1, <1>2, NothingIsOrdered DEF Ordered
<1>4. Kept(Way(t)) = {}
  BY <1>1, <1>2 DEF Kept, ToSet, InRing
<1>5. Accounted(Way(t))
  BY <1>1, <1>4 DEF Accounted
<1> QED
  BY <1>3, <1>5

(* The type of a way.                                                       *)
LEMMA WayTypes == StateInv => \A t \in Thread : Way(t) \in WayType
BY WayTyped

(* The same after the step.                                                *)
LEMMA WayTypesNext == StateInv' => (\A t \in Thread : Way(t) \in WayType)'
BY WayTypes, PTL

(* WayInv is inductive, given the types.                                   *)
LEMMA WayStep == StateInv /\ StateInv' /\ WayInv /\ [Next]_vars => WayInv'
<1> SUFFICES ASSUME StateInv, StateInv', WayInv, [Next]_vars, NEW t \in Thread
             PROVE  Ordered(Way(t)') /\ Accounted(Way(t)')
  BY DEF WayInv
<1>1. Way(t) \in WayType
  BY WayTyped
<1>2. Way(t)' \in WayType
  BY WayTypesNext
<1>3. Moved(Way(t), Way(t)') /\ Ordered(Way(t)) /\ Accounted(Way(t))
  BY WayMoves DEF WayInv
<1> HIDE DEF Way
<1> QED
  BY <1>1, <1>2, <1>3, StaysOrdered, StaysAccounted

-----------------------------------------------------------------------------
(* CauseInv.                                                               *)
LEMMA CauseInit == Init => CauseInv
BY DEF Init, CauseInv, CauseOf

(* A thread whose state is not touched.                                    *)
LEMMA CauseUntouched ==
  ASSUME NEW t \in Thread, CauseOf(t), current'[t] = current[t], ring'[t] = ring[t], refused'[t] = refused[t],
         lost'[t] = lost[t], missed => missed', mpc = "gone" => mpc' = "gone"
  PROVE  CauseOf(t)'
BY DEF CauseOf, Overlong

(* CauseInv is inductive, given the types.                                 *)
LEMMA CauseStep == StateInv /\ CauseInv /\ [Next]_vars => CauseInv'
<1> SUFFICES ASSUME StateInv, CauseInv, [Next]_vars, ShortLines, NEW t \in Thread PROVE CauseOf(t)'
  BY DEF CauseInv, ShortLines
<1>1. TypeOK /\ RingOK /\ CauseOf(t) /\ \A b \in registered : b \in Thread
  BY DEF StateInv, RingOK, TypeOK, CauseInv
<1>2. ASSUME NEW u \in Thread, NEW len \in LineLen[u], LogFlushed(u, len) \/ LogKept(u, len) PROVE CauseOf(t)'
  <2>1. Log(u) /\ UNCHANGED <<lost, missed, mpc>>
    BY <1>2 DEF LogFlushed, LogKept, avars
  <2>2. CASE t # u
    <3>1. current'[t] = current[t] /\ ring'[t] = ring[t] /\ refused'[t] = refused[t]
      BY <1>1, <1>2, <2>2 DEF LogFlushed, LogKept, TypeOK
    <3> QED
      BY <1>1, <2>1, <3>1, CauseUntouched
  <2>3. CASE t = u /\ LogKept(u, len)
    BY <1>1, <2>3 DEF LogKept, TypeOK, CauseOf
  <2>4. CASE t = u /\ LogFlushed(u, len) /\ refused[t]
    BY <2>4 DEF LogFlushed, CauseOf
  <2>5. CASE t = u /\ LogFlushed(u, len) /\ ~refused[t]
    <3> DEFINE f == Frame(WithLine(t, len))
    <3>1. f \in FrameType /\ f.bytes = HeadLen + (current[t].size + len) + TailLen
      BY <1>1, <2>1, <2>5, FrameWritten
    <3>2. ring'[t] = Append(ring[t], f) /\ current'[t] = Empty
      BY <1>1, <2>5 DEF LogFlushed, TypeOK
    <3> HIDE DEF f
    <3>3. current[t].size = 0
      BY <1>1, <2>5 DEF CauseOf, Empty
    <3>4. f.bytes = HeadLen + len + TailLen
      <4>1. len \in Nat
        BY ConstantTypes
      <4> QED
        BY <3>1, <3>3, <4>1, ConstantTypes
    <3>5. HeadLen + len + TailLen <= MaxExpected
      <4>1. LineLen[u] \in Range(LineLen)
        BY ULogAssumption DEF Range
      <4> QED
        BY <4>1 DEF ShortLines
    <3>6. ~Overlong(f)
      BY <3>1, <3>4, <3>5, ConstantTypes DEF Overlong, FrameType
    <3>7. ring[t] \in Seq(FrameType)
      BY <1>1 DEF RingOK
    <3> DEFINE r == Append(ring[t], f)
    <3>8. \A i \in DOMAIN r : r[i] = f \/ (i \in DOMAIN ring[t] /\ r[i] = ring[t][i])
      BY <3>1, <3>7
    <3>9. ring'[t] = r
      BY <3>2
    <3> HIDE DEF r
    <3>10. \A i \in DOMAIN r : r[i].ok => ~Overlong(r[i])
      BY <1>1, <2>5, <3>6, <3>8 DEF CauseOf
    <3>11. \A i \in DOMAIN ring'[t] : ring'[t][i].ok => ~Overlong(ring'[t][i])
      BY <3>9, <3>10
    <3>12. lost[t] # {} => missed \/ mpc = "gone"
      BY <1>1, <2>5 DEF CauseOf
    <3> QED
      BY <2>1, <3>2, <3>11, <3>12 DEF CauseOf, Overlong
  <2> QED
    BY <1>2, <2>2, <2>3, <2>4, <2>5
<1>3. CASE BgTest \/ BgNext \/ BgReadNothing
  <2>1. UNCHANGED <<current, ring, refused, lost, missed, mpc>>
    BY <1>3 DEF BgTest, BgNext, BgReadNothing, hvars, avars
  <2> QED
    BY <1>1, <2>1, CauseUntouched
<1>4. CASE BgReadMessage \/ BgAbandon \/ BgReadOverlong
  <2>1. bat \in Thread /\ UsedLen(ring[bat]) > HeadLen /\ UNCHANGED <<current, refused, missed, mpc>>
    BY <1>1, <1>4 DEF StateInv, BgReadMessage, BgAbandon, BgReadOverlong, hvars, avars
  <2>2. CASE t # bat
    <3>1. ring'[t] = ring[t] /\ lost'[t] = lost[t]
      BY <1>1, <1>4, <2>1, <2>2 DEF BgReadMessage, BgAbandon, BgReadOverlong, RingOK, TypeOK, hvars
    <3> QED
      BY <1>1, <2>1, <3>1, CauseUntouched
  <2>3. CASE t = bat /\ ~refused[t]
    <3> DEFINE r == ring[t]
    <3>1. /\ r # <<>> /\ r \in Seq(FrameType) /\ Head(r) = r[1] /\ 1 \in DOMAIN r
          /\ \A i \in DOMAIN Tail(r) : i + 1 \in DOMAIN r /\ Tail(r)[i] = r[i + 1]
      BY <1>1, <2>1, <2>3, HeadOfRing
    <3>2. \A i \in DOMAIN r : r[i].ok => ~Overlong(r[i])
      BY <1>1, <2>3 DEF CauseOf
    <3>3. ~BgReadOverlong
      BY <2>3, <3>1, <3>2 DEF BgReadOverlong
    <3>4. lost' = lost
      BY <1>4, <3>3 DEF BgReadMessage, BgAbandon, hvars
    <3>5. ring'[t] = Tail(r) \/ \E n : ring'[t] = [r EXCEPT ![1] = Remains(n)]
      BY <1>1, <1>4, <2>1, <2>3, <3>3 DEF BgReadMessage, BgAbandon, RingOK
    <3> HIDE DEF r
    <3>6. \A i \in DOMAIN Tail(r) : Tail(r)[i].ok => ~Overlong(Tail(r)[i])
      BY <3>1, <3>2
    <3>7. ASSUME NEW n PROVE \A i \in DOMAIN [r EXCEPT ![1] = Remains(n)] :
            [r EXCEPT ![1] = Remains(n)][i].ok => ~Overlong([r EXCEPT ![1] = Remains(n)][i])
      <4>1. ~Remains(n).ok
        BY DEF Remains
      <4>2. DOMAIN [r EXCEPT ![1] = Remains(n)] = DOMAIN r /\
            \A i \in DOMAIN r : [r EXCEPT ![1] = Remains(n)][i] = IF i = 1 THEN Remains(n) ELSE r[i]
        BY <3>1
      <4> QED
        BY <3>2, <4>1, <4>2
    <3>8. \A i \in DOMAIN ring'[t] : ring'[t][i].ok => ~Overlong(ring'[t][i])
      BY <3>5, <3>6, <3>7
    <3> QED
      BY <1>1, <2>1, <2>3, <3>4, <3>8 DEF CauseOf, Overlong
  <2>4. CASE t = bat /\ refused[t]
    BY <2>1, <2>4 DEF CauseOf
  <2> QED
    BY <2>2, <2>3, <2>4
<1>5. CASE BgSave
  <2>1. UNCHANGED <<current, ring, refused, mpc>>
    BY <1>5 DEF BgSave, avars
  <2>2. CASE UNCHANGED <<lost, missed>>
    BY <1>1, <2>1, <2>2, CauseUntouched
  <2>3. CASE missed'
    BY <1>1, <2>1, <2>3 DEF CauseOf, Overlong
  <2> QED
    BY <1>5, <2>2, <2>3 DEF BgSave
<1>6. CASE Join
  <2>1. mpc' = "gone" /\ current'[t] = Empty /\ ring'[t] = <<>>
    BY <1>6 DEF Join
  <2>2. DOMAIN <<>> = {}
    OBVIOUS
  <2> QED
    BY <2>1, <2>2 DEF CauseOf
<1>7. CASE OpenBegin \/ OpenThrows \/ OpenEnd \/ SetStdOut \/ Stop \/ ExitBegin
  <2>1. UNCHANGED <<current, ring, refused, lost, missed>> /\ mpc # "gone"
    BY <1>7 DEF OpenBegin, OpenThrows, OpenEnd, SetStdOut, Stop, ExitBegin, hvars
  <2> QED
    BY <1>1, <2>1, CauseUntouched
<1>8. CASE UNCHANGED vars
  BY <1>1, <1>8, CauseUntouched DEF vars, hvars, avars
<1> QED
  BY <1>2, <1>3, <1>4, <1>5, <1>6, <1>7, <1>8 DEF Next, Producer, Background, Application

-----------------------------------------------------------------------------
(* NoticesAreApart, with MarkInv.                                          *)
LEMMA NoticesInit == Init => NoticesAreApart /\ MarkInv
BY DEF Init, NoticesAreApart, MarkInv

(* NoticesAreApart is inductive with MarkInv.                              *)
LEMMA NoticesStep == StateInv /\ NoticesAreApart /\ MarkInv /\ [Next]_vars => NoticesAreApart' /\ MarkInv'
<1> SUFFICES ASSUME StateInv, NoticesAreApart, MarkInv, [Next]_vars PROVE NoticesAreApart' /\ MarkInv'
  OBVIOUS
<1>1. CASE BgSave
  <2> DEFINE Apart(s) == \A i \in 1..(Len(s) - 1) : s[i] = "notice" => s[i + 1] = "text"
             EndsWithText(s) == s # <<>> => s[Len(s)] = "text"
             T == {"text", "notice"}
  <2>1. TypeOK /\ bat \in Thread /\ Echo
    BY <1>1 DEF StateInv, TypeOK, BgSave
  <2>2. \A t \in Thread : screen[t] \in Seq(T) /\ Apart(screen[t]) /\ (~large_log_mark[t] => EndsWithText(screen[t]))
    BY <2>1 DEF TypeOK, NoticesAreApart, MarkInv
  <2>3. ASSUME NEW s \in Seq(T), NEW x \in T, Apart(s), x = "notice" => EndsWithText(s)
        PROVE  Apart(Append(s, x)) /\ (x = "text" => EndsWithText(Append(s, x)))
    <3> DEFINE r == Append(s, x)
    <3>1. Len(r) = Len(s) + 1 /\ Len(s) \in Nat /\ r[Len(s) + 1] = x /\ (\A i \in 1..Len(s) : r[i] = s[i]) /\ (Len(s) = 0 <=> s = <<>>)
      OBVIOUS
    <3>2. \A i \in 1..Len(s) : s[i] \in T
      OBVIOUS
    <3> HIDE DEF r
    <3>3. ASSUME NEW i \in 1..(Len(r) - 1), r[i] = "notice" PROVE r[i + 1] = "text"
      <4>1. CASE i = Len(s)
        BY <2>3, <3>1, <3>3, <4>1
      <4>2. CASE i < Len(s)
        <5>1. i \in 1..(Len(s) - 1) /\ i \in 1..Len(s) /\ i + 1 \in 1..Len(s)
          BY <3>1, <4>2
        <5> QED
          BY <2>3, <3>1, <3>3, <5>1
      <4> QED
        BY <3>1, <4>1, <4>2
    <3> QED
      BY <3>1, <3>3 DEF r
  <2> HIDE DEF Apart, EndsWithText
  <2>4. \A t \in Thread : Apart(screen'[t]) /\ (~large_log_mark'[t] => EndsWithText(screen'[t]))
    <3> SUFFICES ASSUME NEW t \in Thread PROVE Apart(screen'[t]) /\ (~large_log_mark'[t] => EndsWithText(screen'[t]))
      OBVIOUS
    <3>1. CASE t # bat \/ ~m_std_out
      <4>1. screen'[t] = screen[t] /\ large_log_mark'[t] = large_log_mark[t]
        BY <2>1, <3>1 DEF Echo, TypeOK
      <4> QED
        BY <2>2, <4>1
    <3>2. CASE t = bat /\ m_std_out /\ ~(UsedLen(ring[bat]) > LargeBacklog)
      <4>1. screen'[t] = Append(screen[t], "text")
        BY <2>1, <3>2 DEF Echo, TypeOK
      <4> QED
        BY <2>2, <2>3, <4>1
    <3>3. CASE t = bat /\ m_std_out /\ UsedLen(ring[bat]) > LargeBacklog
      <4>1. large_log_mark'[t]
        BY <2>1, <3>3 DEF Echo, TypeOK
      <4>2. screen'[t] = IF large_log_mark[t] THEN screen[t] ELSE Append(screen[t], "notice")
        BY <2>1, <3>3 DEF Echo, TypeOK
      <4> QED
        BY <2>2, <2>3, <4>1, <4>2
    <3> QED
      BY <3>1, <3>2, <3>3
  <2> QED
    BY <2>4 DEF NoticesAreApart, MarkInv, Apart, EndsWithText
<1>2. CASE UNCHANGED <<screen, large_log_mark>>
  BY <1>2 DEF NoticesAreApart, MarkInv
<1>3. BgSave \/ UNCHANGED <<screen, large_log_mark>>
  BY DEF Next, Producer, Background, Application, LogFlushed, LogKept, BgTest, BgNext, BgReadNothing,
         BgReadMessage, BgReadOverlong, BgAbandon, OpenBegin, OpenThrows, OpenEnd, SetStdOut, Stop,
         ExitBegin, Join, svars, vars
<1> QED
  BY <1>1, <1>2, <1>3

-----------------------------------------------------------------------------
(* IInv is an invariant, and what it says of the state follows from it.    *)
THEOREM Invariance == Spec => []IInv
<1>1. Init => IInv
  BY StateInit, CauseInit, NoticesInit, WayInit DEF IInv
<1>2. IInv /\ [Next]_vars => IInv'
  BY StateStep, CauseStep, NoticesStep, WayStep DEF IInv
<1> QED
  BY <1>1, <1>2, PTL DEF Spec

(* A thread whose backlog stays large is reported on screen once.          *)
THEOREM OneNotice == Spec => []NoticesAreApart
BY Invariance, PTL DEF IInv

(* As long as lines are short, only a file that was not open, the end of   *)
(* the process or a full ring costs one.                                   *)
THEOREM LossExplained == Spec => []LossHasCause
<1>1. IInv => LossHasCause
  BY DEF IInv, CauseInv, CauseOf, ShortLines, LossHasCause
<1> QED
  BY <1>1, Invariance, PTL

(* The places of the lines of a thread, as its way has them.               *)
LEMMA PlacesOfWay ==
  ASSUME StateInv, NEW t \in Thread
  PROVE  LET n == Len(RingLines(t)) IN
         /\ n \in Nat /\ DOMAIN RingLines(t) = 1..n
         /\ Places(t) \in Seq(Seq(Nat)) /\ DOMAIN Places(t) = 1..(n + 3)
         /\ Places(t)[1] = saved[t] /\ Places(t)[2] = InHand(t) /\ Places(t)[n + 3] = current[t].lines
         /\ \A i \in 1..n : Places(t)[i + 2] = RingLines(t)[i]
<1> DEFINE r == RingLines(t)
           s == saved[t]
           h == InHand(t)
           c == current[t].lines
           T == Seq(Nat)
<1>1. r \in Seq(T) /\ s \in T /\ h \in T /\ c \in T
  <2>1. Way(t) \in WayType
    BY WayTyped
  <2> QED
    BY <2>1 DEF Way, WayType
<1>2. Places(t) = <<s, h>> \o r \o <<c>>
  BY DEF Places, RingLines
<1> HIDE DEF r, s, h, c, T
<1> DEFINE n == Len(r)
           p == <<s, h>> \o r \o <<c>>
<1>3. /\ n \in Nat /\ DOMAIN r = 1..n /\ p \in Seq(T) /\ Len(p) = n + 3
      /\ p[1] = s /\ p[2] = h /\ p[n + 3] = c /\ \A i \in 1..n : p[i + 2] = r[i]
  <2> DEFINE a == <<s, h>>
             b == a \o r
  <2>1. a \in Seq(T) /\ Len(a) = 2 /\ a[1] = s /\ a[2] = h
    BY <1>1
  <2>2. n \in Nat /\ DOMAIN r = 1..n
    BY <1>1
  <2> HIDE DEF a, n
  <2>3. b \in Seq(T) /\ Len(b) = n + 2 /\ b[1] = s /\ b[2] = h /\ \A i \in 1..n : b[i + 2] = r[i]
    <3>1. a \in Seq(T) /\ r \in Seq(T)
      BY <1>1, <2>1
    <3>2. b \in Seq(T) /\ Len(b) = Len(a) + Len(r)
      BY <3>1, ConcatProperties, Zenon
    <3>3. \A k \in 1..(Len(a) + Len(r)) : b[k] = IF k <= Len(a) THEN a[k] ELSE r[k - Len(a)]
      BY <3>1, ConcatProperties, Zenon
    <3> HIDE DEF b
    <3>4. b[1] = s /\ b[2] = h
      BY <2>1, <2>2, <3>3 DEF n
    <3>5. ASSUME NEW i \in 1..n PROVE b[i + 2] = r[i]
      <4>1. i \in 1..Len(r) /\ i + 2 \in 1..(Len(a) + Len(r)) /\ i + 2 > Len(a) /\ (i + 2) - Len(a) = i
        BY <2>1, <2>2 DEF n
      <4> QED
        BY <2>1, <3>3, <4>1
    <3> QED
      BY <2>1, <2>2, <3>2, <3>4, <3>5 DEF n
  <2> HIDE DEF b
  <2>4. /\ b \o <<c>> \in Seq(T) /\ Len(b \o <<c>>) = n + 3 /\ (b \o <<c>>)[n + 3] = c
        /\ \A i \in 1..(n + 2) : (b \o <<c>>)[i] = b[i]
    BY <1>1, <2>2, <2>3
  <2> QED
    BY <2>2, <2>3, <2>4 DEF a, b
<1> HIDE DEF p
<1>4. DOMAIN p = 1..(n + 3)
  BY <1>3
<1>5. Places(t) = p
  BY <1>2 DEF p
<1> QED
  BY <1>3, <1>4, <1>5 DEF r, s, h, c, T

(* From m_current_log to the file the lines of a thread stay in order, the *)
(* types hold, no ring is overfull, and the end is clean.                  *)
THEOREM InOrderThroughout == Spec => []Consistent
<1>1. ASSUME IInv, NEW t \in Thread, NEW i \in DOMAIN Places(t), NEW j \in DOMAIN Places(t),
             NEW a \in DOMAIN Places(t)[i], NEW b \in DOMAIN Places(t)[j], i < j \/ (i = j /\ a < b)
      PROVE  Places(t)[i][a] < Places(t)[j][b]
  <2> DEFINE p == Places(t)
             r == RingLines(t)
             n == Len(r)
             s == saved[t]
             h == InHand(t)
             c == current[t].lines
  <2>1. /\ n \in Nat /\ DOMAIN r = 1..n /\ DOMAIN p = 1..(n + 3)
        /\ p[1] = s /\ p[2] = h /\ p[n + 3] = c /\ \A k \in 1..n : p[k + 2] = r[k]
    BY <1>1, PlacesOfWay DEF IInv
  <2>2. /\ Ascending(s) /\ Ascending(h) /\ Ascending(c)
        /\ Before(s, h) /\ Before(s, c) /\ Before(h, c)
        /\ \A k \in DOMAIN r : Ascending(r[k]) /\ Before(s, r[k]) /\ Before(h, r[k]) /\ Before(r[k], c)
        /\ \A k, l \in DOMAIN r : k < l => Before(r[k], r[l])
    BY <1>1 DEF IInv, WayInv, Ordered, Way
  <2> HIDE DEF p, r, n, s, h, c
  <2>3. \A k \in DOMAIN p : k = 1 \/ k = 2 \/ k = n + 3 \/ (k - 2 \in DOMAIN r /\ p[k] = r[k - 2])
    <3> SUFFICES ASSUME NEW k \in DOMAIN p, k # 1, k # 2, k # n + 3 PROVE k - 2 \in DOMAIN r /\ p[k] = r[k - 2]
      OBVIOUS
    <3>1. k - 2 \in 1..n /\ (k - 2) + 2 = k
      BY <2>1
    <3> QED
      BY <2>1, <3>1
  <2>4. \A k \in DOMAIN p : k \in Int /\ 1 <= k /\ k <= n + 3
    BY <2>1
  <2>5. ASSUME i = j PROVE Ascending(p[i])
    BY <2>1, <2>2, <2>3 DEF p
  <2>6. ASSUME i < j PROVE Before(p[i], p[j])
    <3>1. i \in DOMAIN p /\ j \in DOMAIN p
      BY DEF p
    <3>2. i # n + 3 /\ j # 1 /\ (j = 2 => i = 1)
      BY <2>4, <2>6, <3>1
    <3>3. CASE i = 1
      BY <2>1, <2>2, <2>3, <3>1, <3>2, <3>3
    <3>4. CASE i = 2
      BY <2>1, <2>2, <2>3, <3>1, <3>2, <3>4
    <3>5. CASE i # 1 /\ i # 2
      <4>1. i - 2 \in DOMAIN r /\ p[i] = r[i - 2]
        BY <2>3, <3>1, <3>2, <3>5
      <4>2. CASE j = n + 3
        BY <2>1, <2>2, <4>1, <4>2
      <4>3. CASE j # n + 3
        <5>1. j - 2 \in DOMAIN r /\ p[j] = r[j - 2] /\ i - 2 < j - 2
          BY <2>3, <2>4, <2>6, <3>1, <3>2, <3>5, <4>3
        <5> QED
          BY <2>2, <4>1, <5>1
      <4> QED
        BY <4>2, <4>3
    <3> QED
      BY <3>3, <3>4, <3>5
  <2> QED
    BY <1>1, <2>5, <2>6 DEF Ascending, Before, p
<1>2. IInv => InOrder
  BY <1>1 DEF InOrder
<1>3. IInv => Consistent
  BY <1>2 DEF IInv, StateInv, Consistent
<1> QED
  BY <1>3, Invariance, PTL

(* No line disappears without a trace.                                     *)
THEOREM NoneDisappears == Spec => []AllAccounted
<1>1. ASSUME IInv, NEW t \in Thread
      PROVE  UNION {ToSet(Places(t)[i]) : i \in DOMAIN Places(t)} = Kept(Way(t))
  <2> DEFINE p == Places(t)
             r == RingLines(t)
             n == Len(r)
  <2>1. /\ n \in Nat /\ DOMAIN r = 1..n /\ DOMAIN p = 1..(n + 3)
        /\ p[1] = saved[t] /\ p[2] = InHand(t) /\ p[n + 3] = current[t].lines /\ \A k \in 1..n : p[k + 2] = r[k]
    BY <1>1, PlacesOfWay DEF IInv
  <2> HIDE DEF p, n, r
  <2>2. \A k \in DOMAIN p : k = 1 \/ k = 2 \/ k = n + 3 \/ (k - 2 \in DOMAIN r /\ p[k] = r[k - 2])
    <3> SUFFICES ASSUME NEW k \in DOMAIN p, k # 1, k # 2, k # n + 3 PROVE k - 2 \in DOMAIN r /\ p[k] = r[k - 2]
      OBVIOUS
    <3>1. k - 2 \in 1..n /\ (k - 2) + 2 = k
      BY <2>1
    <3> QED
      BY <2>1, <3>1
  <2>3. 1 \in DOMAIN p /\ 2 \in DOMAIN p /\ n + 3 \in DOMAIN p /\ \A k \in DOMAIN r : k + 2 \in DOMAIN p /\ p[k + 2] = r[k]
    BY <2>1
  <2>4. UNION {ToSet(p[k]) : k \in DOMAIN p} =
          ToSet(saved[t]) \cup ToSet(InHand(t)) \cup (UNION {ToSet(r[k]) : k \in DOMAIN r}) \cup ToSet(current[t].lines)
    BY <2>1, <2>2, <2>3
  <2> QED
    BY <2>4 DEF Kept, InRing, Way, p, r
<1>2. IInv => AllAccounted
  <2> SUFFICES ASSUME IInv, NEW t \in Thread
               PROVE  LET kept == UNION {ToSet(Places(t)[i]) : i \in DOMAIN Places(t)}
                      IN  kept \cup lost[t] = 1..logged[t] /\ kept \cap lost[t] = {}
    BY DEF AllAccounted
  <2>1. Accounted(Way(t)) /\ Way(t).lost = lost[t] /\ Way(t).logged = logged[t]
    BY DEF IInv, WayInv, Way
  <2> QED
    BY <1>1, <2>1 DEF Accounted
<1> QED
  BY <1>2, Invariance, PTL

-----------------------------------------------------------------------------
(* The lines on the way to the file, as they are in its places.            *)
Pending(p) == (p.hand \o FlattenSeq(p.ring)) \o p.current

(* \o is associative.                                                      *)
LEMMA Regrouped ==
  ASSUME NEW a \in Seq(Nat), NEW b \in Seq(Nat), NEW c \in Seq(Nat)
  PROVE  (a \o b) \o c = a \o (b \o c)
BY ConcatAssociative

(* The type of what is joined.                                             *)
LEMMA JoinedType ==
  ASSUME NEW a \in Seq(Nat), NEW b \in Seq(Nat)
  PROVE  a \o b \in Seq(Nat)
OBVIOUS

(* A last element is that of what is joined.                               *)
LEMMA LastOfJoined ==
  ASSUME NEW a \in Seq(Nat), NEW b \in Seq(Nat), NEW x \in Nat
  PROVE  a \o Append(b, x) = Append(a \o b, x)
BY Z3

(* The two parts of a sequence that was joined.                            *)
LEMMA FrontAndRest ==
  ASSUME NEW S, NEW a \in Seq(S), NEW b \in Seq(S)
  PROVE  /\ Len(a) \in 0..Len(a \o b)
         /\ SubSeq(a \o b, 1, Len(a)) = a
         /\ SubSeq(a \o b, Len(a) + 1, Len(a \o b)) = b
<1> DEFINE s == a \o b
           m == Len(a)
           n == Len(b)
<1>1. /\ s \in Seq(S) /\ m \in Nat /\ n \in Nat /\ Len(s) = m + n
      /\ a \in Seq(S) /\ b \in Seq(S) /\ Len(a) = m /\ Len(b) = n
  BY ConcatProperties
<1>2. \A i \in 1..(m + n) : s[i] = IF i <= m THEN a[i] ELSE b[i - m]
  BY ConcatProperties, Zenon
<1> HIDE DEF s, m, n
<1>3. SubSeq(s, 1, m) = a
  <2> DEFINE f == SubSeq(s, 1, m)
  <2>1. f \in Seq(S) /\ Len(f) = m /\ \A i \in 1..m : f[i] = s[i]
    BY <1>1
  <2> HIDE DEF f
  <2>2. \A i \in 1..m : f[i] = a[i]
    BY <1>1, <1>2, <2>1
  <2>3. f = a
    BY <1>1, <2>1, <2>2
  <2> QED
    BY <2>3 DEF f
<1>4. SubSeq(s, m + 1, m + n) = b
  <2> DEFINE f == SubSeq(s, m + 1, m + n)
  <2>1. f \in Seq(S) /\ Len(f) = n /\ \A i \in 1..n : f[i] = s[m + i]
    BY <1>1
  <2> HIDE DEF f
  <2>2. \A i \in 1..n : f[i] = b[i]
    <3>1. \A i \in 1..n : m + i \in 1..(m + n) /\ ~(m + i <= m) /\ (m + i) - m = i
      BY <1>1
    <3> QED
      BY <1>2, <2>1, <3>1
  <2>3. f = b
    BY <1>1, <2>1, <2>2
  <2> QED
    BY <2>3 DEF f
<1> QED
  BY <1>1, <1>3, <1>4 DEF s, m, n

(* The parts of a way have their types.                                    *)
LEMMA PendingType ==
  ASSUME NEW p \in WayType
  PROVE  /\ p.hand \in Seq(Nat) /\ p.ring \in Seq(Seq(Nat)) /\ p.current \in Seq(Nat) /\ p.saved \in Seq(Nat)
         /\ p.logged \in Nat /\ FlattenSeq(p.ring) \in Seq(Nat) /\ Pending(p) \in Seq(Nat)
<1>1. /\ p.hand \in Seq(Nat) /\ p.ring \in Seq(Seq(Nat)) /\ p.current \in Seq(Nat) /\ p.saved \in Seq(Nat)
      /\ p.logged \in Nat
  BY DEF WayType
<1>2. FlattenSeq(p.ring) \in Seq(Nat)
  BY <1>1, FlattenType
<1>3. Pending(p) \in Seq(Nat)
  BY <1>1, <1>2, JoinedType DEF Pending
<1> QED
  BY <1>1, <1>2, <1>3

(* A line logged comes last, whether it was flushed or not.                *)
LEMMA PendingProduced ==
  ASSUME NEW p \in WayType, NEW q \in WayType, Produced(p, q)
  PROVE  Pending(q) = Append(Pending(p), p.logged + 1) /\ q.logged = p.logged + 1 /\ q.saved = p.saved
<1> DEFINE h == p.hand
           f == FlattenSeq(p.ring)
           c == p.current
           x == p.logged + 1
<1>1. h \in Seq(Nat) /\ f \in Seq(Nat) /\ c \in Seq(Nat) /\ x \in Nat /\ p.ring \in Seq(Seq(Nat))
  BY PendingType
<1>2. q.logged = x /\ q.saved = p.saved /\ q.hand = h
  BY DEF Produced, Collected, Flushed
<1>3. Collected(p, q) => q.ring = p.ring /\ q.current = Append(c, x)
  BY DEF Collected
<1>4. Flushed(p, q) => q.ring = Append(p.ring, Append(c, x)) /\ q.current = <<>>
  BY DEF Flushed
<1>5. Append(c, x) \in Seq(Nat)
  BY <1>1
<1>6. FlattenSeq(Append(p.ring, Append(c, x))) = f \o Append(c, x)
  BY <1>1, <1>5, FlattenAppend
<1>7. Pending(p) = (h \o f) \o c
  BY DEF Pending
<1>8. Pending(q) = (h \o f) \o Append(c, x) \/ Pending(q) = (h \o (f \o Append(c, x))) \o <<>>
  BY <1>2, <1>3, <1>4, <1>6 DEF Pending, Produced
<1> HIDE DEF h, f, c, x
<1> DEFINE g == h \o f
<1>9. g \in Seq(Nat) /\ h \o (f \o Append(c, x)) = g \o Append(c, x) /\ g \o Append(c, x) \in Seq(Nat)
  <2> DEFINE e == Append(c, x)
  <2>1. h \in Seq(Nat) /\ f \in Seq(Nat) /\ e \in Seq(Nat)
    BY <1>1, <1>5
  <2> HIDE DEF e
  <2>2. g \in Seq(Nat)
    BY <2>1, JoinedType, Zenon
  <2>3. (h \o f) \o e = h \o (f \o e)
    BY <2>1, Regrouped, Zenon
  <2>4. g \o e \in Seq(Nat)
    BY <2>1, <2>2, JoinedType, Zenon
  <2> QED
    BY <2>2, <2>3, <2>4 DEF e
<1>10. g \o Append(c, x) = Append(g \o c, x)
  <2> HIDE DEF g
  <2> QED
    BY <1>1, <1>9, LastOfJoined, Zenon
<1>11. (g \o Append(c, x)) \o <<>> = g \o Append(c, x)
  <2> DEFINE y == g \o Append(c, x)
  <2>1. y \in Seq(Nat)
    BY <1>9
  <2> HIDE DEF y
  <2>2. y \o <<>> = y
    BY <2>1
  <2> QED
    BY <2>2 DEF y
<1> HIDE DEF g
<1>12. Pending(q) = Append(g \o c, x)
  BY <1>8, <1>9, <1>10, <1>11 DEF g
<1> QED
  BY <1>2, <1>7, <1>12 DEF g, x

(* Nothing at the front of a sequence of sequences adds nothing, and what  *)
(* is there comes first.                                                   *)
LEMMA FlattenHead ==
  ASSUME NEW r \in Seq(Seq(Nat)), r # <<>>
  PROVE  /\ Head(r) \in Seq(Nat) /\ Tail(r) \in Seq(Seq(Nat)) /\ FlattenSeq(Tail(r)) \in Seq(Nat)
         /\ FlattenSeq(r) = Head(r) \o FlattenSeq(Tail(r))
         /\ Head(r) = <<>> => FlattenSeq(r) = FlattenSeq(Tail(r))
         /\ FlattenSeq([r EXCEPT ![1] = <<>>]) = FlattenSeq(Tail(r))
<1> DEFINE x == FlattenSeq(Tail(r))
           e == [r EXCEPT ![1] = <<>>]
<1>1. Head(r) \in Seq(Nat) /\ Tail(r) \in Seq(Seq(Nat))
  OBVIOUS
<1>2. x \in Seq(Nat)
  BY <1>1, FlattenType
<1>3. FlattenSeq(r) = Head(r) \o x
  BY FlattenTail
<1>4. <<>> \o x = x
  <2> HIDE DEF x
  <2> QED
    BY <1>2
<1>5. e \in Seq(Seq(Nat)) /\ e # <<>> /\ Head(e) = <<>> /\ Tail(e) = Tail(r)
  <2>1. <<>> \in Seq(Nat) /\ Len(r) \in Nat /\ Len(r) >= 1
    OBVIOUS
  <2>2. e \in Seq(Seq(Nat)) /\ Len(e) = Len(r) /\ e[1] = <<>> /\ \A i \in 2..Len(r) : e[i] = r[i]
    BY <2>1
  <2> DEFINE y == Tail(e)
             z == Tail(r)
  <2> HIDE DEF e
  <2>3. e # <<>> /\ Head(e) = <<>>
    BY <2>1, <2>2
  <2>4. y \in Seq(Seq(Nat)) /\ Len(y) = Len(r) - 1 /\ \A i \in 1..(Len(r) - 1) : y[i] = e[i + 1]
    BY <2>1, <2>2, <2>3
  <2>5. z \in Seq(Seq(Nat)) /\ Len(z) = Len(r) - 1 /\ \A i \in 1..(Len(r) - 1) : z[i] = r[i + 1]
    BY <2>1
  <2>6. \A i \in 1..(Len(r) - 1) : e[i + 1] = r[i + 1]
    BY <2>1, <2>2
  <2> HIDE DEF y, z
  <2>7. y = z
    <3>1. Len(y) = Len(z) /\ \A i \in 1..Len(y) : y[i] = z[i]
      BY <2>4, <2>5, <2>6
    <3>2. y \in Seq(Seq(Nat)) /\ z \in Seq(Seq(Nat))
      BY <2>4, <2>5
    <3> QED
      BY <3>1, <3>2, SeqEqual
  <2> QED
    BY <2>2, <2>3, <2>7 DEF y, z
<1> HIDE DEF e
<1>6. FlattenSeq(e) = Head(e) \o FlattenSeq(Tail(e))
  BY <1>5, FlattenTail
<1> QED
  BY <1>1, <1>2, <1>3, <1>4, <1>5, <1>6 DEF x, e

(* The first k of the lines on their way leave them, for the file or not,  *)
(* and nothing else changes.                                               *)
FrontLeaves(p, q) ==
  \E k \in 0..Len(Pending(p)) :
    /\ Pending(q) = SubSeq(Pending(p), k + 1, Len(Pending(p)))
    /\ q.saved = p.saved \/ q.saved = p.saved \o SubSeq(Pending(p), 1, k)

(* None leaves, or those of the first of two parts.                        *)
LEMMA NothingLeaves ==
  ASSUME NEW p \in WayType, NEW q, Pending(q) = Pending(p), q.saved = p.saved
  PROVE  FrontLeaves(p, q)
<1> DEFINE s == Pending(p)
<1>1. s \in Seq(Nat)
  BY PendingType
<1> HIDE DEF s
<1>2. SubSeq(s, 0 + 1, Len(s)) = s /\ 0 \in 0..Len(s)
  BY <1>1
<1> QED
  BY <1>2 DEF FrontLeaves, s

(* The lines of the first of two parts leave.                              *)
LEMMA PartLeaves ==
  ASSUME NEW p, NEW q, NEW a \in Seq(Nat), NEW b \in Seq(Nat), Pending(p) = a \o b, Pending(q) = b,
         q.saved = p.saved \/ q.saved = p.saved \o a
  PROVE  FrontLeaves(p, q)
<1> DEFINE s == a \o b
           k == Len(a)
<1>1. k \in 0..Len(s) /\ SubSeq(s, 1, k) = a /\ SubSeq(s, k + 1, Len(s)) = b
  BY FrontAndRest
<1> HIDE DEF s, k
<1>2. Pending(p) = s
  BY DEF s
<1> QED
  BY <1>1, <1>2 DEF FrontLeaves

(* What the background thread does to the lines on their way.              *)
LEMMA PendingHandled ==
  ASSUME NEW p \in WayType, NEW q \in WayType, Handled(p, q)
  PROVE  q.logged = p.logged /\ FrontLeaves(p, q)
<1> DEFINE h == p.hand
           f == FlattenSeq(p.ring)
           c == p.current
<1>1. h \in Seq(Nat) /\ f \in Seq(Nat) /\ c \in Seq(Nat) /\ p.ring \in Seq(Seq(Nat))
  BY PendingType
<1>2. q.current = c /\ q.logged = p.logged
  BY DEF Handled, Taken, GivenUp, Abandoned, Saved, Missed
<1>3. Pending(p) = (h \o f) \o c
  BY DEF Pending
<1>4. <<>> \o f = f
  <2> HIDE DEF f
  <2> QED
    BY <1>1
<1>5. CASE Taken(p, q)
  <2>1. p.ring # <<>> /\ h = <<>> /\ q.hand = Head(p.ring) /\ q.ring = Tail(p.ring) /\ q.saved = p.saved
    BY <1>5 DEF Taken
  <2>2. q.hand \o FlattenSeq(q.ring) = f
    BY <1>1, <2>1, FlattenHead
  <2>3. Pending(q) = Pending(p)
    BY <1>2, <1>3, <1>4, <2>1, <2>2 DEF Pending
  <2> QED
    BY <1>2, <2>1, <2>3, NothingLeaves
<1>6. CASE GivenUp(p, q)
  <2> DEFINE a == Head(p.ring)
             g == FlattenSeq(Tail(p.ring))
             b == g \o c
  <2>1. p.ring # <<>> /\ h = <<>> /\ q.hand = <<>> /\ q.ring = [p.ring EXCEPT ![1] = <<>>] /\ q.saved = p.saved
    BY <1>6 DEF GivenUp
  <2>2. a \in Seq(Nat) /\ g \in Seq(Nat) /\ f = a \o g /\ FlattenSeq(q.ring) = g
    BY <1>1, <2>1, FlattenHead
  <2>3. Pending(q) = (<<>> \o g) \o c
    BY <1>2, <2>1, <2>2 DEF Pending
  <2>4. Pending(p) = (a \o g) \o c
    BY <1>3, <1>4, <2>1, <2>2
  <2>5. a \in Seq(Nat) /\ g \in Seq(Nat) /\ c \in Seq(Nat)
    BY <1>1, <2>2
  <2> HIDE DEF a, g, f, c, h
  <2>6. <<>> \o g = g
    BY <2>5
  <2>7. (a \o g) \o c = a \o (g \o c)
    BY <2>5, Regrouped, Zenon
  <2>8. b \in Seq(Nat)
    BY <2>5, JoinedType, Zenon
  <2>9. Pending(p) = a \o b /\ Pending(q) = b
    BY <2>3, <2>4, <2>6, <2>7
  <2> HIDE DEF b
  <2>10. q.saved = p.saved \/ q.saved = p.saved \o a
    BY <2>1
  <2> QED
    BY <1>2, <2>5, <2>8, <2>9, <2>10, PartLeaves
<1>7. CASE Abandoned(p, q)
  <2>1. p.ring # <<>> /\ Head(p.ring) = <<>> /\ q.hand = h /\ q.ring = Tail(p.ring) /\ q.saved = p.saved
    BY <1>7 DEF Abandoned
  <2>2. FlattenSeq(q.ring) = f
    BY <1>1, <2>1, FlattenHead
  <2>3. Pending(q) = Pending(p)
    BY <1>2, <1>3, <2>1, <2>2 DEF Pending
  <2> QED
    BY <1>2, <2>1, <2>3, NothingLeaves
<1>8. CASE Saved(p, q) \/ Missed(p, q)
  <2> DEFINE b == f \o c
  <2>1. q.hand = <<>> /\ q.ring = p.ring /\ (q.saved = p.saved \/ q.saved = p.saved \o h)
    BY <1>8 DEF Saved, Missed
  <2>2. Pending(q) = (<<>> \o f) \o c
    BY <1>2, <2>1 DEF Pending
  <2>3. h \in Seq(Nat) /\ f \in Seq(Nat) /\ c \in Seq(Nat)
    BY <1>1
  <2> HIDE DEF h, f, c
  <2>4. (h \o f) \o c = h \o (f \o c)
    BY <2>3, Regrouped, Zenon
  <2>5. b \in Seq(Nat)
    BY <2>3, JoinedType, Zenon
  <2>6. Pending(p) = h \o b /\ Pending(q) = b
    BY <1>3, <1>4, <2>2, <2>4
  <2> HIDE DEF b
  <2> QED
    BY <1>2, <2>1, <2>3, <2>5, <2>6, PartLeaves
<1> QED
  BY <1>5, <1>6, <1>7, <1>8 DEF Handled

(* The pending lines of ThreadLogs are those of the way.                   *)
LEMMA PendingOfWay ==
  ASSUME StateInv, NEW t \in Thread
  PROVE  OnTheWay(t) = Pending(Way(t)) /\ Way(t) \in WayType
<1> DEFINE r == RingLines(t)
           h == InHand(t)
           c == current[t].lines
           p == Places(t)
           q == Tail(p)
           T == Seq(Nat)
<1>1. Way(t) \in WayType
  BY WayTyped
<1>2. r \in Seq(T) /\ h \in T /\ c \in T
  BY <1>1 DEF Way, WayType
<1>3. /\ Len(r) \in Nat /\ p \in Seq(T) /\ DOMAIN p = 1..(Len(r) + 3)
      /\ p[2] = h /\ p[Len(r) + 3] = c /\ \A i \in 1..Len(r) : p[i + 2] = r[i]
  BY PlacesOfWay
<1> DEFINE n == Len(r)
<1> HIDE DEF p, r, h, c, T
<1>4. q \in Seq(T) /\ Len(q) = n + 2 /\ \A i \in 1..(n + 2) : q[i] = p[i + 1]
  <2>1. Len(p) = n + 3
    BY <1>3
  <2> QED
    BY <1>3, <2>1
<1> HIDE DEF q
<1>5. q # <<>> /\ Head(q) = h
  BY <1>3, <1>4
<1> DEFINE u == Tail(q)
           v == Append(r, c)
<1>6. u = v
  <2>1. u \in Seq(T) /\ Len(u) = n + 1 /\ \A i \in 1..(n + 1) : u[i] = q[i + 1]
    BY <1>3, <1>4, <1>5
  <2>2. v \in Seq(T) /\ Len(v) = n + 1 /\ v[n + 1] = c /\ \A i \in 1..n : v[i] = r[i]
    BY <1>2, <1>3, AppendProperties
  <2> HIDE DEF u, v
  <2>3. ASSUME NEW i \in 1..(n + 1) PROVE u[i] = v[i]
    <3>1. i \in Int /\ i + 1 \in 1..(n + 2) /\ (i + 1) + 1 = i + 2 /\ (i = n + 1 \/ i \in 1..n)
      BY <1>3
    <3>2. u[i] = p[i + 2]
      BY <1>4, <2>1, <3>1
    <3>3. CASE i = n + 1
      <4>1. i + 2 = n + 3
        BY <1>3, <3>3
      <4> QED
        BY <1>3, <2>2, <3>2, <3>3, <4>1
    <3>4. CASE i \in 1..n
      BY <1>3, <2>2, <3>2, <3>4
    <3> QED
      BY <3>1, <3>3, <3>4
  <2> HIDE DEF n
  <2>4. \A i \in 1..(n + 1) : u[i] = v[i]
    BY <2>3
  <2> QED
    BY <2>1, <2>2, <2>4
<1>7. FlattenSeq(q) = h \o FlattenSeq(u)
  BY <1>4, <1>5, FlattenTail DEF T
<1>8. FlattenSeq(v) = FlattenSeq(r) \o c
  BY <1>2, FlattenAppend DEF T
<1>9. FlattenSeq(r) \in Seq(Nat) /\ h \in Seq(Nat) /\ c \in Seq(Nat)
  BY <1>2, FlattenType DEF T
<1>10. (h \o FlattenSeq(r)) \o c = h \o (FlattenSeq(r) \o c)
  <2> DEFINE f == FlattenSeq(r)
  <2>1. f \in Seq(Nat) /\ h \in Seq(Nat) /\ c \in Seq(Nat)
    BY <1>9
  <2> HIDE DEF f
  <2>2. (h \o f) \o c = h \o (f \o c)
    BY <2>1, Regrouped, Zenon
  <2> QED
    BY <2>2 DEF f
<1>11. FlattenSeq(q) = (h \o FlattenSeq(r)) \o c
  BY <1>6, <1>7, <1>8, <1>10
<1>12. Pending(Way(t)) = (h \o FlattenSeq(r)) \o c
  BY DEF Pending, Way, h, r, c
<1> QED
  BY <1>1, <1>11, <1>12 DEF OnTheWay, q, p

(* The variables of ThreadLogs in terms of the ways.                       *)
LEMMA LogsOfWay ==
  StateInv => /\ \A t \in Thread : OnTheWay(t) = Pending(Way(t)) /\ Way(t) \in WayType
              /\ logged = [t \in Thread |-> Way(t).logged] /\ saved = [t \in Thread |-> Way(t).saved]
<1> SUFFICES ASSUME StateInv
             PROVE  /\ \A t \in Thread : OnTheWay(t) = Pending(Way(t)) /\ Way(t) \in WayType
                    /\ logged = [t \in Thread |-> Way(t).logged] /\ saved = [t \in Thread |-> Way(t).saved]
  OBVIOUS
<1>1. logged = [t \in Thread |-> Way(t).logged] /\ saved = [t \in Thread |-> Way(t).saved]
  <2>1. logged = [t \in Thread |-> logged[t]] /\ saved = [t \in Thread |-> saved[t]]
    BY DEF StateInv, TypeOK
  <2>2. \A t \in Thread : Way(t).logged = logged[t] /\ Way(t).saved = saved[t]
    BY DEF Way
  <2> QED
    BY <2>1, <2>2
<1> HIDE DEF Way
<1> QED
  BY <1>1, PendingOfWay

(* The same after the step.                                                *)
LEMMA LogsOfWayNext ==
  StateInv' => (/\ \A t \in Thread : OnTheWay(t) = Pending(Way(t)) /\ Way(t) \in WayType
                /\ logged = [t \in Thread |-> Way(t).logged] /\ saved = [t \in Thread |-> Way(t).saved])'
BY LogsOfWay, PTL

(* While the lines of one thread move, those of the others stay: ThreadLogs *)
(* takes the same step, or none.                                           *)
LEMMA OneThreadMoves ==
  ASSUME StateInv, StateInv', NEW u \in Thread,
         \A t \in Thread : t # u => Way(t)' = Way(t),
         Way(u)' = Way(u) \/ Produced(Way(u), Way(u)') \/ Handled(Way(u), Way(u)')
  PROVE  [Logs!Next]_Logs!vars
<1> DEFINE P == [t \in Thread |-> OnTheWay(t)]
           w == Way(u)
           x == Way(u)'
           s == Pending(w)
<1>1. /\ P = [t \in Thread |-> Pending(Way(t))] /\ w \in WayType
      /\ logged = [t \in Thread |-> Way(t).logged] /\ saved = [t \in Thread |-> Way(t).saved]
  BY LogsOfWay
<1>2. /\ P' = [t \in Thread |-> Pending(Way(t)')] /\ x \in WayType
      /\ logged' = [t \in Thread |-> Way(t)'.logged] /\ saved' = [t \in Thread |-> Way(t)'.saved]
  BY LogsOfWayNext
<1> HIDE DEF Way
<1>3. /\ P' = [P EXCEPT ![u] = Pending(x)]
      /\ logged' = [logged EXCEPT ![u] = x.logged] /\ saved' = [saved EXCEPT ![u] = x.saved]
  BY <1>1, <1>2
<1>4. P[u] = s /\ logged[u] = w.logged /\ saved[u] = w.saved
  BY <1>1
<1> HIDE DEF s, w, x
<1>5. CASE x = w
  <2>1. P' = P /\ logged' = logged /\ saved' = saved
    BY <1>1, <1>3, <1>4, <1>5 DEF s
  <2> QED
    BY <2>1 DEF Logs!vars
<1>6. CASE Produced(w, x)
  <2>1. Pending(x) = Append(s, w.logged + 1) /\ x.logged = w.logged + 1 /\ x.saved = w.saved
    BY <1>1, <1>2, <1>6, PendingProduced DEF s
  <2>2. logged' = [logged EXCEPT ![u] = logged[u] + 1] /\ logged'[u] = w.logged + 1
    BY <1>1, <1>3, <1>4, <2>1
  <2>3. P' = [P EXCEPT ![u] = Append(P[u], logged'[u])]
    BY <1>3, <1>4, <2>1, <2>2
  <2>4. saved' = saved
    BY <1>1, <1>3, <1>4, <2>1
  <2>5. Logs!Log(u)
    BY <2>2, <2>3, <2>4 DEF Logs!Log
  <2> QED
    BY <2>5 DEF Logs!Next
<1>7. CASE Handled(w, x)
  <2>1. x.logged = w.logged /\ FrontLeaves(w, x)
    BY <1>1, <1>2, <1>7, PendingHandled
  <2>2. PICK k \in 0..Len(s) :
          Pending(x) = SubSeq(s, k + 1, Len(s)) /\ (x.saved = w.saved \/ x.saved = w.saved \o SubSeq(s, 1, k))
    BY <2>1 DEF FrontLeaves, s
  <2>3. logged' = logged
    BY <1>1, <1>3, <1>4, <2>1
  <2>4. s \in Seq(Nat) /\ w.saved \in Seq(Nat)
    BY <1>1, PendingType DEF s
  <2>5. CASE k = 0
    <3>1. SubSeq(s, k + 1, Len(s)) = s /\ w.saved \o SubSeq(s, 1, k) = w.saved
      BY <2>4, <2>5
    <3>2. P' = P /\ saved' = saved
      BY <1>1, <1>3, <1>4, <2>2, <3>1
    <3> QED
      BY <2>3, <3>2 DEF Logs!vars
  <2>6. CASE k # 0
    <3>1. k \in 1..Len(P[u])
      BY <1>4, <2>4, <2>6
    <3>2. Logs!Leave(u, k)
      BY <1>3, <1>4, <2>2 DEF Logs!Leave
    <3>3. CASE x.saved = w.saved
      <4>1. saved' = saved
        BY <1>1, <1>3, <1>4, <3>3
      <4> QED
        BY <2>3, <3>1, <3>2, <4>1 DEF Logs!Lose, Logs!Next
    <3>4. CASE x.saved = w.saved \o SubSeq(s, 1, k)
      <4>1. saved' = [saved EXCEPT ![u] = saved[u] \o SubSeq(P[u], 1, k)]
        BY <1>3, <1>4, <3>4
      <4> QED
        BY <2>3, <3>1, <3>2, <4>1 DEF Logs!Save, Logs!Next
    <3> QED
      BY <2>2, <3>3, <3>4
  <2> QED
    BY <2>5, <2>6
<1> QED
  BY <1>5, <1>6, <1>7 DEF w, x

(* Each thread gets what ThreadLogs promises.                              *)
THEOREM LogsAreKept == Spec => LogsSpec
<1>1. Init => Logs!Init
  <2> SUFFICES ASSUME Init PROVE Logs!Init
    OBVIOUS
  <2>1. StateInv /\ \A t \in Thread : OnTheWay(t) = Pending(Way(t))
    BY StateInit, LogsOfWay
  <2>2. ASSUME NEW t \in Thread PROVE Pending(Way(t)) = <<>>
    <3>1. ring[t] = <<>> /\ current[t] = Empty /\ hand = <<>>
      BY DEF Init
    <3>2. [i \in DOMAIN <<>> |-> <<>>[i].lines] = <<>>
      OBVIOUS
    <3>3. Way(t).ring = <<>> /\ Way(t).hand = <<>> /\ Way(t).current = <<>>
      BY <3>1, <3>2 DEF Way, RingLines, InHand, Empty
    <3>4. (<<>> \o <<>>) \o <<>> = <<>>
      OBVIOUS
    <3> QED
      BY <3>3, <3>4, FlattenEmpty DEF Pending
  <2>3. [t \in Thread |-> OnTheWay(t)] = [t \in Thread |-> <<>>]
    BY <2>1, <2>2
  <2> QED
    BY <2>3 DEF Init, Logs!Init
<1>2. IInv /\ IInv' /\ [Next]_vars => [Logs!Next]_Logs!vars
  <2> SUFFICES ASSUME StateInv, StateInv', [Next]_vars PROVE [Logs!Next]_Logs!vars
    BY DEF IInv
  <2> DEFINE P == [t \in Thread |-> OnTheWay(t)]
  <2>1. /\ P = [t \in Thread |-> Pending(Way(t))]
        /\ logged = [t \in Thread |-> Way(t).logged] /\ saved = [t \in Thread |-> Way(t).saved]
    BY LogsOfWay
  <2>2. /\ P' = [t \in Thread |-> Pending(Way(t)')]
        /\ logged' = [t \in Thread |-> Way(t)'.logged] /\ saved' = [t \in Thread |-> Way(t)'.saved]
    BY LogsOfWayNext
  <2> HIDE DEF Way
  <2>3. ASSUME \A t \in Thread : Way(t)' = Way(t) PROVE [Logs!Next]_Logs!vars
    <3>1. P' = P /\ logged' = logged /\ saved' = saved
      BY <2>1, <2>2, <2>3
    <3> QED
      BY <3>1 DEF Logs!vars
  <2>4. CASE Producer
    <3>1. PICK u \in Thread : \E len \in LineLen[u] : LogFlushed(u, len) \/ LogKept(u, len)
      BY <2>4 DEF Producer
    <3>2. \A t \in Thread : Way(t)' = Way(t) \/ (t = u /\ Produced(Way(t), Way(t)'))
      BY <3>1, WayProduced
    <3> QED
      BY <3>2, OneThreadMoves
  <2>5. CASE Background
    <3>1. \A t \in Thread : Way(t)' = Way(t) \/ (t = bat /\ Handled(Way(t), Way(t)'))
      BY <2>5, WayBackground
    <3>2. CASE bat \in Thread
      BY <3>1, <3>2, OneThreadMoves
    <3>3. CASE bat \notin Thread
      BY <2>3, <3>1, <3>3
    <3> QED
      BY <3>2, <3>3
  <2>6. CASE Join
    <3>1. \A t \in Thread : Ended(Way(t), Way(t)')
      BY <2>6, WayEnds
    <3>2. \A t \in Thread : /\ Pending(Way(t)') = (<<>> \o FlattenSeq(<<>>)) \o <<>>
                            /\ Way(t)'.logged = Way(t).logged /\ Way(t)'.saved = Way(t).saved
      BY <3>1 DEF Ended, Pending
    <3>3. (<<>> \o <<>>) \o <<>> = <<>>
      OBVIOUS
    <3>4. P' = [t \in Thread |-> <<>>]
      BY <2>2, <3>2, <3>3, FlattenEmpty
    <3>5. logged' = logged /\ saved' = saved
      BY <2>1, <2>2, <3>2
    <3> QED
      BY <3>4, <3>5 DEF Logs!LoseAll, Logs!Next
  <2>7. CASE Application /\ ~Join
    BY <2>3, <2>7, WayApplication
  <2>8. CASE UNCHANGED vars
    BY <2>3, <2>8, WayStutters
  <2> QED
    BY <2>4, <2>5, <2>6, <2>7, <2>8 DEF Next
<1> QED
  BY <1>1, <1>2, Invariance, PTL DEF Spec, LogsSpec, Logs!Spec
=============================================================================
