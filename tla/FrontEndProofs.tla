--------------------------- MODULE FrontEndProofs ---------------------------
(***************************************************************************)
(* Proofs about a log call.  First FrontEnd, for every number of threads,  *)
(* levels and units: whatever settings change between two steps of a call, *)
(* and wherever a call throws, lines are whole and colours end where they  *)
(* should.  Then FmtParse, which reads the format string of the call, for  *)
(* all strings over any characters, all arguments and every size of int:   *)
(* what is accepted is a sentence of FmtGrammar, and what is written is    *)
(* what the sentence means.                                                *)
(***************************************************************************)
EXTENDS FrontEnd, SequenceInduction, FiniteSetTheorems

(* The pieces of TypeOK, and its part that is about types.                 *)
APiece == [kind : {"color", "date", "name", "place", "text", "reset", "endl"}, level : LogLevel]

Types ==
  /\ g_log_level \in LogLevel \cup {-1, 1} /\ g_color \in BOOLEAN /\ g_print_line \in BOOLEAN
  /\ kLevelMap \subseteq Unit /\ initUnit \in Unit
  /\ initPc \in {"idle", "colour", "levels"}
  /\ pc \in [Thread -> {"idle", "colour", "body", "reset", "end"}]
  /\ call \in [Thread -> [level : LogLevel, ex : BOOLEAN]]
  /\ m_current_log \in [Thread -> Seq(APiece)]
  /\ frames \in [Thread -> Seq(Seq(APiece))]
  /\ calls \in 0..MaxCalls /\ settings \in 0..MaxSettings
  /\ thrown \in [Thread -> BOOLEAN]
  /\ turnedOff \in [Thread -> BOOLEAN]

(* What a call adds are pieces.                                            *)
LEMMA PiecesAdded ==
  ASSUME Types, NEW t \in Thread
  PROVE  /\ \A k \in {"color", "date", "name", "place", "text", "reset", "endl"} : Piece(k, t) \in APiece
         /\ Stamp(t) \in Seq(APiece)
         /\ Append(Stamp(t), Piece("text", t)) \in Seq(APiece)
<1>1. \A k \in {"color", "date", "name", "place", "text", "reset", "endl"} : Piece(k, t) \in APiece
  BY DEF Types, Piece, APiece
<1> DEFINE d == Piece("date", t)
           n == Piece("name", t)
           p == Piece("place", t)
           x == Piece("text", t)
<1>2. d \in APiece /\ n \in APiece /\ p \in APiece /\ x \in APiece
  BY <1>1
<1> HIDE DEF d, n, p, x
<1>3. <<d, n>> \in Seq(APiece) /\ <<p>> \in Seq(APiece)
  BY <1>2
<1>4. <<d, n>> \o (IF call[t].ex THEN <<p>> ELSE <<>>) \in Seq(APiece)
  BY <1>3
<1>5. Stamp(t) \in Seq(APiece)
  BY <1>4 DEF Stamp, d, n, p
<1>6. Append(Stamp(t), x) \in Seq(APiece)
  BY <1>2, <1>5
<1> QED
  BY <1>1, <1>5, <1>6 DEF x

(* Adding pieces changes m_current_log of one thread.                      *)
LEMMA Added ==
  ASSUME Types, NEW t \in Thread, NEW q \in Seq(APiece), Add(t, q)
  PROVE  /\ m_current_log' \in [Thread -> Seq(APiece)]
         /\ m_current_log'[t] = m_current_log[t] \o q
         /\ \A u \in Thread \ {t} : m_current_log'[u] = m_current_log[u]
BY DEF Types, Add

(* Types at the start ...                                                  *)
LEMMA TypesInit ==
  ASSUME FrontEndAssumption, Init
  PROVE  Types
<1> DEFINE l == CHOOSE l \in LogLevel : TRUE
<1>1. l \in LogLevel
  BY DEF FrontEndAssumption
<1>2. call = [t \in Thread |-> [level |-> l, ex |-> FALSE]]
  BY DEF Init
<1> HIDE DEF l
<1>3. call \in [Thread -> [level : LogLevel, ex : BOOLEAN]]
  BY <1>1, <1>2
<1>4. 0 \in 0..MaxCalls /\ 0 \in 0..MaxSettings
  BY DEF FrontEndAssumption
<1>5. \A S : <<>> \in Seq(S)
  OBVIOUS
<1> QED
  BY <1>3, <1>4, <1>5 DEF Init, Types

(* ... and after every step.                                               *)
LEMMA TypesStep ==
  ASSUME FrontEndAssumption, Types, [Next]_vars
  PROVE  Types'
<1>1. ASSUME NEW t \in Thread, Log(t) PROVE Types'
  <2>1. ASSUME NEW level \in LogLevel, CallFiltered(t, level) PROVE Types'
    BY <2>1 DEF FrontEndAssumption, Types, CallFiltered, setvars
  <2>2. ASSUME NEW level \in LogLevel, NEW ex \in BOOLEAN, Call(t, level, ex) PROVE Types'
    BY <2>2 DEF FrontEndAssumption, Types, Call, setvars
  <2>3. CASE SetColor(t)
    <3> DEFINE q == IF g_color THEN <<Piece("color", t)>> ELSE <<>>
    <3>1. q \in Seq(APiece) /\ Add(t, q)
      BY <2>3, PiecesAdded DEF SetColor
    <3> HIDE DEF q
    <3>2. m_current_log' \in [Thread -> Seq(APiece)]
      BY <3>1, Added
    <3> QED
      BY <2>3, <3>2 DEF Types, SetColor, setvars
  <2>4. CASE Body(t)
    <3>1. m_current_log' \in [Thread -> Seq(APiece)]
      BY <2>4, PiecesAdded, Added DEF Body
    <3> QED
      BY <2>4, <3>1 DEF Types, Body, setvars
  <2>5. CASE BodyThrows(t)
    <3>1. m_current_log' \in [Thread -> Seq(APiece)]
      BY <2>5, PiecesAdded, Added DEF BodyThrows
    <3> QED
      BY <2>5, <3>1 DEF Types, BodyThrows, setvars
  <2>6. CASE ResetColor(t)
    <3> DEFINE q == IF g_color THEN <<Piece("reset", t)>> ELSE <<>>
    <3>1. q \in Seq(APiece) /\ Add(t, q)
      BY <2>6, PiecesAdded DEF ResetColor
    <3> HIDE DEF q
    <3>2. m_current_log' \in [Thread -> Seq(APiece)]
      BY <3>1, Added
    <3> QED
      BY <2>6, <3>2 DEF Types, ResetColor, setvars
  <2>7. CASE Endl(t)
    <3> DEFINE x == Append(m_current_log[t], Piece("endl", t))
    <3>1. x \in Seq(APiece)
      BY PiecesAdded DEF Types
    <3>2. frames' = [frames EXCEPT ![t] = Append(@, x)]
      BY <2>7 DEF Endl
    <3> HIDE DEF x
    <3>3. frames' \in [Thread -> Seq(Seq(APiece))]
      BY <3>1, <3>2 DEF Types
    <3> QED
      BY <2>7, <3>3 DEF Types, Endl, setvars
  <2>8. CASE EndlRefused(t)
    <3>1. <<Piece("endl", t)>> \in Seq(APiece)
      BY PiecesAdded
    <3>2. m_current_log' \in [Thread -> Seq(APiece)]
      BY <2>8, <3>1, Added DEF EndlRefused
    <3> QED
      BY <2>8, <3>2 DEF Types, EndlRefused, setvars
  <2> QED
    BY <1>1, <2>1, <2>2, <2>3, <2>4, <2>5, <2>6, <2>7, <2>8 DEF Log
<1>2. ASSUME Set PROVE Types'
  <2> USE DEF Types, logvars, Setting, FrontEndAssumption
  <2>1. ASSUME NEW set \in BOOLEAN, set_color(set) PROVE Types'
    BY <2>1 DEF set_color, ColorBecomes
  <2>2. ASSUME NEW set \in BOOLEAN, set_print_file_line(set) PROVE Types'
    BY <2>2 DEF set_print_file_line
  <2>3. ASSUME NEW level \in LogLevel \cup {-1}, set_log_level(level) PROVE Types'
    BY <2>3 DEF set_log_level
  <2>4. ASSUME NEW u \in Unit, InitBegin(u) PROVE Types'
    BY <2>4 DEF InitBegin
  <2>5. ASSUME NEW u \in Unit, NEW level \in LogLevel, set_log_level_by_name(u, level) PROVE Types'
    BY <2>5 DEF set_log_level_by_name
  <2>6. CASE InitColor
    BY <2>6 DEF InitColor, ColorBecomes
  <2>7. CASE InitLevels
    BY <2>7 DEF InitLevels, Sharing
  <2> QED
    BY <1>2, <2>1, <2>2, <2>3, <2>4, <2>5, <2>6, <2>7 DEF Set
<1>3. CASE UNCHANGED vars
  BY <1>3 DEF Types, vars, setvars, logvars
<1> QED
  BY <1>1, <1>2, <1>3 DEF Next

-----------------------------------------------------------------------------
(* What may follow what, as a table.                                       *)
LEMMA FollowTable ==
  /\ Follows("color") = {"date"} /\ Follows("date") = {"name"}
  /\ Follows("name") = {"place", "text"} /\ Follows("place") = {"text"}
  /\ Follows("text") = {"reset", "endl"} /\ Follows("reset") = {"endl"}
  /\ Follows("endl") = {"color", "date"}
<1>1. Follows("color") = {"date"}
  BY Zenon DEF Follows
<1>2. Follows("date") = {"name"}
  BY Zenon DEF Follows
<1>3. Follows("name") = {"place", "text"}
  BY Zenon DEF Follows
<1>4. Follows("place") = {"text"}
  BY Zenon DEF Follows
<1>5. Follows("text") = {"reset", "endl"}
  BY Zenon DEF Follows
<1>6. Follows("reset") = {"endl"}
  BY Zenon DEF Follows
<1>7. Follows("endl") = {"color", "date"}
  BY Zenon DEF Follows
<1> QED
  BY <1>1, <1>2, <1>3, <1>4, <1>5, <1>6, <1>7

(* The piece y may come after x; a whole text; and where it ends.          *)
Pair(x, y, threw) ==
  \/ /\ y.kind \in Follows(x.kind)
     /\ x.kind # "endl" => y.level = x.level
  \/ threw /\ x.kind \in {"name", "place"} /\ y.kind \in {"color", "date"}

Whole(s, threw) == \A i \in 1..(Len(s) - 1) : Pair(s[i], s[i + 1], threw)

LineEnds(s, threw) ==
  s # <<>> => s[Len(s)].kind = "endl" \/ (threw /\ s[Len(s)].kind \in {"name", "place"})

LastIs(s, kinds, l) == s # <<>> /\ s[Len(s)].kind \in kinds /\ s[Len(s)].level = l

(* Where the text of a thread ends, at each place of a call.               *)
AtPlace(s, at, l, threw) ==
  /\ at \in {"idle", "colour"} => LineEnds(s, threw)
  /\ at = "body" => LineEnds(s, threw) \/ LastIs(s, {"color"}, l)
  /\ at = "reset" => LastIs(s, {"text"}, l)
  /\ at = "end" => LastIs(s, {"text", "reset"}, l)

(* Two texts of which the second may come after the first make a whole     *)
(* one, which ends as the second does.                                     *)
LEMMA Joined ==
  ASSUME NEW s \in Seq(APiece), NEW q \in Seq(APiece), NEW threw, q # <<>>,
         Whole(s, threw), Whole(q, threw), s # <<>> => Pair(s[Len(s)], q[1], threw)
  PROVE  /\ s \o q \in Seq(APiece) /\ s \o q # <<>>
         /\ Whole(s \o q, threw)
         /\ (s \o q)[Len(s \o q)] = q[Len(q)]
<1> DEFINE r == s \o q
           n == Len(s)
           m == Len(q)
<1>1. n \in Nat /\ m \in Nat /\ m > 0 /\ (s # <<>> <=> n > 0)
  OBVIOUS
<1>2. r \in Seq(APiece) /\ Len(r) = n + m /\ \A i \in 1..(n + m) : r[i] = IF i <= n THEN s[i] ELSE q[i - n]
  BY ConcatProperties
<1>3. /\ \A i \in 1..(n - 1) : Pair(s[i], s[i + 1], threw)
      /\ \A i \in 1..(m - 1) : Pair(q[i], q[i + 1], threw)
      /\ n > 0 => Pair(s[n], q[1], threw)
  BY <1>1 DEF Whole
<1> HIDE DEF r, n, m
<1>4. ASSUME NEW i \in 1..(n + m - 1) PROVE Pair(r[i], r[i + 1], threw)
  <2>1. CASE i < n
    <3>1. i \in 1..(n - 1) /\ r[i] = s[i] /\ r[i + 1] = s[i + 1]
      BY <1>1, <1>2, <2>1
    <3> QED
      BY <1>3, <3>1
  <2>2. CASE i = n
    <3>1. n > 0 /\ r[i] = s[n] /\ r[i + 1] = q[1]
      BY <1>1, <1>2, <2>2
    <3> QED
      BY <1>3, <3>1
  <2>3. CASE i > n
    <3>1. i - n \in 1..(m - 1) /\ r[i] = q[i - n] /\ r[i + 1] = q[(i - n) + 1]
      BY <1>1, <1>2, <2>3
    <3> QED
      BY <1>3, <3>1
  <2> QED
    BY <1>1, <2>1, <2>2, <2>3
<1>5. r # <<>> /\ r[Len(r)] = q[m]
  BY <1>1, <1>2
<1>6. Len(r) - 1 = n + m - 1
  BY <1>1, <1>2
<1>7. Whole(r, threw)
  BY <1>4, <1>6 DEF Whole
<1> QED
  BY <1>2, <1>5, <1>7 DEF r, m

(* Nothing added changes nothing.                                          *)
LEMMA NothingAdded ==
  ASSUME NEW s \in Seq(APiece)
  PROVE  s \o <<>> = s
BY ConcatEmptySeq

(* A call of a thread that threw before may do more.                       *)
LEMMA MayHaveThrown ==
  ASSUME NEW s, NEW threw, Whole(s, threw)
  PROVE  Whole(s, TRUE)
BY DEF Whole, Pair

(* One piece is whole.                                                     *)
LEMMA OnePiece ==
  ASSUME NEW x \in APiece, NEW threw
  PROVE  <<x>> \in Seq(APiece) /\ <<x>> # <<>> /\ Len(<<x>>) = 1 /\ <<x>>[1] = x /\ Whole(<<x>>, threw)
BY DEF Whole

(* What stamps a line is whole, of the level of the call, and begins with  *)
(* the date.                                                               *)
LEMMA StampIsWhole ==
  ASSUME Types, NEW t \in Thread, NEW threw
  PROVE  LET q == Stamp(t)
         IN  /\ q \in Seq(APiece) /\ Whole(q, threw) /\ q # <<>>
             /\ q[1].kind = "date" /\ q[1].level = call[t].level
             /\ LastIs(q, {"name", "place"}, call[t].level)
<1> DEFINE d == Piece("date", t)
           n == Piece("name", t)
           p == Piece("place", t)
           l == call[t].level
           q == Stamp(t)
<1>1. d \in APiece /\ n \in APiece /\ p \in APiece
  BY PiecesAdded
<1>2. d.kind = "date" /\ n.kind = "name" /\ p.kind = "place" /\ d.level = l /\ n.level = l /\ p.level = l
  BY DEF Piece
<1>3. q = IF call[t].ex THEN <<d, n>> \o <<p>> ELSE <<d, n>> \o <<>>
  BY DEF Stamp
<1> HIDE DEF d, n, p, l, q
<1>4. Pair(d, n, threw) /\ Pair(n, p, threw)
  BY <1>2, FollowTable DEF Pair
<1>5. CASE call[t].ex
  <2> DEFINE a == <<d, n>>
             b == <<p>>
  <2>1. /\ a \in Seq(APiece) /\ b \in Seq(APiece) /\ Len(a) = 2 /\ Len(b) = 1
        /\ a[1] = d /\ a[2] = n /\ b[1] = p
    BY <1>1
  <2>0. q = a \o b
    BY <1>3, <1>5
  <2> HIDE DEF a, b
  <2>2. /\ q \in Seq(APiece) /\ q # <<>> /\ Len(q) = 3
        /\ q[1] = d /\ q[2] = n /\ q[3] = p
    <3>1. /\ q \in Seq(APiece) /\ Len(q) = Len(a) + Len(b)
          /\ \A i \in 1..(Len(a) + Len(b)) : q[i] = IF i <= Len(a) THEN a[i] ELSE b[i - Len(a)]
      BY <2>0, <2>1, ConcatProperties
    <3>2. Len(q) = 3 /\ \A i \in 1..3 : q[i] = IF i <= 2 THEN a[i] ELSE b[i - 2]
      BY <2>1, <3>1
    <3>3. q[1] = a[1] /\ q[2] = a[2] /\ q[3] = b[1]
      BY <3>2
    <3> QED
      BY <2>1, <3>1, <3>2, <3>3
  <2>3. Whole(q, threw)
    <3> SUFFICES ASSUME NEW i \in 1..(3 - 1) PROVE Pair(q[i], q[i + 1], threw)
      BY <2>2 DEF Whole
    <3>1. i = 1 \/ i = 2
      OBVIOUS
    <3> QED
      BY <1>4, <2>2, <3>1
  <2> QED
    BY <1>2, <2>2, <2>3 DEF LastIs, q, l
<1>6. CASE ~call[t].ex
  <2>1. q = <<d, n>>
    BY <1>3, <1>6
  <2>2. q \in Seq(APiece) /\ q # <<>> /\ Len(q) = 2 /\ q[1] = d /\ q[2] = n
    BY <1>1, <2>1
  <2>3. Whole(q, threw)
    <3> SUFFICES ASSUME NEW i \in 1..(2 - 1) PROVE Pair(q[i], q[i + 1], threw)
      BY <2>2 DEF Whole
    <3>1. i = 1
      OBVIOUS
    <3> QED
      BY <1>4, <2>2, <3>1
  <2> QED
    BY <1>2, <2>2, <2>3 DEF LastIs, q, l
<1> QED
  BY <1>5, <1>6

(* So is the line with its message.                                        *)
LEMMA LineIsWhole ==
  ASSUME Types, NEW t \in Thread, NEW threw
  PROVE  LET q == Append(Stamp(t), Piece("text", t))
         IN  /\ q \in Seq(APiece) /\ Whole(q, threw) /\ q # <<>>
             /\ q[1].kind = "date" /\ q[1].level = call[t].level
             /\ LastIs(q, {"text"}, call[t].level)
<1> DEFINE s == Stamp(t)
           x == Piece("text", t)
           q == Append(s, x)
           l == call[t].level
<1>1. /\ s \in Seq(APiece) /\ Whole(s, threw) /\ s # <<>>
      /\ s[1].kind = "date" /\ s[1].level = l /\ LastIs(s, {"name", "place"}, l)
  BY StampIsWhole
<1>2. x \in APiece /\ x.kind = "text" /\ x.level = l
  BY PiecesAdded DEF Piece
<1> HIDE DEF s, x, l
<1>3. Pair(s[Len(s)], x, threw)
  BY <1>1, <1>2, FollowTable DEF Pair, LastIs
<1>4. <<x>> \in Seq(APiece) /\ <<x>> # <<>> /\ Len(<<x>>) = 1 /\ <<x>>[1] = x /\ Whole(<<x>>, threw)
  BY <1>2, OnePiece
<1>5. q = s \o <<x>>
  BY <1>1, <1>2, AppendIsConcat
<1>6. q \in Seq(APiece) /\ q # <<>> /\ Whole(q, threw) /\ q[Len(q)] = x
  BY <1>1, <1>3, <1>4, <1>5, Joined
<1>7. q[1] = s[1]
  BY <1>1, <1>2, AppendProperties
<1> HIDE DEF q
<1>8. /\ q \in Seq(APiece) /\ Whole(q, threw) /\ q # <<>>
      /\ q[1].kind = "date" /\ q[1].level = l /\ LastIs(q, {"text"}, l)
  BY <1>1, <1>2, <1>6, <1>7 DEF LastIs
<1> QED
  BY <1>8 DEF q, s, x, l

-----------------------------------------------------------------------------
(* The text of each thread is whole, ends as its place in a call says, and *)
(* its frames end where a line ends.                                       *)
FramesEnd(f) == \A k \in DOMAIN f : f[k] # <<>> /\ Last(f[k]).kind = "endl"

OneText(t) ==
  /\ Whole(Stream(t), thrown[t])
  /\ AtPlace(Stream(t), pc[t], call[t].level, thrown[t])
  /\ FramesEnd(frames[t])

TextInv == \A t \in Thread : OneText(t)

(* Pieces added to m_current_log are added to the text of the thread.      *)
LEMMA StreamGrows ==
  ASSUME NEW f \in Seq(Seq(APiece)), NEW m \in Seq(APiece), NEW q \in Seq(APiece)
  PROVE  /\ FlattenSeq(f) \o m \in Seq(APiece)
         /\ FlattenSeq(f) \o (m \o q) = (FlattenSeq(f) \o m) \o q
<1> DEFINE g == FlattenSeq(f)
<1>1. g \in Seq(APiece)
  BY FlattenType
<1> HIDE DEF g
<1>2. Associates(APiece)
  BY Regroups
<1>3. g \o (m \o q) = (g \o m) \o q
  BY <1>1, <1>2 DEF Associates
<1>4. g \o m \in Seq(APiece)
  BY <1>1
<1> QED
  BY <1>3, <1>4 DEF g

(* Flushing m_current_log leaves the text of the thread as it is.          *)
LEMMA StreamFlushed ==
  ASSUME NEW f \in Seq(Seq(APiece)), NEW m \in Seq(APiece)
  PROVE  FlattenSeq(Append(f, m)) \o <<>> = FlattenSeq(f) \o m
<1>1. FlattenSeq(f) \in Seq(APiece) /\ FlattenSeq(Append(f, m)) = FlattenSeq(f) \o m
  BY FlattenType, FlattenAppend
<1>2. FlattenSeq(f) \o m \in Seq(APiece)
  BY <1>1
<1> QED
  BY <1>1, <1>2, ConcatEmptySeq

(* A step of thread t that adds q to its text.                             *)
Grows(t, q) ==
  /\ q \in Seq(APiece)
  /\ Stream(t)' = Stream(t) \o q
  /\ \A u \in Thread \ {t} : Stream(u)' = Stream(u)

(* Adding pieces does so ...                                               *)
LEMMA AddGrows ==
  ASSUME Types, NEW t \in Thread, NEW q \in Seq(APiece), Add(t, q), UNCHANGED frames
  PROVE  Grows(t, q)
<1>1. m_current_log'[t] = m_current_log[t] \o q /\ \A u \in Thread \ {t} : m_current_log'[u] = m_current_log[u]
  BY Added
<1>2. frames[t] \in Seq(Seq(APiece)) /\ m_current_log[t] \in Seq(APiece)
  BY DEF Types
<1> DEFINE f == frames[t]
           m == m_current_log[t]
<1>3. Stream(t)' = Stream(t) \o q
  <2>1. Stream(t) = FlattenSeq(f) \o m /\ Stream(t)' = FlattenSeq(f) \o (m \o q)
    BY <1>1 DEF Stream
  <2>2. f \in Seq(Seq(APiece)) /\ m \in Seq(APiece)
    BY <1>2
  <2> HIDE DEF f, m
  <2>3. FlattenSeq(f) \o (m \o q) = (FlattenSeq(f) \o m) \o q
    BY <2>2, StreamGrows
  <2> QED
    BY <2>1, <2>3
<1>4. \A u \in Thread \ {t} : Stream(u)' = Stream(u)
  BY <1>1 DEF Stream
<1> QED
  BY <1>3, <1>4 DEF Grows

(* ... and so does the end of a line that is flushed.                      *)
LEMMA EndlGrows ==
  ASSUME Types, NEW t \in Thread, Endl(t)
  PROVE  Grows(t, <<Piece("endl", t)>>)
<1> DEFINE m == m_current_log[t]
           f == frames[t]
           x == Piece("endl", t)
<1>1. m \in Seq(APiece) /\ f \in Seq(Seq(APiece)) /\ x \in APiece /\ <<x>> \in Seq(APiece)
  BY PiecesAdded DEF Types
<1>2. frames'[t] = Append(f, Append(m, x)) /\ m_current_log'[t] = <<>>
  BY DEF Types, Endl
<1>3. \A u \in Thread \ {t} : frames'[u] = frames[u] /\ m_current_log'[u] = m_current_log[u]
  BY DEF Types, Endl
<1>4. Stream(t) = FlattenSeq(f) \o m
  BY DEF Stream
<1>5. Stream(t)' = FlattenSeq(Append(f, Append(m, x))) \o <<>>
  BY <1>2 DEF Stream
<1> HIDE DEF m, f, x
<1>6. Append(m, x) \in Seq(APiece) /\ Append(m, x) = m \o <<x>>
  BY <1>1, AppendIsConcat
<1>7. FlattenSeq(Append(f, Append(m, x))) \o <<>> = FlattenSeq(f) \o Append(m, x)
  BY <1>1, <1>6, StreamFlushed
<1>8. FlattenSeq(f) \o (m \o <<x>>) = (FlattenSeq(f) \o m) \o <<x>>
  BY <1>1, StreamGrows
<1>9. Stream(t)' = Stream(t) \o <<x>>
  BY <1>4, <1>5, <1>6, <1>7, <1>8
<1>10. \A u \in Thread \ {t} : Stream(u)' = Stream(u)
  BY <1>3 DEF Stream
<1> QED
  BY <1>1, <1>9, <1>10 DEF Grows, x

(* What belongs to a thread stays as it is.                                *)
Keeps(u) ==
  /\ Stream(u)' = Stream(u) /\ frames'[u] = frames[u]
  /\ pc'[u] = pc[u] /\ call'[u] = call[u] /\ thrown'[u] = thrown[u]

(* Then its text stays whole.                                              *)
LEMMA Kept ==
  ASSUME NEW u, OneText(u), Keeps(u)
  PROVE  OneText(u)'
BY DEF OneText, Keeps

(* A line may begin where one ended.                                       *)
LEMMA MayBegin ==
  ASSUME NEW s \in Seq(APiece), NEW threw, LineEnds(s, threw), NEW x, x.kind \in {"color", "date"}
  PROVE  s # <<>> => Pair(s[Len(s)], x, threw)
BY FollowTable DEF LineEnds, Pair

(* A line that is flushed is a frame that ends where it ends.              *)
LEMMA FramesGrow ==
  ASSUME NEW f \in Seq(Seq(APiece)), FramesEnd(f), NEW m \in Seq(APiece), NEW x \in APiece, x.kind = "endl"
  PROVE  FramesEnd(Append(f, Append(m, x)))
<1> DEFINE g == Append(m, x)
           h == Append(f, g)
<1>1. g \in Seq(APiece) /\ g # <<>> /\ Last(g).kind = "endl"
  BY AppendProperties DEF Last
<1> HIDE DEF g
<1>2. \A k \in DOMAIN h : (k \in DOMAIN f /\ h[k] = f[k]) \/ h[k] = g
  BY <1>1
<1> HIDE DEF h
<1>3. FramesEnd(h)
  BY <1>1, <1>2 DEF FramesEnd
<1> QED
  BY <1>3 DEF g, h

(* A step of a call keeps the text of its thread whole.                    *)
LEMMA TextOfThread ==
  ASSUME Types, Types', NEW t \in Thread, OneText(t), Log(t)
  PROVE  OneText(t)' /\ \A u \in Thread \ {t} : Keeps(u)
<1> DEFINE s == Stream(t)
           l == call[t].level
           r == Stream(t)'
<1>1. s \in Seq(APiece)
  BY StreamGrows DEF Types, Stream
<1>2. Whole(s, thrown[t]) /\ AtPlace(s, pc[t], l, thrown[t]) /\ FramesEnd(frames[t])
  BY DEF OneText
<1>3. \A k \in {"color", "date", "name", "place", "text", "reset", "endl"} :
        Piece(k, t) \in APiece /\ Piece(k, t).kind = k /\ Piece(k, t).level = l
  BY PiecesAdded DEF Piece
<1>4. ASSUME NEW level \in LogLevel, CallFiltered(t, level)
      PROVE  OneText(t)' /\ \A u \in Thread \ {t} : Keeps(u)
  BY <1>4 DEF CallFiltered, setvars, OneText, Keeps, Stream
<1>5. ASSUME NEW level \in LogLevel, NEW ex \in BOOLEAN, Call(t, level, ex)
      PROVE  OneText(t)' /\ \A u \in Thread \ {t} : Keeps(u)
  <2>1. /\ r = s /\ frames'[t] = frames[t] /\ pc[t] = "idle" /\ pc'[t] = "colour" /\ thrown'[t] = thrown[t]
    BY <1>5 DEF Call, Types, Stream
  <2>2. LineEnds(s, thrown[t])
    BY <1>2, <2>1 DEF AtPlace
  <2>3. \A u \in Thread \ {t} : Keeps(u)
    BY <1>5 DEF Call, Types, Stream, Keeps
  <2> HIDE DEF s, l, r
  <2>4. AtPlace(r, pc'[t], call'[t].level, thrown'[t])
    BY <2>1, <2>2 DEF AtPlace
  <2>5. Whole(r, thrown'[t]) /\ FramesEnd(frames'[t])
    BY <1>2, <2>1
  <2> QED
    BY <2>3, <2>4, <2>5 DEF OneText, r
<1>6. CASE SetColor(t)
  <2> DEFINE q == IF g_color THEN <<Piece("color", t)>> ELSE <<>>
  <2>1. Add(t, q) /\ UNCHANGED frames /\ q \in Seq(APiece)
    BY <1>3, <1>6 DEF SetColor
  <2>2. Grows(t, q)
    BY <2>1, AddGrows
  <2>3. /\ pc[t] = "colour" /\ pc'[t] = "body" /\ thrown'[t] = thrown[t] /\ call'[t] = call[t]
        /\ frames'[t] = frames[t]
    BY <1>6 DEF SetColor, Types
  <2>4. \A u \in Thread \ {t} : Keeps(u)
    BY <1>6, <2>2 DEF SetColor, Types, Grows, Keeps
  <2>5. LineEnds(s, thrown[t])
    BY <1>2, <2>3 DEF AtPlace
  <2>6. CASE g_color
    <3> DEFINE x == Piece("color", t)
    <3>1. x \in APiece /\ x.kind = "color" /\ x.level = l
      BY <1>3
    <3>2. r = s \o <<x>>
      BY <2>2, <2>6 DEF Grows
    <3> HIDE DEF s, l, r, x
    <3>3. <<x>> \in Seq(APiece) /\ <<x>> # <<>> /\ Len(<<x>>) = 1 /\ <<x>>[1] = x /\ Whole(<<x>>, thrown[t])
      BY <3>1, OnePiece
    <3>4. s # <<>> => Pair(s[Len(s)], x, thrown[t])
      BY <1>1, <2>5, <3>1, MayBegin
    <3>5. r \in Seq(APiece) /\ r # <<>> /\ Whole(r, thrown[t]) /\ r[Len(r)] = x
      BY <1>1, <1>2, <3>2, <3>3, <3>4, Joined
    <3>6. AtPlace(r, "body", l, thrown[t])
      BY <3>1, <3>5 DEF AtPlace, LastIs
    <3> QED
      BY <1>2, <2>3, <2>4, <3>5, <3>6 DEF OneText, r, l
  <2>7. CASE ~g_color
    <3>1. r = s
      BY <1>1, <2>2, <2>7, NothingAdded DEF Grows
    <3> HIDE DEF s, l, r
    <3>2. AtPlace(r, "body", l, thrown[t])
      BY <2>5, <3>1 DEF AtPlace
    <3> QED
      BY <1>2, <2>3, <2>4, <3>1, <3>2 DEF OneText, r, l
  <2> QED
    BY <2>6, <2>7
<1>7. CASE Body(t)
  <2> DEFINE q == Append(Stamp(t), Piece("text", t))
  <2>1. /\ q \in Seq(APiece) /\ Whole(q, thrown[t]) /\ q # <<>>
        /\ q[1].kind = "date" /\ q[1].level = l /\ LastIs(q, {"text"}, l)
    BY LineIsWhole
  <2>2. Add(t, q) /\ UNCHANGED frames
    BY <1>7 DEF Body
  <2> HIDE DEF q
  <2>3. Grows(t, q)
    BY <2>1, <2>2, AddGrows
  <2>4. /\ pc[t] = "body" /\ pc'[t] = "reset" /\ thrown'[t] = thrown[t] /\ call'[t] = call[t]
        /\ frames'[t] = frames[t]
    BY <1>7 DEF Body, Types
  <2>5. \A u \in Thread \ {t} : Keeps(u)
    BY <1>7, <2>3 DEF Body, Types, Grows, Keeps
  <2>6. LineEnds(s, thrown[t]) \/ LastIs(s, {"color"}, l)
    BY <1>2, <2>4 DEF AtPlace
  <2>7. r = s \o q
    BY <2>3 DEF Grows
  <2> HIDE DEF s, l, r
  <2>8. s # <<>> => Pair(s[Len(s)], q[1], thrown[t])
    <3>1. CASE LineEnds(s, thrown[t])
      BY <1>1, <2>1, <3>1, MayBegin
    <3>2. CASE LastIs(s, {"color"}, l)
      BY <2>1, <3>2, FollowTable DEF LastIs, Pair
    <3> QED
      BY <2>6, <3>1, <3>2
  <2>9. r \in Seq(APiece) /\ r # <<>> /\ Whole(r, thrown[t]) /\ r[Len(r)] = q[Len(q)]
    BY <1>1, <1>2, <2>1, <2>7, <2>8, Joined
  <2>10. AtPlace(r, "reset", l, thrown[t])
    BY <2>1, <2>9 DEF AtPlace, LastIs
  <2> QED
    BY <1>2, <2>4, <2>5, <2>9, <2>10 DEF OneText, r, l
<1>8. CASE BodyThrows(t)
  <2> DEFINE q == Stamp(t)
  <2>1. /\ q \in Seq(APiece) /\ Whole(q, TRUE) /\ q # <<>>
        /\ q[1].kind = "date" /\ q[1].level = l /\ LastIs(q, {"name", "place"}, l)
    BY StampIsWhole
  <2>2. Add(t, q) /\ UNCHANGED frames
    BY <1>8 DEF BodyThrows
  <2> HIDE DEF q
  <2>3. Grows(t, q)
    BY <2>1, <2>2, AddGrows
  <2>4. /\ pc[t] = "body" /\ pc'[t] = "idle" /\ thrown'[t] = TRUE /\ call'[t] = call[t]
        /\ frames'[t] = frames[t]
    BY <1>8 DEF BodyThrows, Types
  <2>5. \A u \in Thread \ {t} : Keeps(u)
    BY <1>8, <2>3 DEF BodyThrows, Types, Grows, Keeps
  <2>6. LineEnds(s, TRUE) \/ LastIs(s, {"color"}, l)
    BY <1>2, <2>4 DEF AtPlace, LineEnds
  <2>7. r = s \o q /\ Whole(s, TRUE)
    BY <1>2, <2>3, MayHaveThrown DEF Grows
  <2> HIDE DEF s, l, r
  <2>8. s # <<>> => Pair(s[Len(s)], q[1], TRUE)
    <3>1. CASE LineEnds(s, TRUE)
      BY <2>1, <3>1, FollowTable DEF LineEnds, Pair
    <3>2. CASE LastIs(s, {"color"}, l)
      BY <2>1, <3>2, FollowTable DEF LastIs, Pair
    <3> QED
      BY <2>6, <3>1, <3>2
  <2>9. r \in Seq(APiece) /\ r # <<>> /\ Whole(r, TRUE) /\ r[Len(r)] = q[Len(q)]
    BY <1>1, <2>1, <2>7, <2>8, Joined
  <2>10. AtPlace(r, "idle", l, TRUE)
    BY <2>1, <2>9 DEF AtPlace, LastIs, LineEnds
  <2> QED
    BY <1>2, <2>4, <2>5, <2>9, <2>10 DEF OneText, r, l
<1>9. CASE ResetColor(t)
  <2> DEFINE q == IF g_color THEN <<Piece("reset", t)>> ELSE <<>>
  <2>1. Add(t, q) /\ UNCHANGED frames /\ q \in Seq(APiece)
    BY <1>3, <1>9 DEF ResetColor
  <2>2. Grows(t, q)
    BY <2>1, AddGrows
  <2>3. /\ pc[t] = "reset" /\ pc'[t] = "end" /\ thrown'[t] = thrown[t] /\ call'[t] = call[t]
        /\ frames'[t] = frames[t]
    BY <1>9 DEF ResetColor, Types
  <2>4. \A u \in Thread \ {t} : Keeps(u)
    BY <1>9, <2>2 DEF ResetColor, Types, Grows, Keeps
  <2>5. LastIs(s, {"text"}, l)
    BY <1>2, <2>3 DEF AtPlace
  <2>6. CASE g_color
    <3> DEFINE x == Piece("reset", t)
    <3>1. x \in APiece /\ x.kind = "reset" /\ x.level = l
      BY <1>3
    <3>2. r = s \o <<x>>
      BY <2>2, <2>6 DEF Grows
    <3> HIDE DEF s, l, r, x
    <3>3. <<x>> \in Seq(APiece) /\ <<x>> # <<>> /\ Len(<<x>>) = 1 /\ <<x>>[1] = x /\ Whole(<<x>>, thrown[t])
      BY <3>1, OnePiece
    <3>4. Pair(s[Len(s)], x, thrown[t])
      BY <2>5, <3>1, FollowTable DEF LastIs, Pair
    <3>5. r \in Seq(APiece) /\ r # <<>> /\ Whole(r, thrown[t]) /\ r[Len(r)] = x
      BY <1>1, <1>2, <3>2, <3>3, <3>4, Joined
    <3>6. AtPlace(r, "end", l, thrown[t])
      BY <3>1, <3>5 DEF AtPlace, LastIs
    <3> QED
      BY <1>2, <2>3, <2>4, <3>5, <3>6 DEF OneText, r, l
  <2>7. CASE ~g_color
    <3>1. r = s
      BY <1>1, <2>2, <2>7, NothingAdded DEF Grows
    <3> HIDE DEF s, l, r
    <3>2. AtPlace(r, "end", l, thrown[t])
      BY <2>5, <3>1 DEF AtPlace, LastIs
    <3> QED
      BY <1>2, <2>3, <2>4, <3>1, <3>2 DEF OneText, r, l
  <2> QED
    BY <2>6, <2>7
<1>10. CASE Endl(t) \/ EndlRefused(t)
  <2> DEFINE x == Piece("endl", t)
  <2>1. x \in APiece /\ x.kind = "endl" /\ x.level = l
    BY <1>3
  <2>2. <<x>> \in Seq(APiece) /\ <<x>> # <<>> /\ Len(<<x>>) = 1 /\ <<x>>[1] = x /\ Whole(<<x>>, thrown[t])
    BY <2>1, OnePiece
  <2>3. ASSUME Endl(t)
        PROVE  Grows(t, <<x>>) /\ FramesEnd(frames'[t]) /\ \A u \in Thread \ {t} : frames'[u] = frames[u]
    <3>1. Grows(t, <<x>>)
      BY <2>3, EndlGrows
    <3>2. frames'[t] = Append(frames[t], Append(m_current_log[t], x)) /\ \A u \in Thread \ {t} : frames'[u] = frames[u]
      BY <2>3 DEF Endl, Types
    <3>3. frames[t] \in Seq(Seq(APiece)) /\ m_current_log[t] \in Seq(APiece)
      BY DEF Types
    <3> HIDE DEF x
    <3>4. FramesEnd(frames'[t])
      BY <1>2, <2>1, <3>2, <3>3, FramesGrow
    <3> QED
      BY <3>1, <3>2, <3>4
  <2>4. ASSUME EndlRefused(t)
        PROVE  Grows(t, <<x>>) /\ FramesEnd(frames'[t]) /\ \A u \in Thread \ {t} : frames'[u] = frames[u]
    <3>1. Grows(t, <<x>>)
      BY <2>2, <2>4, AddGrows DEF EndlRefused
    <3> QED
      BY <1>2, <2>4, <3>1 DEF EndlRefused
  <2>5. Grows(t, <<x>>) /\ FramesEnd(frames'[t]) /\ \A u \in Thread \ {t} : frames'[u] = frames[u]
    BY <1>10, <2>3, <2>4
  <2>6. pc[t] = "end" /\ pc'[t] = "idle" /\ thrown'[t] = thrown[t] /\ call'[t] = call[t]
    BY <1>10 DEF Endl, EndlRefused, Types
  <2>7. \A u \in Thread \ {t} : Keeps(u)
    BY <1>10, <2>5 DEF Endl, EndlRefused, Types, Grows, Keeps
  <2>8. LastIs(s, {"text", "reset"}, l)
    BY <1>2, <2>6 DEF AtPlace
  <2>9. r = s \o <<x>>
    BY <2>5 DEF Grows
  <2> HIDE DEF s, l, r, x
  <2>10. Pair(s[Len(s)], x, thrown[t])
    BY <2>1, <2>8, FollowTable DEF LastIs, Pair
  <2>11. r \in Seq(APiece) /\ r # <<>> /\ Whole(r, thrown[t]) /\ r[Len(r)] = x
    BY <1>1, <1>2, <2>2, <2>9, <2>10, Joined
  <2>12. AtPlace(r, "idle", l, thrown[t])
    BY <2>1, <2>11 DEF AtPlace, LineEnds
  <2> QED
    BY <2>5, <2>6, <2>7, <2>11, <2>12 DEF OneText, r, l
<1> QED
  BY <1>4, <1>5, <1>6, <1>7, <1>8, <1>9, <1>10 DEF Log

(* Settings do not touch the text of any thread.                           *)
LEMMA TextKept ==
  ASSUME TextInv, UNCHANGED logvars
  PROVE  TextInv'
<1> SUFFICES ASSUME NEW u \in Thread PROVE OneText(u)'
  BY DEF TextInv
<1>1. Keeps(u)
  BY DEF logvars, Keeps, Stream
<1> QED
  BY <1>1, Kept DEF TextInv

(* Every step keeps the text of every thread whole.                        *)
LEMMA TextStep ==
  ASSUME Types, Types', TextInv, [Next]_vars
  PROVE  TextInv'
<1>1. ASSUME NEW t \in Thread, Log(t) PROVE TextInv'
  <2>1. OneText(t)' /\ \A u \in Thread \ {t} : Keeps(u)
    BY <1>1, TextOfThread DEF TextInv
  <2>2. \A u \in Thread \ {t} : OneText(u)'
    <3> SUFFICES ASSUME NEW u \in Thread \ {t} PROVE OneText(u)'
      OBVIOUS
    <3>1. OneText(u) /\ Keeps(u)
      BY <2>1 DEF TextInv
    <3> QED
      BY <3>1, Kept
  <2> QED
    BY <2>1, <2>2 DEF TextInv
<1>2. ASSUME Set PROVE UNCHANGED logvars
  BY <1>2 DEF Set, set_color, set_print_file_line, set_log_level, set_log_level_by_name, InitBegin, InitColor,
              InitLevels
<1>3. CASE UNCHANGED vars
  BY <1>3, TextKept DEF vars
<1> QED
  BY <1>1, <1>2, <1>3, TextKept DEF Next

(* At the start there is no text.                                          *)
LEMMA TextInit ==
  ASSUME Init
  PROVE  TextInv
<1> SUFFICES ASSUME NEW t \in Thread PROVE OneText(t)
  BY DEF TextInv
<1>1. frames[t] = <<>> /\ m_current_log[t] = <<>> /\ pc[t] = "idle"
  BY DEF Init
<1>2. Stream(t) = <<>>
  BY <1>1, FlattenEmpty DEF Stream
<1> QED
  BY <1>1, <1>2 DEF OneText, Whole, AtPlace, LineEnds, FramesEnd

-----------------------------------------------------------------------------
(* A colour does not stay open: no flushed frame leaves the terminal       *)
(* coloured, while one is open in m_current_log colours are on, so that    *)
(* the next reset_color() will end it, and none is when a line ends.       *)
OneColour(t) ==
  ~turnedOff[t] =>
    /\ \A k \in DOMAIN frames[t] : ~IsOpen(frames[t][k])
    /\ IsOpen(m_current_log[t]) => g_color
    /\ pc[t] = "end" => ~IsOpen(m_current_log[t])

ColourInv == \A t \in Thread : OneColour(t)

Neutral(q) == \A i \in DOMAIN q : q[i].kind # "color"

(* What is added without a colour does not open one ...                    *)
LEMMA NotOpened ==
  ASSUME NEW s \in Seq(APiece), NEW q \in Seq(APiece), Neutral(q), IsOpen(s \o q)
  PROVE  IsOpen(s)
<1> DEFINE r == s \o q
           n == Len(s)
           m == Len(q)
<1>1. n \in Nat /\ m \in Nat /\ DOMAIN s = 1..n /\ DOMAIN q = 1..m
  OBVIOUS
<1>2. Len(r) = n + m /\ DOMAIN r = 1..(n + m) /\ \A i \in 1..(n + m) : r[i] = IF i <= n THEN s[i] ELSE q[i - n]
  BY ConcatProperties
<1> HIDE DEF r, n, m
<1>3. PICK i \in DOMAIN r : r[i].kind = "color" /\ \A j \in i..Len(r) : r[j].kind # "reset"
  BY DEF IsOpen, r
<1>4. i <= n
  <2> SUFFICES ASSUME ~(i <= n) PROVE FALSE
    OBVIOUS
  <2>1. i - n \in DOMAIN q /\ r[i] = q[i - n]
    BY <1>1, <1>2
  <2> QED
    BY <1>3, <2>1 DEF Neutral
<1>5. i \in DOMAIN s /\ s[i].kind = "color"
  BY <1>1, <1>2, <1>3, <1>4
<1>6. \A j \in i..n : s[j].kind # "reset"
  <2> SUFFICES ASSUME NEW j \in i..n PROVE s[j].kind # "reset"
    OBVIOUS
  <2>1. j \in i..Len(r) /\ r[j] = s[j]
    BY <1>1, <1>2, <1>4
  <2> QED
    BY <1>3, <2>1
<1> QED
  BY <1>5, <1>6 DEF IsOpen, n

(* ... a reset at the end leaves none open ...                             *)
LEMMA NoneOpen ==
  ASSUME NEW s \in Seq(APiece), NEW x \in APiece, x.kind = "reset"
  PROVE  ~IsOpen(s \o <<x>>)
<1> DEFINE r == s \o <<x>>
<1>1. Len(r) \in Nat /\ DOMAIN r = 1..Len(r) /\ r[Len(r)] = x
  OBVIOUS
<1> HIDE DEF r
<1>2. \A i \in DOMAIN r : Len(r) \in i..Len(r)
  BY <1>1
<1>3. ~IsOpen(r)
  BY <1>1, <1>2 DEF IsOpen
<1> QED
  BY <1>3 DEF r

(* ... and one that is open after what was flushed is open on the whole.   *)
LEMMA OpenAfter ==
  ASSUME NEW f \in Seq(APiece), NEW s \in Seq(APiece), IsOpen(s)
  PROVE  IsOpen(f \o s)
<1> DEFINE r == f \o s
           n == Len(f)
           m == Len(s)
<1>1. n \in Nat /\ m \in Nat /\ DOMAIN s = 1..m
  OBVIOUS
<1>2. Len(r) = n + m /\ DOMAIN r = 1..(n + m) /\ \A i \in 1..(n + m) : r[i] = IF i <= n THEN f[i] ELSE s[i - n]
  BY ConcatProperties
<1>3. PICK i \in 1..m : s[i].kind = "color" /\ \A j \in i..m : s[j].kind # "reset"
  BY <1>1 DEF IsOpen
<1> HIDE DEF r, n, m
<1>4. n + i \in DOMAIN r /\ r[n + i] = s[i]
  <2>1. n + i \in 1..(n + m) /\ ~(n + i <= n) /\ (n + i) - n = i
    BY <1>1
  <2> QED
    BY <1>2, <2>1
<1>5. \A j \in (n + i)..(n + m) : r[j].kind # "reset"
  <2> SUFFICES ASSUME NEW j \in (n + i)..(n + m) PROVE r[j].kind # "reset"
    OBVIOUS
  <2>1. j - n \in i..m /\ j \in 1..(n + m) /\ ~(j <= n)
    BY <1>1
  <2> QED
    BY <1>2, <1>3, <2>1
<1>6. IsOpen(r)
  BY <1>2, <1>3, <1>4, <1>5 DEF IsOpen
<1> QED
  BY <1>6 DEF r

(* The line of a call has no colour.                                       *)
LEMMA LineIsNeutral ==
  ASSUME Types, NEW t \in Thread
  PROVE  Neutral(Stamp(t)) /\ Neutral(Append(Stamp(t), Piece("text", t)))
<1> DEFINE s == Stamp(t)
           q == Append(s, Piece("text", t))
           x == Piece("text", t)
<1>1. s \in Seq(APiece) /\ x \in APiece /\ x.kind = "text"
  BY PiecesAdded DEF Piece
<1>2. Neutral(s)
  <2> DEFINE a == <<Piece("date", t), Piece("name", t)>>
             b == IF call[t].ex THEN <<Piece("place", t)>> ELSE <<>>
  <2>1. a \in Seq(APiece) /\ b \in Seq(APiece)
    BY PiecesAdded
  <2>2. (\A i \in 1..Len(a) : a[i].kind # "color") /\ (\A i \in 1..Len(b) : b[i].kind # "color")
    BY DEF Piece
  <2>3. s = a \o b
    BY DEF Stamp
  <2> HIDE DEF a, b, s
  <2>4. /\ DOMAIN s = 1..(Len(a) + Len(b)) /\ Len(a) \in Nat /\ Len(b) \in Nat
        /\ \A i \in 1..(Len(a) + Len(b)) : s[i] = IF i <= Len(a) THEN a[i] ELSE b[i - Len(a)]
    BY <2>1, <2>3, ConcatProperties
  <2> SUFFICES ASSUME NEW i \in 1..(Len(a) + Len(b)) PROVE s[i].kind # "color"
    BY <2>4 DEF Neutral
  <2>5. CASE i <= Len(a)
    BY <2>2, <2>4, <2>5
  <2>6. CASE ~(i <= Len(a))
    <3>1. i - Len(a) \in 1..Len(b)
      BY <2>4, <2>6
    <3> QED
      BY <2>2, <2>4, <2>6, <3>1
  <2> QED
    BY <2>5, <2>6
<1>3. \A i \in DOMAIN q : (i \in DOMAIN s /\ q[i] = s[i]) \/ q[i] = x
  BY <1>1
<1> HIDE DEF s, x, q
<1>4. Neutral(q)
  BY <1>1, <1>2, <1>3 DEF Neutral
<1> QED
  BY <1>2, <1>4 DEF s, q

(* Turning colours on or off: who has a colour open then is remembered.    *)
LEMMA ColourSet ==
  ASSUME Types, ColourInv, NEW set \in BOOLEAN, ColorBecomes(set), UNCHANGED logvars
  PROVE  ColourInv'
<1> SUFFICES ASSUME NEW t \in Thread PROVE OneColour(t)'
  BY DEF ColourInv
<1> DEFINE f == frames[t]
           m == m_current_log[t]
<1>1. f \in Seq(Seq(APiece)) /\ m \in Seq(APiece) /\ FlattenSeq(f) \in Seq(APiece)
  BY FlattenType DEF Types
<1>2. IsOpen(m) => IsOpen(Stream(t))
  BY <1>1, OpenAfter DEF Stream
<1>3. /\ g_color' = set
      /\ turnedOff'[t] = (turnedOff[t] \/ (g_color /\ ~set /\ IsOpen(Stream(t))))
  BY DEF ColorBecomes
<1>4. frames' = frames /\ m_current_log' = m_current_log /\ pc' = pc
  BY DEF logvars
<1>5. OneColour(t)
  BY DEF ColourInv
<1> QED
  BY <1>2, <1>3, <1>4, <1>5 DEF OneColour, Types

(* A step of a call.                                                       *)
LEMMA ColourOfThread ==
  ASSUME Types, NEW t \in Thread, OneColour(t), Log(t)
  PROVE  OneColour(t)'
<1> DEFINE m == m_current_log[t]
<1>1. m \in Seq(APiece) /\ frames[t] \in Seq(Seq(APiece))
  BY DEF Types
<1>2. \A k \in {"color", "date", "name", "place", "text", "reset", "endl"} :
        Piece(k, t) \in APiece /\ Piece(k, t).kind = k
  BY PiecesAdded DEF Piece
<1>3. m \o <<>> = m
  BY <1>1, NothingAdded
<1>4. ASSUME NEW level \in LogLevel, CallFiltered(t, level) PROVE OneColour(t)'
  BY <1>4 DEF CallFiltered, setvars, OneColour
<1>5. ASSUME NEW level \in LogLevel, NEW ex \in BOOLEAN, Call(t, level, ex) PROVE OneColour(t)'
  BY <1>5 DEF Call, Types, setvars, OneColour
<1>6. CASE SetColor(t)
  <2>1. /\ pc'[t] = "body" /\ frames' = frames /\ turnedOff' = turnedOff /\ g_color' = g_color
    BY <1>6 DEF SetColor, Types, setvars
  <2>2. ~g_color => m_current_log'[t] = m
    BY <1>3, <1>6 DEF SetColor, Add, Types
  <2> QED
    BY <2>1, <2>2 DEF OneColour
<1>7. ASSUME Body(t) \/ BodyThrows(t) PROVE OneColour(t)'
  <2>1. \E q \in Seq(APiece) : Neutral(q) /\ Add(t, q)
    BY <1>7, PiecesAdded, LineIsNeutral DEF Body, BodyThrows
  <2>2. PICK q \in Seq(APiece) : Neutral(q) /\ Add(t, q)
    BY <2>1
  <2>3. m_current_log'[t] = m \o q
    BY <2>2, Added
  <2>4. /\ pc'[t] # "end" /\ frames' = frames /\ turnedOff' = turnedOff /\ g_color' = g_color
    BY <1>7 DEF Body, BodyThrows, Types, setvars
  <2> HIDE DEF m
  <2>5. IsOpen(m \o q) => IsOpen(m)
    BY <1>1, <2>2, NotOpened
  <2> QED
    BY <2>3, <2>4, <2>5 DEF OneColour, m
<1>8. CASE ResetColor(t)
  <2>1. /\ pc'[t] = "end" /\ frames' = frames /\ turnedOff' = turnedOff /\ g_color' = g_color
    BY <1>8 DEF ResetColor, Types, setvars
  <2>2. CASE g_color
    <3> DEFINE x == Piece("reset", t)
    <3>1. x \in APiece /\ x.kind = "reset" /\ m_current_log'[t] = m \o <<x>>
      BY <1>2, <1>8, <2>2 DEF ResetColor, Add, Types
    <3> HIDE DEF m, x
    <3>2. ~IsOpen(m \o <<x>>)
      BY <1>1, <3>1, NoneOpen
    <3> QED
      BY <2>1, <3>1, <3>2 DEF OneColour
  <2>3. CASE ~g_color
    <3>1. m_current_log'[t] = m
      BY <1>3, <1>8, <2>3 DEF ResetColor, Add, Types
    <3> QED
      BY <2>1, <2>3, <3>1 DEF OneColour
  <2> QED
    BY <2>2, <2>3
<1>9. ASSUME Endl(t) \/ EndlRefused(t) PROVE OneColour(t)'
  <2> DEFINE x == Piece("endl", t)
             e == Append(m, x)
  <2>1. x \in APiece /\ x.kind = "endl"
    BY <1>2
  <2>2. pc[t] = "end" /\ pc'[t] = "idle" /\ turnedOff' = turnedOff /\ g_color' = g_color
    BY <1>9 DEF Endl, EndlRefused, Types, setvars
  <2>3. IsOpen(e) => IsOpen(m)
    <3> HIDE DEF m, x
    <3>1. e = m \o <<x>> /\ <<x>> \in Seq(APiece) /\ Neutral(<<x>>)
      BY <1>1, <2>1, AppendIsConcat DEF Neutral
    <3> QED
      BY <1>1, <3>1, NotOpened
  <2>4. ASSUME Endl(t) PROVE OneColour(t)'
    <3>1. frames'[t] = Append(frames[t], e) /\ m_current_log'[t] = <<>>
      BY <2>4 DEF Endl, Types
    <3>2. e \in Seq(APiece)
      BY <1>1, <2>1
    <3> HIDE DEF e
    <3>3. \A k \in DOMAIN frames'[t] : (k \in DOMAIN frames[t] /\ frames'[t][k] = frames[t][k]) \/ frames'[t][k] = e
      BY <1>1, <3>1, <3>2
    <3>4. ~IsOpen(<<>>)
      BY DEF IsOpen
    <3> QED
      BY <2>2, <2>3, <3>1, <3>3, <3>4 DEF OneColour
  <2>5. ASSUME EndlRefused(t) PROVE OneColour(t)'
    <3>1. frames' = frames /\ m_current_log'[t] = m \o <<x>>
      BY <2>5 DEF EndlRefused, Add, Types
    <3>2. m \o <<x>> = e
      BY <1>1, <2>1, AppendIsConcat
    <3> HIDE DEF e
    <3> QED
      BY <2>2, <2>3, <3>1, <3>2 DEF OneColour
  <2> QED
    BY <1>9, <2>4, <2>5
<1> QED
  BY <1>4, <1>5, <1>6, <1>7, <1>8, <1>9 DEF Log

(* Every step keeps colours closed.                                        *)
LEMMA ColourStep ==
  ASSUME Types, Types', ColourInv, [Next]_vars
  PROVE  ColourInv'
<1>1. ASSUME NEW t \in Thread, Log(t) PROVE ColourInv'
  <2>1. OneColour(t)'
    BY <1>1, ColourOfThread DEF ColourInv
  <2>2. /\ g_color' = g_color /\ turnedOff' = turnedOff
        /\ \A u \in Thread \ {t} :
             pc'[u] = pc[u] /\ frames'[u] = frames[u] /\ m_current_log'[u] = m_current_log[u]
    BY <1>1, SMTT(40) DEF Log, Call, CallFiltered, SetColor, Body, BodyThrows, ResetColor, Endl, EndlRefused, Add, Types,
                setvars
  <2>3. \A u \in Thread \ {t} : OneColour(u)'
    BY <2>2 DEF ColourInv, OneColour
  <2> QED
    BY <2>1, <2>3 DEF ColourInv
<1>2. ASSUME Set PROVE ColourInv'
  <2>1. ASSUME NEW set \in BOOLEAN, set_color(set) PROVE ColourInv'
    BY <2>1, ColourSet DEF set_color
  <2>2. CASE InitColor
    BY <2>2, ColourSet DEF InitColor
  <2>3. ASSUME UNCHANGED <<g_color, logvars, turnedOff>> PROVE ColourInv'
    BY <2>3 DEF ColourInv, OneColour, logvars
  <2> QED
    BY <1>2, <2>1, <2>2, <2>3 DEF Set, set_print_file_line, set_log_level, set_log_level_by_name, InitBegin,
                                  InitLevels
<1>3. CASE UNCHANGED vars
  BY <1>3 DEF ColourInv, OneColour, vars, setvars, logvars
<1> QED
  BY <1>1, <1>2, <1>3 DEF Next

(* At the start there is no text to colour.                                *)
LEMMA ColourInit ==
  ASSUME Init
  PROVE  ColourInv
<1>1. ~IsOpen(<<>>)
  BY DEF IsOpen
<1>2. \A t \in Thread : m_current_log[t] = <<>> /\ frames[t] = <<>>
  BY DEF Init
<1> QED
  BY <1>1, <1>2 DEF ColourInv, OneColour

-----------------------------------------------------------------------------
(* What holds at all times.                                                *)
IInv == Types /\ TextInv /\ ColourInv

(* The inductive invariant holds at the start and after every step, for    *)
(* every set of threads, levels and units.                                 *)
THEOREM Invariance == Spec => []IInv
<1>1. Init => IInv
  BY FrontEndAssumption, TypesInit, TextInit, ColourInit DEF IInv
<1>2. IInv /\ [Next]_vars => IInv'
  BY FrontEndAssumption, TypesStep, TextStep, ColourStep DEF IInv
<1> QED
  BY <1>1, <1>2, PTL DEF Spec

(* A frame never colours what is printed after it, unless the colour was   *)
(* turned off under a call.                                                *)
THEOREM ColourEnds == Spec => []ColourDoesNotLeak
<1>1. IInv => ColourDoesNotLeak
  BY DEF IInv, ColourInv, OneColour, ColourDoesNotLeak
<1> QED
  BY <1>1, Invariance, PTL

(* The text of a thread is made of whole lines, each of one call, in       *)
(* frames that end where a line ends.                                      *)
THEOREM LinesStayWhole == Spec => []TextIsWhole
<1>1. ASSUME IInv PROVE TypeOK
  <2>1. ASSUME NEW t \in Thread, pc[t] = "idle", ~thrown[t], m_current_log[t] # <<>>
        PROVE  Last(m_current_log[t]).kind = "endl"
    <3> DEFINE m == m_current_log[t]
               f == FlattenSeq(frames[t])
    <3>1. m \in Seq(APiece) /\ f \in Seq(APiece) /\ m # <<>>
      BY <1>1, <2>1, FlattenType DEF IInv, Types
    <3>2. LineEnds(f \o m, thrown[t])
      BY <1>1, <2>1 DEF IInv, TextInv, OneText, AtPlace, Stream
    <3>3. ~thrown[t]
      BY <2>1
    <3> HIDE DEF m, f
    <3>4. f \o m # <<>> /\ (f \o m)[Len(f \o m)] = m[Len(m)]
      BY <3>1
    <3> QED
      BY <3>2, <3>3, <3>4 DEF LineEnds, Last, m
  <2> QED
    BY <1>1, <2>1 DEF IInv, Types, TypeOK, Pieces, APiece
<1>2. ASSUME IInv PROVE LinesAreWhole
  BY <1>2 DEF IInv, TextInv, OneText, FramesEnd, LinesAreWhole, Whole, Pair
<1> QED
  BY <1>1, <1>2, Invariance, PTL DEF TextIsWhole

-----------------------------------------------------------------------------
(* The parser of format strings, with a state of its own.  Its invariant   *)
(* names the sentence: what has been read of the string is the spelling of *)
(* a sentence, of the text not yet copied, and - inside a field - of a     *)
(* field whose specifiers are complete up to the place where the order of  *)
(* the specifiers has come to.                                             *)
CONSTANTS FormatStrings, Args, Names, IntBits
VARIABLES fmt, p, begin, next_arg_id, phase, arg, state, specs, out

Parse == INSTANCE FmtGrammar WITH pc <- phase

(* The characters: those of the format strings and those the syntax names. *)
Symbols == Parse!Characters \cup Parse!Letters \cup Parse!DigitChars \cup {"{", "}", ":", ".", "#", "L", "0"}
           \cup DOMAIN Parse!AlignOf \cup DOMAIN Parse!SignOf \cup DOMAIN Parse!Presentation

-----------------------------------------------------------------------------
(* Numbers.                                                                *)

(* The operators of the libraries are the same through the instance.       *)
LEMMA SameFlattened == ASSUME NEW seqs PROVE Parse!FlattenSeq(seqs) = FlattenSeq(seqs)
BY DEF Parse!FlattenSeq, FlattenSeq

LEMMA SameCount == ASSUME NEW S PROVE Parse!Cardinality(S) = Cardinality(S)
BY DEF Parse!Cardinality, Cardinality

LEMMA OnlyElement == ASSUME NEW S, NEW r \in Seq(S), Len(r) = 1 PROVE r[1] \in S /\ r = <<r[1]>>
OBVIOUS

(* Two functions that begin alike and go on alike are the same.            *)
LEMMA SameResults ==
  ASSUME NEW n \in Nat, NEW u, NEW v, u[0] = v[0], \A i \in 1..n : u[i - 1] = v[i - 1] => u[i] = v[i]
  PROVE  u[n] = v[n]
<1> DEFINE S == {i \in Nat : i <= n => u[i] = v[i]}
<1>1. \A i \in Nat : i \in S => i + 1 \in S
  <2> SUFFICES ASSUME NEW i \in Nat, i + 1 <= n, u[i] = v[i] PROVE u[i + 1] = v[i + 1]
    OBVIOUS
  <2>1. i + 1 \in 1..n /\ (i + 1) - 1 = i
    OBVIOUS
  <2> QED
    BY <2>1
<1>2. 0 \in S
  OBVIOUS
<1> HIDE DEF S
<1>3. n \in S
  BY <1>1, <1>2, Induction
<1> QED
  BY <1>3 DEF S

LEMMA DigitsAre == DOMAIN Parse!Digits = 1..10 /\ Len(Parse!Digits) = 10 /\ Parse!Digits[1] = "0" /\ Parse!Digits \in [1..10 -> Parse!DigitChars]
                   /\ "0" \in Parse!DigitChars /\ "end" \notin Parse!DigitChars
<1>1. DOMAIN Parse!Digits = 1..10 /\ Len(Parse!Digits) = 10 /\ Parse!Digits[1] = "0"
  BY DEF Parse!Digits
<1>2. \A i \in 1..10 : i = 1 \/ i = 2 \/ i = 3 \/ i = 4 \/ i = 5 \/ i = 6 \/ i = 7 \/ i = 8 \/ i = 9 \/ i = 10
  OBVIOUS
<1>3. Parse!DigitChars = {Parse!Digits[i] : i \in 1..10}
  BY <1>1 DEF Parse!DigitChars, Parse!ToSet, ToSet
<1>4. \A i \in 1..10 : Parse!Digits[i] # "end"
  BY <1>2 DEF Parse!Digits
<1>5. Parse!Digits = [i \in 1..10 |-> Parse!Digits[i]]
  BY <1>1 DEF Parse!Digits
<1> QED
  BY <1>1, <1>3, <1>4, <1>5

LEMMA DigitIs ==
  ASSUME NEW c \in Parse!DigitChars
  PROVE  Parse!Digit(c) \in 0..9 /\ Parse!Digits[Parse!Digit(c) + 1] = c
<1>1. PICK i \in DOMAIN Parse!Digits : Parse!Digits[i] = c
  BY DigitsAre DEF Parse!DigitChars, Parse!ToSet, ToSet
<1> DEFINE j == CHOOSE n \in DOMAIN Parse!Digits : Parse!Digits[n] = c
<1>2. j \in DOMAIN Parse!Digits /\ Parse!Digits[j] = c
  BY <1>1
<1> HIDE DEF j
<1>3. Parse!Digit(c) = j - 1
  BY DEF Parse!Digit, j
<1> QED
  BY <1>2, <1>3, DigitsAre

(* The value of digits, one after the other.                               *)
LEMMA ValueSteps ==
  ASSUME NEW d \in Seq(Parse!DigitChars)
  PROVE  \E v \in [0..Len(d) -> Nat] :
           v[0] = 0 /\ (\A i \in 1..Len(d) : v[i] = v[i - 1] * 10 + Parse!Digit(d[i])) /\ Parse!Value(d) = v[Len(d)]
<1> DEFINE N == Len(d)
           G == [x \in Nat \X (1..N) |-> x[1] * 10 + Parse!Digit(d[x[2]])]
<1>1. N \in Nat /\ \A i \in 1..N : d[i] \in Parse!DigitChars
  OBVIOUS
<1> HIDE DEF N
<1>2. \A i \in 1..N : Parse!Digit(d[i]) \in Nat
  <2> TAKE i \in 1..N
  <2>1. Parse!Digit(d[i]) \in 0..9
    BY <1>1, DigitIs
  <2> QED
    BY <2>1
<1>3. StepOf(G, Nat, N)
  BY <1>2 DEF StepOf
<1>4. \A x \in Nat, i \in 1..N : G[<<x, i>>] = x * 10 + Parse!Digit(d[i])
  OBVIOUS
<1> HIDE DEF G
<1>5. PICK u \in [0..N -> Nat] : Results(u, 0, G, N)
  BY <1>1, <1>3, Recursion
<1>6. u[0] = 0 /\ \A i \in 1..N : u[i] = u[i - 1] * 10 + Parse!Digit(d[i])
  <2>1. \A i \in 1..N : i - 1 \in 0..N
    BY <1>1
  <2> QED
    BY <1>4, <1>5, <2>1 DEF Results
<1> DEFINE Eq(f) == f = [i \in 0..N |-> IF i = 0 THEN 0 ELSE f[i - 1] * 10 + Parse!Digit(d[i])]
<1>7. Eq(u)
  <2>1. \A i \in 0..N : u[i] = IF i = 0 THEN 0 ELSE u[i - 1] * 10 + Parse!Digit(d[i])
    BY <1>1, <1>6
  <2> QED
    BY <2>1
<1> DEFINE f == CHOOSE g : Eq(g)
<1>8. Eq(f)
  BY <1>7
<1>9. Parse!Value(d) = f[N]
  BY DEF Parse!Value, N
<1> HIDE DEF f
<1>10. f[0] = 0 /\ \A i \in 1..N : f[i] = f[i - 1] * 10 + Parse!Digit(d[i])
  BY <1>1, <1>8
<1>11. N \in Nat /\ f[0] = u[0] /\ \A i \in 1..N : f[i - 1] = u[i - 1] => f[i] = u[i]
  BY <1>1, <1>6, <1>10
<1> HIDE DEF Eq
<1>12. f[N] = u[N]
  BY <1>11, SameResults
<1> QED
  BY <1>5, <1>6, <1>9, <1>12 DEF N

LEMMA ValueOfNone == Parse!Value(<<>>) = 0
<1>1. <<>> \in Seq(Parse!DigitChars) /\ Len(<<>>) = 0
  OBVIOUS
<1> QED
  BY <1>1, ValueSteps

LEMMA ValueAppend ==
  ASSUME NEW d \in Seq(Parse!DigitChars), NEW c \in Parse!DigitChars
  PROVE  Parse!Value(d) \in Nat /\ Append(d, c) \in Seq(Parse!DigitChars) /\ Parse!Value(Append(d, c)) = Parse!Value(d) * 10 + Parse!Digit(c)
<1>0. PICK r : r = Append(d, c)
  OBVIOUS
<1>1. r \in Seq(Parse!DigitChars) /\ Len(r) = Len(d) + 1 /\ r[Len(d) + 1] = c /\ \A i \in 1..Len(d) : r[i] = d[i]
  BY <1>0, AppendProperties
<1>2. PICK n \in Nat : n = Len(d)
  OBVIOUS
<1>3. PICK u \in [0..n -> Nat] : u[0] = 0 /\ (\A i \in 1..n : u[i] = u[i - 1] * 10 + Parse!Digit(d[i])) /\ Parse!Value(d) = u[n]
  BY <1>2, ValueSteps
<1>4. PICK v \in [0..(n + 1) -> Nat] : v[0] = 0 /\ (\A i \in 1..(n + 1) : v[i] = v[i - 1] * 10 + Parse!Digit(r[i])) /\ Parse!Value(r) = v[n + 1]
  BY <1>1, <1>2, ValueSteps
<1>5. u[0] = v[0] /\ \A i \in 1..n : u[i - 1] = v[i - 1] => u[i] = v[i]
  <2>1. \A i \in 1..n : i \in 1..(n + 1) /\ r[i] = d[i]
    BY <1>1, <1>2
  <2> QED
    BY <1>3, <1>4, <2>1
<1>6. u[n] = v[n]
  BY <1>5, SameResults
<1>7. v[n + 1] = v[n] * 10 + Parse!Digit(r[n + 1])
  <2>1. n + 1 \in 1..(n + 1) /\ (n + 1) - 1 = n
    OBVIOUS
  <2> QED
    BY <1>4, <2>1
<1>8. u[n] \in Nat
  OBVIOUS
<1> QED
  BY <1>0, <1>1, <1>2, <1>3, <1>4, <1>6, <1>7, <1>8

(* The digits of a number below those of a larger one.                     *)
LastDigit(m) == Parse!Digits[(m % 10) + 1]
Spelling(f, m) == IF m < 10 THEN <<Parse!Digits[m + 1]>> ELSE Append(f[m \div 10], LastDigit(m))
Spells(f, n) == \A m \in 0..n : f[m] = Spelling(f, m)

LEMMA DivTen ==
  ASSUME NEW m \in Nat
  PROVE  m \div 10 \in Nat /\ m % 10 \in 0..9 /\ m = 10 * (m \div 10) + (m % 10) /\ (m >= 10 => m \div 10 < m)
OBVIOUS

LEMMA TenFold ==
  ASSUME NEW v \in Nat, NEW x \in 0..9
  PROVE  (v * 10 + x) \div 10 = v /\ (v * 10 + x) % 10 = x
OBVIOUS

LEMMA LastDigitIs == \A m \in Nat : LastDigit(m) \in Parse!DigitChars
<1> TAKE m \in Nat
<1>1. PICK i \in 1..10 : i = (m % 10) + 1
  BY DivTen
<1> QED
  BY <1>1, DigitsAre DEF LastDigit

LEMMA SpellingAlike ==
  ASSUME NEW m \in Nat, NEW f, NEW g, m >= 10 => f[m \div 10] = g[m \div 10]
  PROVE  Spelling(f, m) = Spelling(g, m)
<1>1. CASE m < 10
  BY <1>1 DEF Spelling
<1>2. CASE m >= 10
  BY <1>2 DEF Spelling
<1> QED
  BY <1>1, <1>2

LEMMA SpelledUpTo ==
  ASSUME NEW n \in Nat
  PROVE  \E f \in [0..n -> Seq(Parse!DigitChars)] : Spells(f, n)
<1> DEFINE T == Seq(Parse!DigitChars)
           S == {k \in Nat : \E f \in [0..k -> T] : Spells(f, k)}
<1>2. 0 \in S
  <2>1. PICK f : f = [i \in 0..0 |-> <<Parse!Digits[1]>>]
    OBVIOUS
  <2>2. Parse!Digits[1] \in Parse!DigitChars
    BY DigitsAre
  <2>3. f \in [0..0 -> T] /\ Spells(f, 0)
    BY <2>1, <2>2 DEF Spells, Spelling
  <2> QED
    BY <2>3
<1>3. ASSUME NEW k \in Nat, k \in S PROVE k + 1 \in S
  <2>1. PICK f \in [0..k -> T] : Spells(f, k)
    BY <1>3
  <2>2. PICK x : x = Spelling(f, k + 1)
    OBVIOUS
  <2>3. x \in T
    <3>1. CASE k + 1 < 10
      <4>1. k + 1 + 1 \in 1..10
        BY <3>1
      <4>2. Parse!Digits[k + 1 + 1] \in Parse!DigitChars
        BY <4>1, DigitsAre
      <4> QED
        BY <2>2, <3>1, <4>2 DEF Spelling
    <3>2. CASE ~ (k + 1 < 10)
      <4>1. (k + 1) \div 10 \in 0..k
        BY <3>2, DivTen
      <4>2. f[(k + 1) \div 10] \in T /\ LastDigit(k + 1) \in Parse!DigitChars
        BY <2>1, <4>1, LastDigitIs
      <4>3. Append(f[(k + 1) \div 10], LastDigit(k + 1)) \in T
        BY <4>2, AppendProperties
      <4> QED
        BY <2>2, <3>2, <4>3 DEF Spelling
    <3> QED
      BY <3>1, <3>2
  <2>4. PICK g : g = [i \in 0..(k + 1) |-> IF i = k + 1 THEN x ELSE f[i]]
    OBVIOUS
  <2>5. g \in [0..(k + 1) -> T] /\ g[k + 1] = x /\ \A i \in 0..k : g[i] = f[i]
    BY <2>1, <2>3, <2>4
  <2>6. ASSUME NEW m \in 0..(k + 1) PROVE g[m] = Spelling(g, m)
    <3>1. m >= 10 => m \div 10 \in 0..k
      BY DivTen
    <3>2. m >= 10 => g[m \div 10] = f[m \div 10]
      BY <2>5, <3>1
    <3>3. Spelling(g, m) = Spelling(f, m)
      <4>1. m \in Nat
        OBVIOUS
      <4> QED
        BY <3>2, <4>1, SpellingAlike
    <3>4. CASE m = k + 1
      BY <2>2, <2>5, <3>3, <3>4
    <3>5. CASE m \in 0..k
      BY <2>1, <2>5, <3>3, <3>5 DEF Spells
    <3> QED
      BY <3>4, <3>5
  <2>7. Spells(g, k + 1)
    BY <2>6 DEF Spells
  <2> QED
    BY <2>5, <2>7
<1> HIDE DEF S
<1>4. n \in S
  BY <1>2, <1>3, Induction
<1> QED
  BY <1>4 DEF S

(* Functions that spell do it the same way.                                *)
LEMMA SpelledAlike ==
  ASSUME NEW n \in Nat, NEW k \in Nat, NEW f, NEW g, Spells(f, n), Spells(g, k), NEW m \in Nat, m <= n, m <= k
  PROVE  f[m] = g[m]
<1> DEFINE Bad == {i \in Nat : i <= n /\ i <= k /\ f[i] # g[i]}
<1>1. SUFFICES ASSUME Bad # {} PROVE FALSE
  OBVIOUS
<1>2. PICK i \in Bad : \A j \in Bad : i <= j
  BY <1>1, Least
<1>3. i \in Nat /\ i <= n /\ i <= k /\ f[i] # g[i]
  OBVIOUS
<1>4. \A j \in Nat : j < i => f[j] = g[j]
  BY <1>2, <1>3
<1>5. i \in 0..n /\ i \in 0..k
  BY <1>3
<1>6. i >= 10 => f[i \div 10] = g[i \div 10]
  BY <1>3, <1>4, DivTen
<1> HIDE DEF Bad
<1>7. Spelling(f, i) = Spelling(g, i)
  BY <1>3, <1>6, SpellingAlike
<1>8. f[i] = g[i]
  BY <1>5, <1>7 DEF Spells
<1> QED
  BY <1>3, <1>8

LEMMA NumberIs ==
  ASSUME NEW n \in Nat
  PROVE  /\ Parse!Number(n) \in Seq(Parse!DigitChars)
         /\ Parse!Number(n) = IF n < 10 THEN <<Parse!Digits[n + 1]>> ELSE Append(Parse!Number(n \div 10), LastDigit(n))
<1> DEFINE Eq(k, f) == f = [m \in 0..k |-> IF m < 10 THEN <<Parse!Digits[m + 1]>>
                                           ELSE Append(f[m \div 10], Parse!Digits[(m % 10) + 1])]
<1>0. \A k, f : Eq(k, f) <=> f = [m \in 0..k |-> Spelling(f, m)]
  BY DEF Spelling, LastDigit
<1>1. ASSUME NEW k \in Nat PROVE \E f \in [0..k -> Seq(Parse!DigitChars)] : Spells(f, k) /\ Parse!Number(k) = f[k]
  <2>1. PICK f \in [0..k -> Seq(Parse!DigitChars)] : Spells(f, k)
    BY SpelledUpTo
  <2>2. Eq(k, f)
    <3>1. f = [m \in 0..k |-> Spelling(f, m)]
      BY <2>1 DEF Spells
    <3> QED
      BY <1>0, <3>1, ZenonT(60)
  <2>3. PICK g : g = CHOOSE h : Eq(k, h)
    OBVIOUS
  <2>4. Eq(k, g)
    BY <2>2, <2>3, Zenon
  <2>5. Parse!Number(k) = g[k]
    BY <2>3 DEF Parse!Number
  <2>6. Spells(g, k)
    <3>1. g = [m \in 0..k |-> Spelling(g, m)]
      BY <1>0, <2>4, ZenonT(60)
    <3> HIDE DEF Eq
    <3> QED
      BY <3>1, Zenon DEF Spells
  <2> HIDE DEF Eq
  <2>7. g[k] = f[k]
    <3>1. k <= k
      OBVIOUS
    <3> QED
      BY <2>1, <2>6, <3>1, SpelledAlike
  <2> QED
    BY <2>1, <2>5, <2>7
<1>2. PICK f \in [0..n -> Seq(Parse!DigitChars)] : Spells(f, n) /\ Parse!Number(n) = f[n]
  BY <1>1
<1>3. n >= 10 => f[n \div 10] = Parse!Number(n \div 10)
  <2>1. SUFFICES ASSUME n >= 10 PROVE f[n \div 10] = Parse!Number(n \div 10)
    OBVIOUS
  <2>2. PICK k \in Nat : k = n \div 10 /\ k <= n
    BY <2>1, DivTen
  <2>3. PICK g \in [0..k -> Seq(Parse!DigitChars)] : Spells(g, k) /\ Parse!Number(k) = g[k]
    BY <1>1
  <2>4. f[k] = g[k]
    <3>1. k <= k /\ k <= n /\ Spells(f, n) /\ Spells(g, k)
      BY <1>2, <2>2, <2>3
    <3> HIDE DEF Eq
    <3> QED
      BY <3>1, SpelledAlike, SMTT(40)
  <2> QED
    BY <2>2, <2>3, <2>4
<1>4. n \in 0..n
  OBVIOUS
<1>5. Parse!Number(n) \in Seq(Parse!DigitChars)
  BY <1>2, <1>4
<1> HIDE DEF Eq
<1>6. f[n] = IF n < 10 THEN <<Parse!Digits[n + 1]>> ELSE Append(f[n \div 10], LastDigit(n))
  BY <1>2, <1>4 DEF Spells, Spelling
<1> QED
  BY <1>2, <1>3, <1>5, <1>6

(* The digits of their value.                                              *)
LEMMA NumberOfValue ==
  ASSUME NEW d \in Seq(Parse!DigitChars), d # <<>>, d[1] # "0" \/ Len(d) = 1
  PROVE  Parse!Number(Parse!Value(d)) = d
<1> DEFINE P(n) == \A r \in Seq(Parse!DigitChars) : Len(r) = n + 1 /\ (r[1] # "0" \/ n = 0) =>
                     /\ Parse!Value(r) \in Nat /\ Parse!Number(Parse!Value(r)) = r /\ (r[1] # "0" => Parse!Value(r) >= 1)
           S == {n \in Nat : P(n)}
<1>1. P(0)
  <2> SUFFICES ASSUME NEW r \in Seq(Parse!DigitChars), Len(r) = 1
               PROVE  Parse!Value(r) \in Nat /\ Parse!Number(Parse!Value(r)) = r /\ (r[1] # "0" => Parse!Value(r) >= 1)
    OBVIOUS
  <2>1. PICK c \in Parse!DigitChars : c = r[1] /\ r = <<c>>
    BY OnlyElement
  <2>2. r = <<c>> /\ r = Append(<<>>, c)
    BY <2>1
  <2>3. Parse!Value(r) = Parse!Digit(c)
    <3>1. <<>> \in Seq(Parse!DigitChars)
      OBVIOUS
    <3>2. Parse!Value(r) = Parse!Value(<<>>) * 10 + Parse!Digit(c)
      BY <2>2, <3>1, ValueAppend
    <3> QED
      BY <3>2, ValueOfNone, DigitIs
  <2>4. Parse!Digit(c) \in 0..9 /\ Parse!Digits[Parse!Digit(c) + 1] = c
    BY DigitIs
  <2>5. c # "0" => Parse!Digit(c) >= 1
    BY <2>4, DigitsAre
  <2>6. Parse!Number(Parse!Digit(c)) = <<c>>
    <3>1. PICK w \in Nat : w = Parse!Digit(c) /\ w < 10
      BY <2>4
    <3>2. Parse!Number(w) = <<Parse!Digits[w + 1]>>
      BY <3>1, NumberIs
    <3> QED
      BY <2>4, <3>1, <3>2
  <2> QED
    BY <2>1, <2>2, <2>3, <2>4, <2>5, <2>6
<1>2. ASSUME NEW n \in Nat, P(n) PROVE P(n + 1)
  <2> SUFFICES ASSUME NEW r \in Seq(Parse!DigitChars), Len(r) = n + 1 + 1, r[1] # "0"
               PROVE  Parse!Value(r) \in Nat /\ Parse!Number(Parse!Value(r)) = r /\ Parse!Value(r) >= 1
    OBVIOUS
  <2>0. r # <<>>
    OBVIOUS
  <2>1. PICK q \in Seq(Parse!DigitChars), c \in Parse!DigitChars : r = Append(q, c)
    BY <2>0, SequenceEmptyOrAppend
  <2>2. Len(q) = n + 1 /\ q[1] = r[1]
    BY <2>1, AppendProperties
  <2>3. Parse!Value(q) \in Nat /\ Parse!Number(Parse!Value(q)) = q /\ Parse!Value(q) >= 1
    BY <1>2, <2>2
  <2>4. Parse!Value(r) = Parse!Value(q) * 10 + Parse!Digit(c)
    BY <2>1, ValueAppend
  <2>5. Parse!Digit(c) \in 0..9 /\ Parse!Digits[Parse!Digit(c) + 1] = c
    BY DigitIs
  <2>6. PICK v \in Nat, x \in 0..9 : v = Parse!Value(q) /\ x = Parse!Digit(c) /\ v >= 1
    BY <2>3, <2>5
  <2>7. Parse!Value(r) \in Nat /\ Parse!Value(r) >= 10 /\ Parse!Value(r) = v * 10 + x
    BY <2>4, <2>6, SMTT(40)
  <2>8. Parse!Value(r) \div 10 = v /\ Parse!Value(r) % 10 = x
    BY <2>7, TenFold
  <2>9. Parse!Number(Parse!Value(r)) = Append(Parse!Number(v), Parse!Digits[x + 1])
    <3>1. PICK w \in Nat : w = Parse!Value(r) /\ ~ (w < 10) /\ w \div 10 = v /\ w % 10 = x
      BY <2>7, <2>8
    <3>2. Parse!Number(w) = Append(Parse!Number(w \div 10), LastDigit(w))
      BY <3>1, NumberIs
    <3> QED
      BY <3>1, <3>2 DEF LastDigit
  <2> QED
    BY <2>1, <2>3, <2>5, <2>6, <2>7, <2>9, SMTT(40)
<1>3. 0 \in S /\ \A n \in Nat : n \in S => n + 1 \in S
  BY <1>1, <1>2
<1> HIDE DEF P
<1>4. PICK n \in Nat : Len(d) = n + 1
  <2>1. Len(d) \in Nat /\ Len(d) # 0
    OBVIOUS
  <2>2. Len(d) - 1 \in Nat /\ Len(d) = (Len(d) - 1) + 1
    BY <2>1
  <2> QED
    BY <2>2, Zenon
<1> HIDE DEF S
<1>5. n \in S
  BY <1>3, Induction
<1>6. P(n)
  BY <1>5 DEF S
<1> QED
  BY <1>4, <1>6 DEF P

(* Digits from b on.                                                       *)
DigitsAt(b, n) == \A i \in 1..n : fmt[b + i - 1] \in Parse!DigitChars

Ten(n) == 10^n

LEMMA Tens ==
  ASSUME Parse!ParseAssumption
  PROVE  /\ Parse!digits10 \in Nat /\ Parse!IntMax \in Nat
         /\ Ten(0) = 1 /\ \A n \in 1..Parse!digits10 : Ten(n) = 10 * Ten(n - 1)
         /\ \A n \in 0..Parse!digits10 : Ten(n) \in 1..(Parse!IntMax + 1)
BY Zenon DEF Parse!ParseAssumption, Ten

(* Unsigned arithmetic.                                                    *)
Wrap(k) == k % 2^IntBits

LEMMA SmallRest == ASSUME NEW k \in Nat, NEW M \in Nat, k < M PROVE k % M = k
OBVIOUS

LEMMA Wraps ==
  ASSUME Parse!ParseAssumption, NEW k \in Nat
  PROVE  Wrap(k) \in Nat /\ (k <= Parse!IntMax => Wrap(k) = k)
<1>1. PICK M \in Nat, top \in Nat : M = 2^IntBits /\ top = Parse!IntMax /\ top < M
  BY DEF Parse!ParseAssumption
<1>2. M \in Nat \ {0}
  BY <1>1
<1>3. k % M \in Nat
  BY <1>2
<1>4. k <= top => k % M = k
  BY <1>1, SmallRest
<1> QED
  BY <1>1, <1>3, <1>4 DEF Wrap

LEMMA TenMore == ASSUME NEW x \in Nat, NEW d \in Nat PROVE x * 10 + d \in Nat
OBVIOUS

LEMMA UnsignedSteps ==
  ASSUME Parse!ParseAssumption, NEW b \in Nat, NEW n \in Nat, DigitsAt(b, n)
  PROVE  \E v \in [0..n -> Nat] :
           /\ v[0] = 0 /\ \A i \in 1..n : v[i] = Wrap(v[i - 1] * 10 + Parse!Digit(fmt[b + i - 1]))
           /\ Parse!Unsigned(b, b + n) = v[n]
<1> DEFINE G == [x \in Nat \X (1..n) |-> Wrap(x[1] * 10 + Parse!Digit(fmt[b + x[2] - 1]))]
<1>1. \A i \in 1..n : Parse!Digit(fmt[b + i - 1]) \in Nat
  <2> TAKE i \in 1..n
  <2>1. fmt[b + i - 1] \in Parse!DigitChars
    BY DEF DigitsAt
  <2>2. Parse!Digit(fmt[b + i - 1]) \in 0..9
    BY <2>1, DigitIs
  <2> QED
    BY <2>2
<1>2. \A k \in Nat : Wrap(k) \in Nat
  BY Wraps
<1>21. ASSUME NEW x \in Nat, NEW i \in 1..n PROVE Wrap(x * 10 + Parse!Digit(fmt[b + i - 1])) \in Nat
  <2>1. x * 10 + Parse!Digit(fmt[b + i - 1]) \in Nat
    BY <1>1, TenMore
  <2> QED
    BY <1>2, <2>1
<1>3. StepOf(G, Nat, n)
  BY <1>21 DEF StepOf
<1>4. \A x \in Nat, i \in 1..n : G[<<x, i>>] = Wrap(x * 10 + Parse!Digit(fmt[b + i - 1]))
  OBVIOUS
<1> HIDE DEF G
<1>5. PICK u \in [0..n -> Nat] : Results(u, 0, G, n)
  BY <1>3, Recursion
<1>6. u[0] = 0 /\ \A i \in 1..n : u[i] = Wrap(u[i - 1] * 10 + Parse!Digit(fmt[b + i - 1]))
  <2>1. \A i \in 1..n : i - 1 \in 0..n
    OBVIOUS
  <2> QED
    BY <1>4, <1>5, <2>1 DEF Results
<1> DEFINE e == b + n
           Eq(f) == f = [i \in b..e |-> IF i = b THEN 0 ELSE Wrap(f[i - 1] * 10 + Parse!Digit(fmt[i - 1]))]
<1>7. PICK w : w = [i \in b..(b + n) |-> u[i - b]]
  OBVIOUS
<1>8. Eq(w)
  <2>1. ASSUME NEW i \in b..e PROVE w[i] = IF i = b THEN 0 ELSE Wrap(w[i - 1] * 10 + Parse!Digit(fmt[i - 1]))
    <3>1. CASE i = b
      BY <1>6, <1>7, <3>1
    <3>2. CASE i # b
      <4>1. PICK k \in 1..n : k = i - b /\ i = b + k /\ i - 1 = b + k - 1
        BY <3>2
      <4>2. w[i] = u[k] /\ w[i - 1] = u[k - 1]
        BY <1>7, <4>1
      <4>3. u[k] = Wrap(u[k - 1] * 10 + Parse!Digit(fmt[b + k - 1]))
        BY <1>6
      <4> QED
        BY <3>2, <4>1, <4>2, <4>3
    <3> QED
      BY <3>1, <3>2
  <2>2. w = [i \in b..e |-> w[i]]
    BY <1>7
  <2> QED
    BY <2>1, <2>2
<1>9. PICK f : f = CHOOSE g : Eq(g)
  OBVIOUS
<1>10. Eq(f)
  BY <1>8, <1>9
<1>11. Parse!Unsigned(b, e) = f[e]
  BY <1>9 DEF Parse!Unsigned, Wrap
<1>12. f[b] = 0 /\ \A i \in 1..n : f[b + i] = Wrap(f[b + i - 1] * 10 + Parse!Digit(fmt[b + i - 1]))
  <2>1. \A i \in b..e : f[i] = IF i = b THEN 0 ELSE Wrap(f[i - 1] * 10 + Parse!Digit(fmt[i - 1]))
    BY <1>10
  <2>2. b \in b..e
    OBVIOUS
  <2>3. ASSUME NEW i \in 1..n PROVE f[b + i] = Wrap(f[b + i - 1] * 10 + Parse!Digit(fmt[b + i - 1]))
    <3>1. b + i \in b..e /\ b + i # b
      OBVIOUS
    <3> HIDE DEF Eq, e
    <3> QED
      BY <2>1, <3>1
  <2> QED
    BY <2>1, <2>2, <2>3
<1>13. PICK h : h = [i \in 0..n |-> f[b + i]]
  OBVIOUS
<1> HIDE DEF Eq
<1>14. h[0] = 0 /\ h[n] = f[b + n] /\ \A i \in 1..n : h[i] = f[b + i] /\ h[i - 1] = f[b + i - 1]
  <2>1. b + 0 = b /\ 0 \in 0..n /\ n \in 0..n
    OBVIOUS
  <2>2. ASSUME NEW i \in 1..n PROVE h[i] = f[b + i] /\ h[i - 1] = f[b + i - 1]
    <3>1. i \in 0..n /\ i - 1 \in 0..n /\ b + (i - 1) = b + i - 1
      OBVIOUS
    <3> QED
      BY <1>13, <3>1
  <2> QED
    BY <1>12, <1>13, <2>1, <2>2
<1>15. h[0] = u[0] /\ \A i \in 1..n : h[i - 1] = u[i - 1] => h[i] = u[i]
  <2>1. ASSUME NEW i \in 1..n, h[i - 1] = u[i - 1] PROVE h[i] = u[i]
    <3>1. h[i] = Wrap(h[i - 1] * 10 + Parse!Digit(fmt[b + i - 1]))
      BY <1>12, <1>14
    <3> QED
      BY <1>6, <2>1, <3>1
  <2> QED
    BY <1>6, <1>14, <2>1
<1>16. h[n] = u[n]
  BY <1>15, SameResults
<1> QED
  BY <1>5, <1>6, <1>11, <1>14, <1>16

LEMMA OneMoreDigit ==
  ASSUME NEW y \in Nat, NEW t \in Nat, NEW top \in Nat, NEW x \in 0..9, y < t, 10 * t \in 1..(top + 1)
  PROVE  y * 10 + x < 10 * t /\ y * 10 + x <= top /\ y * 10 + x \in Nat
OBVIOUS

(* What is read of digits that an int can hold is their value.             *)
WordAt(b, d) == \A i \in 1..Len(d) : fmt[b + i - 1] = d[i]

LEMMA UnsignedIsValue ==
  ASSUME Parse!ParseAssumption, NEW b \in Nat, NEW e \in Nat, b < e,
         NEW d \in Seq(Parse!DigitChars), Len(d) = e - b, WordAt(b, d), Parse!FitsInt(b, e)
  PROVE  Parse!Unsigned(b, e) = Parse!Value(d) /\ Parse!Value(d) \in 0..Parse!IntMax
<1>1. PICK n \in Nat : n = e - b /\ n >= 1 /\ e = b + n /\ Len(d) = n
  OBVIOUS
<1>2. PICK top \in Nat, N \in Nat : top = Parse!IntMax /\ N = Parse!digits10
  BY Tens
<1>4. \A i \in 1..n : d[i] \in Parse!DigitChars /\ fmt[b + i - 1] = d[i] /\ Parse!Digit(d[i]) \in 0..9
  BY <1>1, DigitIs, SMTT(40) DEF WordAt
<1>5. DigitsAt(b, n)
  BY <1>4 DEF DigitsAt
<1>6. PICK v \in [0..n -> Nat] :
        /\ v[0] = 0 /\ \A i \in 1..n : v[i] = Wrap(v[i - 1] * 10 + Parse!Digit(fmt[b + i - 1]))
        /\ Parse!Unsigned(b, b + n) = v[n]
  BY <1>5, UnsignedSteps, ZenonT(60)
<1>7. PICK u \in [0..n -> Nat] : u[0] = 0 /\ (\A i \in 1..n : u[i] = u[i - 1] * 10 + Parse!Digit(d[i])) /\ Parse!Value(d) = u[n]
  BY <1>1, ValueSteps
<1>8. PICK ten : ten = [i \in 0..N |-> Ten(i)]
  OBVIOUS
<1>9. ten[0] = 1 /\ (\A i \in 1..N : ten[i] = 10 * ten[i - 1]) /\ \A i \in 0..N : ten[i] \in 1..(top + 1)
  <2>1. \A i \in 1..N : i \in 0..N /\ i - 1 \in 0..N
    OBVIOUS
  <2> QED
    BY <1>2, <1>8, <2>1, Tens, SMTT(40)
<1>10. \A k \in Nat : k <= top => Wrap(k) = k
  BY <1>2, Wraps
<1> DEFINE S == {i \in Nat : i <= n /\ i <= N => u[i] = v[i] /\ u[i] < ten[i]}
<1>11. 0 \in S
  BY <1>6, <1>7, <1>9, SMTT(40)
<1>12. ASSUME NEW i \in Nat, i \in S PROVE i + 1 \in S
  <2> SUFFICES ASSUME i + 1 <= n, i + 1 <= N PROVE u[i + 1] = v[i + 1] /\ u[i + 1] < ten[i + 1]
    OBVIOUS
  <2>1. i + 1 \in 1..n /\ i + 1 \in 1..N /\ (i + 1) - 1 = i /\ i \in 0..n /\ i \in 0..N /\ i + 1 \in 0..N
    OBVIOUS
  <2>2. u[i] = v[i] /\ u[i] < ten[i]
    BY <1>12
  <2>3. PICK x \in 0..9 : x = Parse!Digit(d[i + 1]) /\ x = Parse!Digit(fmt[b + (i + 1) - 1])
    BY <1>4, <2>1
  <2>4. u[i + 1] = u[i] * 10 + x /\ v[i + 1] = Wrap(v[i] * 10 + x)
    BY <1>6, <1>7, <2>1, <2>3
  <2>5. ten[i + 1] = 10 * ten[(i + 1) - 1] /\ ten[i + 1] \in 1..(top + 1)
    BY <1>9, <2>1
  <2>51. PICK y \in Nat, t \in Nat : y = u[i] /\ t = ten[i] /\ ten[i + 1] = 10 * t /\ 10 * t \in 1..(top + 1)
    <3>1. ten[i] \in Nat /\ u[i] \in Nat
      BY <1>9, <2>1, SMTT(40)
    <3>2. ten[i + 1] = 10 * ten[i]
      BY <2>1, <2>5
    <3> QED
      BY <2>5, <3>1, <3>2
  <2>6. y < t
    BY <2>2, <2>51
  <2>7. y * 10 + x < 10 * t /\ y * 10 + x <= top /\ y * 10 + x \in Nat
    BY <2>6, <2>51, OneMoreDigit
  <2>8. Wrap(y * 10 + x) = y * 10 + x
    BY <1>10, <2>7
  <2> QED
    BY <2>2, <2>4, <2>51, <2>7, <2>8
<1> HIDE DEF S
<1>13. \A i \in 0..n : i <= N => u[i] = v[i] /\ u[i] < ten[i]
  <2>1. Nat \subseteq S
    BY <1>11, <1>12, Induction
  <2> QED
    BY <2>1, SMTT(40) DEF S
<1>14. CASE n <= N
  <2>1. n \in 0..n /\ n \in 0..N
    BY <1>1, <1>14
  <2>2. u[n] = v[n] /\ u[n] < ten[n] /\ ten[n] \in 1..(top + 1) /\ u[n] \in Nat
    BY <1>9, <1>13, <1>14, <2>1
  <2>3. u[n] \in 0..top
    BY <2>2
  <2> QED
    BY <1>1, <1>2, <1>6, <1>7, <2>2, <2>3
<1>15. CASE n = N + 1
  <2>1. Parse!Unsigned(b, e - 1) * 10 + Parse!Digit(fmt[e - 1]) <= top
    BY <1>1, <1>2, <1>15 DEF Parse!FitsInt
  <2>2. DigitsAt(b, N)
    <3>1. \A i \in 1..N : i \in 1..n
      BY <1>15
    <3> QED
      BY <1>4, <3>1 DEF DigitsAt
  <2>3. PICK w \in [0..N -> Nat] :
          /\ w[0] = 0 /\ \A i \in 1..N : w[i] = Wrap(w[i - 1] * 10 + Parse!Digit(fmt[b + i - 1]))
          /\ Parse!Unsigned(b, b + N) = w[N]
    BY <2>2, UnsignedSteps, ZenonT(60)
  <2>4. \A i \in 1..N : w[i - 1] = v[i - 1] => w[i] = v[i]
    <3>1. \A i \in 1..N : i \in 1..n
      BY <1>15
    <3> QED
      BY <1>6, <2>3, <3>1
  <2>5. w[N] = v[N]
    <3>1. w[0] = v[0]
      BY <1>6, <2>3
    <3> QED
      BY <2>4, <3>1, SameResults
  <2>6. N \in 0..n /\ n \in 1..n /\ n - 1 = N /\ b + N = e - 1 /\ b + n - 1 = e - 1 /\ N <= N
    <3> HIDE DEF Parse!ParseAssumption
    <3> QED
      BY <1>1, <1>15
  <2>7. PICK y \in Nat : u[N] = y /\ v[N] = y
    BY <1>13, <2>6
  <2>8. PICK x \in 0..9 : x = Parse!Digit(d[n]) /\ x = Parse!Digit(fmt[e - 1])
    BY <1>4, <2>6
  <2>9. y * 10 + x <= top /\ y * 10 + x \in Nat
    <3>1. Parse!Unsigned(b, e - 1) = y
      BY <2>3, <2>5, <2>6, <2>7
    <3>2. y * 10 + x <= top
      BY <2>1, <2>8, <3>1, Zenon
    <3> QED
      BY <3>2
  <2>10. u[n] = y * 10 + x /\ v[n] = Wrap(y * 10 + x)
    BY <1>6, <1>7, <2>6, <2>7, <2>8
  <2>11. Wrap(y * 10 + x) = y * 10 + x
    BY <1>10, <2>7, <2>9
  <2> QED
    BY <1>1, <1>2, <1>6, <1>7, <2>7, <2>9, <2>10, <2>11
<1> QED
  BY <1>1, <1>2, <1>14, <1>15 DEF Parse!FitsInt

LEMMA Chars ==
  ASSUME Parse!ParseAssumption, fmt \in FormatStrings
  PROVE  /\ fmt \in Seq(Parse!Characters) /\ Len(fmt) \in Nat
         /\ \A i \in 1..Len(fmt) : Parse!At(i) = fmt[i] /\ fmt[i] \in Parse!Characters /\ fmt[i] # "end" /\ fmt[i] # "fill"
         /\ \A i \in Int : Parse!At(i) # "end" => i \in 1..Len(fmt)
<1>1. fmt \in Seq(Parse!Characters) /\ Len(fmt) \in Nat /\ DOMAIN fmt = 1..Len(fmt)
  BY DEF Parse!ParseAssumption
<1>2. ASSUME NEW i \in 1..Len(fmt) PROVE Parse!At(i) = fmt[i] /\ fmt[i] \in Parse!Characters /\ fmt[i] # "end" /\ fmt[i] # "fill"
  <2>1. Parse!At(i) = fmt[i] /\ fmt[i] \in Parse!Characters
    BY <1>1 DEF Parse!At
  <2> QED
    BY <2>1 DEF Parse!ParseAssumption
<1>3. \A i \in Int : Parse!At(i) # "end" => i \in 1..Len(fmt)
  BY <1>1 DEF Parse!At
<1> QED
  BY <1>1, <1>2, <1>3

(* The characters from b to e - 1.                                         *)
Word(b, e) == SubSeq(fmt, b, e - 1)

LEMMA WordIs ==
  ASSUME NEW S, NEW b \in Int, NEW e \in Int, b <= e, \A i \in b..(e - 1) : fmt[i] \in S
  PROVE  /\ Word(b, e) \in Seq(S) /\ Len(Word(b, e)) = e - b /\ WordAt(b, Word(b, e))
         /\ b < e => Word(b, e)[1] = fmt[b] /\ Word(b, e) # <<>>
<1>1. PICK n \in Int : n = e - 1
  OBVIOUS
<1>2. PICK w : w = SubSeq(fmt, b, n)
  OBVIOUS
<1>3. \A i \in b..n : fmt[i] \in S
  BY <1>1
<1>4. w \in Seq(S) /\ Len(w) = (IF b <= n THEN n - b + 1 ELSE 0) /\ \A i \in 1..(n - b + 1) : w[i] = fmt[b + i - 1]
  BY <1>2, <1>3, SubSeqProperties
<1>5. Len(w) = e - b /\ n - b + 1 = e - b
  BY <1>1, <1>4
<1>6. \A i \in 1..Len(w) : fmt[b + i - 1] = w[i]
  BY <1>4, <1>5
<1>7. b < e => w[1] = fmt[b] /\ w # <<>>
  <2>1. SUFFICES ASSUME b < e PROVE w[1] = fmt[b] /\ w # <<>>
    OBVIOUS
  <2>2. 1 \in 1..Len(w) /\ b + 1 - 1 = b
    BY <1>5, <2>1
  <2> QED
    BY <1>6, <2>2
<1> QED
  BY <1>1, <1>2, <1>4, <1>5, <1>6, <1>7 DEF Word, WordAt

LEMMA WordsJoin ==
  ASSUME Parse!ParseAssumption, fmt \in FormatStrings,
         NEW b \in 1..(Len(fmt) + 1), NEW m \in b..(Len(fmt) + 1), NEW e \in m..(Len(fmt) + 1)
  PROVE  Word(b, m) \o Word(m, e) = Word(b, e)
<1>1. fmt \in Seq(Parse!Characters) /\ Len(fmt) \in Nat
  BY Chars
<1>2. PICK k \in (b - 1)..Len(fmt), n \in (m - 1)..Len(fmt) : k = m - 1 /\ n = e - 1 /\ n \in k..Len(fmt) /\ k + 1 = m
  BY <1>1
<1>3. SubSeq(fmt, b, k) \o SubSeq(fmt, k + 1, n) = SubSeq(fmt, b, n)
  BY <1>1, <1>2, ConcatAdjacentSubSeq
<1> QED
  BY <1>2, <1>3 DEF Word

LEMMA RunEndIs ==
  ASSUME Parse!ParseAssumption, fmt \in FormatStrings, NEW b \in 1..(Len(fmt) + 1), NEW chars, "end" \notin chars
  PROVE  /\ Parse!RunEnd(b, chars) \in b..(Len(fmt) + 1) /\ Parse!At(Parse!RunEnd(b, chars)) \notin chars
         /\ \A i \in b..(Parse!RunEnd(b, chars) - 1) : fmt[i] \in chars
         /\ Parse!At(b) \in chars => Parse!RunEnd(b, chars) > b
<1>1. Len(fmt) \in Nat
  BY Chars
<1>2. PICK S : S = {e \in b..(Len(fmt) + 1) : Parse!At(e) \notin chars}
  OBVIOUS
<1>3. S \in SUBSET Nat /\ S # {}
  <2>1. Parse!At(Len(fmt) + 1) = "end"
    BY <1>1, Chars
  <2>2. Len(fmt) + 1 \in S
    BY <1>1, <1>2, <2>1
  <2> QED
    BY <1>1, <1>2, <2>2
<1>4. PICK e : e = Parse!RunEnd(b, chars)
  OBVIOUS
<1>5. e \in S /\ \A m \in S : e <= m
  <2>1. e = Min(S)
    <3>1. e = Parse!Min(S)
      BY <1>2, <1>4 DEF Parse!RunEnd
    <3> QED
      BY <3>1 DEF Parse!Min, Min
  <2> QED
    BY <1>2, <1>3, <2>1, MinIsLeast
<1>6. e \in b..(Len(fmt) + 1) /\ Parse!At(e) \notin chars
  BY <1>2, <1>5
<1>7. ASSUME NEW i \in b..(e - 1) PROVE fmt[i] \in chars
  <2>1. i \in b..(Len(fmt) + 1) /\ i \in 1..Len(fmt) /\ i < e
    BY <1>1, <1>6
  <2>2. Parse!At(i) \in chars
    BY <1>2, <1>3, <1>5, <2>1
  <2> QED
    BY <2>1, <2>2, Chars
<1>8. Parse!At(b) \in chars => e > b
  BY <1>6
<1> QED
  BY <1>4, <1>6, <1>7, <1>8

LEMMA NumberIsRead ==
  ASSUME Parse!ParseAssumption, fmt \in FormatStrings, NEW b \in 1..(Len(fmt) + 1), Parse!IsDigit(Parse!At(b)), NEW wrong
  PROVE  LET n == Parse!parse_nonnegative_int(b, wrong)
         IN  /\ n.end \in (b + 1)..(Len(fmt) + 1)
             /\ Word(b, n.end) \in Parse!Numerals /\ Word(b, n.end)[1] = Parse!At(b)
             /\ \/ n.value = Parse!Value(Word(b, n.end)) /\ n.value \in 0..Parse!IntMax
                \/ n.value = wrong
<1>1. PICK e : e = Parse!RunEnd(b, Parse!DigitChars)
  OBVIOUS
<1>2. Len(fmt) \in Nat /\ "end" \notin Parse!DigitChars /\ Parse!At(b) \in Parse!DigitChars
  BY Chars, DigitsAre DEF Parse!IsDigit
<1>3. e \in (b + 1)..(Len(fmt) + 1) /\ \A i \in b..(e - 1) : fmt[i] \in Parse!DigitChars
  BY <1>1, <1>2, RunEndIs
<1>4. b \in Int /\ e \in Int /\ b < e
  BY <1>2, <1>3
<1>5. PICK d : d = Word(b, e)
  OBVIOUS
<1>6. d \in Seq(Parse!DigitChars) /\ Len(d) = e - b /\ WordAt(b, d) /\ d[1] = fmt[b] /\ d # <<>>
  <2>1. b <= e
    BY <1>4
  <2>2. Word(b, e) \in Seq(Parse!DigitChars) /\ Len(Word(b, e)) = e - b /\ WordAt(b, Word(b, e))
    BY <1>3, <1>4, <2>1, WordIs
  <2>3. Word(b, e)[1] = fmt[b] /\ Word(b, e) # <<>>
    BY <1>3, <1>4, <2>1, WordIs
  <2> QED
    BY <1>5, <2>2, <2>3
<1>7. Parse!At(b) = fmt[b]
  <2>1. b \in 1..Len(fmt)
    BY <1>2, <1>3
  <2> QED
    BY <2>1, Chars
<1>8. d \in Parse!Numerals
  BY <1>6 DEF Parse!Numerals
<1>9. PICK n : n = Parse!parse_nonnegative_int(b, wrong)
  OBVIOUS
<1>10. n.end = e /\ n.value = IF Parse!FitsInt(b, e) THEN Parse!Unsigned(b, e) ELSE wrong
  BY <1>1, <1>9 DEF Parse!parse_nonnegative_int
<1>11. Parse!FitsInt(b, e) => Parse!Unsigned(b, e) = Parse!Value(d) /\ Parse!Value(d) \in 0..Parse!IntMax
  <2>1. b \in Nat /\ e \in Nat
    BY <1>2, <1>3
  <2> QED
    BY <1>4, <1>6, <2>1, UnsignedIsValue
<1> QED
  BY <1>3, <1>5, <1>6, <1>7, <1>8, <1>9, <1>10, <1>11

-----------------------------------------------------------------------------
(* The reference at b, in a field or in a width or a precision.            *)
RefAt(b) == IF Parse!At(b) \in {"}", ":"} THEN [ok |-> TRUE, end |-> b, ref |-> Parse!Auto] ELSE Parse!parse_arg_id(b)

LEMMA NotSymbols == "end" \notin Parse!Letters /\ "end" \notin Parse!Letters \cup Parse!DigitChars
BY DigitsAre DEF Parse!Letters

LEMMA FailedIsNot == Parse!Failed.ok = FALSE
BY DEF Parse!Failed

LEMMA OneElement == ASSUME NEW c, NEW w \in Seq({c}), Len(w) = 1 PROVE w = <<c>>
OBVIOUS

(* A reference is spelled by the characters it was read from, but for an   *)
(* index that int cannot hold, and there is no argument of that index.     *)
LEMMA RefIsRead ==
  ASSUME Parse!ParseAssumption, fmt \in FormatStrings, NEW b \in 1..(Len(fmt) + 1), RefAt(b).ok
  PROVE  LET r == RefAt(b)
         IN  /\ r.end \in b..(Len(fmt) + 1) /\ r.ref \in Parse!RefForms
             /\ (r.ref.kind = "index" => Parse!HasArg(r.ref.index)) => Parse!SpellRef(r.ref) = Word(b, r.end)
<1>0. Len(fmt) \in Nat /\ b \in Int
  BY Chars
<1>1. CASE Parse!At(b) \in {"}", ":"}
  <2>1. RefAt(b).end = b /\ RefAt(b).ref = Parse!Auto
    BY <1>1 DEF RefAt
  <2>2. Word(b, b) = <<>>
    BY <1>0, SubSeqEmpty DEF Word
  <2>3. Parse!Auto.kind = "auto" /\ Parse!Auto \in Parse!RefForms
    BY DEF Parse!Auto, Parse!RefForms
  <2>4. Parse!SpellRef(Parse!Auto) = <<>>
    BY <2>3 DEF Parse!SpellRef
  <2> QED
    BY <1>0, <2>1, <2>2, <2>3, <2>4
<1>2. CASE Parse!At(b) \notin {"}", ":"} /\ Parse!IsDigit(Parse!At(b)) /\ Parse!At(b) # "0"
  <2>1. PICK n : n = Parse!parse_nonnegative_int(b, Parse!IntMax)
    OBVIOUS
  <2>2. PICK d : d = Word(b, n.end)
    OBVIOUS
  <2>3. /\ n.end \in (b + 1)..(Len(fmt) + 1) /\ d \in Parse!Numerals /\ d[1] = Parse!At(b)
        /\ (n.value = Parse!Value(d) /\ n.value \in 0..Parse!IntMax) \/ n.value = Parse!IntMax
    BY <1>2, <2>1, <2>2, NumberIsRead
  <2>4. RefAt(b) = Parse!parse_arg_id(b)
    BY <1>2 DEF RefAt
  <2>5. Parse!parse_arg_id(b) = IF Parse!At(n.end) \in {"}", ":"}
                          THEN [ok |-> TRUE, end |-> n.end, ref |-> [kind |-> "index", index |-> n.value]] ELSE Parse!Failed
    BY <1>2, <2>1 DEF Parse!parse_arg_id
  <2>6. RefAt(b).end = n.end /\ RefAt(b).ref = [kind |-> "index", index |-> n.value]
    <3>1. Parse!At(n.end) \in {"}", ":"}
      BY <2>4, <2>5, FailedIsNot, Zenon
    <3>2. RefAt(b) = [ok |-> TRUE, end |-> n.end, ref |-> [kind |-> "index", index |-> n.value]]
      BY <2>4, <2>5, <3>1, Zenon
    <3> QED
      BY <3>2
  <2>7. n.value \in Nat
    BY <2>3, Tens
  <2>8. Parse!HasArg(n.value) => Parse!Number(n.value) = d
    <3>1. SUFFICES ASSUME Parse!HasArg(n.value) PROVE Parse!Number(n.value) = d
      OBVIOUS
    <3>2. n.value # Parse!IntMax
      <4>1. Len(Args) \in Nat /\ Parse!IntMax \in Nat /\ Len(Args) <= Parse!IntMax
        BY DEF Parse!ParseAssumption
      <4> QED
        BY <3>1, <4>1 DEF Parse!HasArg
    <3>3. d \in Seq(Parse!DigitChars) /\ d # <<>> /\ d[1] # "0"
      BY <1>2, <2>3 DEF Parse!Numerals
    <3> QED
      BY <2>3, <3>2, <3>3, NumberOfValue
  <2>9. [kind |-> "index", index |-> n.value] \in Parse!RefForms
    BY <2>7 DEF Parse!RefForms
  <2>10. PICK r : r = [kind |-> "index", index |-> n.value]
    OBVIOUS
  <2>11. r.kind = "index" /\ r.index = n.value
    BY <2>10
  <2>12. Parse!SpellRef(r) = Parse!Number(n.value)
    BY <2>11 DEF Parse!SpellRef
  <2>13. n.end \in b..(Len(fmt) + 1)
    BY <1>0, <2>3
  <2> QED
    BY <2>2, <2>6, <2>7, <2>8, <2>9, <2>10, <2>11, <2>12, <2>13
<1>3. CASE Parse!At(b) \notin {"}", ":"} /\ Parse!IsDigit(Parse!At(b)) /\ Parse!At(b) = "0"
  <2>1. RefAt(b) = Parse!parse_arg_id(b)
    BY <1>3 DEF RefAt
  <2>2. PICK n : n = [end |-> b + 1, value |-> 0]
    OBVIOUS
  <2>3. Parse!parse_arg_id(b) = IF Parse!At(n.end) \in {"}", ":"}
                          THEN [ok |-> TRUE, end |-> n.end, ref |-> [kind |-> "index", index |-> n.value]] ELSE Parse!Failed
    BY <1>3, <2>2 DEF Parse!parse_arg_id
  <2>4. PICK r : r = [kind |-> "index", index |-> 0]
    OBVIOUS
  <2>5. RefAt(b).end = b + 1 /\ RefAt(b).ref = r
    <3>1. Parse!At(n.end) \in {"}", ":"}
      BY <2>1, <2>3, FailedIsNot, Zenon
    <3>2. RefAt(b) = [ok |-> TRUE, end |-> n.end, ref |-> [kind |-> "index", index |-> n.value]]
      BY <2>1, <2>3, <3>1
    <3> QED
      BY <2>2, <2>4, <3>2
  <2>6. b \in 1..Len(fmt) /\ fmt[b] = "0"
    <3>1. Parse!At(b) # "end"
      BY <1>3
    <3> QED
      BY <1>0, <1>3, <3>1, Chars
  <2>7. Word(b, b + 1) = <<"0">>
    <3>1. \A i \in b..((b + 1) - 1) : fmt[i] \in {"0"}
      BY <1>0, <2>6
    <3>2. PICK w : w = Word(b, b + 1)
      OBVIOUS
    <3>3. PICK e \in Int : e = b + 1 /\ b <= e /\ e - b = 1
      BY <1>0
    <3>31. PICK S : S = {"0"}
      OBVIOUS
    <3>32. \A i \in b..(e - 1) : fmt[i] \in S
      BY <3>1, <3>3, <3>31
    <3>33. Word(b, e) \in Seq(S) /\ Len(Word(b, e)) = e - b
      BY <1>0, <3>3, <3>32, WordIs, ZenonT(60)
    <3>4. w \in Seq({"0"}) /\ Len(w) = e - b
      BY <3>2, <3>3, <3>31, <3>33
    <3>5. w = <<"0">>
      <4>1. w \in Seq({"0"}) /\ Len(w) = 1
        BY <3>3, <3>4
      <4> QED
        BY <4>1, OneElement
    <3> QED
      BY <3>2, <3>5
  <2>8. Parse!Number(0) = <<"0">>
    <3>1. PICK z \in Nat : z = 0 /\ z < 10 /\ z + 1 = 1
      OBVIOUS
    <3>2. Parse!Number(z) = <<Parse!Digits[z + 1]>>
      BY <3>1, NumberIs
    <3> QED
      BY <3>1, <3>2, DigitsAre
  <2>9. r.kind = "index" /\ r.index = 0 /\ r \in Parse!RefForms
    BY <2>4 DEF Parse!RefForms
  <2>10. Parse!SpellRef(r) = Parse!Number(0)
    BY <2>9 DEF Parse!SpellRef
  <2>11. b + 1 \in b..(Len(fmt) + 1)
    BY <1>0, <2>6
  <2> QED
    BY <2>4, <2>5, <2>7, <2>8, <2>9, <2>10, <2>11
<1>4. CASE Parse!At(b) \notin {"}", ":"} /\ ~ Parse!IsDigit(Parse!At(b))
  <2>1. RefAt(b) = Parse!parse_arg_id(b)
    BY <1>4 DEF RefAt
  <2>2. PICK e : e = Parse!RunEnd(b, Parse!Letters \cup Parse!DigitChars)
    OBVIOUS
  <2>3. PICK d : d = Word(b, e)
    OBVIOUS
  <2>4. Parse!parse_arg_id(b) = IF Parse!is_name_start(Parse!At(b)) THEN [ok |-> TRUE, end |-> e, ref |-> [kind |-> "name", name |-> d]]
                          ELSE Parse!Failed
    BY <1>4, <2>2, <2>3 DEF Parse!parse_arg_id, Word
  <2>5. Parse!is_name_start(Parse!At(b)) /\ RefAt(b) = [ok |-> TRUE, end |-> e, ref |-> [kind |-> "name", name |-> d]]
    <3>1. Parse!is_name_start(Parse!At(b))
      BY <2>1, <2>4, FailedIsNot, Zenon
    <3> QED
      BY <2>1, <2>4, <3>1
  <2>6. Parse!At(b) \in Parse!Letters \cup Parse!DigitChars /\ Parse!At(b) # "end"
    BY <2>5, NotSymbols DEF Parse!is_name_start
  <2>7. e \in b..(Len(fmt) + 1) /\ e > b /\ \A i \in b..(e - 1) : fmt[i] \in Parse!IdChars
    BY <2>2, <2>6, NotSymbols, RunEndIs DEF Parse!IdChars
  <2>8. d \in Seq(Parse!IdChars) /\ d # <<>> /\ d[1] = fmt[b]
    <3>1. e \in Int /\ b < e /\ b <= e
      BY <1>0, <2>7
    <3> QED
      BY <1>0, <2>3, <2>7, <3>1, WordIs, SMTT(40)
  <2>9. fmt[b] = Parse!At(b)
    BY <1>0, <2>6, Chars
  <2>10. PICK r : r = [kind |-> "name", name |-> d]
    OBVIOUS
  <2>11. r.kind = "name" /\ r.name = d /\ Parse!SpellRef(r) = d
    BY <2>10 DEF Parse!SpellRef
  <2>12. r \in Parse!RefForms
    BY <2>5, <2>8, <2>9, <2>10 DEF Parse!RefForms
  <2> QED
    BY <2>3, <2>5, <2>7, <2>10, <2>11, <2>12
<1> QED
  BY <1>1, <1>2, <1>3, <1>4

(* What each kind of reference, amount and token is.                       *)
LEMMA KindOfRef ==
  ASSUME NEW r \in Parse!RefForms
  PROVE  \/ r = Parse!Auto /\ r.kind = "auto"
         \/ r.kind = "index" /\ r.index \in Nat
         \/ r.kind = "name" /\ r.name \in Seq(Parse!IdChars)
<1>1. CASE r \in {Parse!Auto}
  BY <1>1 DEF Parse!Auto
<1>2. CASE r \in [kind : {"index"}, index : Nat]
  BY <1>2
<1>3. CASE r \in {q \in [kind : {"name"}, name : Seq(Parse!IdChars)] : q.name # <<>> /\ Parse!is_name_start(q.name[1])}
  BY <1>3
<1> QED
  BY <1>1, <1>2, <1>3 DEF Parse!RefForms

LEMMA SpellRefIs ==
  ASSUME NEW r
  PROVE  /\ r.kind = "auto" => Parse!SpellRef(r) = <<>>
         /\ r.kind = "index" => Parse!SpellRef(r) = Parse!Number(r.index)
         /\ r.kind = "name" => Parse!SpellRef(r) = r.name
<1>1. r.kind = "auto" => Parse!SpellRef(r) = <<>>
  BY DEF Parse!SpellRef
<1>2. r.kind = "index" => Parse!SpellRef(r) = Parse!Number(r.index)
  BY DEF Parse!SpellRef
<1>3. r.kind = "name" => Parse!SpellRef(r) = r.name
  BY DEF Parse!SpellRef
<1> QED
  BY <1>1, <1>2, <1>3

LEMMA KindOfAmount ==
  ASSUME NEW a \in Parse!AmountForms
  PROVE  \/ a = Parse!Nothing /\ a.what = "nothing"
         \/ a.what = "number" /\ a # Parse!Nothing /\ a.digits \in Seq(Parse!DigitChars)
         \/ a.what = "ref" /\ a # Parse!Nothing /\ a.ref \in Parse!RefForms
<1>0. Parse!Nothing.what = "nothing"
  BY DEF Parse!Nothing
<1>1. CASE a \in {Parse!Nothing}
  BY <1>0, <1>1
<1>2. CASE a \in [what : {"number"}, digits : Parse!Numerals]
  BY <1>0, <1>2 DEF Parse!Numerals
<1>3. CASE a \in [what : {"ref"}, ref : Parse!RefForms]
  BY <1>0, <1>3
<1> QED
  BY <1>1, <1>2, <1>3 DEF Parse!AmountForms

LEMMA SpellAmountIs ==
  ASSUME NEW a
  PROVE  /\ a.what = "nothing" => Parse!SpellAmount(a) = <<>>
         /\ a.what = "number" => Parse!SpellAmount(a) = a.digits
         /\ a.what = "ref" => Parse!SpellAmount(a) = <<"{">> \o Parse!SpellRef(a.ref) \o <<"}">>
<1>1. a.what = "nothing" => Parse!SpellAmount(a) = <<>>
  BY DEF Parse!SpellAmount
<1>2. a.what = "number" => Parse!SpellAmount(a) = a.digits
  BY DEF Parse!SpellAmount
<1>3. a.what = "ref" => Parse!SpellAmount(a) = <<"{">> \o Parse!SpellRef(a.ref) \o <<"}">>
  BY DEF Parse!SpellAmount
<1> QED
  BY <1>1, <1>2, <1>3

LEMMA KindOfToken ==
  ASSUME NEW t \in Parse!TokenForms
  PROVE  \/ t.kind = "char" /\ t.char \in Parse!Literals
         \/ t.kind = "brace" /\ t.char \in {"{", "}"}
         \/ t.kind = "field" /\ t.ref \in Parse!RefForms /\ t.colon \in BOOLEAN /\ t.specs \in Parse!SpecForms
<1>1. CASE t \in [kind : {"char"}, char : Parse!Literals]
  BY <1>1
<1>2. CASE t \in [kind : {"brace"}, char : {"{", "}"}]
  BY <1>2
<1>3. CASE t \in {u \in [kind : {"field"}, ref : Parse!RefForms, colon : BOOLEAN, specs : Parse!SpecForms] : u.colon \/ u.specs = Parse!NoSpecs}
  BY <1>3
<1> QED
  BY <1>1, <1>2, <1>3 DEF Parse!TokenForms

LEMMA SpellTokenIs ==
  ASSUME NEW t
  PROVE  /\ t.kind = "char" => Parse!SpellToken(t) = <<t.char>>
         /\ t.kind = "brace" => Parse!SpellToken(t) = <<t.char, t.char>>
         /\ t.kind = "field" => Parse!SpellToken(t) = <<"{">> \o Parse!SpellRef(t.ref) \o Parse!Opt(t.colon, <<":">> \o Parse!SpellSpecs(t.specs)) \o <<"}">>
<1>1. t.kind = "char" => Parse!SpellToken(t) = <<t.char>>
  BY DEF Parse!SpellToken
<1>2. t.kind = "brace" => Parse!SpellToken(t) = <<t.char, t.char>>
  BY DEF Parse!SpellToken
<1>3. t.kind = "field" => Parse!SpellToken(t) = <<"{">> \o Parse!SpellRef(t.ref) \o Parse!Opt(t.colon, <<":">> \o Parse!SpellSpecs(t.specs)) \o <<"}">>
  BY DEF Parse!SpellToken
<1> QED
  BY <1>1, <1>2, <1>3

-----------------------------------------------------------------------------
(* What is spelled is a sequence of characters.                            *)
LEMMA SymbolsAre ==
  /\ Parse!Characters \subseteq Symbols /\ Parse!Literals \subseteq Symbols /\ Parse!IdChars \subseteq Symbols /\ Parse!DigitChars \subseteq Symbols
  /\ DOMAIN Parse!AlignOf \subseteq Symbols /\ DOMAIN Parse!SignOf \subseteq Symbols /\ DOMAIN Parse!Presentation \subseteq Symbols
  /\ "{" \in Symbols /\ "}" \in Symbols /\ ":" \in Symbols /\ "." \in Symbols /\ "#" \in Symbols /\ "L" \in Symbols /\ "0" \in Symbols
BY Zenon DEF Symbols, Parse!Literals, Parse!IdChars

Texts == Seq(Symbols)

LEMMA Wider == ASSUME NEW S, NEW T, S \subseteq T PROVE Seq(S) \subseteq Seq(T)
BY SeqMonotonic

LEMMA TextsJoin == \A x, y \in Texts : x \o y \in Texts
BY DEF Texts

LEMMA TextsGroup == \A x, y, z \in Texts : (x \o y) \o z = x \o (y \o z)
BY Regroups DEF Texts, Associates

LEMMA EmptyText == <<>> \in Texts /\ \A x \in Texts : x \o <<>> = x /\ <<>> \o x = x
BY DEF Texts

LEMMA ParsedOneText == \A c \in Symbols : <<c>> \in Texts
BY DEF Texts

LEMMA RefText == ASSUME NEW r \in Parse!RefForms PROVE Parse!SpellRef(r) \in Texts
<1>1. CASE r.kind = "auto"
  BY <1>1, SpellRefIs, EmptyText
<1>2. CASE r.kind = "index"
  <2>1. r.index \in Nat
    BY <1>2, KindOfRef
  <2>2. Parse!SpellRef(r) \in Seq(Parse!DigitChars)
    BY <1>2, <2>1, SpellRefIs, NumberIs
  <2> QED
    BY <2>2, SymbolsAre, Wider DEF Texts
<1>3. CASE r.kind = "name"
  <2>1. Parse!SpellRef(r) \in Seq(Parse!IdChars)
    BY <1>3, SpellRefIs, KindOfRef
  <2> QED
    BY <2>1, SymbolsAre, Wider DEF Texts
<1> QED
  BY <1>1, <1>2, <1>3, KindOfRef

LEMMA AmountText == ASSUME NEW a \in Parse!AmountForms PROVE Parse!SpellAmount(a) \in Texts
<1>1. CASE a.what = "nothing"
  BY <1>1, SpellAmountIs, EmptyText
<1>2. CASE a.what = "number"
  <2>1. Parse!SpellAmount(a) \in Seq(Parse!DigitChars)
    BY <1>2, SpellAmountIs, KindOfAmount
  <2> QED
    BY <2>1, SymbolsAre, Wider DEF Texts
<1>3. CASE a.what = "ref"
  <2>1. a.ref \in Parse!RefForms
    BY <1>3, KindOfAmount
  <2>2. Parse!SpellRef(a.ref) \in Texts /\ <<"{">> \in Texts /\ <<"}">> \in Texts
    BY <2>1, RefText, SymbolsAre, ParsedOneText
  <2>3. Parse!SpellAmount(a) = <<"{">> \o Parse!SpellRef(a.ref) \o <<"}">>
    BY <1>3, SpellAmountIs, Zenon
  <2>4. <<"{">> \o Parse!SpellRef(a.ref) \o <<"}">> \in Texts
    BY <2>2, TextsJoin, Zenon
  <2> QED
    BY <2>3, <2>4, Zenon
<1> QED
  BY <1>1, <1>2, <1>3, KindOfAmount

LEMMA OptText == ASSUME NEW b, NEW x \in Texts PROVE Parse!Opt(b, x) \in Texts
BY EmptyText DEF Parse!Opt

LEMMA OptionalText == ASSUME NEW S \in SUBSET Symbols, NEW x \in Parse!Optional(S) PROVE x \in Texts
<1>1. CASE x = <<>>
  BY <1>1, EmptyText
<1>2. CASE x # <<>>
  <2>1. PICK c \in S : x = <<c>>
    BY <1>2 DEF Parse!Optional
  <2> QED
    BY <2>1, ParsedOneText
<1> QED
  BY <1>1, <1>2

LEMMA PartsOfSpecs ==
  ASSUME NEW s \in Parse!SpecForms
  PROVE  /\ s.align \in Texts /\ s.sign \in Texts /\ s.type \in Texts
         /\ s.hash \in BOOLEAN /\ s.zero \in BOOLEAN /\ s.locale \in BOOLEAN
         /\ s.width \in Parse!AmountForms /\ s.precision \in Parse!AmountForms
         /\ Parse!SpellAmount(s.width) \in Texts /\ Parse!SpellAmount(s.precision) \in Texts
<1>1. /\ s.align \in Parse!Optional(DOMAIN Parse!AlignOf) \cup (Parse!Literals \X DOMAIN Parse!AlignOf) /\ s.sign \in Parse!Optional(DOMAIN Parse!SignOf)
      /\ s.hash \in BOOLEAN /\ s.zero \in BOOLEAN /\ s.locale \in BOOLEAN /\ s.type \in Parse!Optional(DOMAIN Parse!Presentation)
      /\ s.width \in {a \in Parse!AmountForms : a.what = "number" => a.digits[1] # "0"} /\ s.precision \in Parse!AmountForms
  BY DEF Parse!SpecForms
<1>2. s.sign \in Texts /\ s.type \in Texts
  BY <1>1, SymbolsAre, OptionalText
<1>3. s.align \in Texts
  <2>1. CASE s.align \in Parse!Optional(DOMAIN Parse!AlignOf)
    BY <2>1, SymbolsAre, OptionalText
  <2>2. CASE s.align \in Parse!Literals \X DOMAIN Parse!AlignOf
    <3>1. PICK c \in Parse!Literals, d \in DOMAIN Parse!AlignOf : s.align = <<c, d>>
      BY <2>2
    <3>2. c \in Symbols /\ d \in Symbols
      BY SymbolsAre
    <3> QED
      BY <3>1, <3>2 DEF Texts
  <2> QED
    BY <1>1, <2>1, <2>2
<1>4. s.width \in Parse!AmountForms
  BY <1>1
<1> QED
  BY <1>1, <1>2, <1>3, <1>4, AmountText

LEMMA SpecsText == ASSUME NEW s \in Parse!SpecForms PROVE Parse!SpellSpecs(s) \in Texts
<1>1. Parse!Opt(s.hash, <<"#">>) \in Texts /\ Parse!Opt(s.zero, <<"0">>) \in Texts
      /\ Parse!Opt(s.precision # Parse!Nothing, <<".">>) \in Texts /\ Parse!Opt(s.locale, <<"L">>) \in Texts
  BY SymbolsAre, ParsedOneText, OptText
<1> QED
  BY <1>1, PartsOfSpecs, TextsJoin DEF Parse!SpellSpecs

LEMMA TokenText == ASSUME NEW t \in Parse!TokenForms PROVE Parse!SpellToken(t) \in Texts
<1>1. CASE t.kind = "char"
  <2>1. t.char \in Symbols
    BY <1>1, KindOfToken, SymbolsAre
  <2> QED
    BY <1>1, <2>1, SpellTokenIs, ParsedOneText
<1>2. CASE t.kind = "brace"
  <2>1. t.char \in Symbols
    BY <1>2, KindOfToken, SymbolsAre
  <2>2. PICK c \in Symbols : c = t.char /\ Parse!SpellToken(t) = <<c, c>>
    BY <1>2, <2>1, SpellTokenIs, Zenon
  <2> QED
    BY <2>2 DEF Texts
<1>3. CASE t.kind = "field"
  <2>1. t.ref \in Parse!RefForms /\ t.specs \in Parse!SpecForms
    BY <1>3, KindOfToken
  <2>2. Parse!SpellRef(t.ref) \in Texts /\ Parse!SpellSpecs(t.specs) \in Texts
    BY <2>1, RefText, SpecsText
  <2>3. <<"{">> \in Texts /\ <<"}">> \in Texts /\ <<":">> \in Texts
    BY SymbolsAre, ParsedOneText
  <2>4. Parse!Opt(t.colon, <<":">> \o Parse!SpellSpecs(t.specs)) \in Texts
    BY <2>2, <2>3, TextsJoin, OptText
  <2>5. Parse!SpellToken(t) = <<"{">> \o Parse!SpellRef(t.ref) \o Parse!Opt(t.colon, <<":">> \o Parse!SpellSpecs(t.specs)) \o <<"}">>
    BY <1>3, SpellTokenIs, Zenon
  <2>6. <<"{">> \o Parse!SpellRef(t.ref) \o Parse!Opt(t.colon, <<":">> \o Parse!SpellSpecs(t.specs)) \o <<"}">> \in Texts
    BY <2>2, <2>3, <2>4, TextsJoin, Zenon
  <2> QED
    BY <2>5, <2>6, Zenon
<1> QED
  BY <1>1, <1>2, <1>3, KindOfToken

(* next_arg_id after some references.                                      *)
Counts(refs, n) ==
  \/ n = Len(refs) /\ \A i \in 1..Len(refs) : refs[i].kind = "auto"
  \/ n = -1 /\ refs # <<>> /\ refs[Len(refs)].kind # "auto"

Longer(refs, more) == Len(refs) <= Len(more) /\ \A i \in 1..Len(refs) : more[i] = refs[i]

LEMMA TargetIs ==
  ASSUME NEW refs, NEW k
  PROVE  /\ refs[k].kind = "auto" => Parse!Target(refs, k) = Cardinality({i \in 1..(k - 1) : refs[i].kind = "auto"})
         /\ refs[k].kind = "index" => Parse!Target(refs, k) = refs[k].index
         /\ refs[k].kind = "name" =>
              Parse!Target(refs, k) = IF refs[k].name \in DOMAIN Names THEN Names[refs[k].name] ELSE -1
<1>1. refs[k].kind = "auto" => Parse!Target(refs, k) = Cardinality({i \in 1..(k - 1) : refs[i].kind = "auto"})
  BY SameCount DEF Parse!Target
<1>2. refs[k].kind = "index" => Parse!Target(refs, k) = refs[k].index
  BY DEF Parse!Target
<1>3. refs[k].kind = "name" => Parse!Target(refs, k) = IF refs[k].name \in DOMAIN Names THEN Names[refs[k].name] ELSE -1
  BY DEF Parse!Target
<1> QED
  BY <1>1, <1>2, <1>3

LEMMA ArgIdIs ==
  ASSUME NEW r
  PROVE  /\ r.kind = "auto" => Parse!ArgId(r) = next_arg_id
         /\ r.kind = "index" => Parse!ArgId(r) = r.index
         /\ r.kind = "name" => Parse!ArgId(r) = IF r.name \in DOMAIN Names THEN Names[r.name] ELSE -1
<1>1. r.kind = "auto" => Parse!ArgId(r) = next_arg_id
  BY DEF Parse!ArgId
<1>2. r.kind = "index" => Parse!ArgId(r) = r.index
  BY DEF Parse!ArgId
<1>3. r.kind = "name" => Parse!ArgId(r) = IF r.name \in DOMAIN Names THEN Names[r.name] ELSE -1
  BY DEF Parse!ArgId
<1> QED
  BY <1>1, <1>2, <1>3

LEMMA CanReferIs ==
  ASSUME NEW r
  PROVE  (r.kind = "auto" /\ Parse!CanRefer(r) => next_arg_id >= 0) /\ (r.kind = "index" /\ Parse!CanRefer(r) => next_arg_id <= 0)
<1>1. r.kind = "auto" /\ Parse!CanRefer(r) => next_arg_id >= 0
  BY DEF Parse!CanRefer
<1>2. r.kind = "index" /\ Parse!CanRefer(r) => next_arg_id <= 0
  BY DEF Parse!CanRefer
<1> QED
  BY <1>1, <1>2

(* The argument of a reference does not depend on later ones.              *)
LEMMA SameTarget ==
  ASSUME NEW refs \in Seq(Parse!RefForms), NEW more, Longer(refs, more), NEW k \in 1..Len(refs)
  PROVE  Parse!Target(more, k) = Parse!Target(refs, k)
<1>1. more[k] = refs[k] /\ refs[k] \in Parse!RefForms
  BY DEF Longer
<1>2. \A i \in 1..(k - 1) : more[i] = refs[i]
  <2>1. \A i \in 1..(k - 1) : i \in 1..Len(refs)
    OBVIOUS
  <2> QED
    BY <2>1 DEF Longer
<1>3. {i \in 1..(k - 1) : more[i].kind = "auto"} = {i \in 1..(k - 1) : refs[i].kind = "auto"}
  BY <1>2
<1>4. CASE refs[k].kind = "auto"
  BY <1>1, <1>3, <1>4, TargetIs, ZenonT(60)
<1>5. CASE refs[k].kind = "index"
  BY <1>1, <1>5, TargetIs, ZenonT(60)
<1>6. CASE refs[k].kind = "name"
  <2>1. Parse!Target(refs, k) = IF refs[k].name \in DOMAIN Names THEN Names[refs[k].name] ELSE -1
    BY <1>6, TargetIs
  <2>2. more[k].kind = "name"
    BY <1>1, <1>6
  <2>3. Parse!Target(more, k) = IF more[k].name \in DOMAIN Names THEN Names[more[k].name] ELSE -1
    BY <2>2, TargetIs
  <2> QED
    BY <1>1, <2>1, <2>3
<1> QED
  BY <1>1, <1>4, <1>5, <1>6, KindOfRef

LEMMA CountsOne ==
  ASSUME NEW refs \in Seq(Parse!RefForms), NEW n, Counts(refs, n)
  PROVE  /\ n \in Int
         /\ n >= 0 => n = Len(refs) /\ \A i \in 1..Len(refs) : refs[i].kind = "auto"
         /\ n <= 0 => refs = <<>> \/ refs[Len(refs)].kind # "auto"
BY DEF Counts

(* One more reference, which parse_context lets through.                   *)
LEMMA RefsGrow ==
  ASSUME NEW refs \in Seq(Parse!RefForms), NEW r \in Parse!RefForms, Parse!RefsAgree(refs), Counts(refs, next_arg_id), Parse!CanRefer(r)
  PROVE  /\ Append(refs, r) \in Seq(Parse!RefForms) /\ Parse!RefsAgree(Append(refs, r)) /\ Counts(Append(refs, r), Parse!NextId(r))
         /\ Longer(refs, Append(refs, r)) /\ Len(Append(refs, r)) = Len(refs) + 1
         /\ Parse!Target(Append(refs, r), Len(refs) + 1) = Parse!ArgId(r)
<1>0. PICK more : more = Append(refs, r)
  OBVIOUS
<1>1. PICK n \in Nat : n = Len(refs)
  OBVIOUS
<1>2. more \in Seq(Parse!RefForms) /\ Len(more) = n + 1 /\ more[n + 1] = r /\ \A i \in 1..n : more[i] = refs[i]
  BY <1>0, <1>1, AppendProperties
<1>3. Longer(refs, more)
  BY <1>1, <1>2 DEF Longer
<1>4. /\ next_arg_id \in Int
      /\ next_arg_id >= 0 => next_arg_id = n /\ \A i \in 1..n : refs[i].kind = "auto"
      /\ next_arg_id <= 0 => n = 0 \/ refs[n].kind # "auto"
  <2>1. refs = <<>> => n = 0
    BY <1>1
  <2> QED
    BY <1>1, <2>1, CountsOne
<1>5. \A i \in 1..n : refs[i] \in Parse!RefForms
  BY <1>1
<1>6. r.kind \in {"auto", "index", "name"}
  BY KindOfRef
<1>7. Parse!RefsAgree(more)
  <2>1. DOMAIN more = 1..(n + 1) /\ DOMAIN refs = 1..n
    BY <1>1, <1>2
  <2> SUFFICES ASSUME NEW j \in 1..(n + 1), NEW i \in 1..(j - 1)
               PROVE  /\ more[j].kind = "auto" => more[i].kind = "auto"
                      /\ more[j].kind = "index" /\ more[i].kind = "auto" =>
                           \E k \in (i + 1)..(j - 1) : more[k].kind = "name"
    BY <2>1 DEF Parse!RefsAgree
  <2>2. i \in 1..n /\ more[i] = refs[i]
    BY <1>2
  <2>3. CASE j \in 1..n
    <3>1. more[j] = refs[j]
      BY <1>2, <2>3
    <3>2. /\ refs[j].kind = "auto" => refs[i].kind = "auto"
          /\ refs[j].kind = "index" /\ refs[i].kind = "auto" => \E k \in (i + 1)..(j - 1) : refs[k].kind = "name"
      BY <2>1, <2>3 DEF Parse!RefsAgree
    <3>3. \A k \in (i + 1)..(j - 1) : more[k] = refs[k]
      <4>1. \A k \in (i + 1)..(j - 1) : k \in 1..n
        BY <2>3
      <4> QED
        BY <1>2, <4>1
    <3> QED
      BY <2>2, <3>1, <3>2, <3>3
  <2>4. CASE j = n + 1
    <3>1. more[j] = r
      BY <1>2, <2>4
    <3>2. r.kind = "auto" => refs[i].kind = "auto"
      BY <1>4, <2>2, CanReferIs
    <3>3. ASSUME r.kind = "index", refs[i].kind = "auto" PROVE \E k \in (i + 1)..(j - 1) : more[k].kind = "name"
      <4>1. n # 0 /\ refs[n].kind # "auto"
        BY <1>4, <2>2, <3>3, CanReferIs
      <4>2. n \in 1..n /\ i # n /\ more[n] = refs[n] /\ n \in (i + 1)..(j - 1) /\ i \in 1..(n - 1)
        BY <1>2, <2>2, <2>4, <3>3, <4>1
      <4>3. CASE refs[n].kind = "name"
        BY <4>2, <4>3
      <4>4. CASE refs[n].kind = "index"
        <5>1. PICK k \in (i + 1)..(n - 1) : refs[k].kind = "name"
          BY <2>1, <3>3, <4>2, <4>4 DEF Parse!RefsAgree
        <5>2. k \in 1..n /\ k \in (i + 1)..(j - 1)
          BY <2>2, <2>4
        <5> QED
          BY <1>2, <5>1, <5>2
      <4> QED
        BY <1>5, <4>1, <4>2, <4>3, <4>4, KindOfRef
    <3> QED
      BY <2>2, <3>1, <3>2, <3>3
  <2> QED
    BY <2>3, <2>4
<1>8. Counts(more, Parse!NextId(r))
  <2>1. CASE r.kind = "auto"
    <3>1. next_arg_id = n /\ \A i \in 1..n : refs[i].kind = "auto"
      BY <1>4, <2>1, CanReferIs
    <3>2. Parse!NextId(r) = n + 1
      BY <2>1, <3>1 DEF Parse!NextId
    <3>3. \A i \in 1..(n + 1) : more[i].kind = "auto"
      <4>1. \A i \in 1..(n + 1) : i \in 1..n \/ i = n + 1
        OBVIOUS
      <4> QED
        BY <1>2, <2>1, <3>1, <4>1
    <3> QED
      BY <1>2, <3>2, <3>3 DEF Counts
  <2>2. CASE r.kind # "auto"
    <3>1. Parse!NextId(r) = -1
      BY <2>2 DEF Parse!NextId
    <3>2. more # <<>> /\ more[Len(more)].kind # "auto"
      BY <1>2, <2>2
    <3> QED
      BY <3>1, <3>2 DEF Counts
  <2> QED
    BY <2>1, <2>2
<1>9. Parse!Target(more, n + 1) = Parse!ArgId(r)
  <2>1. CASE r.kind = "auto"
    <3>1. next_arg_id = n /\ \A i \in 1..n : refs[i].kind = "auto"
      BY <1>4, <2>1, CanReferIs
    <3>2. PICK k \in Nat : k = n + 1 /\ k - 1 = n
      OBVIOUS
    <3>3. {i \in 1..(k - 1) : more[i].kind = "auto"} = 1..n
      BY <1>2, <3>1, <3>2
    <3>4. Cardinality(1..n) = n
      BY FS_Interval
    <3>5. more[k].kind = "auto"
      BY <1>2, <2>1, <3>2
    <3>6. Parse!Target(more, k) = Cardinality({i \in 1..(k - 1) : more[i].kind = "auto"})
      BY <3>5, TargetIs
    <3> QED
      BY <2>1, <3>1, <3>2, <3>3, <3>4, <3>6, ArgIdIs
  <2>2. CASE r.kind = "index"
    <3>1. PICK k : k = n + 1 /\ more[k] = r
      BY <1>2
    <3>2. Parse!Target(more, k) = more[k].index
      BY <2>2, <3>1, TargetIs, Zenon
    <3> QED
      BY <2>2, <3>1, <3>2, ArgIdIs
  <2>3. CASE r.kind = "name"
    <3>1. PICK k : k = n + 1 /\ more[k] = r
      BY <1>2
    <3>2. Parse!Target(more, k) = IF more[k].name \in DOMAIN Names THEN Names[more[k].name] ELSE -1
      BY <2>3, <3>1, TargetIs, Zenon
    <3> QED
      BY <2>3, <3>1, <3>2, ArgIdIs
  <2> QED
    BY <1>6, <2>1, <2>2, <2>3
<1> QED
  BY <1>0, <1>1, <1>2, <1>3, <1>7, <1>8, <1>9

LEMMA AmountIs ==
  ASSUME NEW a, NEW default, NEW refs, NEW k
  PROVE  /\ a.what = "nothing" => Parse!Amount(a, default, refs, k) = default
         /\ a.what = "number" => Parse!Amount(a, default, refs, k) = Parse!Value(a.digits)
         /\ a.what = "ref" => Parse!Amount(a, default, refs, k) = Parse!ArgOf(Parse!Target(refs, k)).value
<1>1. a.what = "nothing" => Parse!Amount(a, default, refs, k) = default
  BY DEF Parse!Amount
<1>2. a.what = "number" => Parse!Amount(a, default, refs, k) = Parse!Value(a.digits)
  BY DEF Parse!Amount
<1>3. a.what = "ref" => Parse!Amount(a, default, refs, k) = Parse!ArgOf(Parse!Target(refs, k)).value
  BY DEF Parse!Amount
<1> QED
  BY <1>1, <1>2, <1>3

(* An argument that can be a width or a precision.                         *)
IsAmount(id) == /\ Parse!HasArg(id) /\ Parse!ArgOf(id).type \in Parse!sint_set \cup Parse!uint_set /\ Parse!ArgOf(id).value \in 0..Parse!IntMax

LEMMA AmountOkIs ==
  ASSUME NEW a, NEW refs, NEW k
  PROVE  /\ a.what = "nothing" => (Parse!AmountOk(a, refs, k) <=> TRUE)
         /\ a.what = "number" => (Parse!AmountOk(a, refs, k) <=> Parse!Value(a.digits) <= Parse!IntMax)
         /\ a.what = "ref" => (Parse!AmountOk(a, refs, k) <=> IsAmount(Parse!Target(refs, k)))
<1>1. a.what = "nothing" => (Parse!AmountOk(a, refs, k) <=> TRUE)
  BY DEF Parse!AmountOk
<1>2. a.what = "number" => (Parse!AmountOk(a, refs, k) <=> Parse!Value(a.digits) <= Parse!IntMax)
  BY DEF Parse!AmountOk
<1>3. a.what = "ref" => (Parse!AmountOk(a, refs, k) <=> IsAmount(Parse!Target(refs, k)))
  BY DEF Parse!AmountOk, IsAmount
<1> QED
  BY <1>1, <1>2, <1>3

LEMMA SameAmount ==
  ASSUME NEW a \in Parse!AmountForms, NEW default, NEW refs, NEW more, NEW k,
         a.what = "ref" => Parse!Target(more, k) = Parse!Target(refs, k)
  PROVE  /\ Parse!Amount(a, default, more, k) = Parse!Amount(a, default, refs, k)
         /\ Parse!AmountOk(a, more, k) <=> Parse!AmountOk(a, refs, k)
<1>1. CASE a.what = "nothing"
  <2>1. Parse!Amount(a, default, more, k) = default /\ Parse!Amount(a, default, refs, k) = default
    BY <1>1, AmountIs, ZenonT(60)
  <2>2. Parse!AmountOk(a, more, k) /\ Parse!AmountOk(a, refs, k)
    BY <1>1, AmountOkIs, Zenon
  <2> QED
    BY <2>1, <2>2, Zenon
<1>2. CASE a.what = "number"
  <2>1. Parse!Amount(a, default, more, k) = Parse!Value(a.digits) /\ Parse!Amount(a, default, refs, k) = Parse!Value(a.digits)
    BY <1>2, AmountIs, Zenon
  <2>2. (Parse!AmountOk(a, more, k) <=> Parse!Value(a.digits) <= Parse!IntMax) /\ (Parse!AmountOk(a, refs, k) <=> Parse!Value(a.digits) <= Parse!IntMax)
    BY <1>2, AmountOkIs, Zenon
  <2> QED
    BY <2>1, <2>2, Zenon
<1>3. CASE a.what = "ref"
  <2>1. Parse!Target(more, k) = Parse!Target(refs, k)
    BY <1>3
  <2>2. Parse!Amount(a, default, more, k) = Parse!ArgOf(Parse!Target(more, k)).value /\ Parse!Amount(a, default, refs, k) = Parse!ArgOf(Parse!Target(refs, k)).value
    BY <1>3, AmountIs, ZenonT(60)
  <2>3. (Parse!AmountOk(a, more, k) <=> IsAmount(Parse!Target(more, k))) /\ (Parse!AmountOk(a, refs, k) <=> IsAmount(Parse!Target(refs, k)))
    BY <1>3, AmountOkIs, Zenon
  <2> QED
    BY <2>1, <2>2, <2>3, Zenon
<1> QED
  BY <1>1, <1>2, <1>3, KindOfAmount

-----------------------------------------------------------------------------
(* The references of a token.                                              *)
TokenRefs(t) == IF t.kind = "field" THEN Parse!FieldRefs(t) ELSE <<>>

(* How many references specifiers have before the precision.               *)
OneIf(b) == IF b THEN 1 ELSE 0

LEMMA RefsOfField ==
  ASSUME NEW t, t.ref \in Parse!RefForms, t.specs \in Parse!SpecForms
  PROVE  /\ Parse!FieldRefs(t) \in Seq(Parse!RefForms)
         /\ Len(Parse!FieldRefs(t)) = 1 + OneIf(t.specs.width.what = "ref") + OneIf(t.specs.precision.what = "ref")
         /\ \A k \in Int : Parse!After(t, k) = k + 1 + OneIf(t.specs.width.what = "ref")
<1>1. PICK w \in Parse!AmountForms, q \in Parse!AmountForms : w = t.specs.width /\ q = t.specs.precision
  BY PartsOfSpecs
<1>2. (w.what = "ref" => w.ref \in Parse!RefForms) /\ (q.what = "ref" => q.ref \in Parse!RefForms)
  BY KindOfAmount
<1>3. PICK a : a = <<t.ref>>
  OBVIOUS
<1>4. PICK b : b = Parse!Opt(w.what = "ref", <<w.ref>>)
  OBVIOUS
<1>5. PICK c : c = Parse!Opt(q.what = "ref", <<q.ref>>)
  OBVIOUS
<1>6. a \in Seq(Parse!RefForms) /\ Len(a) = 1
  BY <1>3
<1>7. b \in Seq(Parse!RefForms) /\ Len(b) = OneIf(w.what = "ref")
  BY <1>2, <1>4 DEF Parse!Opt, OneIf
<1>8. c \in Seq(Parse!RefForms) /\ Len(c) = OneIf(q.what = "ref")
  BY <1>2, <1>5 DEF Parse!Opt, OneIf
<1>9. Parse!FieldRefs(t) = (a \o b) \o c
  BY <1>1, <1>3, <1>4, <1>5 DEF Parse!FieldRefs
<1>10. (a \o b) \o c \in Seq(Parse!RefForms) /\ Len((a \o b) \o c) = Len(a) + Len(b) + Len(c)
  <2>1. PICK d : d = a \o b
    OBVIOUS
  <2>2. d \in Seq(Parse!RefForms) /\ Len(d) = Len(a) + Len(b)
    BY <1>6, <1>7, <2>1, ConcatProperties, Zenon
  <2>3. d \o c \in Seq(Parse!RefForms) /\ Len(d \o c) = Len(d) + Len(c)
    BY <1>8, <2>2, ConcatProperties, Zenon
  <2> QED
    BY <2>1, <2>2, <2>3
<1>11. \A k \in Int : Parse!After(t, k) = k + 1 + OneIf(t.specs.width.what = "ref")
  BY DEF Parse!After, OneIf
<1> QED
  BY <1>1, <1>6, <1>7, <1>8, <1>9, <1>10, <1>11

LEMMA TokenRefsType == ASSUME NEW t \in Parse!TokenForms PROVE TokenRefs(t) \in Seq(Parse!RefForms)
<1>1. CASE t.kind = "field"
  BY <1>1, KindOfToken, RefsOfField DEF TokenRefs
<1>2. CASE t.kind # "field"
  BY <1>2 DEF TokenRefs
<1> QED
  BY <1>1, <1>2

(* A field whose references are all there: later ones change nothing.      *)
LEMMA SameField ==
  ASSUME NEW t, t.ref \in Parse!RefForms, t.specs \in Parse!SpecForms,
         NEW refs \in Seq(Parse!RefForms), NEW more, Longer(refs, more),
         NEW k \in Nat \ {0}, k + Len(Parse!FieldRefs(t)) - 1 <= Len(refs)
  PROVE  /\ Parse!Target(more, k) = Parse!Target(refs, k)
         /\ Parse!FieldOk(t, more, k) <=> Parse!FieldOk(t, refs, k)
         /\ Parse!MeanSpecs(t, more, k) = Parse!MeanSpecs(t, refs, k)
<1>1. PICK w \in Parse!AmountForms, q \in Parse!AmountForms : w = t.specs.width /\ q = t.specs.precision
  BY PartsOfSpecs
<1>2. PICK n \in Nat : n = Len(refs)
  OBVIOUS
<1>3. PICK i \in 0..1, j \in 0..1 : i = OneIf(w.what = "ref") /\ j = OneIf(q.what = "ref")
  BY DEF OneIf
<1>4. k + i + j <= n /\ Parse!After(t, k) = k + 1 + i
  <2>1. Len(Parse!FieldRefs(t)) = 1 + i + j
    BY <1>1, <1>3, RefsOfField
  <2>2. Parse!After(t, k) = k + 1 + OneIf(w.what = "ref")
    BY <1>1, RefsOfField
  <2> QED
    BY <1>2, <1>3, <2>1, <2>2
<1>5. Parse!Target(more, k) = Parse!Target(refs, k)
  <2>1. k \in 1..Len(refs)
    BY <1>2, <1>4
  <2> QED
    BY <2>1, SameTarget
<1>6. w.what = "ref" => Parse!Target(more, k + 1) = Parse!Target(refs, k + 1)
  <2>1. SUFFICES ASSUME w.what = "ref" PROVE Parse!Target(more, k + 1) = Parse!Target(refs, k + 1)
    OBVIOUS
  <2>2. i = 1
    BY <1>3, <2>1 DEF OneIf
  <2>3. k + 1 \in 1..Len(refs)
    BY <1>2, <1>4, <2>2
  <2> QED
    BY <2>3, SameTarget
<1>7. q.what = "ref" => Parse!Target(more, Parse!After(t, k)) = Parse!Target(refs, Parse!After(t, k))
  <2>1. SUFFICES ASSUME q.what = "ref" PROVE Parse!Target(more, Parse!After(t, k)) = Parse!Target(refs, Parse!After(t, k))
    OBVIOUS
  <2>2. j = 1
    BY <1>3, <2>1 DEF OneIf
  <2>3. Parse!After(t, k) \in 1..Len(refs)
    BY <1>2, <1>4, <2>2
  <2> QED
    BY <2>3, SameTarget
<1>8. /\ Parse!Amount(w, 0, more, k + 1) = Parse!Amount(w, 0, refs, k + 1)
      /\ Parse!AmountOk(w, more, k + 1) <=> Parse!AmountOk(w, refs, k + 1)
  BY <1>6, SameAmount
<1>9. /\ Parse!Amount(q, -1, more, Parse!After(t, k)) = Parse!Amount(q, -1, refs, Parse!After(t, k))
      /\ Parse!AmountOk(q, more, Parse!After(t, k)) <=> Parse!AmountOk(q, refs, Parse!After(t, k))
  BY <1>7, SameAmount
<1>10. Parse!FieldOk(t, more, k) <=> Parse!FieldOk(t, refs, k)
  BY <1>1, <1>5, <1>8, <1>9, Zenon DEF Parse!FieldOk
<1>11. Parse!MeanSpecs(t, more, k) = Parse!MeanSpecs(t, refs, k)
  BY <1>1, <1>8, <1>9, Zenon DEF Parse!MeanSpecs
<1> QED
  BY <1>5, <1>10, <1>11

-----------------------------------------------------------------------------
(* Sentences.                                                              *)
TokenMeans(t, refs, k) == IF t.kind # "field" THEN Parse!Char(t.char) ELSE [arg |-> Parse!Target(refs, k), specs |-> Parse!MeanSpecs(t, refs, k)]

LEMMA MapAppend ==
  ASSUME NEW T, NEW U, NEW f \in [T -> U], NEW s \in Seq(T), NEW t \in T
  PROVE  /\ [i \in DOMAIN s |-> f[s[i]]] \in Seq(U)
         /\ [i \in DOMAIN Append(s, t) |-> f[Append(s, t)[i]]] = Append([i \in DOMAIN s |-> f[s[i]]], f[t])
<1>1. PICK r \in Seq(T), n \in Nat : r = Append(s, t) /\ n = Len(s)
  <2>1. Append(s, t) \in Seq(T) /\ Len(s) \in Nat
    OBVIOUS
  <2> QED
    BY <2>1
<1>2. Len(r) = n + 1 /\ r[n + 1] = t /\ \A i \in 1..n : r[i] = s[i]
  BY <1>1, AppendProperties
<1>3. DOMAIN s = 1..n /\ DOMAIN r = 1..(n + 1)
  BY <1>1, <1>2
<1>4. PICK a : a = [i \in 1..n |-> f[s[i]]]
  OBVIOUS
<1>5. \A i \in 1..n : s[i] \in T
  BY <1>1
<1>6. a \in [1..n -> U]
  BY <1>4, <1>5
<1>7. a \in Seq(U) /\ Len(a) = n
  BY <1>6
<1>8. PICK b : b = [i \in 1..(n + 1) |-> f[r[i]]]
  OBVIOUS
<1>9. PICK c : c = Append(a, f[t])
  OBVIOUS
<1>10. c \in Seq(U) /\ Len(c) = n + 1 /\ c[n + 1] = f[t] /\ \A i \in 1..n : c[i] = a[i]
  <2>1. f[t] \in U
    OBVIOUS
  <2> QED
    BY <1>7, <1>9, <2>1, AppendProperties
<1>11. \A i \in 1..(n + 1) : r[i] \in T /\ b[i] = f[r[i]]
  BY <1>2, <1>3, <1>8
<1>12. b \in [1..(n + 1) -> U]
  BY <1>8, <1>11
<1>13. b \in Seq(U) /\ Len(b) = n + 1
  BY <1>12
<1>14. \A i \in 1..(n + 1) : b[i] = c[i]
  <2> TAKE i \in 1..(n + 1)
  <2>1. CASE i = n + 1
    BY <1>2, <1>10, <1>11, <2>1
  <2>2. CASE i \in 1..n
    BY <1>2, <1>4, <1>10, <1>11, <2>2
  <2> QED
    BY <2>1, <2>2
<1>15. b = c
  BY <1>10, <1>13, <1>14, SeqEqual
<1> QED
  BY <1>1, <1>3, <1>4, <1>7, <1>8, <1>9, <1>15

LEMMA SpellGrows ==
  ASSUME NEW s \in Seq(Parse!TokenForms)
  PROVE  /\ Parse!Spell(s) \in Texts
         /\ \A t \in Parse!TokenForms : Parse!Spell(Append(s, t)) = Parse!Spell(s) \o Parse!SpellToken(t)
<1>1. PICK f : f = [t \in Parse!TokenForms |-> Parse!SpellToken(t)]
  OBVIOUS
<1>2. f \in [Parse!TokenForms -> Texts] /\ \A t \in Parse!TokenForms : f[t] = Parse!SpellToken(t)
  BY <1>1, TokenText
<1>3. ASSUME NEW r \in Seq(Parse!TokenForms) PROVE [i \in DOMAIN r |-> Parse!SpellToken(r[i])] = [i \in DOMAIN r |-> f[r[i]]]
  <2>1. \A i \in DOMAIN r : r[i] \in Parse!TokenForms
    OBVIOUS
  <2> QED
    BY <1>2, <2>1
<1>4. PICK a : a = [i \in DOMAIN s |-> f[s[i]]]
  OBVIOUS
<1>5. Parse!Spell(s) = FlattenSeq(a)
  BY <1>3, <1>4, SameFlattened DEF Parse!Spell
<1>61. ASSUME NEW t \in Parse!TokenForms PROVE a \in Seq(Texts) /\ [i \in DOMAIN Append(s, t) |-> f[Append(s, t)[i]]] = Append(a, f[t])
  BY <1>2, <1>4, MapAppend
<1>62. PICK c : c = "{"
  OBVIOUS
<1>63. [kind |-> "brace", char |-> c] \in Parse!TokenForms
  BY <1>62 DEF Parse!TokenForms
<1>6. a \in Seq(Texts)
  BY <1>61, <1>63
<1>7. ASSUME NEW t \in Parse!TokenForms PROVE Parse!Spell(Append(s, t)) = Parse!Spell(s) \o Parse!SpellToken(t)
  <2>1. Append(s, t) \in Seq(Parse!TokenForms)
    BY AppendProperties
  <2>2. Parse!Spell(Append(s, t)) = FlattenSeq([i \in DOMAIN Append(s, t) |-> f[Append(s, t)[i]]])
    BY <1>3, <2>1, SameFlattened DEF Parse!Spell
  <2>3. Parse!Spell(Append(s, t)) = FlattenSeq(Append(a, Parse!SpellToken(t)))
    BY <1>2, <1>61, <2>2
  <2>4. Parse!SpellToken(t) \in Texts
    BY TokenText
  <2>5. FlattenSeq(Append(a, Parse!SpellToken(t))) = FlattenSeq(a) \o Parse!SpellToken(t)
    BY <1>6, <2>4, FlattenAppend DEF Texts
  <2> QED
    BY <1>5, <2>3, <2>5
<1>8. FlattenSeq(a) \in Texts
  BY <1>6, FlattenType DEF Texts
<1> QED
  BY <1>5, <1>7, <1>8

LEMMA RefsOfGrows ==
  ASSUME NEW s \in Seq(Parse!TokenForms)
  PROVE  /\ Parse!RefsOf(s) \in Seq(Parse!RefForms)
         /\ \A t \in Parse!TokenForms : Parse!RefsOf(Append(s, t)) = Parse!RefsOf(s) \o TokenRefs(t)
<1>0. PICK T : T = Seq(Parse!RefForms)
  OBVIOUS
<1>1. PICK f : f = [t \in Parse!TokenForms |-> TokenRefs(t)]
  OBVIOUS
<1>2. f \in [Parse!TokenForms -> T] /\ \A t \in Parse!TokenForms : f[t] = TokenRefs(t)
  BY <1>0, <1>1, TokenRefsType
<1>3. ASSUME NEW r \in Seq(Parse!TokenForms)
      PROVE  Parse!RefsOf(r) = FlattenSeq([i \in DOMAIN r |-> f[r[i]]])
  <2>1. \A i \in DOMAIN r : r[i] \in Parse!TokenForms
    OBVIOUS
  <2>2. [i \in DOMAIN r |-> IF r[i].kind = "field" THEN Parse!FieldRefs(r[i]) ELSE <<>>] = [i \in DOMAIN r |-> f[r[i]]]
    BY <1>2, <2>1 DEF TokenRefs
  <2> QED
    BY <2>2, SameFlattened DEF Parse!RefsOf
<1>4. PICK a : a = [i \in DOMAIN s |-> f[s[i]]]
  OBVIOUS
<1>5. Parse!RefsOf(s) = FlattenSeq(a)
  BY <1>3, <1>4
<1>61. ASSUME NEW t \in Parse!TokenForms PROVE a \in Seq(T) /\ [i \in DOMAIN Append(s, t) |-> f[Append(s, t)[i]]] = Append(a, f[t])
  BY <1>2, <1>4, MapAppend
<1>62. PICK c : c = "{"
  OBVIOUS
<1>63. [kind |-> "brace", char |-> c] \in Parse!TokenForms
  BY <1>62 DEF Parse!TokenForms
<1>6. a \in Seq(T)
  BY <1>61, <1>63
<1>7. ASSUME NEW t \in Parse!TokenForms PROVE Parse!RefsOf(Append(s, t)) = Parse!RefsOf(s) \o TokenRefs(t)
  <2>1. Append(s, t) \in Seq(Parse!TokenForms)
    BY AppendProperties
  <2>2. Parse!RefsOf(Append(s, t)) = FlattenSeq([i \in DOMAIN Append(s, t) |-> f[Append(s, t)[i]]])
    BY <1>3, <2>1
  <2>3. Parse!RefsOf(Append(s, t)) = FlattenSeq(Append(a, TokenRefs(t)))
    BY <1>2, <1>61, <2>2
  <2>4. TokenRefs(t) \in Seq(Parse!RefForms) /\ a \in Seq(Seq(Parse!RefForms))
    BY <1>0, <1>6, TokenRefsType
  <2>5. FlattenSeq(Append(a, TokenRefs(t))) = FlattenSeq(a) \o TokenRefs(t)
    BY <2>4, FlattenAppend
  <2> QED
    BY <1>5, <2>3, <2>5
<1>8. FlattenSeq(a) \in Seq(Parse!RefForms)
  BY <1>0, <1>6, FlattenType
<1> QED
  BY <1>5, <1>7, <1>8

LEMMA EmptySentence == /\ <<>> \in Seq(Parse!TokenForms) /\ Parse!Spell(<<>>) = <<>> /\ Parse!RefsOf(<<>>) = <<>>
                       /\ Parse!SentenceOk(<<>>) /\ Parse!Mean(<<>>) = <<>>
<1>0. PICK none : none = <<>>
  OBVIOUS
<1>1. none = <<>> /\ none \in Seq(Parse!TokenForms) /\ DOMAIN none = {}
  BY <1>0
<1>2. [i \in DOMAIN none |-> Parse!SpellToken(none[i])] = <<>>
  BY <1>1
<1>3. [i \in DOMAIN none |-> IF none[i].kind = "field" THEN Parse!FieldRefs(none[i]) ELSE <<>>] = <<>>
  BY <1>1
<1>4. Parse!Spell(none) = <<>> /\ Parse!RefsOf(none) = <<>>
  BY <1>2, <1>3, FlattenEmpty, SameFlattened DEF Parse!Spell, Parse!RefsOf
<1>5. Parse!RefsAgree(none)
  BY <1>1 DEF Parse!RefsAgree
<1>6. Parse!SentenceOk(none)
  BY <1>1, <1>4, <1>5 DEF Parse!SentenceOk
<1>7. Parse!Mean(none) = <<>>
  BY <1>1 DEF Parse!Mean
<1> QED
  BY <1>1, <1>4, <1>6, <1>7

(* Every reference of a sentence is among its references.                  *)
Within(s) ==
  \A i \in 1..Len(s) : s[i].kind = "field" => Parse!FirstRef(s, i) + Len(Parse!FieldRefs(s[i])) - 1 <= Len(Parse!RefsOf(s))

LEMMA FirstRefGrows ==
  ASSUME NEW s \in Seq(Parse!TokenForms), NEW t \in Parse!TokenForms
  PROVE  /\ \A i \in 1..Len(s) : Parse!FirstRef(Append(s, t), i) = Parse!FirstRef(s, i) /\ Parse!FirstRef(s, i) \in Nat \ {0}
         /\ Parse!FirstRef(Append(s, t), Len(s) + 1) = Len(Parse!RefsOf(s)) + 1
<1>1. PICK r \in Seq(Parse!TokenForms), n \in Nat : r = Append(s, t) /\ n = Len(s)
  <2>1. Append(s, t) \in Seq(Parse!TokenForms) /\ Len(s) \in Nat
    OBVIOUS
  <2> QED
    BY <2>1
<1>2. Len(r) = n + 1 /\ r[n + 1] = t /\ \A i \in 1..n : r[i] = s[i]
  BY <1>1, AppendProperties
<1>3. ASSUME NEW m \in 0..n PROVE SubSeq(r, 1, m) = SubSeq(s, 1, m) /\ SubSeq(s, 1, m) \in Seq(Parse!TokenForms)
  <2>1. \A i \in 1..m : s[i] \in Parse!TokenForms /\ r[i] = s[i] /\ r[i] \in Parse!TokenForms
    BY <1>1, <1>2
  <2>2. PICK a, b : a = SubSeq(r, 1, m) /\ b = SubSeq(s, 1, m)
    OBVIOUS
  <2>3. b \in Seq(Parse!TokenForms) /\ Len(b) = (IF 1 <= m THEN m - 1 + 1 ELSE 0) /\ \A i \in 1..(m - 1 + 1) : b[i] = s[1 + i - 1]
    BY <2>1, <2>2, SubSeqProperties
  <2>4. a \in Seq(Parse!TokenForms) /\ Len(a) = (IF 1 <= m THEN m - 1 + 1 ELSE 0) /\ \A i \in 1..(m - 1 + 1) : a[i] = r[1 + i - 1]
    BY <2>1, <2>2, SubSeqProperties
  <2>5. Len(a) = m /\ Len(b) = m
    BY <2>3, <2>4
  <2>6. ASSUME NEW i \in 1..m PROVE a[i] = b[i]
    <3>1. i \in 1..(m - 1 + 1) /\ 1 + i - 1 = i
      OBVIOUS
    <3>2. a[i] = r[i] /\ b[i] = s[i]
      BY <2>3, <2>4, <3>1
    <3> QED
      BY <2>1, <3>2
  <2>7. a = b
    BY <2>3, <2>4, <2>5, <2>6, SeqEqual
  <2> QED
    BY <2>2, <2>3, <2>7
<1>4. ASSUME NEW i \in 1..n PROVE Parse!FirstRef(r, i) = Parse!FirstRef(s, i) /\ Parse!FirstRef(s, i) \in Nat \ {0}
  <2>1. PICK m \in 0..n : m = i - 1
    OBVIOUS
  <2>2. SubSeq(r, 1, i - 1) = SubSeq(s, 1, i - 1) /\ SubSeq(s, 1, i - 1) \in Seq(Parse!TokenForms)
    BY <1>3, <2>1
  <2>3. Len(Parse!RefsOf(SubSeq(s, 1, i - 1))) \in Nat
    BY <2>2, RefsOfGrows, LenProperties
  <2>4. PICK x \in Nat : x = Len(Parse!RefsOf(SubSeq(s, 1, i - 1)))
    BY <2>3
  <2>5. Parse!FirstRef(s, i) = x + 1 /\ Parse!FirstRef(r, i) = x + 1
    BY <2>2, <2>4, Zenon DEF Parse!FirstRef
  <2> QED
    BY <2>5
<1>5. Parse!FirstRef(r, n + 1) = Len(Parse!RefsOf(s)) + 1
  <2>1. n \in 0..n /\ (n + 1) - 1 = n
    OBVIOUS
  <2>2. SubSeq(r, 1, n) = SubSeq(s, 1, n)
    BY <1>3, <2>1
  <2>3. SubSeq(s, 1, n) = s
    BY <1>1, SubSeqFull
  <2> QED
    BY <2>1, <2>2, <2>3 DEF Parse!FirstRef
<1> QED
  BY <1>1, <1>4, <1>5

ParsedGrows(s, t, refs, k) ==
  /\ Append(s, t) \in Seq(Parse!TokenForms) /\ Parse!SentenceOk(Append(s, t)) /\ Within(Append(s, t))
  /\ Parse!RefsOf(Append(s, t)) = refs /\ Parse!Mean(Append(s, t)) = Append(Parse!Mean(s), TokenMeans(t, refs, k))

(* One more token.                                                         *)
LEMMA SentenceGrows ==
  ASSUME NEW s \in Seq(Parse!TokenForms), NEW t \in Parse!TokenForms, Parse!SentenceOk(s), Within(s),
         NEW refs, refs = Parse!RefsOf(s) \o TokenRefs(t), Parse!RefsAgree(refs),
         NEW k, k = Len(Parse!RefsOf(s)) + 1, t.kind = "field" => Parse!FieldOk(t, refs, k)
  PROVE  ParsedGrows(s, t, refs, k)
<1>1. PICK r \in Seq(Parse!TokenForms), n \in Nat : r = Append(s, t) /\ n = Len(s)
  <2>1. Append(s, t) \in Seq(Parse!TokenForms) /\ Len(s) \in Nat
    OBVIOUS
  <2> QED
    BY <2>1
<1>2. Len(r) = n + 1 /\ r[n + 1] = t /\ \A i \in 1..n : r[i] = s[i]
  BY <1>1, AppendProperties
<1>3. PICK old \in Seq(Parse!RefForms), new \in Seq(Parse!RefForms) : old = Parse!RefsOf(s) /\ new = TokenRefs(t)
  BY RefsOfGrows, TokenRefsType
<1>4. Parse!RefsOf(r) = refs /\ refs = old \o new
  BY <1>1, <1>3, RefsOfGrows
<1>5. refs \in Seq(Parse!RefForms) /\ Len(refs) = Len(old) + Len(new) /\ \A i \in 1..Len(old) : refs[i] = old[i]
  BY <1>4, ConcatProperties
<1>6. Longer(old, refs)
  BY <1>5 DEF Longer
<1>7. PICK first : first = [i \in 1..(n + 1) |-> Parse!FirstRef(r, i)]
  OBVIOUS
<1>8. (\A i \in 1..n : first[i] = Parse!FirstRef(r, i) /\ first[i] = Parse!FirstRef(s, i) /\ first[i] \in Nat \ {0})
      /\ first[n + 1] = Parse!FirstRef(r, n + 1) /\ first[n + 1] = k
  <2>1. \A i \in 1..n : i \in 1..(n + 1)
    OBVIOUS
  <2> QED
    BY <1>1, <1>7, <2>1, FirstRefGrows
<1>9. ASSUME NEW i \in 1..n, s[i].kind = "field"
      PROVE  /\ s[i].ref \in Parse!RefForms /\ s[i].specs \in Parse!SpecForms
             /\ first[i] + Len(Parse!FieldRefs(s[i])) - 1 <= Len(old)
             /\ Parse!FieldOk(s[i], old, first[i])
  <2>1. s[i] \in Parse!TokenForms
    BY <1>1
  <2>2. s[i].ref \in Parse!RefForms /\ s[i].specs \in Parse!SpecForms
    BY <1>9, <2>1, KindOfToken
  <2>3. first[i] + Len(Parse!FieldRefs(s[i])) - 1 <= Len(old)
    BY <1>1, <1>3, <1>8, <1>9 DEF Within
  <2>4. Parse!FieldOk(s[i], old, first[i])
    <3>1. i \in DOMAIN s
      BY <1>1
    <3>2. Parse!FieldOk(s[i], Parse!RefsOf(s), Parse!FirstRef(s, i))
      BY <1>9, <3>1, Zenon DEF Parse!SentenceOk
    <3> QED
      BY <1>3, <1>8, <3>2
  <2> QED
    BY <2>2, <2>3, <2>4
<1>10. ASSUME NEW i \in 1..n, s[i].kind = "field"
       PROVE  /\ Parse!Target(refs, first[i]) = Parse!Target(old, first[i])
              /\ Parse!FieldOk(s[i], refs, first[i]) <=> Parse!FieldOk(s[i], old, first[i])
              /\ Parse!MeanSpecs(s[i], refs, first[i]) = Parse!MeanSpecs(s[i], old, first[i])
  <2>0. PICK u : u = s[i]
    OBVIOUS
  <2>1. PICK j \in Nat \ {0} : u = s[i] /\ j = first[i]
    BY <1>8, <2>0
  <2>2. u.ref \in Parse!RefForms /\ u.specs \in Parse!SpecForms /\ j + Len(Parse!FieldRefs(u)) - 1 <= Len(old)
    BY <1>9, <1>10, <2>1
  <2>3. Parse!Target(refs, j) = Parse!Target(old, j) /\ (Parse!FieldOk(u, refs, j) <=> Parse!FieldOk(u, old, j)) /\ Parse!MeanSpecs(u, refs, j) = Parse!MeanSpecs(u, old, j)
    BY <1>6, <2>2, SameField
  <2> QED
    BY <2>1, <2>3
<1>11. t.kind = "field" => first[n + 1] + Len(Parse!FieldRefs(t)) - 1 <= Len(refs)
  <2>1. SUFFICES ASSUME t.kind = "field" PROVE first[n + 1] + Len(Parse!FieldRefs(t)) - 1 <= Len(refs)
    OBVIOUS
  <2>2. new = Parse!FieldRefs(t)
    BY <1>3, <2>1 DEF TokenRefs
  <2>3. Len(old) \in Nat /\ Len(new) \in Nat /\ k = Len(old) + 1
    BY <1>3
  <2> QED
    BY <1>5, <1>8, <2>2, <2>3
<1>12. Within(r)
  <2> SUFFICES ASSUME NEW i \in 1..(n + 1), r[i].kind = "field" PROVE Parse!FirstRef(r, i) + Len(Parse!FieldRefs(r[i])) - 1 <= Len(refs)
    BY <1>2, <1>4 DEF Within
  <2>1. CASE i = n + 1
    BY <1>2, <1>8, <1>11, <2>1
  <2>2. CASE i \in 1..n
    <3>1. r[i] = s[i] /\ Parse!FirstRef(r, i) = first[i] /\ first[i] \in Nat
      BY <1>2, <1>8, <2>2
    <3>2. Len(Parse!FieldRefs(s[i])) \in Nat
      BY <1>9, <2>2, <3>1, RefsOfField, LenProperties
    <3>3. first[i] + Len(Parse!FieldRefs(s[i])) - 1 <= Len(old)
      BY <1>9, <2>2, <3>1
    <3> QED
      BY <1>5, <3>1, <3>2, <3>3
  <2> QED
    BY <2>1, <2>2
<1>13. Parse!SentenceOk(r)
  <2>1. DOMAIN r = 1..(n + 1)
    BY <1>2
  <2> SUFFICES ASSUME NEW i \in 1..(n + 1), r[i].kind = "field" PROVE Parse!FieldOk(r[i], refs, Parse!FirstRef(r, i))
    BY <1>4, <2>1 DEF Parse!SentenceOk
  <2>2. CASE i = n + 1
    BY <1>2, <1>8, <2>2
  <2>3. CASE i \in 1..n
    BY <1>2, <1>8, <1>9, <1>10, <2>3
  <2> QED
    BY <2>2, <2>3
<1>14. Parse!Mean(r) = Append(Parse!Mean(s), TokenMeans(t, refs, k))
  <2>1. DOMAIN r = 1..(n + 1) /\ DOMAIN s = 1..n
    BY <1>1, <1>2
  <2>2. PICK a : a = [i \in 1..n |-> TokenMeans(s[i], old, first[i])]
    OBVIOUS
  <2>3. Parse!Mean(s) = a
    <3>1. Parse!Mean(s) = [i \in 1..n |-> TokenMeans(s[i], Parse!RefsOf(s), Parse!FirstRef(s, i))]
      BY <2>1 DEF Parse!Mean, TokenMeans
    <3> QED
      BY <1>3, <1>8, <2>2, <3>1
  <2>4. PICK b : b = [i \in 1..(n + 1) |-> TokenMeans(r[i], refs, first[i])]
    OBVIOUS
  <2>5. Parse!Mean(r) = b
    <3>1. Parse!Mean(r) = [i \in 1..(n + 1) |-> TokenMeans(r[i], Parse!RefsOf(r), Parse!FirstRef(r, i))]
      BY <2>1 DEF Parse!Mean, TokenMeans
    <3>2. \A i \in 1..(n + 1) : Parse!FirstRef(r, i) = first[i]
      BY <1>7
    <3> QED
      BY <1>4, <2>4, <3>1, <3>2
  <2>6. \A i \in 1..n : b[i] = a[i]
    <3> TAKE i \in 1..n
    <3>1. b[i] = TokenMeans(s[i], refs, first[i]) /\ a[i] = TokenMeans(s[i], old, first[i])
      BY <1>2, <2>2, <2>4
    <3>2. CASE s[i].kind = "field"
      BY <1>10, <3>1, <3>2 DEF TokenMeans
    <3>3. CASE s[i].kind # "field"
      BY <3>1, <3>3 DEF TokenMeans
    <3> QED
      BY <3>2, <3>3
  <2>7. b[n + 1] = TokenMeans(t, refs, k)
    BY <1>2, <1>8, <2>4
  <2>8. b = Append(a, TokenMeans(t, refs, k))
    <3>1. PICK S : S = {a[i] : i \in 1..n} \cup {TokenMeans(t, refs, k)}
      OBVIOUS
    <3>2. a \in [1..n -> S] /\ TokenMeans(t, refs, k) \in S
      BY <2>2, <3>1
    <3>3. a \in Seq(S) /\ Len(a) = n
      BY <3>2
    <3>4. PICK c : c = Append(a, TokenMeans(t, refs, k))
      OBVIOUS
    <3>5. c \in Seq(S) /\ Len(c) = n + 1 /\ c[n + 1] = TokenMeans(t, refs, k) /\ \A i \in 1..n : c[i] = a[i]
      BY <3>2, <3>3, <3>4, AppendProperties
    <3>6. ASSUME NEW i \in 1..(n + 1) PROVE b[i] = c[i]
      <4>1. i \in 1..n \/ i = n + 1
        OBVIOUS
      <4> QED
        BY <2>6, <2>7, <3>5, <4>1
    <3>7. b \in [1..(n + 1) -> S]
      <4>1. \A i \in 1..(n + 1) : b[i] \in S
        BY <2>6, <2>7, <3>2
      <4> QED
        BY <2>4, <4>1
    <3>8. b \in Seq(S) /\ Len(b) = n + 1
      BY <3>7
    <3>9. b = c
      BY <3>5, <3>6, <3>8, SeqEqual
    <3> QED
      BY <3>4, <3>9
  <2> QED
    BY <2>3, <2>5, <2>8
<1> QED
  BY <1>1, <1>4, <1>12, <1>13, <1>14 DEF ParsedGrows

IsSequence(x) == \E S : x \in Seq(S)

LEMMA OneMore ==
  ASSUME NEW x, NEW c, IsSequence(x)
  PROVE  IsSequence(Append(x, c)) /\ Append(x, c) = x \o <<c>>
<1>1. PICK S : x \in Seq(S)
  BY DEF IsSequence
<1>2. PICK T : T = S \cup {c}
  OBVIOUS
<1>3. x \in Seq(T)
  BY <1>1, <1>2, SeqMonotonic
<1>4. c \in T
  BY <1>2
<1>5. Append(x, c) \in Seq(T) /\ Append(x, c) = x \o <<c>>
  BY <1>3, <1>4, AppendProperties, AppendIsConcat
<1> QED
  BY <1>5 DEF IsSequence

(* The text from begin on, one character more.                             *)
LEMMA TextGrows ==
  ASSUME IsSequence(out), begin \in Nat, NEW e \in Nat, begin <= e
  PROVE  Parse!Text(e + 1) = Append(Parse!Text(e), Parse!Char(fmt[e])) /\ IsSequence(Parse!Text(e))
<1>1. PICK S : out \in Seq(S)
  BY DEF IsSequence
<1>2. PICK T : T = S \cup {Parse!Char(fmt[i]) : i \in Int}
  OBVIOUS
<1>3. out \in Seq(T)
  BY <1>1, <1>2, SeqMonotonic
<1>4. \A i \in Int : Parse!Char(fmt[i]) \in T
  BY <1>2
<1>5. PICK n \in Nat : n = e - begin /\ (e + 1) - begin = n + 1 /\ begin + (n + 1) - 1 = e
  <2>1. e - begin \in Nat
    OBVIOUS
  <2> QED
    BY <2>1
<1>6. PICK x : x = [i \in 1..n |-> Parse!Char(fmt[begin + i - 1])]
  OBVIOUS
<1>7. PICK y : y = [i \in 1..(n + 1) |-> Parse!Char(fmt[begin + i - 1])]
  OBVIOUS
<1>8. x \in [1..n -> T] /\ y \in [1..(n + 1) -> T]
  <2>1. \A i \in 1..(n + 1) : begin + i - 1 \in Int
    OBVIOUS
  <2>2. \A i \in 1..n : begin + i - 1 \in Int
    OBVIOUS
  <2> QED
    BY <1>4, <1>6, <1>7, <2>1, <2>2
<1>9. x \in Seq(T) /\ Len(x) = n /\ y \in Seq(T) /\ Len(y) = n + 1
  BY <1>8
<1>10. PICK c \in T : c = Parse!Char(fmt[e])
  BY <1>4
<1>11. y[n + 1] = c /\ \A i \in 1..n : y[i] = x[i]
  <2>1. n + 1 \in 1..(n + 1)
    OBVIOUS
  <2>2. y[n + 1] = Parse!Char(fmt[begin + (n + 1) - 1])
    BY <1>7, <2>1
  <2>3. \A i \in 1..n : i \in 1..(n + 1)
    OBVIOUS
  <2> QED
    BY <1>5, <1>6, <1>7, <1>10, <2>2, <2>3
<1>12. y = Append(x, c)
  <2>1. Append(x, c) \in Seq(T) /\ Len(Append(x, c)) = n + 1 /\ Append(x, c)[n + 1] = c
        /\ \A i \in 1..n : Append(x, c)[i] = x[i]
    BY <1>9, AppendProperties
  <2>2. PICK z : z = Append(x, c)
    OBVIOUS
  <2>3. ASSUME NEW i \in 1..(n + 1) PROVE y[i] = z[i]
    <3>1. i \in 1..n \/ i = n + 1
      OBVIOUS
    <3> QED
      BY <1>11, <2>1, <2>2, <3>1
  <2>4. z \in Seq(T) /\ Len(z) = n + 1
    BY <2>1, <2>2
  <2>5. y = z
    BY <1>9, <2>3, <2>4, SeqEqual
  <2> QED
    BY <2>2, <2>5
<1>13. Parse!Text(e) = out \o x /\ Parse!Text(e + 1) = out \o y
  BY <1>5, <1>6, <1>7 DEF Parse!Text
<1>14. out \o x \in Seq(T)
  BY <1>3, <1>9, ConcatProperties
<1>15. out \o y = Append(out \o x, c)
  <2>1. <<c>> \in Seq(T)
    OBVIOUS
  <2>2. y = x \o <<c>>
    BY <1>9, <1>12, AppendIsConcat
  <2>3. (out \o x) \o <<c>> = out \o (x \o <<c>>)
    BY <1>3, <1>9, <2>1, ConcatAssociative
  <2>4. Append(out \o x, c) = (out \o x) \o <<c>>
    BY <1>14, AppendIsConcat
  <2> QED
    BY <2>2, <2>3, <2>4
<1> QED
  BY <1>10, <1>13, <1>14, <1>15 DEF IsSequence

(* Nothing is left to copy.                                                *)
LEMMA NothingToCopy ==
  ASSUME IsSequence(out), begin \in Nat
  PROVE  Parse!Text(begin) = out
<1>1. PICK S : out \in Seq(S)
  BY DEF IsSequence
<1>2. begin - begin = 0
  OBVIOUS
<1>3. [i \in 1..0 |-> Parse!Char(fmt[begin + i - 1])] = <<>>
  OBVIOUS
<1>4. Parse!Text(begin) = out \o <<>>
  BY <1>2, <1>3 DEF Parse!Text
<1> QED
  BY <1>1, <1>4, ConcatEmptySeq

-----------------------------------------------------------------------------
(* A sentence that is as long as what has been read.                       *)
Sentence(s) == s \in Seq(Parse!TokenForms) /\ Parse!SentenceOk(s) /\ Within(s)

InText(s) ==
  /\ Sentence(s) /\ Counts(Parse!RefsOf(s), next_arg_id)
  /\ Parse!Spell(s) = Word(1, p) /\ Parse!Mean(s) = Parse!Text(p)

ReadInv ==
  phase = "text" =>
    /\ p \in 1..(Len(fmt) + 1) /\ begin \in 1..p /\ IsSequence(out)
    /\ \E s : InText(s)

(* One more character or brace.                                            *)
LEMMA PlainToken ==
  ASSUME NEW s, Sentence(s), NEW t \in Parse!TokenForms, t.kind # "field"
  PROVE  /\ Sentence(Append(s, t)) /\ Parse!RefsOf(Append(s, t)) = Parse!RefsOf(s)
         /\ Parse!Spell(Append(s, t)) = Parse!Spell(s) \o Parse!SpellToken(t)
         /\ Parse!Mean(Append(s, t)) = Append(Parse!Mean(s), Parse!Char(t.char))
<1>1. s \in Seq(Parse!TokenForms) /\ Parse!SentenceOk(s) /\ Within(s)
  BY DEF Sentence
<1>2. TokenRefs(t) = <<>>
  BY DEF TokenRefs
<1>3. PICK refs : refs = Parse!RefsOf(s)
  OBVIOUS
<1>4. refs = Parse!RefsOf(s) \o TokenRefs(t)
  BY <1>1, <1>2, <1>3, RefsOfGrows, ConcatEmptySeq
<1>5. Parse!RefsAgree(refs)
  BY <1>1, <1>3 DEF Parse!SentenceOk
<1>6. PICK k : k = Len(Parse!RefsOf(s)) + 1
  OBVIOUS
<1>7. /\ Append(s, t) \in Seq(Parse!TokenForms) /\ Parse!SentenceOk(Append(s, t)) /\ Within(Append(s, t))
      /\ Parse!RefsOf(Append(s, t)) = refs /\ Parse!Mean(Append(s, t)) = Append(Parse!Mean(s), TokenMeans(t, refs, k))
  <2>1. t.kind = "field" => Parse!FieldOk(t, refs, k)
    OBVIOUS
  <2>2. ParsedGrows(s, t, refs, k)
    BY <1>1, <1>4, <1>5, <1>6, <2>1, SentenceGrows
  <2> QED
    BY <2>2 DEF ParsedGrows
<1> QED
  BY <1>1, <1>3, <1>7, SpellGrows DEF Sentence, TokenMeans

(* Single characters of the format string.                                 *)
LEMMA OneChar ==
  ASSUME Parse!ParseAssumption, fmt \in FormatStrings, NEW i \in 1..Len(fmt)
  PROVE  Word(i, i + 1) = <<fmt[i]>>
<1>1. PICK S : S = {fmt[i]}
  OBVIOUS
<1>2. PICK e \in Int, b \in Int : b = i /\ e = i + 1 /\ b < e /\ b <= e /\ e - b = 1
  BY Chars
<1>3. \A j \in b..(e - 1) : fmt[j] \in S
  BY <1>1, <1>2
<1>4. Word(b, e) \in Seq(S) /\ Len(Word(b, e)) = e - b
  BY <1>2, <1>3, WordIs
<1>5. Word(b, e)[1] = fmt[b]
  BY <1>2, <1>3, WordIs
<1>6. PICK w : w = Word(b, e) /\ w \in Seq(S) /\ Len(w) = 1 /\ w[1] = fmt[i]
  BY <1>2, <1>4, <1>5
<1>7. w = <<fmt[i]>>
  BY <1>6
<1> QED
  BY <1>2, <1>6, <1>7

LEMMA WordText ==
  ASSUME Parse!ParseAssumption, fmt \in FormatStrings, NEW b \in 1..(Len(fmt) + 1), NEW e \in b..(Len(fmt) + 1)
  PROVE  Word(b, e) \in Texts
<1>1. b \in Int /\ e \in Int /\ b <= e /\ Len(fmt) \in Nat
  BY Chars
<1>2. \A i \in b..(e - 1) : fmt[i] \in Symbols
  <2>1. \A i \in b..(e - 1) : i \in 1..Len(fmt)
    BY <1>1
  <2> QED
    BY <2>1, Chars, SymbolsAre
<1> QED
  BY <1>1, <1>2, WordIs DEF Texts

(* A character of the text, as it is or doubled, at the end of what is     *)
(* read.                                                                   *)
LEMMA PlainRead ==
  ASSUME Parse!ParseAssumption, fmt \in FormatStrings, NEW s, InText(s), NEW t \in Parse!TokenForms, t.kind # "field",
         p \in 1..(Len(fmt) + 1), NEW e \in p..(Len(fmt) + 1), Parse!SpellToken(t) = Word(p, e)
  PROVE  /\ Sentence(Append(s, t)) /\ Counts(Parse!RefsOf(Append(s, t)), next_arg_id)
         /\ Parse!Spell(Append(s, t)) = Word(1, e) /\ Parse!Mean(Append(s, t)) = Append(Parse!Text(p), Parse!Char(t.char))
<1>1. Sentence(s) /\ Counts(Parse!RefsOf(s), next_arg_id) /\ Parse!Spell(s) = Word(1, p) /\ Parse!Mean(s) = Parse!Text(p)
  BY DEF InText
<1>2. /\ Sentence(Append(s, t)) /\ Parse!RefsOf(Append(s, t)) = Parse!RefsOf(s)
      /\ Parse!Spell(Append(s, t)) = Parse!Spell(s) \o Parse!SpellToken(t)
      /\ Parse!Mean(Append(s, t)) = Append(Parse!Mean(s), Parse!Char(t.char))
  BY <1>1, PlainToken
<1>3. Word(1, p) \o Word(p, e) = Word(1, e)
  <2>1. Len(fmt) \in Nat
    BY Chars
  <2>2. 1 \in 1..(Len(fmt) + 1) /\ p \in 1..(Len(fmt) + 1)
    BY <2>1
  <2> QED
    BY <2>2, WordsJoin
<1> QED
  BY <1>1, <1>2, <1>3

(* The text goes on after what has been read.                              *)
LEMMA TextGoesOn ==
  ASSUME NEW s, Sentence(s), NEW e, NEW b, NEW n, NEW o,
         fmt' = fmt, p' = e, begin' = b, next_arg_id' = n, out' = o,
         e \in 1..(Len(fmt) + 1), b \in 1..e, IsSequence(o), Counts(Parse!RefsOf(s), n),
         Parse!Spell(s) = Word(1, e),
         Parse!Mean(s) = o \o [i \in 1..(e - b) |-> Parse!Char(fmt[b + i - 1])]
  PROVE  ReadInv'
<1>1. Sentence(s)'
  OBVIOUS
<1>2. Counts(Parse!RefsOf(s), next_arg_id)'
  OBVIOUS
<1>3. Word(1, p)' = Word(1, e)
  BY DEF Word
<1>4. Parse!Text(p)' = o \o [i \in 1..(e - b) |-> Parse!Char(fmt[b + i - 1])]
  BY DEF Parse!Text
<1>5. Parse!Spell(s)' = Word(1, p)' /\ Parse!Mean(s)' = Parse!Text(p)'
  BY <1>3, <1>4
<1>6. InText(s)'
  BY <1>1, <1>2, <1>5 DEF InText
<1>7. p' \in 1..(Len(fmt') + 1) /\ begin' \in 1..p'
  OBVIOUS
<1>8. IsSequence(out)'
  OBVIOUS
<1> QED
  BY <1>6, <1>7, <1>8 DEF ReadInv

LEMMA CharacterKeeps == ASSUME Parse!ParseAssumption, fmt \in FormatStrings, ReadInv, Parse!Character PROVE ReadInv'
<1>1. /\ phase = "text" /\ p <= Len(fmt) /\ fmt[p] \notin {"{", "}"} /\ p' = p + 1
      /\ UNCHANGED <<fmt, begin, next_arg_id, phase, arg, state, specs, out>>
  BY DEF Parse!Character
<1>2. p \in 1..(Len(fmt) + 1) /\ begin \in 1..p /\ IsSequence(out)
  BY <1>1 DEF ReadInv
<1>3. PICK s : InText(s)
  BY <1>1 DEF ReadInv
<1>4. p \in 1..Len(fmt) /\ Len(fmt) \in Nat /\ fmt[p] \in Parse!Literals
  <2>0. Len(fmt) \in Nat
    BY Chars
  <2>a. p <= Len(fmt) /\ p \in 1..(Len(fmt) + 1)
    BY <1>1, <1>2
  <2>1. p \in 1..Len(fmt) /\ Len(fmt) \in Nat
    BY <2>a, <2>0
  <2>2. fmt[p] \in Parse!Characters
    BY <2>1, Chars
  <2> QED
    BY <1>1, <2>1, <2>2 DEF Parse!Literals
<1>5. PICK t : t = [kind |-> "char", char |-> fmt[p]]
  OBVIOUS
<1>6. t \in Parse!TokenForms /\ t.kind = "char" /\ t.char = fmt[p]
  BY <1>4, <1>5 DEF Parse!TokenForms
<1>7. Parse!SpellToken(t) = Word(p, p + 1)
  <2>1. Parse!SpellToken(t) = <<t.char>>
    BY <1>6, SpellTokenIs
  <2>2. Word(p, p + 1) = <<fmt[p]>>
    BY <1>4, OneChar
  <2> QED
    BY <1>6, <2>1, <2>2
<1>8. p + 1 \in p..(Len(fmt) + 1)
  BY <1>4
<1>9. /\ Sentence(Append(s, t)) /\ Counts(Parse!RefsOf(Append(s, t)), next_arg_id)
      /\ Parse!Spell(Append(s, t)) = Word(1, p + 1) /\ Parse!Mean(Append(s, t)) = Append(Parse!Text(p), Parse!Char(t.char))
  <2>1. t.kind # "field"
    BY <1>6
  <2> QED
    BY <1>2, <1>3, <1>6, <1>7, <1>8, <2>1, PlainRead
<1>10. Parse!Text(p + 1) = Append(Parse!Text(p), Parse!Char(fmt[p]))
  <2>1. begin \in Nat /\ p \in Nat /\ begin <= p
    BY <1>2, <1>4
  <2> QED
    BY <1>2, <2>1, TextGrows
<1>11. PICK r : r = Append(s, t)
  OBVIOUS
<1>12. Sentence(r) /\ Counts(Parse!RefsOf(r), next_arg_id) /\ Parse!Spell(r) = Word(1, p + 1)
  BY <1>9, <1>11
<1>13. Parse!Mean(r) = out \o [i \in 1..((p + 1) - begin) |-> Parse!Char(fmt[begin + i - 1])]
  <2>1. Parse!Mean(r) = Parse!Text(p + 1)
    BY <1>6, <1>9, <1>10, <1>11
  <2> QED
    BY <2>1 DEF Parse!Text
<1>14. p + 1 \in 1..(Len(fmt) + 1) /\ begin \in 1..(p + 1)
  BY <1>2, <1>4
<1> QED
  BY <1>1, <1>2, <1>12, <1>13, <1>14, TextGoesOn

(* The text begins anew where the reading is.                              *)
LEMMA TextStartsAnew ==
  ASSUME NEW s, Sentence(s), NEW e, NEW n, NEW o,
         fmt' = fmt, p' = e, begin' = e, next_arg_id' = n, out' = o, Len(fmt) \in Nat,
         e \in 1..(Len(fmt) + 1), IsSequence(o), Counts(Parse!RefsOf(s), n),
         Parse!Spell(s) = Word(1, e), Parse!Mean(s) = o
  PROVE  ReadInv'
<1>1. e \in Nat /\ e \in 1..e /\ e - e = 0
  OBVIOUS
<1>2. [i \in 1..0 |-> Parse!Char(fmt[e + i - 1])] = <<>>
  OBVIOUS
<1>3. PICK S : o \in Seq(S)
  BY DEF IsSequence
<1>4. Parse!Mean(s) = o \o [i \in 1..(e - e) |-> Parse!Char(fmt[e + i - 1])]
  BY <1>1, <1>2, <1>3, ConcatEmptySeq
<1> QED
  BY <1>1, <1>4, TextGoesOn

(* Where the text is.                                                      *)
LEMMA InTextAt ==
  ASSUME Parse!ParseAssumption, fmt \in FormatStrings, ReadInv, phase = "text"
  PROVE  /\ Len(fmt) \in Nat /\ p \in 1..(Len(fmt) + 1) /\ begin \in 1..p /\ IsSequence(out) /\ IsSequence(Parse!Text(p))
         /\ \E s : InText(s)
         /\ Parse!At(p) # "end" => p \in 1..Len(fmt) /\ Parse!At(p) = fmt[p]
         /\ Parse!At(p + 1) # "end" => p + 1 \in 1..Len(fmt) /\ Parse!At(p + 1) = fmt[p + 1]
<1>1. Len(fmt) \in Nat
  BY Chars
<1>2. p \in 1..(Len(fmt) + 1) /\ begin \in 1..p /\ IsSequence(out) /\ \E s : InText(s)
  BY DEF ReadInv
<1>3. p \in Nat /\ begin \in Nat /\ begin <= p /\ p \in Int /\ p + 1 \in Int
  BY <1>1, <1>2
<1>4. IsSequence(Parse!Text(p))
  BY <1>2, <1>3, TextGrows
<1>5. Parse!At(p) # "end" => p \in 1..Len(fmt) /\ Parse!At(p) = fmt[p]
  BY <1>3, Chars
<1>6. Parse!At(p + 1) # "end" => p + 1 \in 1..Len(fmt) /\ Parse!At(p + 1) = fmt[p + 1]
  BY <1>3, Chars
<1> QED
  BY <1>1, <1>2, <1>4, <1>5, <1>6

LEMMA Between == ASSUME NEW n \in Nat, NEW x \in 1..(n + 1), NEW y \in 1..x PROVE x \in Nat /\ y \in Nat /\ y <= x
OBVIOUS

LEMMA TwoMore == ASSUME NEW n \in Nat, NEW x \in 1..n, x + 1 \in 1..n PROVE x + 2 \in x..(n + 1) /\ x + 2 \in 1..(n + 1)
OBVIOUS

LEMMA TwoOfOne == ASSUME NEW a, NEW b PROVE <<a>> \o <<b>> = <<a, b>>
<1>1. PICK S : S = {a, b}
  OBVIOUS
<1>2. <<a>> \in Seq(S) /\ <<b>> \in Seq(S) /\ Len(<<a>>) = 1 /\ b \in S
  BY <1>1
<1>3. <<a>> \o <<b>> = Append(<<a>>, b)
  BY <1>2, AppendIsConcat
<1>4. Append(<<a>>, b) = <<a, b>>
  <2>1. PICK y : y = Append(<<a>>, b)
    OBVIOUS
  <2>2. y \in Seq(S) /\ Len(y) = 2 /\ y[1] = a /\ y[2] = b
    BY <1>2, <2>1, AppendProperties
  <2>3. <<a, b>> \in Seq(S) /\ Len(<<a, b>>) = 2
    BY <1>1
  <2>4. \A i \in 1..2 : y[i] = <<a, b>>[i]
    BY <2>2
  <2>5. y = <<a, b>>
    BY <2>2, <2>3, <2>4, SeqEqual
  <2> QED
    BY <2>1, <2>5
<1> QED
  BY <1>3, <1>4

LEMMA TwoChars ==
  ASSUME Parse!ParseAssumption, fmt \in FormatStrings, NEW i \in 1..Len(fmt), i + 1 \in 1..Len(fmt)
  PROVE  Word(i, i + 2) = <<fmt[i], fmt[i + 1]>>
<1>0. Len(fmt) \in Nat
  BY Chars
<1>1. Word(i, i + 1) = <<fmt[i]>> 
  BY OneChar
<1>2. PICK j \in 1..Len(fmt) : j = i + 1 /\ j + 1 = i + 2
  BY <1>0
<1>3. Word(j, j + 1) = <<fmt[j]>>
  BY OneChar
<1>4. i \in 1..(Len(fmt) + 1) /\ j \in i..(Len(fmt) + 1) /\ j + 1 \in j..(Len(fmt) + 1)
  BY <1>0, <1>2
<1>5. Word(i, j) \o Word(j, j + 1) = Word(i, j + 1)
  BY <1>4, WordsJoin
<1>6. <<fmt[i]>> \o <<fmt[j]>> = <<fmt[i], fmt[j]>>
  BY TwoOfOne
<1> QED
  BY <1>1, <1>2, <1>3, <1>5, <1>6

(* A doubled brace.                                                        *)
LEMMA BraceKeeps ==
  ASSUME Parse!ParseAssumption, fmt \in FormatStrings, ReadInv, phase = "text",
         NEW c \in {"{", "}"}, Parse!At(p) = c, Parse!At(p + 1) = c,
         p' = p + 2, begin' = p + 2, fmt' = fmt, next_arg_id' = next_arg_id, out' = Append(Parse!Text(p), Parse!Char(c))
  PROVE  ReadInv'
<1>1. PICK s : InText(s)
  BY InTextAt
<1>2. c # "end"
  OBVIOUS
<1>3. p \in 1..Len(fmt) /\ p + 1 \in 1..Len(fmt) /\ fmt[p] = c /\ fmt[p + 1] = c
  BY <1>2, InTextAt
<1>4. Len(fmt) \in Nat /\ p \in 1..(Len(fmt) + 1) /\ IsSequence(Parse!Text(p))
  BY InTextAt
<1>5. PICK e \in p..(Len(fmt) + 1) : e = p + 2
  <2>1. p + 2 \in p..(Len(fmt) + 1)
    BY <1>3, <1>4, TwoMore
  <2> QED
    BY <2>1
<1>6. PICK t : t = [kind |-> "brace", char |-> c]
  OBVIOUS
<1>7. t \in Parse!TokenForms /\ t.kind = "brace" /\ t.char = c
  BY <1>6 DEF Parse!TokenForms
<1>8. Parse!SpellToken(t) = Word(p, e)
  <2>1. Parse!SpellToken(t) = <<c, c>>
    BY <1>7, SpellTokenIs
  <2>2. Word(p, p + 2) = <<c, c>>
    BY <1>3, TwoChars
  <2> QED
    BY <1>5, <2>1, <2>2
<1>9. t.kind # "field"
  BY <1>7
<1>10. PICK r : r = Append(s, t)
  OBVIOUS
<1>11. PICK o : o = Append(Parse!Text(p), Parse!Char(c))
  OBVIOUS
<1>12. /\ Sentence(r) /\ Counts(Parse!RefsOf(r), next_arg_id)
       /\ Parse!Spell(r) = Word(1, e) /\ Parse!Mean(r) = o
  <2>1. /\ Sentence(Append(s, t)) /\ Counts(Parse!RefsOf(Append(s, t)), next_arg_id)
        /\ Parse!Spell(Append(s, t)) = Word(1, e) /\ Parse!Mean(Append(s, t)) = Append(Parse!Text(p), Parse!Char(t.char))
    BY <1>1, <1>4, <1>7, <1>8, <1>9, PlainRead
  <2> QED
    BY <1>7, <1>10, <1>11, <2>1
<1>13. IsSequence(o)
  BY <1>4, <1>11, OneMore
<1>14. e \in 1..(Len(fmt) + 1)
  BY <1>3, <1>4, <1>5, TwoMore
<1>15. fmt' = fmt /\ p' = e /\ begin' = e /\ out' = o
  BY <1>5, <1>11
<1> QED
  BY <1>4, <1>12, <1>13, <1>14, <1>15, TextStartsAnew

LEMMA OpenBraceKeeps == ASSUME Parse!ParseAssumption, fmt \in FormatStrings, ReadInv, Parse!OpenBrace PROVE ReadInv'
<1>1. PICK c \in {"{", "}"} : c = "{"
  OBVIOUS
<1>2. /\ phase = "text" /\ Parse!At(p) = c /\ Parse!At(p + 1) = c /\ out' = Append(Parse!Text(p), Parse!Char(c))
      /\ p' = p + 2 /\ begin' = p + 2 /\ fmt' = fmt /\ next_arg_id' = next_arg_id
  BY <1>1 DEF Parse!OpenBrace
<1> QED
  BY <1>2, BraceKeeps

LEMMA CloseBraceKeeps == ASSUME Parse!ParseAssumption, fmt \in FormatStrings, ReadInv, Parse!CloseBrace PROVE ReadInv'
<1>1. PICK c \in {"{", "}"} : c = "}"
  OBVIOUS
<1>2. /\ phase = "text" /\ Parse!At(p) = c /\ Parse!At(p + 1) = c /\ out' = Parse!Text(p + 1)
      /\ p' = p + 2 /\ begin' = p + 2 /\ fmt' = fmt /\ next_arg_id' = next_arg_id
  BY <1>1 DEF Parse!CloseBrace
<1>3. Parse!Text(p + 1) = Append(Parse!Text(p), Parse!Char(c))
  <2>1. Len(fmt) \in Nat /\ p \in 1..(Len(fmt) + 1) /\ begin \in 1..p /\ IsSequence(out)
    BY <1>2, InTextAt
  <2>2. begin \in Nat /\ p \in Nat /\ begin <= p
    BY <2>1, Between
  <2>3. fmt[p] = c
    BY <1>1, <1>2, InTextAt
  <2> QED
    BY <2>1, <2>2, <2>3, TextGrows
<1> QED
  BY <1>2, <1>3, BraceKeeps

(* The end of the string.                                                  *)
LEMMA FinishAccepts == ASSUME Parse!ParseAssumption, fmt \in FormatStrings, ReadInv, Parse!Finish PROVE Parse!AcceptedAsSentence'
<1>1. phase = "text" /\ p > Len(fmt) /\ out' = Parse!Text(p) /\ fmt' = fmt
  BY DEF Parse!Finish
<1>2. PICK s : InText(s)
  BY <1>1, InTextAt
<1>3. Len(fmt) \in Nat /\ p \in 1..(Len(fmt) + 1)
  BY <1>1, InTextAt
<1>4. p - 1 = Len(fmt)
  BY <1>1, <1>3
<1>5. Word(1, p) = fmt
  <2>1. fmt \in Seq(Parse!Characters)
    BY Chars
  <2>2. SubSeq(fmt, 1, Len(fmt)) = fmt
    BY <2>1
  <2> QED
    BY <1>4, <2>2 DEF Word
<1>6. s \in Seq(Parse!TokenForms) /\ Parse!SentenceOk(s) /\ Parse!Spell(s) = fmt /\ Parse!Mean(s) = Parse!Text(p)
  BY <1>2, <1>5 DEF InText, Sentence
<1>7. (s \in Seq(Parse!TokenForms) /\ Parse!SentenceOk(s) /\ Parse!Spell(s) = fmt /\ Parse!Mean(s) = out)'
  BY <1>1, <1>6
<1> QED
  BY <1>7 DEF Parse!AcceptedAsSentence

LEMMA OneUp == ASSUME NEW n \in Nat, NEW x \in 1..n PROVE x \in 1..(n + 1) /\ x + 1 \in 1..(n + 1) /\ x + 1 \in x..(n + 1)
OBVIOUS

LEMMA OneRef == \A r \in Parse!RefForms : <<r>> \in Seq(Parse!RefForms) /\ Len(<<r>>) = 1
OBVIOUS

LEMMA Further ==
  ASSUME NEW n \in Nat, NEW x \in 1..n, NEW y \in (x + 1)..(n + 1)
  PROVE  /\ y \in Int /\ 1 \in 1..(n + 1) /\ x \in 1..(n + 1) /\ y \in x..(n + 1) /\ y \in 1..(n + 1)
         /\ y \in 1..n => y + 1 \in x..(n + 1) /\ y + 1 \in y..(n + 1) /\ y + 1 \in 1..(n + 1)
OBVIOUS

(* A field is at its end, and the text goes on behind it.                  *)
LEMMA FieldCloses ==
  ASSUME Parse!ParseAssumption, fmt \in FormatStrings, NEW s, Sentence(s), NEW t \in Parse!TokenForms, t.kind = "field",
         NEW refs, refs = Parse!RefsOf(s) \o Parse!FieldRefs(t), Parse!RefsAgree(refs), NEW k, k = Len(Parse!RefsOf(s)) + 1,
         Parse!FieldOk(t, refs, k), NEW n, Counts(refs, n), NEW e \in 1..Len(fmt),
         Parse!Spell(s) \o Parse!SpellToken(t) = Word(1, e + 1), IsSequence(Parse!Mean(s)),
         fmt' = fmt, p' = e + 1, begin' = e + 1, next_arg_id' = n,
         out' = Append(Parse!Mean(s), [arg |-> Parse!Target(refs, k), specs |-> Parse!MeanSpecs(t, refs, k)])
  PROVE  ReadInv'
<1>1. s \in Seq(Parse!TokenForms) /\ Parse!SentenceOk(s) /\ Within(s)
  BY DEF Sentence
<1>2. refs = Parse!RefsOf(s) \o TokenRefs(t)
  BY DEF TokenRefs
<1>3. ParsedGrows(s, t, refs, k)
  BY <1>1, <1>2, SentenceGrows
<1>4. PICK r : r = Append(s, t)
  OBVIOUS
<1>5. Sentence(r) /\ Parse!RefsOf(r) = refs
  BY <1>3, <1>4 DEF ParsedGrows, Sentence
<1>6. Parse!Mean(r) = out'
  BY <1>3, <1>4 DEF ParsedGrows, TokenMeans
<1>7. Parse!Spell(r) = Word(1, e + 1)
  BY <1>1, <1>4, SpellGrows
<1>8. IsSequence(out')
  BY OneMore
<1>9. e + 1 \in 1..(Len(fmt) + 1) /\ Len(fmt) \in Nat
  <2>1. Len(fmt) \in Nat
    BY Chars
  <2> QED
    BY <2>1
<1> QED
  BY <1>5, <1>6, <1>7, <1>8, <1>9, TextStartsAnew

(* What has been read once a field has begun.                              *)
FieldBegins(s, r, e) ==
  /\ r \in Parse!RefForms /\ e \in (p + 1)..(Len(fmt) + 1)
  /\ Append(Parse!RefsOf(s), r) \in Seq(Parse!RefForms) /\ Parse!RefsAgree(Append(Parse!RefsOf(s), r))
  /\ Counts(Append(Parse!RefsOf(s), r), Parse!NextId(r))
  /\ Parse!Target(Append(Parse!RefsOf(s), r), Len(Parse!RefsOf(s)) + 1) = Parse!ArgId(r)
  /\ Word(p, e) = <<"{">> \o Parse!SpellRef(r)

LEMMA FieldBegan ==
  ASSUME Parse!ParseAssumption, fmt \in FormatStrings, ReadInv, phase = "text", NEW s, InText(s),
         Parse!At(p) = "{", Parse!At(p + 1) # "end",
         Parse!FieldRef.ok, Parse!CanRefer(Parse!FieldRef.ref), Parse!HasArg(Parse!ArgId(Parse!FieldRef.ref))
  PROVE  FieldBegins(s, Parse!FieldRef.ref, Parse!FieldRef.end)
<1>1. p \in 1..Len(fmt) /\ p + 1 \in 1..Len(fmt) /\ fmt[p] = "{" /\ Len(fmt) \in Nat
  BY InTextAt
<1>2. PICK b \in 1..(Len(fmt) + 1) : b = p + 1
  <2>1. p + 1 \in 1..(Len(fmt) + 1)
    BY <1>1, OneUp
  <2> QED
    BY <2>1
<1>3. Parse!FieldRef = RefAt(b)
  BY <1>2 DEF Parse!FieldRef, RefAt
<1>4. PICK r : r = Parse!FieldRef.ref
  OBVIOUS
<1>5. PICK e : e = Parse!FieldRef.end
  OBVIOUS
<1>6. e \in b..(Len(fmt) + 1) /\ r \in Parse!RefForms /\ ((r.kind = "index" => Parse!HasArg(r.index)) => Parse!SpellRef(r) = Word(b, e))
  BY <1>3, <1>4, <1>5, RefIsRead
<1>7. r.kind = "index" => Parse!HasArg(r.index)
  BY <1>4, ArgIdIs
<1>8. Parse!SpellRef(r) = Word(b, e)
  BY <1>6, <1>7
<1>9. Word(p, e) = <<"{">> \o Parse!SpellRef(r)
  <2>1. Word(p, b) = <<"{">>
    BY <1>1, <1>2, OneChar
  <2>2. p \in 1..(Len(fmt) + 1) /\ b \in p..(Len(fmt) + 1)
    BY <1>1, <1>2, OneUp
  <2>3. Word(p, b) \o Word(b, e) = Word(p, e)
    BY <1>6, <2>2, WordsJoin
  <2> QED
    BY <1>8, <2>1, <2>3
<1>10. PICK refs : refs = Parse!RefsOf(s)
  OBVIOUS
<1>11. refs \in Seq(Parse!RefForms) /\ Parse!RefsAgree(refs) /\ Counts(refs, next_arg_id)
  BY <1>10, RefsOfGrows DEF InText, Sentence, Parse!SentenceOk
<1>12. /\ Append(refs, r) \in Seq(Parse!RefForms) /\ Parse!RefsAgree(Append(refs, r)) /\ Counts(Append(refs, r), Parse!NextId(r))
       /\ Parse!Target(Append(refs, r), Len(refs) + 1) = Parse!ArgId(r)
  BY <1>4, <1>6, <1>11, RefsGrow
<1>13. e \in (p + 1)..(Len(fmt) + 1)
  BY <1>2, <1>6
<1> QED
  BY <1>4, <1>5, <1>6, <1>9, <1>10, <1>12, <1>13 DEF FieldBegins

(* What the specifiers mean, piece by piece.                               *)
AlignMeans(u) == IF u.zero /\ u.align = <<>> THEN "numeric" ELSE IF u.align = <<>> THEN "none" ELSE Parse!AlignOf[Last(u.align)]
FillMeans(u) == IF u.zero /\ u.align = <<>> THEN "0" ELSE IF Len(u.align) = 2 THEN u.align[1] ELSE " "
SignMeans(u) == CASE u.sign = <<"+">> -> "plus" [] u.sign = <<" ">> -> "space" [] OTHER -> "none"
TypeMeans(u) == IF u.type = <<>> THEN "none" ELSE Parse!Presentation[u.type[1]].type
UpperMeans(u) == u.type # <<>> /\ Parse!IsUpper(u.type[1])

Record(type, align, sign, upper, alt, localized, fill, width, precision, width_ref, precision_ref) ==
  [type |-> type, align |-> align, sign |-> sign, upper |-> upper, alt |-> alt, localized |-> localized, fill |-> fill,
   width |-> width, precision |-> precision, width_ref |-> width_ref, precision_ref |-> precision_ref]
SpecsAre(u, width, precision, width_ref, precision_ref) ==
  Record(TypeMeans(u), AlignMeans(u), SignMeans(u), UpperMeans(u), u.hash, u.locale, FillMeans(u),
         width, precision, width_ref, precision_ref)

LEMMA MeanSpecsAre ==
  ASSUME NEW t, NEW refs, NEW k, NEW w, NEW pr,
         w = Parse!Amount(t.specs.width, 0, refs, k + 1), pr = Parse!Amount(t.specs.precision, -1, refs, Parse!After(t, k))
  PROVE  Parse!MeanSpecs(t, refs, k) = SpecsAre(t.specs, w, pr, Parse!NoRef, Parse!NoRef)
BY Zenon DEF Parse!MeanSpecs, Parse!Last, Last, SpecsAre, Record, AlignMeans, FillMeans, SignMeans, TypeMeans, UpperMeans

LEMMA NoSpecsAre ==
  /\ Parse!NoSpecs.align = <<>> /\ Parse!NoSpecs.sign = <<>> /\ Parse!NoSpecs.hash = FALSE /\ Parse!NoSpecs.zero = FALSE
  /\ Parse!NoSpecs.width = Parse!Nothing /\ Parse!NoSpecs.precision = Parse!Nothing /\ Parse!NoSpecs.locale = FALSE /\ Parse!NoSpecs.type = <<>>
  /\ AlignMeans(Parse!NoSpecs) = "none" /\ FillMeans(Parse!NoSpecs) = " " /\ SignMeans(Parse!NoSpecs) = "none"
  /\ TypeMeans(Parse!NoSpecs) = "none" /\ UpperMeans(Parse!NoSpecs) = FALSE /\ Parse!NoSpecs \in Parse!SpecForms
<1>1. /\ Parse!NoSpecs.align = <<>> /\ Parse!NoSpecs.sign = <<>> /\ Parse!NoSpecs.hash = FALSE /\ Parse!NoSpecs.zero = FALSE
      /\ Parse!NoSpecs.width = Parse!Nothing /\ Parse!NoSpecs.precision = Parse!Nothing /\ Parse!NoSpecs.locale = FALSE /\ Parse!NoSpecs.type = <<>>
  BY DEF Parse!NoSpecs
<1>2. Len(<<>>) = 0 /\ Len(<<"+">>) = 1 /\ Len(<<" ">>) = 1
  OBVIOUS
<1>3. AlignMeans(Parse!NoSpecs) = "none"
  BY <1>1 DEF AlignMeans
<1>4. FillMeans(Parse!NoSpecs) = " "
  BY <1>1, <1>2 DEF FillMeans
<1>5. SignMeans(Parse!NoSpecs) = "none"
  BY <1>1, <1>2 DEF SignMeans
<1>6. TypeMeans(Parse!NoSpecs) = "none" /\ UpperMeans(Parse!NoSpecs) = FALSE
  BY <1>1 DEF TypeMeans, UpperMeans
<1>7. Parse!NoSpecs \in Parse!SpecForms
  <2>1. Parse!Nothing \in Parse!AmountForms /\ Parse!Nothing.what # "number"
    BY DEF Parse!Nothing, Parse!AmountForms
  <2>2. <<>> \in Parse!Optional(DOMAIN Parse!AlignOf) /\ <<>> \in Parse!Optional(DOMAIN Parse!SignOf) /\ <<>> \in Parse!Optional(DOMAIN Parse!Presentation)
    BY DEF Parse!Optional
  <2> QED
    BY <2>1, <2>2 DEF Parse!NoSpecs, Parse!SpecForms
<1> QED
  BY <1>1, <1>3, <1>4, <1>5, <1>6, <1>7

(* A field without specifiers means the default ones.                      *)
LEMMA NoSpecsMean ==
  ASSUME NEW t, t.specs = Parse!NoSpecs, NEW refs, NEW k, NEW type
  PROVE  Parse!MeanSpecs(t, refs, k) = Parse!DefaultSpecs /\ Parse!Fit(Parse!NoSpecs, type)
<1>1. Parse!Nothing.what = "nothing"
  BY DEF Parse!Nothing
<1>2. \A default, j : Parse!Amount(Parse!Nothing, default, refs, j) = default
  BY <1>1, AmountIs
<1>3. Parse!MeanSpecs(t, refs, k) = SpecsAre(Parse!NoSpecs, 0, -1, Parse!NoRef, Parse!NoRef)
  <2>1. PICK w, pr : w = 0 /\ pr = -1
    OBVIOUS
  <2>2. w = Parse!Amount(t.specs.width, 0, refs, k + 1)
    BY <1>2, <2>1, NoSpecsAre
  <2>3. pr = Parse!Amount(t.specs.precision, -1, refs, Parse!After(t, k))
    BY <1>2, <2>1, NoSpecsAre
  <2>4. Parse!MeanSpecs(t, refs, k) = SpecsAre(t.specs, w, pr, Parse!NoRef, Parse!NoRef)
    BY <2>2, <2>3, MeanSpecsAre
  <2> QED
    BY <2>1, <2>4
<1>4. SpecsAre(Parse!NoSpecs, 0, -1, Parse!NoRef, Parse!NoRef) = Parse!DefaultSpecs
  BY NoSpecsAre DEF SpecsAre, Record, Parse!DefaultSpecs
<1>5. Parse!Fit(Parse!NoSpecs, type)
  BY NoSpecsAre DEF Parse!Fit
<1> QED
  BY <1>3, <1>4, <1>5

(* A field that is a reference only.                                       *)
LEMMA FieldKeeps == ASSUME Parse!ParseAssumption, fmt \in FormatStrings, ReadInv, Parse!Field PROVE ReadInv'
<1>1. PICK r : r = Parse!FieldRef.ref
  OBVIOUS
<1>2. PICK e : e = Parse!FieldRef.end
  OBVIOUS
<1>3. /\ phase = "text" /\ Parse!At(p) = "{" /\ Parse!At(p + 1) # "end"
      /\ Parse!FieldRef.ok /\ Parse!CanRefer(r) /\ Parse!HasArg(Parse!ArgId(r)) /\ Parse!At(e) = "}" /\ next_arg_id' = Parse!NextId(r)
      /\ out' = Append(Parse!Text(p), [arg |-> Parse!ArgId(r), specs |-> Parse!DefaultSpecs])
      /\ p' = e + 1 /\ begin' = e + 1 /\ fmt' = fmt
  BY <1>1, <1>2 DEF Parse!Field, Parse!FieldIsRead
<1>4. PICK s : InText(s)
  BY <1>3, InTextAt
<1>5. Sentence(s) /\ Parse!Spell(s) = Word(1, p) /\ Parse!Mean(s) = Parse!Text(p) /\ s \in Seq(Parse!TokenForms)
  BY <1>4 DEF InText, Sentence
<1>6. FieldBegins(s, r, e)
  BY <1>1, <1>2, <1>3, <1>4, FieldBegan
<1>7. r \in Parse!RefForms /\ e \in (p + 1)..(Len(fmt) + 1) /\ Word(p, e) = <<"{">> \o Parse!SpellRef(r)
  BY <1>6 DEF FieldBegins
<1>8. PICK t : t = [kind |-> "field", ref |-> r, colon |-> FALSE, specs |-> Parse!NoSpecs]
  OBVIOUS
<1>9. t \in Parse!TokenForms /\ t.kind = "field" /\ t.ref = r /\ t.colon = FALSE /\ t.specs = Parse!NoSpecs
  BY <1>7, <1>8, NoSpecsAre DEF Parse!TokenForms
<1>10. PICK k : k = Len(Parse!RefsOf(s)) + 1
  OBVIOUS
<1>11. PICK refs : refs = Append(Parse!RefsOf(s), r)
  OBVIOUS
<1>12. refs \in Seq(Parse!RefForms) /\ Parse!RefsAgree(refs) /\ Counts(refs, Parse!NextId(r)) /\ Parse!Target(refs, k) = Parse!ArgId(r)
  BY <1>6, <1>10, <1>11 DEF FieldBegins
<1>13. refs = Parse!RefsOf(s) \o Parse!FieldRefs(t)
  <2>1. Parse!Nothing.what = "nothing"
    BY DEF Parse!Nothing
  <2>2. Parse!Opt(FALSE, <<Parse!Nothing.ref>>) = <<>>
    BY DEF Parse!Opt
  <2>3. Parse!FieldRefs(t) = <<r>> \o <<>> \o <<>>
    BY <1>9, <2>1, NoSpecsAre DEF Parse!FieldRefs, Parse!Opt
  <2>a. Parse!RefsOf(s) \in Seq(Parse!RefForms)
    BY <1>5, RefsOfGrows
  <2>4. <<r>> \in Seq(Parse!RefForms) /\ Parse!RefsOf(s) \in Seq(Parse!RefForms)
    BY <1>7, <2>a, OneRef
  <2>5. Parse!FieldRefs(t) = <<r>>
    BY <2>3, <2>4, ConcatEmptySeq
  <2> QED
    BY <1>7, <1>11, <2>4, <2>5, AppendIsConcat
<1>14. Parse!FieldOk(t, refs, k)
  <2>1. Parse!Nothing.what = "nothing"
    BY DEF Parse!Nothing
  <2>2. \A j : Parse!AmountOk(Parse!Nothing, refs, j)
    BY <2>1, AmountOkIs
  <2>3. Parse!Fit(t.specs, Parse!ArgOf(Parse!Target(refs, k)).type)
    BY <1>9, NoSpecsMean
  <2>4. Parse!HasArg(Parse!Target(refs, k))
    BY <1>3, <1>12
  <2> QED
    BY <1>9, <2>2, <2>3, <2>4, NoSpecsAre DEF Parse!FieldOk
<1>15. e \in 1..Len(fmt) /\ fmt[e] = "}" /\ Len(fmt) \in Nat /\ p \in 1..Len(fmt)
  <2>1. Len(fmt) \in Nat /\ p \in 1..Len(fmt)
    BY <1>3, InTextAt
  <2>2. e \in Int
    BY <1>7, <2>1, Further
  <2> QED
    BY <1>3, <2>1, <2>2, Chars
<1>16. Parse!Spell(s) \o Parse!SpellToken(t) = Word(1, e + 1)
  <2>1. Parse!SpellToken(t) = <<"{">> \o Parse!SpellRef(r) \o <<>> \o <<"}">>
    BY <1>9, SpellTokenIs DEF Parse!Opt
  <2>2. <<"{">> \in Texts /\ Parse!SpellRef(r) \in Texts /\ <<"}">> \in Texts /\ Word(p, e) \in Texts
    BY <1>7, ParsedOneText, SymbolsAre, RefText, TextsJoin
  <2>3. Parse!SpellToken(t) = Word(p, e) \o <<"}">>
    BY <1>7, <2>1, <2>2, EmptyText
  <2>4. Word(e, e + 1) = <<"}">>
    BY <1>15, OneChar
  <2>5. p \in 1..(Len(fmt) + 1) /\ e \in p..(Len(fmt) + 1) /\ e + 1 \in p..(Len(fmt) + 1) /\ e + 1 \in e..(Len(fmt) + 1) /\ 1 \in 1..(Len(fmt) + 1)
    BY <1>7, <1>15, Further
  <2>6. Word(p, e) \o Word(e, e + 1) = Word(p, e + 1)
    BY <2>5, WordsJoin
  <2>7. Word(1, p) \o Word(p, e + 1) = Word(1, e + 1)
    BY <2>5, WordsJoin
  <2> QED
    BY <1>5, <2>3, <2>4, <2>6, <2>7
<1>17. IsSequence(Parse!Mean(s))
  BY <1>3, <1>5, InTextAt
<1>18. out' = Append(Parse!Mean(s), [arg |-> Parse!Target(refs, k), specs |-> Parse!MeanSpecs(t, refs, k)])
  BY <1>3, <1>5, <1>9, <1>12, NoSpecsMean
<1> QED
  BY <1>3, <1>5, <1>9, <1>10, <1>12, <1>13, <1>14, <1>15, <1>16, <1>17, <1>18, FieldCloses

-----------------------------------------------------------------------------
(* Specifiers of which the pieces up to the n-th have been read: what is   *)
(* behind them is empty.                                                   *)
Stage(u, n) ==
  /\ u.type = <<>>
  /\ n < 7 => u.locale = FALSE
  /\ n < 6 => u.precision = Parse!Nothing
  /\ n < 5 => u.width = Parse!Nothing
  /\ n < 4 => u.zero = FALSE
  /\ n < 3 => u.hash = FALSE
  /\ n < 2 => u.sign = <<>>
  /\ n < 1 => u.align = <<>>

LEMMA StageGrows == ASSUME NEW u, NEW m \in Int, NEW n \in Int, m <= n, Stage(u, m) PROVE Stage(u, n)
BY DEF Stage

(* The pieces one after the other.                                         *)
S2(u) == u.align \o u.sign
S3(u) == S2(u) \o Parse!Opt(u.hash, <<"#">>)
S4(u) == S3(u) \o Parse!Opt(u.zero, <<"0">>)
S5(u) == S4(u) \o Parse!SpellAmount(u.width)
SpellPrecision(u) == Parse!Opt(u.precision # Parse!Nothing, <<".">>) \o Parse!SpellAmount(u.precision)
S6(u) == S5(u) \o SpellPrecision(u)
S7(u) == S6(u) \o Parse!Opt(u.locale, <<"L">>)

LEMMA PiecesAre ==
  ASSUME NEW u \in Parse!SpecForms
  PROVE  /\ u.align \in Texts /\ S2(u) \in Texts /\ S3(u) \in Texts /\ S4(u) \in Texts /\ S5(u) \in Texts
         /\ S6(u) \in Texts /\ S7(u) \in Texts /\ Parse!SpellSpecs(u) \in Texts /\ Parse!SpellSpecs(u) = S7(u) \o u.type
<1>1. /\ u.align \in Texts /\ u.sign \in Texts /\ u.type \in Texts
      /\ Parse!SpellAmount(u.width) \in Texts /\ Parse!SpellAmount(u.precision) \in Texts
  BY PartsOfSpecs
<1>2. Parse!Opt(u.hash, <<"#">>) \in Texts /\ Parse!Opt(u.zero, <<"0">>) \in Texts /\ Parse!Opt(u.locale, <<"L">>) \in Texts
      /\ Parse!Opt(u.precision # Parse!Nothing, <<".">>) \in Texts
  <2>1. <<"#">> \in Texts /\ <<"0">> \in Texts /\ <<"L">> \in Texts /\ <<".">> \in Texts
    BY ParsedOneText, SymbolsAre
  <2> QED
    BY <2>1, OptText
<1>3. S2(u) \in Texts
  BY <1>1, TextsJoin DEF S2
<1>4. S3(u) \in Texts
  BY <1>2, <1>3, TextsJoin DEF S3
<1>5. S4(u) \in Texts
  BY <1>2, <1>4, TextsJoin DEF S4
<1>6. S5(u) \in Texts
  BY <1>1, <1>5, TextsJoin DEF S5
<1>7. SpellPrecision(u) \in Texts
  BY <1>1, <1>2, TextsJoin DEF SpellPrecision
<1>8. S6(u) \in Texts
  BY <1>6, <1>7, TextsJoin DEF S6
<1>9. S7(u) \in Texts
  BY <1>2, <1>8, TextsJoin DEF S7
<1>10. S5(u) \o Parse!Opt(u.precision # Parse!Nothing, <<".">>) \o Parse!SpellAmount(u.precision) = S6(u)
  <2>1. PICK x \in Texts : x = S5(u)
    BY <1>6
  <2>2. PICK y \in Texts : y = Parse!Opt(u.precision # Parse!Nothing, <<".">>)
    BY <1>2
  <2>3. PICK z \in Texts : z = Parse!SpellAmount(u.precision)
    BY <1>1
  <2>4. (x \o y) \o z = x \o (y \o z)
    BY TextsGroup
  <2> QED
    BY <2>1, <2>2, <2>3, <2>4 DEF S6, SpellPrecision
<1>11. Parse!SpellSpecs(u) = S5(u) \o Parse!Opt(u.precision # Parse!Nothing, <<".">>) \o Parse!SpellAmount(u.precision)
                       \o Parse!Opt(u.locale, <<"L">>) \o u.type
  BY DEF Parse!SpellSpecs, S5, S4, S3, S2
<1>12. Parse!SpellSpecs(u) = S7(u) \o u.type
  BY <1>10, <1>11 DEF S7
<1> QED
  BY <1>1, <1>3, <1>4, <1>5, <1>6, <1>8, <1>9, <1>12, TextsJoin

LEMMA NoOpt == ASSUME NEW x PROVE Parse!Opt(FALSE, x) = <<>> /\ Parse!Opt(TRUE, x) = x
BY DEF Parse!Opt

(* At a stage the specifiers are the pieces up to it.                      *)
LEMMA SpelledSoFar ==
  ASSUME NEW u \in Parse!SpecForms
  PROVE  /\ Stage(u, 7) => Parse!SpellSpecs(u) = S7(u)
         /\ Stage(u, 6) => Parse!SpellSpecs(u) = S6(u)
         /\ Stage(u, 5) => Parse!SpellSpecs(u) = S5(u)
         /\ Stage(u, 4) => Parse!SpellSpecs(u) = S4(u)
         /\ Stage(u, 3) => Parse!SpellSpecs(u) = S3(u)
         /\ Stage(u, 2) => Parse!SpellSpecs(u) = S2(u)
         /\ Stage(u, 1) => Parse!SpellSpecs(u) = u.align
         /\ Stage(u, 0) => Parse!SpellSpecs(u) = <<>>
<1>0. Parse!Nothing.what = "nothing"
  BY DEF Parse!Nothing
<1>1. Stage(u, 7) => Parse!SpellSpecs(u) = S7(u)
  BY PiecesAre, EmptyText DEF Stage
<1>2. Stage(u, 6) => Parse!SpellSpecs(u) = S6(u)
  <2> HAVE Stage(u, 6)
  <2>1. Stage(u, 7) /\ u.locale = FALSE
    BY DEF Stage
  <2>2. S7(u) = S6(u)
    BY <2>1, NoOpt, PiecesAre, EmptyText DEF S7
  <2> QED
    BY <1>1, <2>1, <2>2
<1>3. Stage(u, 5) => Parse!SpellSpecs(u) = S5(u)
  <2> HAVE Stage(u, 5)
  <2>1. Stage(u, 6) /\ u.precision = Parse!Nothing
    BY DEF Stage
  <2>2. Parse!SpellAmount(u.precision) = <<>>
    BY <1>0, <2>1, SpellAmountIs
  <2>3. Parse!Opt(u.precision # Parse!Nothing, <<".">>) = <<>>
    BY <2>1 DEF Parse!Opt
  <2>4. SpellPrecision(u) = <<>>
    BY <2>2, <2>3, EmptyText DEF SpellPrecision
  <2>5. S6(u) = S5(u)
    BY <2>4, PiecesAre, EmptyText DEF S6
  <2> QED
    BY <1>2, <2>1, <2>5
<1>4. Stage(u, 4) => Parse!SpellSpecs(u) = S4(u)
  <2> HAVE Stage(u, 4)
  <2>1. Stage(u, 5) /\ u.width = Parse!Nothing
    BY DEF Stage
  <2>2. Parse!SpellAmount(u.width) = <<>>
    BY <1>0, <2>1, SpellAmountIs
  <2>3. S5(u) = S4(u)
    BY <2>2, PiecesAre, EmptyText DEF S5
  <2> QED
    BY <1>3, <2>1, <2>3
<1>5. Stage(u, 3) => Parse!SpellSpecs(u) = S3(u)
  <2> HAVE Stage(u, 3)
  <2>1. Stage(u, 4) /\ u.zero = FALSE
    BY DEF Stage
  <2>2. S4(u) = S3(u)
    BY <2>1, NoOpt, PiecesAre, EmptyText DEF S4
  <2> QED
    BY <1>4, <2>1, <2>2
<1>6. Stage(u, 2) => Parse!SpellSpecs(u) = S2(u)
  <2> HAVE Stage(u, 2)
  <2>1. Stage(u, 3) /\ u.hash = FALSE
    BY DEF Stage
  <2>2. S3(u) = S2(u)
    BY <2>1, NoOpt, PiecesAre, EmptyText DEF S3
  <2> QED
    BY <1>5, <2>1, <2>2
<1>7. Stage(u, 1) => Parse!SpellSpecs(u) = u.align
  <2> HAVE Stage(u, 1)
  <2>1. Stage(u, 2) /\ u.sign = <<>>
    BY DEF Stage
  <2>2. S2(u) = u.align
    BY <2>1, PiecesAre, EmptyText DEF S2
  <2> QED
    BY <1>6, <2>1, <2>2
<1>8. Stage(u, 0) => Parse!SpellSpecs(u) = <<>>
  <2> HAVE Stage(u, 0)
  <2>1. Stage(u, 1) /\ u.align = <<>>
    BY DEF Stage
  <2> QED
    BY <1>7, <2>1
<1> QED
  BY <1>1, <1>2, <1>3, <1>4, <1>5, <1>6, <1>7, <1>8

-----------------------------------------------------------------------------
(* A field of which the specifiers are being read.                         *)
FieldOf(r, u) == [kind |-> "field", ref |-> r, colon |-> TRUE, specs |-> u]
Begun(r, u) == (<<"{">> \o Parse!SpellRef(r) \o <<":">>) \o Parse!SpellSpecs(u)

WidthOf(u) == IF u.width.what = "number" THEN Parse!Value(u.width.digits) ELSE 0
PrecisionOf(u) == IF u.precision.what = "number" THEN Parse!Value(u.precision.digits) ELSE -1
WidthRefOf(u, refs, k) == IF u.width.what = "ref" THEN [kind |-> "index", index |-> Parse!Target(refs, k + 1)] ELSE Parse!NoRef
PrecisionRefOf(u, refs, k) ==
  IF u.precision.what = "ref" THEN [kind |-> "index", index |-> Parse!Target(refs, k + 1 + OneIf(u.width.what = "ref"))]
  ELSE Parse!NoRef
SpecsRead(u, refs, k) ==
  SpecsAre(u, WidthOf(u), PrecisionOf(u), WidthRefOf(u, refs, k), PrecisionRefOf(u, refs, k))

NumbersFit(u) == /\ u.width.what = "number" => Parse!Value(u.width.digits) <= Parse!IntMax
                 /\ u.precision.what = "number" => Parse!Value(u.precision.digits) <= Parse!IntMax

(* The sentence so far, the field, and the references of both.             *)
Open(s, r, u, refs, k) ==
  /\ Sentence(s) /\ r \in Parse!RefForms /\ u \in Parse!SpecForms
  /\ refs = Parse!RefsOf(s) \o Parse!FieldRefs(FieldOf(r, u)) /\ k = Len(Parse!RefsOf(s)) + 1
  /\ Parse!RefsAgree(refs) /\ Parse!HasArg(Parse!Target(refs, k)) /\ Parse!Fit(u, Parse!ArgOf(Parse!Target(refs, k)).type) /\ NumbersFit(u)

(* What of the format string has been read.                                *)
ReadTo(s, r, u, e) == Parse!Spell(s) \o Begun(r, u) = Word(1, e)
Adds(v, u, e) == Parse!SpellSpecs(v) = Parse!SpellSpecs(u) \o Word(p, e)

InField(s, r, u, refs, k) ==
  /\ Open(s, r, u, refs, k) /\ Stage(u, state) /\ Counts(refs, next_arg_id)
  /\ Parse!Mean(s) = out /\ arg = Parse!Target(refs, k) /\ specs = SpecsRead(u, refs, k)
  /\ ReadTo(s, r, u, p)

(* A width or a precision that no argument has is not found out before the *)
(* end of the field.                                                       *)
Lost(sp, n) ==
  /\ {"width_ref", "precision_ref"} \subseteq DOMAIN sp
  /\ \/ n >= 5 /\ sp.width_ref # Parse!NoRef /\ ~Parse!HasArg(sp.width_ref.index)
     \/ n >= 6 /\ sp.precision_ref # Parse!NoRef /\ ~Parse!HasArg(sp.precision_ref.index)

SpecsInv ==
  phase = "specs" =>
    /\ p \in 1..(Len(fmt) + 1) /\ state \in 0..7 /\ IsSequence(out)
    /\ Lost(specs, state) \/ \E s, r, u, refs, k : InField(s, r, u, refs, k)

LEMMA FieldOfIs ==
  ASSUME NEW r \in Parse!RefForms, NEW u \in Parse!SpecForms
  PROVE  /\ FieldOf(r, u).kind = "field" /\ FieldOf(r, u).ref = r /\ FieldOf(r, u).colon = TRUE
         /\ FieldOf(r, u).specs = u /\ FieldOf(r, u) \in Parse!TokenForms
BY DEF FieldOf, Parse!TokenForms

LEMMA BegunIs ==
  ASSUME NEW r \in Parse!RefForms, NEW u \in Parse!SpecForms
  PROVE  /\ <<"{">> \o Parse!SpellRef(r) \o <<":">> \in Texts /\ Parse!SpellSpecs(u) \in Texts /\ Begun(r, u) \in Texts
         /\ Parse!SpellToken(FieldOf(r, u)) = Begun(r, u) \o <<"}">>
<1>1. <<"{">> \in Texts /\ <<":">> \in Texts /\ <<"}">> \in Texts
  BY ParsedOneText, SymbolsAre
<1>2. Parse!SpellRef(r) \in Texts
  BY RefText
<1>3. Parse!SpellSpecs(u) \in Texts
  BY SpecsText
<1>4. <<"{">> \o Parse!SpellRef(r) \in Texts
  BY <1>1, <1>2, TextsJoin
<1>5. PICK x \in Texts : x = <<"{">> \o Parse!SpellRef(r)
  BY <1>4
<1>6. x \o <<":">> \in Texts
  BY <1>1, <1>5, TextsJoin
<1>7. (x \o <<":">>) \o Parse!SpellSpecs(u) = x \o (<<":">> \o Parse!SpellSpecs(u))
  BY <1>1, <1>3, <1>5, TextsGroup
<1>8. Parse!SpellToken(FieldOf(r, u)) = x \o (<<":">> \o Parse!SpellSpecs(u)) \o <<"}">>
  <2>1. PICK t : t = FieldOf(r, u)
    OBVIOUS
  <2>2. t.kind = "field" /\ t.ref = r /\ t.colon = TRUE /\ t.specs = u
    BY <2>1, FieldOfIs, ZenonT(60)
  <2>3. Parse!SpellToken(t) = <<"{">> \o Parse!SpellRef(r) \o Parse!Opt(TRUE, <<":">> \o Parse!SpellSpecs(u)) \o <<"}">>
    BY <2>2, SpellTokenIs
  <2> QED
    BY <1>5, <2>1, <2>3, NoOpt
<1>9. Begun(r, u) = (x \o <<":">>) \o Parse!SpellSpecs(u)
  BY <1>5 DEF Begun
<1>10. Begun(r, u) \in Texts
  BY <1>3, <1>6, <1>9, TextsJoin
<1> QED
  BY <1>3, <1>5, <1>6, <1>7, <1>8, <1>9, <1>10

(* The next piece is behind what is read.                                  *)
LEMMA BegunGrows ==
  ASSUME NEW r \in Parse!RefForms, NEW u \in Parse!SpecForms, NEW v \in Parse!SpecForms, NEW z \in Texts, Parse!SpellSpecs(v) = Parse!SpellSpecs(u) \o z
  PROVE  Begun(r, v) = Begun(r, u) \o z
<1>1. PICK x \in Texts : x = <<"{">> \o Parse!SpellRef(r) \o <<":">>
  BY BegunIs
<1>2. PICK y \in Texts : y = Parse!SpellSpecs(u)
  BY BegunIs
<1>3. Begun(r, v) = x \o (y \o z) /\ Begun(r, u) = x \o y
  BY <1>1, <1>2 DEF Begun
<1>4. (x \o y) \o z = x \o (y \o z)
  BY TextsGroup
<1> QED
  BY <1>3, <1>4

LEMMA ReadsOn ==
  ASSUME Parse!ParseAssumption, fmt \in FormatStrings, NEW b \in 1..(Len(fmt) + 1), NEW e \in b..(Len(fmt) + 1),
         NEW w \in Texts, NEW y \in Texts, w \o y = Word(1, b)
  PROVE  w \o (y \o Word(b, e)) = Word(1, e) /\ Word(b, e) \in Texts
<1>1. PICK z \in Texts : z = Word(b, e)
  BY WordText
<1>2. (w \o y) \o z = w \o (y \o z)
  BY TextsGroup
<1>3. 1 \in 1..(Len(fmt) + 1)
  <2>1. Len(fmt) \in Nat
    BY Chars
  <2> QED
    BY <2>1
<1>4. Word(1, b) \o Word(b, e) = Word(1, e)
  <2>1. b \in 1..(Len(fmt) + 1) /\ e \in b..(Len(fmt) + 1)
    OBVIOUS
  <2> QED
    BY <1>3, <2>1, WordsJoin
<1> QED
  BY <1>1, <1>2, <1>4

LEMMA SpecsGoOn ==
  ASSUME NEW s, NEW r, NEW u, NEW refs, NEW k, Open(s, r, u, refs, k),
         NEW e, NEW n, NEW id, NEW a, NEW o, Stage(u, n), Counts(refs, id), Parse!Mean(s) = o, a = Parse!Target(refs, k),
         ReadTo(s, r, u, e), e \in 1..(Len(fmt) + 1), n \in 0..7, IsSequence(o),
         fmt' = fmt, p' = e, state' = n, next_arg_id' = id, arg' = a, out' = o, specs' = SpecsRead(u, refs, k)
  PROVE  SpecsInv'
<1>1. Open(s, r, u, refs, k)' /\ Stage(u, state)' /\ Counts(refs, next_arg_id)'
  OBVIOUS
<1>2. (Parse!Mean(s) = out)' /\ (arg = Parse!Target(refs, k))' /\ (specs = SpecsRead(u, refs, k))'
  OBVIOUS
<1>3. Word(1, p)' = Word(1, e)
  BY DEF Word
<1>4. ReadTo(s, r, u, p)'
  BY <1>3 DEF ReadTo
<1>5. InField(s, r, u, refs, k)'
  BY <1>1, <1>2, <1>4 DEF InField
<1>6. (p \in 1..(Len(fmt) + 1) /\ state \in 0..7)'
  OBVIOUS
<1>7. IsSequence(out)'
  OBVIOUS
<1> QED
  BY <1>5, <1>6, <1>7 DEF SpecsInv

LEMMA SpecsStayLost ==
  ASSUME p' \in 1..(Len(fmt) + 1), state' \in 0..7, IsSequence(out), fmt' = fmt, out' = out,
         NEW sp, NEW n, Lost(sp, n), specs' = sp, state' = n
  PROVE  SpecsInv'
<1>1. Lost(specs, state)'
  BY DEF Lost
<1>2. IsSequence(out)'
  OBVIOUS
<1> QED
  BY <1>1, <1>2 DEF SpecsInv

(* Where the specifiers are.                                               *)
LEMMA InSpecsAt ==
  ASSUME Parse!ParseAssumption, fmt \in FormatStrings, SpecsInv, phase = "specs"
  PROVE  /\ Len(fmt) \in Nat /\ p \in 1..(Len(fmt) + 1) /\ p + 1 \in Int /\ state \in 0..7 /\ IsSequence(out)
         /\ Lost(specs, state) \/ \E s, r, u, refs, k : InField(s, r, u, refs, k)
         /\ Parse!At(p) # "end" => p \in 1..Len(fmt) /\ Parse!At(p) = fmt[p] /\ Word(p, p + 1) = <<Parse!At(p)>> /\ Parse!At(p) # "fill"
                             /\ p + 1 \in 1..(Len(fmt) + 1) /\ p + 1 \in p..(Len(fmt) + 1)
         /\ Parse!At(p + 1) # "end" => p \in 1..Len(fmt) /\ p + 1 \in 1..Len(fmt) /\ Parse!At(p + 1) = fmt[p + 1]
                             /\ Word(p, p + 2) = <<Parse!At(p), Parse!At(p + 1)>> /\ Parse!At(p) \in Parse!Characters
                             /\ p + 2 \in 1..(Len(fmt) + 1) /\ p + 2 \in p..(Len(fmt) + 1)
<1>1. Len(fmt) \in Nat
  BY Chars
<1>2. /\ p \in 1..(Len(fmt) + 1) /\ state \in 0..7 /\ IsSequence(out)
      /\ Lost(specs, state) \/ \E s, r, u, refs, k : InField(s, r, u, refs, k)
  BY DEF SpecsInv
<1>3. p \in Int /\ p + 1 \in Int /\ p \in Nat /\ p >= 1
  <2>1. p \in 1..(Len(fmt) + 1)
    BY <1>2
  <2> QED
    BY <1>1, <2>1
<1>4. Parse!At(p) # "end" => p \in 1..Len(fmt) /\ Parse!At(p) = fmt[p] /\ Word(p, p + 1) = <<Parse!At(p)>> /\ Parse!At(p) # "fill"
                       /\ p + 1 \in 1..(Len(fmt) + 1) /\ p + 1 \in p..(Len(fmt) + 1)
  <2> HAVE Parse!At(p) # "end"
  <2>1. p \in 1..Len(fmt)
    BY <1>3, Chars
  <2>2. Parse!At(p) = fmt[p] /\ Parse!At(p) # "fill"
    BY <2>1, Chars
  <2>3. Word(p, p + 1) = <<fmt[p]>>
    BY <2>1, OneChar
  <2>4. p + 1 \in 1..(Len(fmt) + 1) /\ p + 1 \in p..(Len(fmt) + 1)
    BY <1>1, <2>1, OneUp
  <2> QED
    BY <2>1, <2>2, <2>3, <2>4
<1>5. Parse!At(p + 1) # "end" => p \in 1..Len(fmt) /\ p + 1 \in 1..Len(fmt) /\ Parse!At(p + 1) = fmt[p + 1]
                           /\ Word(p, p + 2) = <<Parse!At(p), Parse!At(p + 1)>> /\ Parse!At(p) \in Parse!Characters
                           /\ p + 2 \in 1..(Len(fmt) + 1) /\ p + 2 \in p..(Len(fmt) + 1)
  <2> HAVE Parse!At(p + 1) # "end"
  <2>1. p + 1 \in 1..Len(fmt)
    BY <1>3, Chars
  <2>2. p \in 1..Len(fmt)
    BY <1>1, <1>3, <2>1
  <2>3. Parse!At(p) = fmt[p] /\ Parse!At(p + 1) = fmt[p + 1] /\ Parse!At(p) \in Parse!Characters
    BY <2>1, <2>2, Chars
  <2>4. Word(p, p + 2) = <<fmt[p], fmt[p + 1]>>
    BY <2>1, <2>2, TwoChars
  <2>5. p + 2 \in 1..(Len(fmt) + 1) /\ p + 2 \in p..(Len(fmt) + 1)
    BY <1>1, <2>1, <2>2, TwoMore
  <2> QED
    BY <2>1, <2>2, <2>3, <2>4, <2>5
<1> QED
  BY <1>1, <1>2, <1>3, <1>4, <1>5

(* The references of a field are those of its width and precision.         *)
LEMMA SameRefs ==
  ASSUME NEW r \in Parse!RefForms, NEW u \in Parse!SpecForms, NEW v \in Parse!SpecForms, v.width = u.width, v.precision = u.precision
  PROVE  Parse!FieldRefs(FieldOf(r, v)) = Parse!FieldRefs(FieldOf(r, u))
<1>1. FieldOf(r, u).ref = r /\ FieldOf(r, v).ref = r /\ FieldOf(r, u).specs = u /\ FieldOf(r, v).specs = v
  BY FieldOfIs, ZenonT(60)
<1> QED
  BY <1>1 DEF Parse!FieldRefs

(* A piece other than a width or a precision.                              *)
LEMMA PieceOpens ==
  ASSUME NEW s, NEW r, NEW u, NEW refs, NEW k, Open(s, r, u, refs, k), NEW v \in Parse!SpecForms,
         v.width = u.width, v.precision = u.precision, Parse!Fit(v, Parse!ArgOf(Parse!Target(refs, k)).type)
  PROVE  /\ Open(s, r, v, refs, k)
         /\ WidthOf(v) = WidthOf(u) /\ PrecisionOf(v) = PrecisionOf(u)
         /\ WidthRefOf(v, refs, k) = WidthRefOf(u, refs, k) /\ PrecisionRefOf(v, refs, k) = PrecisionRefOf(u, refs, k)
<1>1. r \in Parse!RefForms /\ u \in Parse!SpecForms /\ refs = Parse!RefsOf(s) \o Parse!FieldRefs(FieldOf(r, u)) /\ NumbersFit(u)
  BY DEF Open
<1>2. refs = Parse!RefsOf(s) \o Parse!FieldRefs(FieldOf(r, v))
  BY <1>1, SameRefs
<1>3. NumbersFit(v)
  BY <1>1 DEF NumbersFit
<1>4. Open(s, r, v, refs, k)
  BY <1>2, <1>3 DEF Open
<1>5. WidthOf(v) = WidthOf(u) /\ PrecisionOf(v) = PrecisionOf(u)
  BY DEF WidthOf, PrecisionOf
<1>6. WidthRefOf(v, refs, k) = WidthRefOf(u, refs, k) /\ PrecisionRefOf(v, refs, k) = PrecisionRefOf(u, refs, k)
  BY DEF WidthRefOf, PrecisionRefOf
<1> QED
  BY <1>4, <1>5, <1>6

LEMMA PieceIsBehind ==
  ASSUME Parse!ParseAssumption, fmt \in FormatStrings, p \in 1..(Len(fmt) + 1),
         NEW s \in Seq(Parse!TokenForms), NEW r \in Parse!RefForms, NEW u \in Parse!SpecForms, NEW v \in Parse!SpecForms,
         ReadTo(s, r, u, p), NEW e \in p..(Len(fmt) + 1), Adds(v, u, e)
  PROVE  ReadTo(s, r, v, e) /\ e \in 1..(Len(fmt) + 1)
<1>1. PICK w \in Texts : w = Parse!Spell(s)
  BY SpellGrows
<1>2. PICK y \in Texts : y = Begun(r, u)
  BY BegunIs
<1>3. w \o y = Word(1, p)
  BY <1>1, <1>2 DEF ReadTo
<1>4. w \o (y \o Word(p, e)) = Word(1, e) /\ Word(p, e) \in Texts
  BY <1>3, ReadsOn, ZenonT(60)
<1>5. Begun(r, v) = y \o Word(p, e)
  BY <1>2, <1>4, BegunGrows, ZenonT(60) DEF Adds
<1>6. Len(fmt) \in Nat
  BY Chars
<1>7. e \in 1..(Len(fmt) + 1)
  BY <1>6
<1> QED
  BY <1>1, <1>4, <1>5, <1>7 DEF ReadTo

LEMMA PieceTaken ==
  ASSUME Parse!ParseAssumption, fmt \in FormatStrings, SpecsInv, phase = "specs",
         NEW s, NEW r, NEW u, NEW refs, NEW k, InField(s, r, u, refs, k),
         NEW v \in Parse!SpecForms, v.width = u.width, v.precision = u.precision, Parse!Fit(v, Parse!ArgOf(arg).type),
         NEW n \in 0..7, Stage(v, n), NEW e \in p..(Len(fmt) + 1), Adds(v, u, e),
         specs' = SpecsAre(v, WidthOf(u), PrecisionOf(u), WidthRefOf(u, refs, k), PrecisionRefOf(u, refs, k)),
         state' = n, p' = e, fmt' = fmt, next_arg_id' = next_arg_id, arg' = arg, out' = out
  PROVE  SpecsInv'
<1>1. /\ Open(s, r, u, refs, k) /\ Counts(refs, next_arg_id) /\ Parse!Mean(s) = out /\ arg = Parse!Target(refs, k)
      /\ ReadTo(s, r, u, p)
  BY DEF InField
<1>2. s \in Seq(Parse!TokenForms) /\ r \in Parse!RefForms /\ u \in Parse!SpecForms
  BY <1>1 DEF Open, Sentence
<1>3. p \in 1..(Len(fmt) + 1) /\ Len(fmt) \in Nat /\ IsSequence(out)
  BY InSpecsAt
<1>4. Open(s, r, v, refs, k) /\ specs' = SpecsRead(v, refs, k)
  BY <1>1, PieceOpens DEF SpecsRead
<1>5. ReadTo(s, r, v, e) /\ e \in 1..(Len(fmt) + 1)
  BY <1>1, <1>2, <1>3, PieceIsBehind
<1> QED
  BY <1>1, <1>3, <1>4, <1>5, SpecsGoOn

(* One piece of the specifiers is replaced.                                *)
ParsedPieces(v, align, sign, hash, zero, width, precision, locale, type) ==
  /\ v.align = align /\ v.sign = sign /\ v.hash = hash /\ v.zero = zero
  /\ v.width = width /\ v.precision = precision /\ v.locale = locale /\ v.type = type

LEMMA WithAlign ==
  ASSUME NEW u \in Parse!SpecForms, NEW x \in Parse!Optional(DOMAIN Parse!AlignOf) \cup (Parse!Literals \X DOMAIN Parse!AlignOf)
  PROVE  \E v \in Parse!SpecForms : ParsedPieces(v, x, u.sign, u.hash, u.zero, u.width, u.precision, u.locale, u.type)
<1>1. [u EXCEPT !.align = x] \in Parse!SpecForms
  BY DEF Parse!SpecForms
<1>2. ParsedPieces([u EXCEPT !.align = x], x, u.sign, u.hash, u.zero, u.width, u.precision, u.locale, u.type)
  BY DEF Parse!SpecForms, ParsedPieces
<1> QED
  BY <1>1, <1>2

LEMMA WithSign ==
  ASSUME NEW u \in Parse!SpecForms, NEW x \in Parse!Optional(DOMAIN Parse!SignOf)
  PROVE  \E v \in Parse!SpecForms : ParsedPieces(v, u.align, x, u.hash, u.zero, u.width, u.precision, u.locale, u.type)
<1>1. [u EXCEPT !.sign = x] \in Parse!SpecForms
  BY DEF Parse!SpecForms
<1>2. ParsedPieces([u EXCEPT !.sign = x], u.align, x, u.hash, u.zero, u.width, u.precision, u.locale, u.type)
  BY DEF Parse!SpecForms, ParsedPieces
<1> QED
  BY <1>1, <1>2

LEMMA WithHash ==
  ASSUME NEW u \in Parse!SpecForms
  PROVE  \E v \in Parse!SpecForms : ParsedPieces(v, u.align, u.sign, TRUE, u.zero, u.width, u.precision, u.locale, u.type)
<1>1. [u EXCEPT !.hash = TRUE] \in Parse!SpecForms
  BY DEF Parse!SpecForms
<1>2. ParsedPieces([u EXCEPT !.hash = TRUE], u.align, u.sign, TRUE, u.zero, u.width, u.precision, u.locale, u.type)
  BY DEF Parse!SpecForms, ParsedPieces
<1> QED
  BY <1>1, <1>2

LEMMA WithZero ==
  ASSUME NEW u \in Parse!SpecForms
  PROVE  \E v \in Parse!SpecForms : ParsedPieces(v, u.align, u.sign, u.hash, TRUE, u.width, u.precision, u.locale, u.type)
<1>1. [u EXCEPT !.zero = TRUE] \in Parse!SpecForms
  BY DEF Parse!SpecForms
<1>2. ParsedPieces([u EXCEPT !.zero = TRUE], u.align, u.sign, u.hash, TRUE, u.width, u.precision, u.locale, u.type)
  BY DEF Parse!SpecForms, ParsedPieces
<1> QED
  BY <1>1, <1>2

LEMMA WithLocale ==
  ASSUME NEW u \in Parse!SpecForms
  PROVE  \E v \in Parse!SpecForms : ParsedPieces(v, u.align, u.sign, u.hash, u.zero, u.width, u.precision, TRUE, u.type)
<1>1. [u EXCEPT !.locale = TRUE] \in Parse!SpecForms
  BY DEF Parse!SpecForms
<1>2. ParsedPieces([u EXCEPT !.locale = TRUE], u.align, u.sign, u.hash, u.zero, u.width, u.precision, TRUE, u.type)
  BY DEF Parse!SpecForms, ParsedPieces
<1> QED
  BY <1>1, <1>2

LEMMA WithType ==
  ASSUME NEW u \in Parse!SpecForms, NEW x \in Parse!Optional(DOMAIN Parse!Presentation)
  PROVE  \E v \in Parse!SpecForms : ParsedPieces(v, u.align, u.sign, u.hash, u.zero, u.width, u.precision, u.locale, x)
<1>1. [u EXCEPT !.type = x] \in Parse!SpecForms
  BY DEF Parse!SpecForms
<1>2. ParsedPieces([u EXCEPT !.type = x], u.align, u.sign, u.hash, u.zero, u.width, u.precision, u.locale, x)
  BY DEF Parse!SpecForms, ParsedPieces
<1> QED
  BY <1>1, <1>2

LEMMA WithWidth ==
  ASSUME NEW u \in Parse!SpecForms, NEW x \in Parse!AmountForms, x.what = "number" => x.digits[1] # "0"
  PROVE  \E v \in Parse!SpecForms : ParsedPieces(v, u.align, u.sign, u.hash, u.zero, x, u.precision, u.locale, u.type)
<1>1. [u EXCEPT !.width = x] \in Parse!SpecForms
  BY DEF Parse!SpecForms
<1>2. ParsedPieces([u EXCEPT !.width = x], u.align, u.sign, u.hash, u.zero, x, u.precision, u.locale, u.type)
  BY DEF Parse!SpecForms, ParsedPieces
<1> QED
  BY <1>1, <1>2

LEMMA WithPrecision ==
  ASSUME NEW u \in Parse!SpecForms, NEW x \in Parse!AmountForms
  PROVE  \E v \in Parse!SpecForms : ParsedPieces(v, u.align, u.sign, u.hash, u.zero, u.width, x, u.locale, u.type)
<1>1. [u EXCEPT !.precision = x] \in Parse!SpecForms
  BY DEF Parse!SpecForms
<1>2. ParsedPieces([u EXCEPT !.precision = x], u.align, u.sign, u.hash, u.zero, u.width, x, u.locale, u.type)
  BY DEF Parse!SpecForms, ParsedPieces
<1> QED
  BY <1>1, <1>2

(* Once lost, lost.                                                        *)
SameRefsOf(new, sp) == DOMAIN new = DOMAIN sp /\ new.width_ref = sp.width_ref /\ new.precision_ref = sp.precision_ref

LEMMA TookLost ==
  ASSUME Parse!ParseAssumption, fmt \in FormatStrings, SpecsInv, phase = "specs", Lost(specs, state),
         NEW n \in 0..7, state < n, NEW d, p + d \in 1..(Len(fmt) + 1), NEW new, Parse!Took(n, d, new),
         SameRefsOf(new, specs)
  PROVE  SpecsInv'
<1>1. state \in 0..7 /\ IsSequence(out)
  BY InSpecsAt
<1>2. Lost(new, n)
  BY <1>1 DEF Lost, SameRefsOf
<1>3. state' = n /\ p' = p + d /\ specs' = new /\ fmt' = fmt /\ out' = out
  BY DEF Parse!Took
<1>4. p' \in 1..(Len(fmt) + 1) /\ state' \in 0..7
  BY <1>3
<1> QED
  BY <1>1, <1>2, <1>3, <1>4, SpecsStayLost

(* One field of a record of specifiers is replaced, or two.                *)
PutAlign(sp, x) == [sp EXCEPT !.align = x]
PutSign(sp, x) == [sp EXCEPT !.sign = x]
PutAlt(sp, x) == [sp EXCEPT !.alt = x]
PutLocalized(sp, x) == [sp EXCEPT !.localized = x]
PutWidth(sp, x) == [sp EXCEPT !.width = x]
PutPrecision(sp, x) == [sp EXCEPT !.precision = x]
PutWidthRef(sp, x) == [sp EXCEPT !.width_ref = x]
PutPrecisionRef(sp, x) == [sp EXCEPT !.precision_ref = x]
PutFillAlign(sp, x, y) == [sp EXCEPT !.fill = x, !.align = y]
PutAlignFill(sp, x, y) == [sp EXCEPT !.align = x, !.fill = y]
PutType(sp, x, y) == [sp EXCEPT !.type = x, !.upper = y]
PutFill(sp, x) == [sp EXCEPT !.fill = x]
PutName(sp, x) == [sp EXCEPT !.type = x]
PutUpper(sp, x) == [sp EXCEPT !.upper = x]

LEMMA PutAlignIs ==
  ASSUME NEW a, NEW b, NEW c, NEW d, NEW e, NEW f, NEW g, NEW h, NEW i, NEW j, NEW k, NEW x
  PROVE  PutAlign(Record(a, b, c, d, e, f, g, h, i, j, k), x) = Record(a, x, c, d, e, f, g, h, i, j, k)
BY DEF PutAlign, Record

LEMMA PutSignIs ==
  ASSUME NEW a, NEW b, NEW c, NEW d, NEW e, NEW f, NEW g, NEW h, NEW i, NEW j, NEW k, NEW x
  PROVE  PutSign(Record(a, b, c, d, e, f, g, h, i, j, k), x) = Record(a, b, x, d, e, f, g, h, i, j, k)
BY DEF PutSign, Record

LEMMA PutAltIs ==
  ASSUME NEW a, NEW b, NEW c, NEW d, NEW e, NEW f, NEW g, NEW h, NEW i, NEW j, NEW k, NEW x
  PROVE  PutAlt(Record(a, b, c, d, e, f, g, h, i, j, k), x) = Record(a, b, c, d, x, f, g, h, i, j, k)
BY DEF PutAlt, Record

LEMMA PutLocalizedIs ==
  ASSUME NEW a, NEW b, NEW c, NEW d, NEW e, NEW f, NEW g, NEW h, NEW i, NEW j, NEW k, NEW x
  PROVE  PutLocalized(Record(a, b, c, d, e, f, g, h, i, j, k), x) = Record(a, b, c, d, e, x, g, h, i, j, k)
BY DEF PutLocalized, Record

LEMMA PutWidthIs ==
  ASSUME NEW a, NEW b, NEW c, NEW d, NEW e, NEW f, NEW g, NEW h, NEW i, NEW j, NEW k, NEW x
  PROVE  PutWidth(Record(a, b, c, d, e, f, g, h, i, j, k), x) = Record(a, b, c, d, e, f, g, x, i, j, k)
BY DEF PutWidth, Record

LEMMA PutPrecisionIs ==
  ASSUME NEW a, NEW b, NEW c, NEW d, NEW e, NEW f, NEW g, NEW h, NEW i, NEW j, NEW k, NEW x
  PROVE  PutPrecision(Record(a, b, c, d, e, f, g, h, i, j, k), x) = Record(a, b, c, d, e, f, g, h, x, j, k)
BY DEF PutPrecision, Record

LEMMA PutWidthRefIs ==
  ASSUME NEW a, NEW b, NEW c, NEW d, NEW e, NEW f, NEW g, NEW h, NEW i, NEW j, NEW k, NEW x
  PROVE  PutWidthRef(Record(a, b, c, d, e, f, g, h, i, j, k), x) = Record(a, b, c, d, e, f, g, h, i, x, k)
BY DEF PutWidthRef, Record

LEMMA PutPrecisionRefIs ==
  ASSUME NEW a, NEW b, NEW c, NEW d, NEW e, NEW f, NEW g, NEW h, NEW i, NEW j, NEW k, NEW x
  PROVE  PutPrecisionRef(Record(a, b, c, d, e, f, g, h, i, j, k), x) = Record(a, b, c, d, e, f, g, h, i, j, x)
BY DEF PutPrecisionRef, Record

LEMMA PutFillIs ==
  ASSUME NEW a, NEW b, NEW c, NEW d, NEW e, NEW f, NEW g, NEW h, NEW i, NEW j, NEW k, NEW x
  PROVE  PutFill(Record(a, b, c, d, e, f, g, h, i, j, k), x) = Record(a, b, c, d, e, f, x, h, i, j, k)
BY DEF PutFill, Record

LEMMA PutFillAlignIs ==
  ASSUME NEW a, NEW b, NEW c, NEW d, NEW e, NEW f, NEW g, NEW h, NEW i, NEW j, NEW k, NEW x, NEW y
  PROVE  PutFillAlign(Record(a, b, c, d, e, f, g, h, i, j, k), x, y) = Record(a, y, c, d, e, f, x, h, i, j, k)
<1>1. \A sp : PutFillAlign(sp, x, y) = PutAlign(PutFill(sp, x), y)
  BY DEF PutFillAlign, PutFill, PutAlign
<1> QED
  BY <1>1, PutFillIs, PutAlignIs

LEMMA PutAlignFillIs ==
  ASSUME NEW a, NEW b, NEW c, NEW d, NEW e, NEW f, NEW g, NEW h, NEW i, NEW j, NEW k, NEW x, NEW y
  PROVE  PutAlignFill(Record(a, b, c, d, e, f, g, h, i, j, k), x, y) = Record(a, x, c, d, e, f, y, h, i, j, k)
<1>1. \A sp : PutAlignFill(sp, x, y) = PutFill(PutAlign(sp, x), y)
  BY DEF PutAlignFill, PutAlign, PutFill
<1> QED
  BY <1>1, PutAlignIs, PutFillIs

LEMMA PutNameIs ==
  ASSUME NEW a, NEW b, NEW c, NEW d, NEW e, NEW f, NEW g, NEW h, NEW i, NEW j, NEW k, NEW x
  PROVE  PutName(Record(a, b, c, d, e, f, g, h, i, j, k), x) = Record(x, b, c, d, e, f, g, h, i, j, k)
BY DEF PutName, Record

LEMMA PutUpperIs ==
  ASSUME NEW a, NEW b, NEW c, NEW d, NEW e, NEW f, NEW g, NEW h, NEW i, NEW j, NEW k, NEW x
  PROVE  PutUpper(Record(a, b, c, d, e, f, g, h, i, j, k), x) = Record(a, b, c, x, e, f, g, h, i, j, k)
BY DEF PutUpper, Record

LEMMA PutTypeIs ==
  ASSUME NEW a, NEW b, NEW c, NEW d, NEW e, NEW f, NEW g, NEW h, NEW i, NEW j, NEW k, NEW x, NEW y
  PROVE  PutType(Record(a, b, c, d, e, f, g, h, i, j, k), x, y) = Record(x, b, c, y, e, f, g, h, i, j, k)
<1>1. \A sp : PutType(sp, x, y) = PutUpper(PutName(sp, x), y)
  BY DEF PutType, PutName, PutUpper
<1> QED
  BY <1>1, PutNameIs, PutUpperIs

LEMMA RecordIs ==
  ASSUME NEW a, NEW b, NEW c, NEW d, NEW e, NEW f, NEW g, NEW h, NEW i, NEW j, NEW k
  PROVE  LET sp == Record(a, b, c, d, e, f, g, h, i, j, k)
         IN  sp.align = b /\ sp.width = h /\ sp.precision = i /\ sp.width_ref = j /\ sp.precision_ref = k
BY DEF Record

(* The references are not replaced.                                        *)
LEMMA PutAlignKeeps == ASSUME NEW sp, {"width_ref", "precision_ref"} \subseteq DOMAIN sp, NEW x PROVE SameRefsOf(PutAlign(sp, x), sp)
BY DEF PutAlign, SameRefsOf

LEMMA PutSignKeeps == ASSUME NEW sp, {"width_ref", "precision_ref"} \subseteq DOMAIN sp, NEW x PROVE SameRefsOf(PutSign(sp, x), sp)
BY DEF PutSign, SameRefsOf

LEMMA PutAltKeeps == ASSUME NEW sp, {"width_ref", "precision_ref"} \subseteq DOMAIN sp, NEW x PROVE SameRefsOf(PutAlt(sp, x), sp)
BY DEF PutAlt, SameRefsOf

LEMMA PutLocalizedKeeps == ASSUME NEW sp, {"width_ref", "precision_ref"} \subseteq DOMAIN sp, NEW x PROVE SameRefsOf(PutLocalized(sp, x), sp)
BY DEF PutLocalized, SameRefsOf

LEMMA PutFillAlignKeeps == ASSUME NEW sp, {"width_ref", "precision_ref"} \subseteq DOMAIN sp, NEW x, NEW y PROVE SameRefsOf(PutFillAlign(sp, x, y), sp)
BY DEF PutFillAlign, SameRefsOf

LEMMA PutAlignFillKeeps == ASSUME NEW sp, {"width_ref", "precision_ref"} \subseteq DOMAIN sp, NEW x, NEW y PROVE SameRefsOf(PutAlignFill(sp, x, y), sp)
BY DEF PutAlignFill, SameRefsOf

LEMMA CharIs == Parse!C = "fill" \/ Parse!C = Parse!At(p)
BY DEF Parse!C

LEMMA SignIs ==
  ASSUME NEW c \in DOMAIN Parse!SignOf
  PROVE  c \in {"+", " ", "-"} /\ \A v : v.sign = <<c>> => SignMeans(v) = Parse!SignOf[c]
<1>1. c \in {"+", " ", "-"}
  BY DEF Parse!SignOf
<1>2. <<"+">> # <<" ">> /\ <<"-">> # <<"+">> /\ <<"-">> # <<" ">>
  OBVIOUS
<1>3. Parse!SignOf["+"] = "plus" /\ Parse!SignOf[" "] = "space" /\ Parse!SignOf["-"] = "none"
  BY DEF Parse!SignOf
<1>4. ASSUME NEW v, v.sign = <<c>> PROVE SignMeans(v) = Parse!SignOf[c]
  <2>1. PICK x : x = v.sign
    OBVIOUS
  <2>2. SignMeans(v) = CASE x = <<"+">> -> "plus" [] x = <<" ">> -> "space" [] OTHER -> "none"
    BY <2>1 DEF SignMeans
  <2>3. c = "+" => SignMeans(v) = "plus"
    BY <1>2, <1>4, <2>1, <2>2
  <2>4. c = " " => SignMeans(v) = "space"
    BY <1>2, <1>4, <2>1, <2>2
  <2>5. c = "-" => SignMeans(v) = "none"
    BY <1>2, <1>4, <2>1, <2>2
  <2> QED
    BY <1>1, <1>3, <2>3, <2>4, <2>5
<1> QED
  BY <1>1, <1>4

LEMMA SignKeeps == ASSUME Parse!ParseAssumption, fmt \in FormatStrings, SpecsInv, Parse!Sign PROVE SpecsInv'
<1>1. /\ phase = "specs" /\ Parse!C \in DOMAIN Parse!SignOf /\ state < 2 /\ Parse!ArgOf(arg).type \in Parse!sint_set \cup Parse!float_set
      /\ Parse!Took(2, 1, PutSign(specs, Parse!SignOf[Parse!C]))
  BY DEF Parse!Sign, Parse!Entering, PutSign
<1>2. PICK c \in DOMAIN Parse!SignOf : c = Parse!C
  BY <1>1
<1>3. c = Parse!At(p) /\ Parse!At(p) # "end"
  BY <1>2, CharIs, SignIs
<1>4. /\ p + 1 \in 1..(Len(fmt) + 1) /\ p + 1 \in p..(Len(fmt) + 1) /\ Word(p, p + 1) = <<c>>
      /\ state \in 0..7 /\ (Lost(specs, state) \/ \E s, r, u, refs, k : InField(s, r, u, refs, k))
  BY <1>1, <1>3, InSpecsAt
<1>5. CASE Lost(specs, state)
  <2>1. PICK new : new = PutSign(specs, Parse!SignOf[Parse!C])
    OBVIOUS
  <2>2. SameRefsOf(new, specs)
    BY <1>5, <2>1, PutSignKeeps DEF Lost
  <2>3. 2 \in 0..7 /\ Parse!Took(2, 1, new)
    BY <1>1, <2>1
  <2> QED
    BY <1>1, <1>4, <1>5, <2>2, <2>3, TookLost
<1>6. CASE \E s, r, u, refs, k : InField(s, r, u, refs, k)
  <2>1. PICK s, r, u, refs, k : InField(s, r, u, refs, k)
    BY <1>6
  <2>2. u \in Parse!SpecForms /\ Stage(u, state) /\ Parse!Fit(u, Parse!ArgOf(arg).type) /\ specs = SpecsRead(u, refs, k)
    BY <2>1 DEF InField, Open
  <2>3. Stage(u, 1)
    BY <1>1, <1>4, <2>2, StageGrows
  <2>4. PICK v \in Parse!SpecForms : ParsedPieces(v, u.align, <<c>>, u.hash, u.zero, u.width, u.precision, u.locale, u.type)
    <3>1. <<c>> \in Parse!Optional(DOMAIN Parse!SignOf)
      BY DEF Parse!Optional
    <3> QED
      BY <2>2, <3>1, WithSign
  <2>5. Stage(v, 2) /\ v.width = u.width /\ v.precision = u.precision
    BY <2>3, <2>4 DEF Stage, ParsedPieces
  <2>6. Parse!Fit(v, Parse!ArgOf(arg).type)
    BY <1>1, <2>2, <2>4 DEF Parse!Fit, ParsedPieces
  <2>7. Adds(v, u, p + 1)
    <3>1. Parse!SpellSpecs(u) = u.align /\ Parse!SpellSpecs(v) = v.align \o v.sign
      BY <2>2, <2>3, <2>5, SpelledSoFar DEF S2
    <3> QED
      BY <1>4, <2>4, <3>1 DEF Adds, ParsedPieces
  <2>8. /\ TypeMeans(v) = TypeMeans(u) /\ AlignMeans(v) = AlignMeans(u) /\ UpperMeans(v) = UpperMeans(u)
        /\ v.hash = u.hash /\ v.locale = u.locale /\ FillMeans(v) = FillMeans(u)
    BY <2>4 DEF ParsedPieces, TypeMeans, AlignMeans, UpperMeans, FillMeans
  <2>9. SignMeans(v) = Parse!SignOf[c]
    BY <2>4, SignIs DEF ParsedPieces
  <2>10. specs' = SpecsAre(v, WidthOf(u), PrecisionOf(u), WidthRefOf(u, refs, k), PrecisionRefOf(u, refs, k))
    <3>1. specs' = PutSign(specs, Parse!SignOf[c])
      BY <1>1, <1>2 DEF Parse!Took
    <3> QED
      BY <2>2, <2>8, <2>9, <3>1, PutSignIs DEF SpecsRead, SpecsAre
  <2>11. state' = 2 /\ p' = p + 1 /\ fmt' = fmt /\ next_arg_id' = next_arg_id /\ arg' = arg /\ out' = out /\ 2 \in 0..7
    BY <1>1 DEF Parse!Took
  <2> QED
    BY <1>1, <1>4, <2>1, <2>5, <2>6, <2>7, <2>10, <2>11, PieceTaken
<1> QED
  BY <1>4, <1>5, <1>6

LEMMA TookIs ==
  ASSUME NEW n, NEW d, NEW new, Parse!Took(n, d, new)
  PROVE  /\ state' = n /\ p' = p + d /\ specs' = new
         /\ fmt' = fmt /\ next_arg_id' = next_arg_id /\ arg' = arg /\ out' = out
BY DEF Parse!Took

LEMMA HashKeeps == ASSUME Parse!ParseAssumption, fmt \in FormatStrings, SpecsInv, Parse!Hash PROVE SpecsInv'
<1>0. PICK yes : yes = TRUE
  OBVIOUS
<1>1. /\ phase = "specs" /\ Parse!C = "#" /\ state < 3 /\ Parse!ArgOf(arg).type \in Parse!arithmetic_set
      /\ Parse!Took(3, 1, PutAlt(specs, yes))
  BY <1>0 DEF Parse!Hash, Parse!Entering, PutAlt
<1>2. Parse!At(p) = "#" /\ Parse!At(p) # "end"
  BY <1>1, CharIs
<1>3. /\ p + 1 \in 1..(Len(fmt) + 1) /\ p + 1 \in p..(Len(fmt) + 1) /\ Word(p, p + 1) = <<"#">>
      /\ state \in 0..7 /\ (Lost(specs, state) \/ \E s, r, u, refs, k : InField(s, r, u, refs, k))
  BY <1>1, <1>2, InSpecsAt
<1>4. CASE Lost(specs, state)
  <2>1. PICK new : new = PutAlt(specs, yes)
    OBVIOUS
  <2>2. SameRefsOf(new, specs)
    BY <1>4, <2>1, PutAltKeeps DEF Lost
  <2>3. 3 \in 0..7 /\ Parse!Took(3, 1, new)
    BY <1>1, <2>1
  <2> QED
    BY <1>1, <1>3, <1>4, <2>2, <2>3, TookLost
<1>5. CASE \E s, r, u, refs, k : InField(s, r, u, refs, k)
  <2>1. PICK s, r, u, refs, k : InField(s, r, u, refs, k)
    BY <1>5
  <2>2. u \in Parse!SpecForms /\ Stage(u, state) /\ Parse!Fit(u, Parse!ArgOf(arg).type) /\ specs = SpecsRead(u, refs, k)
    BY <2>1 DEF InField, Open
  <2>3. Stage(u, 2)
    BY <1>1, <1>3, <2>2, StageGrows
  <2>4. PICK v \in Parse!SpecForms : ParsedPieces(v, u.align, u.sign, TRUE, u.zero, u.width, u.precision, u.locale, u.type)
    BY <2>2, WithHash
  <2>5. Stage(v, 3) /\ v.width = u.width /\ v.precision = u.precision
    BY <2>3, <2>4 DEF Stage, ParsedPieces
  <2>6. Parse!Fit(v, Parse!ArgOf(arg).type)
    BY <1>1, <2>2, <2>4 DEF Parse!Fit, ParsedPieces
  <2>7. Adds(v, u, p + 1)
    <3>1. Parse!SpellSpecs(u) = S2(u) /\ Parse!SpellSpecs(v) = S2(v) \o Parse!Opt(TRUE, <<"#">>)
      BY <2>2, <2>3, <2>4, <2>5, SpelledSoFar DEF S3, ParsedPieces
    <3>2. S2(v) = S2(u)
      BY <2>4 DEF S2, ParsedPieces
    <3> QED
      BY <1>3, <3>1, <3>2, NoOpt DEF Adds
  <2>8. /\ TypeMeans(v) = TypeMeans(u) /\ AlignMeans(v) = AlignMeans(u) /\ UpperMeans(v) = UpperMeans(u)
        /\ v.hash = yes /\ v.locale = u.locale /\ FillMeans(v) = FillMeans(u) /\ SignMeans(v) = SignMeans(u)
    BY <1>0, <2>4 DEF ParsedPieces, TypeMeans, AlignMeans, UpperMeans, FillMeans, SignMeans
  <2>9. specs' = SpecsAre(v, WidthOf(u), PrecisionOf(u), WidthRefOf(u, refs, k), PrecisionRefOf(u, refs, k))
    <3>1. specs' = PutAlt(specs, yes)
      BY <1>1, TookIs
    <3> QED
      BY <2>2, <2>8, <3>1, PutAltIs DEF SpecsRead, SpecsAre
  <2>10. state' = 3 /\ p' = p + 1 /\ fmt' = fmt /\ next_arg_id' = next_arg_id /\ arg' = arg /\ out' = out /\ 3 \in 0..7
    BY <1>1, TookIs
  <2> QED
    BY <1>1, <1>3, <2>1, <2>5, <2>6, <2>7, <2>9, <2>10, PieceTaken
<1> QED
  BY <1>3, <1>4, <1>5

LEMMA LocaleKeeps == ASSUME Parse!ParseAssumption, fmt \in FormatStrings, SpecsInv, Parse!Locale PROVE SpecsInv'
<1>0. PICK yes : yes = TRUE
  OBVIOUS
<1>1. /\ phase = "specs" /\ Parse!C = "L" /\ state < 7 /\ Parse!ArgOf(arg).type \in Parse!arithmetic_set
      /\ Parse!Took(7, 1, PutLocalized(specs, yes))
  BY <1>0 DEF Parse!Locale, Parse!Entering, PutLocalized
<1>2. Parse!At(p) = "L" /\ Parse!At(p) # "end"
  BY <1>1, CharIs
<1>3. /\ p + 1 \in 1..(Len(fmt) + 1) /\ p + 1 \in p..(Len(fmt) + 1) /\ Word(p, p + 1) = <<"L">>
      /\ state \in 0..7 /\ (Lost(specs, state) \/ \E s, r, u, refs, k : InField(s, r, u, refs, k))
  BY <1>1, <1>2, InSpecsAt
<1>4. CASE Lost(specs, state)
  <2>1. PICK new : new = PutLocalized(specs, yes)
    OBVIOUS
  <2>2. SameRefsOf(new, specs)
    BY <1>4, <2>1, PutLocalizedKeeps DEF Lost
  <2>3. 7 \in 0..7 /\ Parse!Took(7, 1, new)
    BY <1>1, <2>1
  <2> QED
    BY <1>1, <1>3, <1>4, <2>2, <2>3, TookLost
<1>5. CASE \E s, r, u, refs, k : InField(s, r, u, refs, k)
  <2>1. PICK s, r, u, refs, k : InField(s, r, u, refs, k)
    BY <1>5
  <2>2. u \in Parse!SpecForms /\ Stage(u, state) /\ Parse!Fit(u, Parse!ArgOf(arg).type) /\ specs = SpecsRead(u, refs, k)
    BY <2>1 DEF InField, Open
  <2>3. Stage(u, 6)
    BY <1>1, <1>3, <2>2, StageGrows
  <2>4. PICK v \in Parse!SpecForms : ParsedPieces(v, u.align, u.sign, u.hash, u.zero, u.width, u.precision, TRUE, u.type)
    BY <2>2, WithLocale
  <2>5. Stage(v, 7) /\ v.width = u.width /\ v.precision = u.precision
    BY <2>3, <2>4 DEF Stage, ParsedPieces
  <2>6. Parse!Fit(v, Parse!ArgOf(arg).type)
    BY <1>1, <2>2, <2>4 DEF Parse!Fit, ParsedPieces
  <2>7. Adds(v, u, p + 1)
    <3>1. Parse!SpellSpecs(u) = S6(u) /\ Parse!SpellSpecs(v) = S6(v) \o Parse!Opt(TRUE, <<"L">>)
      BY <2>2, <2>3, <2>4, <2>5, SpelledSoFar DEF S7, ParsedPieces
    <3>2. S6(v) = S6(u)
      BY <2>4 DEF S6, SpellPrecision, S5, S4, S3, S2, ParsedPieces
    <3> QED
      BY <1>3, <3>1, <3>2, NoOpt DEF Adds
  <2>8. /\ TypeMeans(v) = TypeMeans(u) /\ AlignMeans(v) = AlignMeans(u) /\ UpperMeans(v) = UpperMeans(u)
        /\ v.hash = u.hash /\ v.locale = yes /\ FillMeans(v) = FillMeans(u) /\ SignMeans(v) = SignMeans(u)
    BY <1>0, <2>4 DEF ParsedPieces, TypeMeans, AlignMeans, UpperMeans, FillMeans, SignMeans
  <2>9. specs' = SpecsAre(v, WidthOf(u), PrecisionOf(u), WidthRefOf(u, refs, k), PrecisionRefOf(u, refs, k))
    <3>1. specs' = PutLocalized(specs, yes)
      BY <1>1, TookIs
    <3> QED
      BY <2>2, <2>8, <3>1, PutLocalizedIs DEF SpecsRead, SpecsAre
  <2>10. state' = 7 /\ p' = p + 1 /\ fmt' = fmt /\ next_arg_id' = next_arg_id /\ arg' = arg /\ out' = out /\ 7 \in 0..7
    BY <1>1, TookIs
  <2> QED
    BY <1>1, <1>3, <2>1, <2>5, <2>6, <2>7, <2>9, <2>10, PieceTaken
<1> QED
  BY <1>3, <1>4, <1>5

LEMMA AlignIs ==
  ASSUME NEW c \in DOMAIN Parse!AlignOf
  PROVE  c \in {"<", ">", "^"} /\ Parse!AlignOf[c] # "none" /\ Last(<<c>>) = c /\ \A x : Last(<<x, c>>) = c
<1>1. c \in {"<", ">", "^"}
  BY DEF Parse!AlignOf
<1>2. Parse!AlignOf["<"] = "left" /\ Parse!AlignOf[">"] = "right" /\ Parse!AlignOf["^"] = "center"
  BY DEF Parse!AlignOf
<1>3. Last(<<c>>) = c /\ \A x : Last(<<x, c>>) = c
  BY DEF Last
<1> QED
  BY <1>1, <1>2, <1>3

LEMMA AlignKeeps == ASSUME Parse!ParseAssumption, fmt \in FormatStrings, SpecsInv, Parse!Align PROVE SpecsInv'
<1>1. phase = "specs" /\ Parse!C \in DOMAIN Parse!AlignOf /\ state < 1 /\ Parse!Took(1, 1, PutAlign(specs, Parse!AlignOf[Parse!C]))
  BY DEF Parse!Align, Parse!Entering, PutAlign
<1>2. PICK c \in DOMAIN Parse!AlignOf : c = Parse!C
  BY <1>1
<1>3. c = Parse!At(p) /\ Parse!At(p) # "end"
  BY <1>2, CharIs, AlignIs
<1>4. /\ p + 1 \in 1..(Len(fmt) + 1) /\ p + 1 \in p..(Len(fmt) + 1) /\ Word(p, p + 1) = <<c>>
      /\ state \in 0..7 /\ (Lost(specs, state) \/ \E s, r, u, refs, k : InField(s, r, u, refs, k))
  BY <1>1, <1>3, InSpecsAt
<1>5. ~Lost(specs, state)
  BY <1>1, <1>4 DEF Lost
<1>6. PICK s, r, u, refs, k : InField(s, r, u, refs, k)
  BY <1>4, <1>5
<1>7. u \in Parse!SpecForms /\ Stage(u, state) /\ Parse!Fit(u, Parse!ArgOf(arg).type) /\ specs = SpecsRead(u, refs, k)
  BY <1>6 DEF InField, Open
<1>8. Stage(u, 0) /\ u.align = <<>> /\ u.zero = FALSE
  BY <1>1, <1>4, <1>7, StageGrows DEF Stage
<1>9. PICK v \in Parse!SpecForms : ParsedPieces(v, <<c>>, u.sign, u.hash, u.zero, u.width, u.precision, u.locale, u.type)
  <2>1. <<c>> \in Parse!Optional(DOMAIN Parse!AlignOf) \cup (Parse!Literals \X DOMAIN Parse!AlignOf)
    BY DEF Parse!Optional
  <2> QED
    BY <1>7, <2>1, WithAlign
<1>10. Stage(v, 1) /\ v.width = u.width /\ v.precision = u.precision
  BY <1>8, <1>9 DEF Stage, ParsedPieces
<1>11. Parse!Fit(v, Parse!ArgOf(arg).type)
  BY <1>7, <1>9 DEF Parse!Fit, ParsedPieces
<1>12. Adds(v, u, p + 1)
  <2>1. Parse!SpellSpecs(u) = <<>> /\ Parse!SpellSpecs(v) = <<c>>
    BY <1>7, <1>8, <1>9, <1>10, SpelledSoFar DEF ParsedPieces
  <2>2. <<>> \o <<c>> = <<c>>
    OBVIOUS
  <2> QED
    BY <1>4, <2>1, <2>2 DEF Adds
<1>13. /\ TypeMeans(v) = TypeMeans(u) /\ UpperMeans(v) = UpperMeans(u) /\ SignMeans(v) = SignMeans(u)
       /\ v.hash = u.hash /\ v.locale = u.locale
  BY <1>9 DEF ParsedPieces, TypeMeans, UpperMeans, SignMeans
<1>14. AlignMeans(v) = Parse!AlignOf[c] /\ FillMeans(v) = FillMeans(u)
  <2>1. v.align = <<c>> /\ v.zero = FALSE
    BY <1>8, <1>9 DEF ParsedPieces
  <2>2. <<c>> # <<>> /\ Len(<<c>>) = 1 /\ Len(<<>>) = 0
    OBVIOUS
  <2>3. AlignMeans(v) = Parse!AlignOf[c]
    BY <2>1, <2>2, AlignIs DEF AlignMeans
  <2>4. FillMeans(v) = " " /\ FillMeans(u) = " "
    BY <1>8, <2>1, <2>2 DEF FillMeans
  <2> QED
    BY <2>3, <2>4
<1>15. specs' = SpecsAre(v, WidthOf(u), PrecisionOf(u), WidthRefOf(u, refs, k), PrecisionRefOf(u, refs, k))
  <2>1. specs' = PutAlign(specs, Parse!AlignOf[c])
    BY <1>1, <1>2, TookIs
  <2> QED
    BY <1>7, <1>13, <1>14, <2>1, PutAlignIs DEF SpecsRead, SpecsAre
<1>16. state' = 1 /\ p' = p + 1 /\ fmt' = fmt /\ next_arg_id' = next_arg_id /\ arg' = arg /\ out' = out /\ 1 \in 0..7
  BY <1>1, TookIs
<1> QED
  BY <1>1, <1>4, <1>6, <1>10, <1>11, <1>12, <1>15, <1>16, PieceTaken

LEMMA FillKeeps == ASSUME Parse!ParseAssumption, fmt \in FormatStrings, SpecsInv, Parse!Fill PROVE SpecsInv'
<1>1. /\ phase = "specs" /\ Parse!C = "fill" /\ Parse!At(p) \notin {"{", "}"}
      /\ Parse!Took(1, 2, PutFillAlign(specs, Parse!At(p), Parse!AlignOf[Parse!At(p + 1)]))
  BY DEF Parse!Fill, PutFillAlign
<1>2. state = 0 /\ Parse!At(p + 1) \in DOMAIN Parse!AlignOf
  <2>1. Parse!At(p) # "end" => Parse!At(p) # "fill"
    BY <1>1, InSpecsAt
  <2>2. "end" # "fill"
    OBVIOUS
  <2> QED
    BY <1>1, <2>1, <2>2 DEF Parse!C, Parse!IsAlign
<1>3. PICK c \in DOMAIN Parse!AlignOf : c = Parse!At(p + 1)
  BY <1>2
<1>4. Parse!At(p + 1) # "end"
  BY <1>3, AlignIs
<1>5. PICK b : b = Parse!At(p)
  OBVIOUS
<1>6. /\ p + 2 \in 1..(Len(fmt) + 1) /\ p + 2 \in p..(Len(fmt) + 1) /\ Word(p, p + 2) = <<b, c>>
      /\ b \in Parse!Characters /\ (Lost(specs, state) \/ \E s, r, u, refs, k : InField(s, r, u, refs, k))
  BY <1>1, <1>3, <1>4, <1>5, InSpecsAt
<1>7. b \in Parse!Literals
  BY <1>1, <1>5, <1>6 DEF Parse!Literals
<1>8. ~Lost(specs, state)
  BY <1>2 DEF Lost
<1>9. PICK s, r, u, refs, k : InField(s, r, u, refs, k)
  BY <1>6, <1>8
<1>10. u \in Parse!SpecForms /\ Stage(u, 0) /\ Parse!Fit(u, Parse!ArgOf(arg).type) /\ specs = SpecsRead(u, refs, k)
  BY <1>2, <1>9 DEF InField, Open
<1>11. u.align = <<>> /\ u.zero = FALSE
  BY <1>10 DEF Stage
<1>12. PICK v \in Parse!SpecForms : ParsedPieces(v, <<b, c>>, u.sign, u.hash, u.zero, u.width, u.precision, u.locale, u.type)
  <2>1. <<b, c>> \in Parse!Optional(DOMAIN Parse!AlignOf) \cup (Parse!Literals \X DOMAIN Parse!AlignOf)
    BY <1>7
  <2> QED
    BY <1>10, <2>1, WithAlign
<1>13. Stage(v, 1) /\ v.width = u.width /\ v.precision = u.precision
  BY <1>10, <1>12 DEF Stage, ParsedPieces
<1>14. Parse!Fit(v, Parse!ArgOf(arg).type)
  BY <1>10, <1>12 DEF Parse!Fit, ParsedPieces
<1>15. Adds(v, u, p + 2)
  <2>1. Parse!SpellSpecs(u) = <<>> /\ Parse!SpellSpecs(v) = <<b, c>>
    BY <1>10, <1>12, <1>13, SpelledSoFar DEF ParsedPieces
  <2>2. <<>> \o <<b, c>> = <<b, c>>
    <3>1. PICK S : S = {b, c}
      OBVIOUS
    <3>2. <<b, c>> \in Seq(S)
      BY <3>1
    <3> QED
      BY <3>2, ConcatEmptySeq
  <2> QED
    BY <1>6, <2>1, <2>2 DEF Adds
<1>16. /\ TypeMeans(v) = TypeMeans(u) /\ UpperMeans(v) = UpperMeans(u) /\ SignMeans(v) = SignMeans(u)
       /\ v.hash = u.hash /\ v.locale = u.locale
  BY <1>12 DEF ParsedPieces, TypeMeans, UpperMeans, SignMeans
<1>17. AlignMeans(v) = Parse!AlignOf[c] /\ FillMeans(v) = b
  <2>1. v.align = <<b, c>> /\ v.zero = FALSE
    BY <1>11, <1>12 DEF ParsedPieces
  <2>2. <<b, c>> # <<>> /\ Len(<<b, c>>) = 2 /\ <<b, c>>[1] = b
    OBVIOUS
  <2>3. AlignMeans(v) = Parse!AlignOf[c]
    <3>1. Last(<<b, c>>) = c
      BY AlignIs
    <3> QED
      BY <2>1, <2>2, <3>1 DEF AlignMeans
  <2>4. FillMeans(v) = b
    BY <2>1, <2>2 DEF FillMeans
  <2> QED
    BY <2>3, <2>4
<1>18. specs' = SpecsAre(v, WidthOf(u), PrecisionOf(u), WidthRefOf(u, refs, k), PrecisionRefOf(u, refs, k))
  <2>1. specs' = PutFillAlign(specs, b, Parse!AlignOf[c])
    BY <1>1, <1>3, <1>5, TookIs
  <2> QED
    BY <1>10, <1>16, <1>17, <2>1, PutFillAlignIs DEF SpecsRead, SpecsAre
<1>19. state' = 1 /\ p' = p + 2 /\ fmt' = fmt /\ next_arg_id' = next_arg_id /\ arg' = arg /\ out' = out /\ 1 \in 0..7
  <2>1. PICK new : Parse!Took(1, 2, new)
    BY <1>1
  <2> QED
    BY <2>1, TookIs
<1> QED
  BY <1>1, <1>6, <1>9, <1>13, <1>14, <1>15, <1>18, <1>19, PieceTaken

LEMMA AlignedIs ==
  ASSUME NEW u \in Parse!SpecForms, u.align # <<>>
  PROVE  AlignMeans(u) # "none" /\ \A v : v.align = u.align => AlignMeans(v) = AlignMeans(u) /\ FillMeans(v) = FillMeans(u)
<1>1. PICK x : x = u.align
  OBVIOUS
<1>2. x \in Parse!Optional(DOMAIN Parse!AlignOf) \/ x \in Parse!Literals \X DOMAIN Parse!AlignOf
  BY <1>1 DEF Parse!SpecForms
<1>3. Last(x) \in DOMAIN Parse!AlignOf
  <2>1. CASE x \in Parse!Optional(DOMAIN Parse!AlignOf)
    <3>1. PICK c \in DOMAIN Parse!AlignOf : x = <<c>>
      BY <1>1, <2>1 DEF Parse!Optional
    <3> QED
      BY <3>1, AlignIs
  <2>2. CASE x \in Parse!Literals \X DOMAIN Parse!AlignOf
    <3>1. PICK b \in Parse!Literals, c \in DOMAIN Parse!AlignOf : x = <<b, c>>
      BY <2>2
    <3>2. Last(<<b, c>>) = c
      BY AlignIs
    <3> QED
      BY <3>1, <3>2
  <2> QED
    BY <1>2, <2>1, <2>2
<1>4. AlignMeans(u) = Parse!AlignOf[Last(x)]
  BY <1>1 DEF AlignMeans
<1>5. \A v : v.align = u.align => AlignMeans(v) = AlignMeans(u)
  BY DEF AlignMeans
<1>6. \A v : v.align = u.align => FillMeans(v) = FillMeans(u)
  BY DEF FillMeans
<1> QED
  BY <1>3, <1>4, <1>5, <1>6, AlignIs

LEMMA ZeroKeeps == ASSUME Parse!ParseAssumption, fmt \in FormatStrings, SpecsInv, Parse!Zero PROVE SpecsInv'
<1>1. PICK new : new = IF specs.align # "none" THEN specs ELSE PutAlignFill(specs, "numeric", "0")
  OBVIOUS
<1>2. phase = "specs" /\ Parse!C = "0" /\ state < 4 /\ Parse!ArgOf(arg).type \in Parse!arithmetic_set /\ Parse!Took(4, 1, new)
  BY <1>1 DEF Parse!Zero, Parse!Entering, PutAlignFill
<1>3. Parse!At(p) = "0" /\ Parse!At(p) # "end"
  BY <1>2, CharIs
<1>4. /\ p + 1 \in 1..(Len(fmt) + 1) /\ p + 1 \in p..(Len(fmt) + 1) /\ Word(p, p + 1) = <<"0">>
      /\ state \in 0..7 /\ (Lost(specs, state) \/ \E s, r, u, refs, k : InField(s, r, u, refs, k))
  BY <1>2, <1>3, InSpecsAt
<1>5. CASE Lost(specs, state)
  <2>1. SameRefsOf(PutAlignFill(specs, "numeric", "0"), specs)
    BY <1>5, PutAlignFillKeeps DEF Lost
  <2>2. SameRefsOf(new, specs)
    BY <1>1, <2>1 DEF SameRefsOf
  <2>3. 4 \in 0..7
    OBVIOUS
  <2> QED
    BY <1>2, <1>4, <1>5, <2>2, <2>3, TookLost
<1>6. CASE \E s, r, u, refs, k : InField(s, r, u, refs, k)
  <2>1. PICK s, r, u, refs, k : InField(s, r, u, refs, k)
    BY <1>6
  <2>2. u \in Parse!SpecForms /\ Stage(u, state) /\ Parse!Fit(u, Parse!ArgOf(arg).type) /\ specs = SpecsRead(u, refs, k)
    BY <2>1 DEF InField, Open
  <2>3. Stage(u, 3) /\ u.zero = FALSE
    BY <1>2, <1>4, <2>2, StageGrows, SMTT(40) DEF Stage
  <2>4. PICK v \in Parse!SpecForms : ParsedPieces(v, u.align, u.sign, u.hash, TRUE, u.width, u.precision, u.locale, u.type)
    BY <2>2, WithZero
  <2>5. Stage(v, 4) /\ v.width = u.width /\ v.precision = u.precision
    BY <2>3, <2>4 DEF Stage, ParsedPieces
  <2>6. Parse!Fit(v, Parse!ArgOf(arg).type)
    BY <1>2, <2>2, <2>4 DEF Parse!Fit, ParsedPieces
  <2>7. Adds(v, u, p + 1)
    <3>1. Parse!SpellSpecs(u) = S3(u) /\ Parse!SpellSpecs(v) = S3(v) \o Parse!Opt(TRUE, <<"0">>)
      BY <2>2, <2>3, <2>4, <2>5, SpelledSoFar DEF S4, ParsedPieces
    <3>2. S3(v) = S3(u)
      BY <2>4 DEF S3, S2, ParsedPieces
    <3> QED
      BY <1>4, <3>1, <3>2, NoOpt DEF Adds
  <2>8. /\ TypeMeans(v) = TypeMeans(u) /\ UpperMeans(v) = UpperMeans(u)
        /\ v.hash = u.hash /\ v.locale = u.locale /\ SignMeans(v) = SignMeans(u) /\ v.align = u.align /\ v.zero = TRUE
    BY <2>4 DEF ParsedPieces, TypeMeans, UpperMeans, SignMeans
  <2>9. specs.align = AlignMeans(u)
    BY <2>2, RecordIs DEF SpecsRead, SpecsAre
  <2>10. new = SpecsAre(v, WidthOf(u), PrecisionOf(u), WidthRefOf(u, refs, k), PrecisionRefOf(u, refs, k))
    <3>1. CASE u.align = <<>>
      <4>1. AlignMeans(u) = "none" /\ AlignMeans(v) = "numeric" /\ FillMeans(v) = "0"
        BY <2>3, <2>8, <3>1 DEF AlignMeans, FillMeans
      <4>2. new = PutAlignFill(specs, "numeric", "0")
        BY <1>1, <2>9, <4>1
      <4> QED
        BY <2>2, <2>8, <4>1, <4>2, PutAlignFillIs DEF SpecsRead, SpecsAre
    <3>2. CASE u.align # <<>>
      <4>1. AlignMeans(u) # "none" /\ AlignMeans(v) = AlignMeans(u) /\ FillMeans(v) = FillMeans(u)
        BY <2>2, <2>8, <3>2, AlignedIs
      <4>2. new = specs
        BY <1>1, <2>9, <4>1
      <4> QED
        BY <2>2, <2>8, <4>1, <4>2 DEF SpecsRead, SpecsAre
    <3> QED
      BY <3>1, <3>2
  <2>11. specs' = new /\ state' = 4 /\ p' = p + 1 /\ fmt' = fmt /\ next_arg_id' = next_arg_id /\ arg' = arg /\ out' = out /\ 4 \in 0..7
    BY <1>2, TookIs
  <2> QED
    BY <1>2, <1>4, <2>1, <2>5, <2>6, <2>7, <2>10, <2>11, PieceTaken
<1> QED
  BY <1>4, <1>5, <1>6

(* A width or a precision that has been read: a number, or a reference.    *)
IsNumberTo(d, b) ==
  /\ d.ref = Parse!NoRef /\ d.value \in 0..Parse!IntMax
  /\ Word(b, d.end) \in Parse!Numerals /\ Word(b, d.end)[1] = Parse!At(b) /\ d.value = Parse!Value(Word(b, d.end)) /\ Parse!IsDigit(Parse!At(b))
IsRefTo(d, b) ==
  /\ d.ref # Parse!NoRef /\ d.ref \in Parse!RefForms /\ Parse!CanRefer(d.ref)
  /\ Parse!HasArg(Parse!ArgId(d.ref)) => Word(b, d.end) = <<"{">> \o Parse!SpellRef(d.ref) \o <<"}">>

LEMMA NumberSpec ==
  ASSUME Parse!ParseAssumption, fmt \in FormatStrings, NEW b \in 1..(Len(fmt) + 1), Parse!IsDigit(Parse!At(b)), NEW d, d = Parse!DynamicSpec(b), d.ok
  PROVE  d.end \in b..(Len(fmt) + 1) /\ IsNumberTo(d, b)
<1>1. PICK n : n = Parse!parse_nonnegative_int(b, -1)
  OBVIOUS
<1>2. /\ n.end \in (b + 1)..(Len(fmt) + 1) /\ Word(b, n.end) \in Parse!Numerals /\ Word(b, n.end)[1] = Parse!At(b)
      /\ (n.value = Parse!Value(Word(b, n.end)) /\ n.value \in 0..Parse!IntMax) \/ n.value = -1
  BY <1>1, NumberIsRead
<1>3. d = IF n.value = -1 THEN Parse!Failed ELSE [ok |-> TRUE, end |-> n.end, value |-> n.value, ref |-> Parse!NoRef]
  BY <1>1 DEF Parse!DynamicSpec
<1>4. n.value # -1
  BY <1>3, FailedIsNot
<1>5. d.end = n.end /\ d.value = n.value /\ d.ref = Parse!NoRef
  BY <1>3, <1>4
<1>6. n.end \in b..(Len(fmt) + 1)
  <2>1. Len(fmt) \in Nat
    BY Chars
  <2>2. n.end \in (b + 1)..(Len(fmt) + 1)
    BY <1>2
  <2> QED
    BY <2>1, <2>2
<1> QED
  BY <1>2, <1>4, <1>5, <1>6 DEF IsNumberTo

LEMMA RefSpec ==
  ASSUME Parse!ParseAssumption, fmt \in FormatStrings, NEW b \in 1..(Len(fmt) + 1), ~Parse!IsDigit(Parse!At(b)), NEW d, d = Parse!DynamicSpec(b), d.ok
  PROVE  d.end \in b..(Len(fmt) + 1) /\ IsRefTo(d, b)
<1>1. PICK r : r = RefAt(b + 1)
  OBVIOUS
<1>2. d = IF Parse!At(b) = "{" /\ Parse!At(b + 1) # "end" /\ r.ok /\ Parse!At(r.end) = "}" /\ Parse!CanRefer(r.ref)
          THEN [ok |-> TRUE, end |-> r.end + 1, value |-> -1, ref |-> r.ref] ELSE Parse!Failed
  BY <1>1 DEF Parse!DynamicSpec, RefAt
<1>3. Parse!At(b) = "{" /\ Parse!At(b + 1) # "end" /\ r.ok /\ Parse!At(r.end) = "}" /\ Parse!CanRefer(r.ref)
  BY <1>2, FailedIsNot
<1>4. d.end = r.end + 1 /\ d.ref = r.ref
  <2>1. PICK x, y : x = r.end + 1 /\ y = r.ref
    OBVIOUS
  <2>2. d = [ok |-> TRUE, end |-> x, value |-> -1, ref |-> y]
    BY <1>2, <1>3, <2>1
  <2> QED
    BY <2>1, <2>2
<1>5. Len(fmt) \in Nat
  BY Chars
<1>6. b \in 1..Len(fmt) /\ fmt[b] = "{"
  <2>1. b \in Int
    BY <1>5
  <2>2. Parse!At(b) # "end"
    BY <1>3
  <2> QED
    BY <1>3, <2>1, <2>2, Chars
<1>7. PICK m \in 1..(Len(fmt) + 1) : m = b + 1
  BY <1>5, <1>6, OneUp
<1>8. PICK e : e = r.end
  OBVIOUS
<1>9. e \in m..(Len(fmt) + 1) /\ r.ref \in Parse!RefForms
      /\ ((r.ref.kind = "index" => Parse!HasArg(r.ref.index)) => Parse!SpellRef(r.ref) = Word(m, e))
  BY <1>1, <1>3, <1>7, <1>8, RefIsRead
<1>10. e \in 1..Len(fmt) /\ fmt[e] = "}"
  <2>1. e \in Int
    BY <1>5, <1>7, <1>9, Further, <1>6
  <2>2. Parse!At(e) # "end"
    BY <1>3, <1>8
  <2> QED
    BY <1>3, <1>8, <2>1, <2>2, Chars
<1>11. r.ref # Parse!NoRef
  <2>1. Parse!NoRef.kind = "none"
    BY DEF Parse!NoRef
  <2>2. r.ref.kind # "none"
    BY <1>9, KindOfRef
  <2> QED
    BY <2>1, <2>2
<1>12. e \in (b + 1)..(Len(fmt) + 1)
  BY <1>7, <1>9
<1>13. /\ b \in 1..(Len(fmt) + 1) /\ m \in b..(Len(fmt) + 1) /\ e \in b..(Len(fmt) + 1) /\ e \in m..(Len(fmt) + 1)
       /\ e + 1 \in b..(Len(fmt) + 1) /\ e + 1 \in e..(Len(fmt) + 1) /\ e \in 1..(Len(fmt) + 1)
  BY <1>5, <1>6, <1>7, <1>9, <1>10, <1>12, OneUp, Further
<1>14. ASSUME Parse!HasArg(Parse!ArgId(r.ref)) PROVE Word(b, e + 1) = <<"{">> \o Parse!SpellRef(r.ref) \o <<"}">>
  <2>1. r.ref.kind = "index" => Parse!HasArg(r.ref.index)
    BY <1>14, ArgIdIs
  <2>2. Parse!SpellRef(r.ref) = Word(m, e)
    BY <1>9, <2>1
  <2>3. Word(b, m) = <<"{">> /\ Word(e, e + 1) = <<"}">>
    BY <1>6, <1>7, <1>10, OneChar
  <2>4. Word(b, m) \o Word(m, e) = Word(b, e)
    BY <1>13, WordsJoin
  <2>5. Word(b, e) \o Word(e, e + 1) = Word(b, e + 1)
    BY <1>13, WordsJoin
  <2> QED
    BY <2>2, <2>3, <2>4, <2>5
<1> QED
  BY <1>3, <1>4, <1>8, <1>9, <1>11, <1>13, <1>14 DEF IsRefTo

-----------------------------------------------------------------------------
(* The references of a field grow by that of a width or a precision.       *)
RefAdded(r, u, v, ref) == Parse!FieldRefs(FieldOf(r, v)) = Append(Parse!FieldRefs(FieldOf(r, u)), ref)

RefTook(s, r, u, v, refs, k, ref, more) ==
  /\ Open(s, r, v, more, k) /\ Counts(more, Parse!NextId(ref)) /\ refs \in Seq(Parse!RefForms) /\ Longer(refs, more)
  /\ Parse!Target(more, Len(refs) + 1) = Parse!ArgId(ref) /\ Parse!Target(more, k) = Parse!Target(refs, k)
  /\ k \in Nat /\ k >= 1 /\ Len(refs) = k - 1 + Len(Parse!FieldRefs(FieldOf(r, u)))

LEMMA RefTaken ==
  ASSUME NEW s, NEW r, NEW u, NEW refs, NEW k, Open(s, r, u, refs, k), Counts(refs, next_arg_id),
         NEW v \in Parse!SpecForms, NEW ref \in Parse!RefForms, Parse!CanRefer(ref),
         RefAdded(r, u, v, ref), NumbersFit(v),
         Parse!Fit(v, Parse!ArgOf(Parse!Target(refs, k)).type), NEW more, more = Append(refs, ref)
  PROVE  RefTook(s, r, u, v, refs, k, ref, more)
<1>1. /\ s \in Seq(Parse!TokenForms) /\ r \in Parse!RefForms /\ u \in Parse!SpecForms /\ Parse!RefsAgree(refs)
      /\ refs = Parse!RefsOf(s) \o Parse!FieldRefs(FieldOf(r, u)) /\ k = Len(Parse!RefsOf(s)) + 1 /\ Parse!HasArg(Parse!Target(refs, k))
  BY DEF Open, Sentence
<1>2. PICK x \in Seq(Parse!RefForms) : x = Parse!RefsOf(s)
  BY <1>1, RefsOfGrows
<1>3. PICK y \in Seq(Parse!RefForms) : y = Parse!FieldRefs(FieldOf(r, u))
  BY <1>1, FieldOfIs, RefsOfField, ZenonT(60)
<1>4. Len(y) >= 1
  <2>1. FieldOf(r, u).ref \in Parse!RefForms /\ FieldOf(r, u).specs \in Parse!SpecForms
    BY <1>1, FieldOfIs
  <2>2. PICK a, b : Len(y) = 1 + OneIf(a) + OneIf(b)
    BY <1>3, <2>1, RefsOfField
  <2>3. OneIf(a) \in 0..1 /\ OneIf(b) \in 0..1
    BY DEF OneIf
  <2> QED
    BY <2>2, <2>3
<1>5. refs = x \o y /\ k = Len(x) + 1
  BY <1>1, <1>2, <1>3
<1>6. refs \in Seq(Parse!RefForms) /\ Len(refs) = Len(x) + Len(y)
  BY <1>5, ConcatProperties
<1>7. k \in 1..Len(refs) /\ k \in Nat /\ k >= 1 /\ Len(refs) = k - 1 + Len(y)
  BY <1>4, <1>5, <1>6
<1>8. /\ more \in Seq(Parse!RefForms) /\ Parse!RefsAgree(more) /\ Counts(more, Parse!NextId(ref)) /\ Longer(refs, more)
      /\ Parse!Target(more, Len(refs) + 1) = Parse!ArgId(ref)
  BY <1>1, <1>6, RefsGrow
<1>9. Parse!Target(more, k) = Parse!Target(refs, k)
  BY <1>6, <1>7, <1>8, SameTarget
<1>10. more = Parse!RefsOf(s) \o Parse!FieldRefs(FieldOf(r, v))
  <2>1. (x \o y) \o <<ref>> = x \o (y \o <<ref>>)
    <3>1. <<ref>> \in Seq(Parse!RefForms)
      BY OneRef
    <3> QED
      BY <3>1, ConcatAssociative, SMTT(40)
  <2>2. Append(y, ref) = y \o <<ref>>
    BY AppendIsConcat
  <2>3. Append(refs, ref) = refs \o <<ref>>
    BY <1>6, AppendIsConcat
  <2> QED
    BY <1>2, <1>3, <1>5, <2>1, <2>2, <2>3 DEF RefAdded
<1>11. Open(s, r, v, more, k)
  BY <1>1, <1>8, <1>9, <1>10 DEF Open
<1> QED
  BY <1>3, <1>6, <1>7, <1>8, <1>9, <1>11 DEF RefTook

LEMMA NumberAmount ==
  ASSUME NEW w \in Parse!Numerals
  PROVE  \E x \in Parse!AmountForms : x.what = "number" /\ x.digits = w /\ x # Parse!Nothing /\ Parse!SpellAmount(x) = w
<1>1. PICK x : x = [what |-> "number", digits |-> w]
  OBVIOUS
<1>2. x \in Parse!AmountForms /\ x.what = "number" /\ x.digits = w
  BY <1>1 DEF Parse!AmountForms
<1>3. x # Parse!Nothing
  BY <1>2 DEF Parse!Nothing
<1>4. Parse!SpellAmount(x) = w
  BY <1>2, SpellAmountIs
<1> QED
  BY <1>2, <1>3, <1>4

LEMMA RefAmount ==
  ASSUME NEW r \in Parse!RefForms
  PROVE  \E x \in Parse!AmountForms : /\ x.what = "ref" /\ x.ref = r /\ x # Parse!Nothing
                                /\ Parse!SpellAmount(x) = <<"{">> \o Parse!SpellRef(r) \o <<"}">>
<1>1. PICK x : x = [what |-> "ref", ref |-> r]
  OBVIOUS
<1>2. x \in Parse!AmountForms /\ x.what = "ref" /\ x.ref = r
  BY <1>1 DEF Parse!AmountForms
<1>3. x # Parse!Nothing
  BY <1>2 DEF Parse!Nothing
<1>4. Parse!SpellAmount(x) = <<"{">> \o Parse!SpellRef(r) \o <<"}">>
  BY <1>2, SpellAmountIs
<1> QED
  BY <1>2, <1>3, <1>4

(* The references of a field.                                              *)
WidthRefs(u) == Parse!Opt(u.width.what = "ref", <<u.width.ref>>)
PrecisionRefs(u) == Parse!Opt(u.precision.what = "ref", <<u.precision.ref>>)

LEMMA AmountRefs ==
  ASSUME NEW u
  PROVE  /\ u.width.what = "ref" => WidthRefs(u) = <<u.width.ref>>
         /\ u.width.what # "ref" => WidthRefs(u) = <<>>
         /\ u.precision.what = "ref" => PrecisionRefs(u) = <<u.precision.ref>>
         /\ u.precision.what # "ref" => PrecisionRefs(u) = <<>>
BY DEF WidthRefs, PrecisionRefs, Parse!Opt

LEMMA RefsAre ==
  ASSUME NEW r \in Parse!RefForms, NEW u \in Parse!SpecForms
  PROVE  /\ Parse!FieldRefs(FieldOf(r, u)) = (<<r>> \o WidthRefs(u)) \o PrecisionRefs(u)
         /\ <<r>> \o WidthRefs(u) \in Seq(Parse!RefForms) /\ Len(<<r>> \o WidthRefs(u)) = 1 + OneIf(u.width.what = "ref")
         /\ <<r>> \in Seq(Parse!RefForms)
<1>1. FieldOf(r, u).ref = r /\ FieldOf(r, u).specs = u
  BY FieldOfIs
<1>2. Parse!FieldRefs(FieldOf(r, u)) = (<<r>> \o WidthRefs(u)) \o PrecisionRefs(u)
  BY <1>1 DEF Parse!FieldRefs, WidthRefs, PrecisionRefs
<1>3. <<r>> \in Seq(Parse!RefForms) /\ Len(<<r>>) = 1
  BY OneRef
<1>4. CASE u.width.what = "ref"
  <2>1. u.width.ref \in Parse!RefForms
    BY <1>4, PartsOfSpecs, KindOfAmount
  <2>2. PICK b \in Parse!RefForms : b = u.width.ref
    BY <2>1
  <2>3. WidthRefs(u) = <<b>> /\ <<b>> \in Seq(Parse!RefForms) /\ Len(<<b>>) = 1
    BY <1>4, <2>2, AmountRefs, OneRef
  <2>4. <<r>> \o <<b>> \in Seq(Parse!RefForms) /\ Len(<<r>> \o <<b>>) = 2
    BY <1>3, <2>3, ConcatProperties
  <2>5. OneIf(u.width.what = "ref") = 1
    BY <1>4 DEF OneIf
  <2> QED
    BY <1>2, <1>3, <2>3, <2>4, <2>5
<1>5. CASE u.width.what # "ref"
  <2>1. WidthRefs(u) = <<>>
    BY <1>5, AmountRefs
  <2>2. <<r>> \o <<>> = <<r>>
    BY <1>3, ConcatEmptySeq
  <2>3. OneIf(u.width.what = "ref") = 0
    BY <1>5 DEF OneIf
  <2> QED
    BY <1>2, <1>3, <2>1, <2>2, <2>3
<1> QED
  BY <1>4, <1>5

LEMMA NumberRefs ==
  ASSUME NEW r \in Parse!RefForms, NEW u \in Parse!SpecForms, NEW v \in Parse!SpecForms,
         u.width = v.width \/ (u.width.what # "ref" /\ v.width.what # "ref"),
         u.precision = v.precision \/ (u.precision.what # "ref" /\ v.precision.what # "ref")
  PROVE  Parse!FieldRefs(FieldOf(r, v)) = Parse!FieldRefs(FieldOf(r, u))
<1>1. WidthRefs(v) = WidthRefs(u)
  <2>1. u.width = v.width => WidthRefs(v) = WidthRefs(u)
    BY DEF WidthRefs
  <2> QED
    BY <2>1, AmountRefs
<1>2. PrecisionRefs(v) = PrecisionRefs(u)
  <2>1. u.precision = v.precision => PrecisionRefs(v) = PrecisionRefs(u)
    BY DEF PrecisionRefs
  <2> QED
    BY <2>1, AmountRefs
<1> QED
  BY <1>1, <1>2, RefsAre

LEMMA WidthRefs1 ==
  ASSUME NEW r \in Parse!RefForms, NEW u \in Parse!SpecForms, NEW v \in Parse!SpecForms,
         u.width = Parse!Nothing, u.precision = Parse!Nothing, v.precision = Parse!Nothing, v.width.what = "ref"
  PROVE  RefAdded(r, u, v, v.width.ref) /\ Len(Parse!FieldRefs(FieldOf(r, u))) = 1
<1>1. Parse!Nothing.what = "nothing"
  BY DEF Parse!Nothing
<1>2. v.width.ref \in Parse!RefForms
  BY PartsOfSpecs, KindOfAmount
<1>3. PICK b \in Parse!RefForms : b = v.width.ref
  BY <1>2
<1>4. WidthRefs(u) = <<>> /\ PrecisionRefs(u) = <<>> /\ PrecisionRefs(v) = <<>> /\ WidthRefs(v) = <<b>>
  BY <1>1, <1>3, AmountRefs
<1>5. <<r>> \in Seq(Parse!RefForms) /\ Len(<<r>>) = 1
  BY OneRef
<1>6. <<r>> \o <<>> = <<r>> /\ <<r>> \o <<b>> = Append(<<r>>, b)
  BY <1>5, ConcatEmptySeq, AppendIsConcat
<1>7. Append(<<r>>, b) \o <<>> = Append(<<r>>, b)
  <2>1. Append(<<r>>, b) \in Seq(Parse!RefForms)
    BY <1>5, AppendProperties
  <2> QED
    BY <2>1, ConcatEmptySeq
<1>8. Parse!FieldRefs(FieldOf(r, u)) = <<r>>
  BY <1>4, <1>6, RefsAre
<1>9. Parse!FieldRefs(FieldOf(r, v)) = Append(<<r>>, b)
  BY <1>4, <1>6, <1>7, RefsAre
<1> QED
  BY <1>3, <1>5, <1>8, <1>9 DEF RefAdded

LEMMA PrecisionRefs1 ==
  ASSUME NEW r \in Parse!RefForms, NEW u \in Parse!SpecForms, NEW v \in Parse!SpecForms,
         u.width = v.width, u.precision = Parse!Nothing, v.precision.what = "ref"
  PROVE  /\ RefAdded(r, u, v, v.precision.ref)
         /\ Len(Parse!FieldRefs(FieldOf(r, u))) = 1 + OneIf(u.width.what = "ref")
<1>1. Parse!Nothing.what = "nothing"
  BY DEF Parse!Nothing
<1>2. v.precision.ref \in Parse!RefForms
  BY PartsOfSpecs, KindOfAmount
<1>3. PICK b \in Parse!RefForms : b = v.precision.ref
  BY <1>2
<1>4. PrecisionRefs(u) = <<>> /\ PrecisionRefs(v) = <<b>>
  BY <1>1, <1>3, AmountRefs
<1>5. WidthRefs(v) = WidthRefs(u)
  BY DEF WidthRefs
<1>6. PICK x \in Seq(Parse!RefForms) : x = <<r>> \o WidthRefs(u)
  BY RefsAre
<1>7. x \o <<>> = x /\ x \o <<b>> = Append(x, b)
  BY <1>6, ConcatEmptySeq, AppendIsConcat
<1>8. Parse!FieldRefs(FieldOf(r, u)) = x
  BY <1>4, <1>6, <1>7, RefsAre
<1>9. Parse!FieldRefs(FieldOf(r, v)) = Append(x, b)
  BY <1>4, <1>5, <1>6, <1>7, RefsAre
<1> QED
  BY <1>3, <1>6, <1>8, <1>9, RefsAre DEF RefAdded

LEMMA NoDigits == "fill" \notin Parse!DigitChars
<1>1. \A i \in 1..10 : i = 1 \/ i = 2 \/ i = 3 \/ i = 4 \/ i = 5 \/ i = 6 \/ i = 7 \/ i = 8 \/ i = 9 \/ i = 10
  OBVIOUS
<1>2. \A i \in 1..10 : Parse!Digits[i] # "fill"
  BY <1>1 DEF Parse!Digits
<1>4. Parse!DigitChars = {Parse!Digits[i] : i \in 1..10}
  BY DigitsAre DEF Parse!DigitChars, Parse!ToSet, ToSet
<1> QED
  BY <1>2, <1>4

LEMMA NotLost == ASSUME NEW sp, NEW n \in 0..7, n < 5 PROVE ~Lost(sp, n)
BY DEF Lost

LEMMA AmountTaken ==
  ASSUME Parse!ParseAssumption, fmt \in FormatStrings, SpecsInv, phase = "specs",
         NEW s, NEW r, NEW u, NEW refs, NEW k, InField(s, r, u, refs, k),
         NEW v, NEW more, Open(s, r, v, more, k), NEW id, Counts(more, id), Parse!Target(more, k) = Parse!Target(refs, k),
         NEW n \in 0..7, Stage(v, n), NEW e \in p..(Len(fmt) + 1), Adds(v, u, e),
         specs' = SpecsRead(v, more, k), state' = n, p' = e, next_arg_id' = id, fmt' = fmt, arg' = arg, out' = out
  PROVE  SpecsInv'
<1>1. Open(s, r, u, refs, k) /\ Parse!Mean(s) = out /\ arg = Parse!Target(refs, k) /\ ReadTo(s, r, u, p)
  BY DEF InField
<1>2. s \in Seq(Parse!TokenForms) /\ r \in Parse!RefForms /\ u \in Parse!SpecForms /\ v \in Parse!SpecForms
  BY <1>1 DEF Open, Sentence
<1>3. p \in 1..(Len(fmt) + 1) /\ IsSequence(out)
  BY InSpecsAt
<1>4. ReadTo(s, r, v, e) /\ e \in 1..(Len(fmt) + 1)
  BY <1>1, <1>2, <1>3, PieceIsBehind
<1> QED
  BY <1>1, <1>3, <1>4, SpecsGoOn

LEMMA DynamicIs ==
  ASSUME NEW n, NEW d, NEW new, Parse!TookDynamic(n, d, new)
  PROVE  /\ state' = n /\ p' = d.end /\ specs' = new /\ fmt' = fmt /\ arg' = arg /\ out' = out
         /\ next_arg_id' = IF d.ref = Parse!NoRef THEN next_arg_id ELSE Parse!NextId(d.ref)
BY DEF Parse!TookDynamic

LEMMA RecordRefs ==
  ASSUME NEW a, NEW b, NEW c, NEW d, NEW e, NEW f, NEW g, NEW h, NEW i, NEW j, NEW k
  PROVE  LET sp == Record(a, b, c, d, e, f, g, h, i, j, k)
         IN  {"width_ref", "precision_ref"} \subseteq DOMAIN sp /\ sp.width_ref = j /\ sp.precision_ref = k
BY DEF Record

LEMMA IndexIs == ASSUME NEW ref PROVE Parse!Index(ref) # Parse!NoRef /\ Parse!Index(ref).index = Parse!ArgId(ref) /\ Parse!Index(ref) = [kind |-> "index", index |-> Parse!ArgId(ref)]
<1>1. Parse!Index(ref).kind = "index" /\ Parse!NoRef.kind = "none"
  BY DEF Parse!Index, Parse!NoRef
<1>2. Parse!Index(ref) = [kind |-> "index", index |-> Parse!ArgId(ref)] /\ Parse!Index(ref).index = Parse!ArgId(ref)
  BY DEF Parse!Index
<1> QED
  BY <1>1, <1>2

LEMMA WidthKeeps == ASSUME Parse!ParseAssumption, fmt \in FormatStrings, SpecsInv, Parse!Width PROVE SpecsInv'
<1>1. PICK d : d = Parse!DynamicSpec(p)
  OBVIOUS
<1>2. PICK new : new = IF d.ref = Parse!NoRef THEN PutWidth(specs, d.value) ELSE PutWidthRef(specs, Parse!Index(d.ref))
  OBVIOUS
<1>3. phase = "specs" /\ (Parse!C = "{" \/ (Parse!IsDigit(Parse!C) /\ Parse!C # "0")) /\ state < 5 /\ d.ok /\ Parse!TookDynamic(5, d, new)
  BY <1>1, <1>2 DEF Parse!Width, Parse!Entering, PutWidth, PutWidthRef
<1>4. Parse!C = Parse!At(p)
  BY <1>3, CharIs, NoDigits DEF Parse!IsDigit
<1>5. p \in 1..(Len(fmt) + 1) /\ state \in 0..7 /\ IsSequence(out) /\ Len(fmt) \in Nat
      /\ (Lost(specs, state) \/ \E s, r, u, refs, k : InField(s, r, u, refs, k))
  BY <1>3, InSpecsAt
<1>6. d.end \in p..(Len(fmt) + 1) /\ (IsNumberTo(d, p) \/ IsRefTo(d, p))
  BY <1>1, <1>3, <1>5, NumberSpec, RefSpec
<1>7. ~Lost(specs, state)
  BY <1>3, <1>5, NotLost
<1>8. PICK s, r, u, refs, k : InField(s, r, u, refs, k)
  BY <1>5, <1>7
<1>9. /\ Open(s, r, u, refs, k) /\ r \in Parse!RefForms /\ u \in Parse!SpecForms /\ Stage(u, state) /\ Counts(refs, next_arg_id)
      /\ NumbersFit(u) /\ Parse!Fit(u, Parse!ArgOf(Parse!Target(refs, k)).type) /\ specs = SpecsRead(u, refs, k)
  BY <1>8 DEF InField, Open
<1>10. Stage(u, 4) /\ u.width = Parse!Nothing /\ u.precision = Parse!Nothing
  <2>1. state \in 0..7 /\ state < 5
    BY <1>3, <1>5
  <2>2. state \in Int /\ state <= 4 /\ 4 \in Int
    BY <2>1
  <2>3. Stage(u, 4)
    BY <1>9, <2>2, StageGrows
  <2> QED
    BY <2>3 DEF Stage
<1>11. /\ Parse!Nothing.what = "nothing" /\ PrecisionOf(u) = -1 /\ WidthRefOf(u, refs, k) = Parse!NoRef
       /\ PrecisionRefOf(u, refs, k) = Parse!NoRef
  BY <1>10 DEF Parse!Nothing, PrecisionOf, WidthRefOf, PrecisionRefOf
<1>12. /\ state' = 5 /\ p' = d.end /\ specs' = new /\ fmt' = fmt /\ arg' = arg /\ out' = out /\ 5 \in 0..7
       /\ next_arg_id' = IF d.ref = Parse!NoRef THEN next_arg_id ELSE Parse!NextId(d.ref)
  <2>1. Parse!TookDynamic(5, d, new)
    BY <1>3
  <2> QED
    BY <2>1, DynamicIs
<1>13. ASSUME NEW v \in Parse!SpecForms, NEW x \in Parse!AmountForms, Parse!SpellAmount(x) = Word(p, d.end),
              ParsedPieces(v, u.align, u.sign, u.hash, u.zero, x, u.precision, u.locale, u.type)
       PROVE  /\ Stage(v, 5) /\ Parse!Fit(v, Parse!ArgOf(Parse!Target(refs, k)).type) /\ Adds(v, u, d.end)
              /\ v.width = x /\ v.precision = Parse!Nothing
              /\ \A w, pr, wr, prr : SpecsAre(v, w, pr, wr, prr) = Record(TypeMeans(u), AlignMeans(u), SignMeans(u), UpperMeans(u),
                                                u.hash, u.locale, FillMeans(u), w, pr, wr, prr)
  <2>1. Stage(v, 5) /\ v.width = x /\ v.precision = Parse!Nothing
    BY <1>10, <1>13 DEF Stage, ParsedPieces
  <2>2. Parse!Fit(v, Parse!ArgOf(Parse!Target(refs, k)).type)
    BY <1>9, <1>13 DEF Parse!Fit, ParsedPieces
  <2>3. Parse!SpellSpecs(u) = S4(u) /\ Parse!SpellSpecs(v) = S4(v) \o Parse!SpellAmount(x)
    BY <1>9, <1>10, <2>1, SpelledSoFar DEF S5
  <2>4. S4(v) = S4(u)
    BY <1>13 DEF S4, S3, S2, ParsedPieces
  <2>5. Adds(v, u, d.end)
    BY <1>13, <2>3, <2>4 DEF Adds
  <2>6. /\ TypeMeans(v) = TypeMeans(u) /\ AlignMeans(v) = AlignMeans(u) /\ UpperMeans(v) = UpperMeans(u)
        /\ v.hash = u.hash /\ v.locale = u.locale /\ FillMeans(v) = FillMeans(u) /\ SignMeans(v) = SignMeans(u)
    BY <1>13 DEF ParsedPieces, TypeMeans, AlignMeans, UpperMeans, FillMeans, SignMeans
  <2> QED
    BY <2>1, <2>2, <2>5, <2>6 DEF SpecsAre
<1>14. CASE IsNumberTo(d, p)
  <2>1. /\ d.ref = Parse!NoRef /\ d.value \in 0..Parse!IntMax /\ Parse!IsDigit(Parse!At(p))
        /\ Word(p, d.end) \in Parse!Numerals /\ Word(p, d.end)[1] = Parse!At(p) /\ d.value = Parse!Value(Word(p, d.end))
    BY <1>14 DEF IsNumberTo
  <2>2. PICK x \in Parse!AmountForms : x.what = "number" /\ x.digits = Word(p, d.end) /\ x # Parse!Nothing /\ Parse!SpellAmount(x) = Word(p, d.end)
    BY <2>1, NumberAmount
  <2>3. x.digits[1] # "0"
    <3>1. Parse!C # "0"
      BY <1>3
    <3> QED
      BY <1>4, <2>1, <2>2, <3>1
  <2>4. PICK v \in Parse!SpecForms : ParsedPieces(v, u.align, u.sign, u.hash, u.zero, x, u.precision, u.locale, u.type)
    BY <1>9, <2>3, WithWidth
  <2>5. /\ Stage(v, 5) /\ Parse!Fit(v, Parse!ArgOf(Parse!Target(refs, k)).type) /\ Adds(v, u, d.end)
        /\ v.width = x /\ v.precision = Parse!Nothing
        /\ \A w, pr, wr, prr : SpecsAre(v, w, pr, wr, prr) = Record(TypeMeans(u), AlignMeans(u), SignMeans(u), UpperMeans(u),
                                          u.hash, u.locale, FillMeans(u), w, pr, wr, prr)
    BY <1>13, <2>2, <2>4
  <2>6. Parse!FieldRefs(FieldOf(r, v)) = Parse!FieldRefs(FieldOf(r, u))
    BY <1>9, <1>10, <1>11, <2>2, <2>5, NumberRefs
  <2>7. NumbersFit(v)
    BY <1>11, <2>1, <2>2, <2>5 DEF NumbersFit
  <2>8. Open(s, r, v, refs, k)
    BY <1>9, <2>5, <2>6, <2>7 DEF Open
  <2>9. WidthOf(v) = d.value /\ PrecisionOf(v) = PrecisionOf(u) /\ WidthRefOf(v, refs, k) = Parse!NoRef /\ PrecisionRefOf(v, refs, k) = Parse!NoRef
    BY <1>10, <1>11, <2>1, <2>2, <2>5 DEF WidthOf, PrecisionOf, WidthRefOf, PrecisionRefOf
  <2>10. new = SpecsRead(v, refs, k)
    <3>1. new = PutWidth(specs, d.value)
      BY <1>2, <2>1
    <3>2. specs = Record(TypeMeans(u), AlignMeans(u), SignMeans(u), UpperMeans(u), u.hash, u.locale, FillMeans(u),
                         WidthOf(u), PrecisionOf(u), Parse!NoRef, Parse!NoRef)
      BY <1>9, <1>11 DEF SpecsRead, SpecsAre
    <3>3. new = Record(TypeMeans(u), AlignMeans(u), SignMeans(u), UpperMeans(u), u.hash, u.locale, FillMeans(u),
                         d.value, PrecisionOf(u), Parse!NoRef, Parse!NoRef)
      BY <3>1, <3>2, PutWidthIs
    <3> QED
      BY <2>5, <2>9, <3>3 DEF SpecsRead
  <2>11. next_arg_id' = next_arg_id
    BY <1>12, <2>1
  <2> QED
    BY <1>3, <1>6, <1>8, <1>9, <1>12, <2>5, <2>8, <2>10, <2>11, AmountTaken
<1>15. CASE IsRefTo(d, p)
  <2>1. PICK ref \in Parse!RefForms : ref = d.ref
    BY <1>15 DEF IsRefTo
  <2>2. /\ d.ref # Parse!NoRef /\ Parse!CanRefer(ref)
        /\ Parse!HasArg(Parse!ArgId(ref)) => Word(p, d.end) = <<"{">> \o Parse!SpellRef(ref) \o <<"}">>
    BY <1>15, <2>1 DEF IsRefTo
  <2>3. new = PutWidthRef(specs, Parse!Index(ref))
    BY <1>2, <2>1, <2>2
  <2>4. specs = Record(TypeMeans(u), AlignMeans(u), SignMeans(u), UpperMeans(u), u.hash, u.locale, FillMeans(u),
                       WidthOf(u), PrecisionOf(u), Parse!NoRef, Parse!NoRef)
    BY <1>9, <1>11 DEF SpecsRead, SpecsAre
  <2>5. new = Record(TypeMeans(u), AlignMeans(u), SignMeans(u), UpperMeans(u), u.hash, u.locale, FillMeans(u),
                     WidthOf(u), PrecisionOf(u), Parse!Index(ref), Parse!NoRef)
    BY <2>3, <2>4, PutWidthRefIs
  <2>6. CASE ~Parse!HasArg(Parse!ArgId(ref))
    <3>1. {"width_ref", "precision_ref"} \subseteq DOMAIN new /\ new.width_ref = Parse!Index(ref)
      BY <2>5, RecordRefs
    <3>2. Lost(new, 5)
      BY <2>6, <3>1, IndexIs DEF Lost
    <3>3. d.end \in 1..(Len(fmt) + 1)
      <4>1. p \in 1..(Len(fmt) + 1) /\ Len(fmt) \in Nat /\ d.end \in p..(Len(fmt) + 1)
        BY <1>5, <1>6
      <4> QED
        BY <4>1
    <3>4. p' \in 1..(Len(fmt) + 1) /\ state' \in 0..7
      BY <1>12, <3>3
    <3> QED
      BY <1>5, <1>12, <3>2, <3>4, SpecsStayLost
  <2>7. CASE Parse!HasArg(Parse!ArgId(ref))
    <3>1. PICK x \in Parse!AmountForms : x.what = "ref" /\ x.ref = ref /\ x # Parse!Nothing /\ Parse!SpellAmount(x) = Word(p, d.end)
      BY <2>2, <2>7, RefAmount
    <3>2. PICK v \in Parse!SpecForms : ParsedPieces(v, u.align, u.sign, u.hash, u.zero, x, u.precision, u.locale, u.type)
      BY <1>9, <3>1, WithWidth
    <3>3. /\ Stage(v, 5) /\ Parse!Fit(v, Parse!ArgOf(Parse!Target(refs, k)).type) /\ Adds(v, u, d.end)
          /\ v.width = x /\ v.precision = Parse!Nothing
          /\ \A w, pr, wr, prr : SpecsAre(v, w, pr, wr, prr) = Record(TypeMeans(u), AlignMeans(u), SignMeans(u), UpperMeans(u),
                                            u.hash, u.locale, FillMeans(u), w, pr, wr, prr)
      BY <1>13, <3>1, <3>2
    <3>4. RefAdded(r, u, v, ref) /\ Len(Parse!FieldRefs(FieldOf(r, u))) = 1
      BY <1>9, <1>10, <3>1, <3>3, WidthRefs1
    <3>5. NumbersFit(v)
      BY <1>11, <3>1, <3>3 DEF NumbersFit
    <3>6. PICK more : more = Append(refs, ref)
      OBVIOUS
    <3>7. /\ Open(s, r, v, more, k) /\ Counts(more, Parse!NextId(ref)) /\ Parse!Target(more, Len(refs) + 1) = Parse!ArgId(ref)
          /\ Parse!Target(more, k) = Parse!Target(refs, k) /\ k \in Nat /\ Len(refs) = k - 1 + Len(Parse!FieldRefs(FieldOf(r, u)))
      <4>1. Open(s, r, u, refs, k) /\ Counts(refs, next_arg_id) /\ Parse!CanRefer(ref)
        BY <1>9, <2>2
      <4>2. RefAdded(r, u, v, ref) /\ Parse!Fit(v, Parse!ArgOf(Parse!Target(refs, k)).type)
        BY <3>3, <3>4
      <4>3. RefTook(s, r, u, v, refs, k, ref, more)
        BY <3>5, <3>6, <4>1, <4>2, RefTaken
      <4> QED
        BY <4>3 DEF RefTook
    <3>8. Parse!Target(more, k + 1) = Parse!ArgId(ref)
      BY <3>4, <3>7
    <3>9. /\ WidthOf(v) = WidthOf(u) /\ PrecisionOf(v) = PrecisionOf(u)
          /\ WidthRefOf(v, more, k) = Parse!Index(ref) /\ PrecisionRefOf(v, more, k) = Parse!NoRef
      BY <1>10, <1>11, <3>1, <3>3, <3>8, IndexIs DEF WidthOf, PrecisionOf, WidthRefOf, PrecisionRefOf
    <3>10. new = SpecsRead(v, more, k)
      BY <2>5, <3>3, <3>9 DEF SpecsRead
    <3>11. next_arg_id' = Parse!NextId(ref)
      BY <1>12, <2>1, <2>2
    <3> QED
      BY <1>3, <1>6, <1>8, <1>12, <3>3, <3>7, <3>10, <3>11, AmountTaken
  <2> QED
    BY <2>6, <2>7
<1> QED
  BY <1>6, <1>14, <1>15

LEMMA PutRefsKeep ==
  ASSUME NEW sp, {"width_ref", "precision_ref"} \subseteq DOMAIN sp, NEW x
  PROVE  /\ DOMAIN PutPrecision(sp, x) = DOMAIN sp /\ DOMAIN PutPrecisionRef(sp, x) = DOMAIN sp
         /\ PutPrecision(sp, x).width_ref = sp.width_ref /\ PutPrecisionRef(sp, x).width_ref = sp.width_ref
BY DEF PutPrecision, PutPrecisionRef

(* A precision begins with a point.                                        *)
LEMMA PointAdds ==
  ASSUME Parse!ParseAssumption, fmt \in FormatStrings, p \in 1..(Len(fmt) + 1), NEW b \in p..(Len(fmt) + 1),
         Word(p, b) = <<".">>, NEW e \in b..(Len(fmt) + 1),
         NEW u \in Parse!SpecForms, NEW v \in Parse!SpecForms, Stage(u, 5), Stage(v, 6), S5(v) = S5(u),
         v.precision # Parse!Nothing, Parse!SpellAmount(v.precision) = Word(b, e)
  PROVE  Adds(v, u, e) /\ e \in p..(Len(fmt) + 1)
<1>1. Parse!SpellSpecs(u) = S5(u) /\ Parse!SpellSpecs(v) = S6(v)
  BY SpelledSoFar
<1>2. SpellPrecision(v) = <<".">> \o Word(b, e)
  BY DEF SpellPrecision, Parse!Opt
<1>3. Len(fmt) \in Nat
  BY Chars
<1>4. b \in 1..(Len(fmt) + 1) /\ e \in p..(Len(fmt) + 1)
  BY <1>3
<1>5. Word(p, b) \o Word(b, e) = Word(p, e)
  BY WordsJoin
<1>6. S6(v) = S5(u) \o Word(p, e)
  BY <1>2, <1>5 DEF S6
<1> QED
  BY <1>1, <1>4, <1>6 DEF Adds

LEMMA PrecisionKeeps == ASSUME Parse!ParseAssumption, fmt \in FormatStrings, SpecsInv, Parse!Precision PROVE SpecsInv'
<1>1. PICK d : d = Parse!DynamicSpec(p + 1)
  OBVIOUS
<1>2. PICK new : new = IF d.ref = Parse!NoRef THEN PutPrecision(specs, d.value) ELSE PutPrecisionRef(specs, Parse!Index(d.ref))
  OBVIOUS
<1>3. phase = "specs" /\ Parse!C = "." /\ state < 6 /\ Parse!ArgOf(arg).type \in Parse!float_set \cup {"string", "cstring"} /\ d.ok /\ Parse!TookDynamic(6, d, new)
  BY <1>1, <1>2 DEF Parse!Precision, Parse!Entering, PutPrecision, PutPrecisionRef
<1>4. Parse!C = Parse!At(p)
  BY <1>3, CharIs
<1>5. p \in 1..(Len(fmt) + 1) /\ state \in 0..7 /\ IsSequence(out) /\ Len(fmt) \in Nat
      /\ (Lost(specs, state) \/ \E s, r, u, refs, k : InField(s, r, u, refs, k))
      /\ p + 1 \in 1..(Len(fmt) + 1) /\ p + 1 \in p..(Len(fmt) + 1) /\ Word(p, p + 1) = <<".">>
  BY <1>3, <1>4, InSpecsAt
<1>b. PICK b \in 1..(Len(fmt) + 1) : b = p + 1
  BY <1>5
<1>6. d.end \in b..(Len(fmt) + 1) /\ (IsNumberTo(d, b) \/ IsRefTo(d, b))
  BY <1>1, <1>3, <1>b, NumberSpec, RefSpec
<1>7. d.end \in p..(Len(fmt) + 1) /\ d.end \in 1..(Len(fmt) + 1)
  <2>1. p \in 1..(Len(fmt) + 1) /\ d.end \in b..(Len(fmt) + 1) /\ Len(fmt) \in Nat
    BY <1>5, <1>6
  <2> QED
    BY <1>b, <2>1
<1>8. /\ state' = 6 /\ p' = d.end /\ specs' = new /\ fmt' = fmt /\ arg' = arg /\ out' = out /\ 6 \in 0..7
      /\ next_arg_id' = IF d.ref = Parse!NoRef THEN next_arg_id ELSE Parse!NextId(d.ref)
  <2>1. Parse!TookDynamic(6, d, new)
    BY <1>3
  <2> QED
    BY <2>1, DynamicIs
<1>9. p' \in 1..(Len(fmt) + 1) /\ state' \in 0..7
  BY <1>7, <1>8
<1>10. CASE Lost(specs, state)
  <2>1. {"width_ref", "precision_ref"} \subseteq DOMAIN specs /\ specs.width_ref # Parse!NoRef /\ ~Parse!HasArg(specs.width_ref.index)
    BY <1>3, <1>5, <1>10 DEF Lost
  <2>2. DOMAIN new = DOMAIN specs /\ new.width_ref = specs.width_ref
    BY <1>2, <2>1, PutRefsKeep
  <2>3. Lost(new, 6)
    BY <2>1, <2>2 DEF Lost
  <2> QED
    BY <1>5, <1>8, <1>9, <2>3, SpecsStayLost
<1>11. CASE \E s, r, u, refs, k : InField(s, r, u, refs, k)
  <2>1. PICK s, r, u, refs, k : InField(s, r, u, refs, k)
    BY <1>11
  <2>2. /\ Open(s, r, u, refs, k) /\ r \in Parse!RefForms /\ u \in Parse!SpecForms /\ Stage(u, state) /\ Counts(refs, next_arg_id)
        /\ NumbersFit(u) /\ Parse!Fit(u, Parse!ArgOf(Parse!Target(refs, k)).type) /\ specs = SpecsRead(u, refs, k) /\ arg = Parse!Target(refs, k)
    BY <2>1 DEF InField, Open
  <2>3. Stage(u, 5) /\ u.precision = Parse!Nothing
    <3>1. state \in 0..7 /\ state < 6
      BY <1>3, <1>5
    <3>2. state \in Int /\ state <= 5 /\ 5 \in Int
      BY <3>1
    <3>3. Stage(u, 5)
      BY <2>2, <3>2, StageGrows
    <3> QED
      BY <3>3 DEF Stage
  <2>4. Parse!Nothing.what = "nothing" /\ PrecisionRefOf(u, refs, k) = Parse!NoRef
    BY <2>3 DEF Parse!Nothing, PrecisionRefOf
  <2>5. ASSUME NEW v \in Parse!SpecForms, NEW x \in Parse!AmountForms, Parse!SpellAmount(x) = Word(b, d.end), x # Parse!Nothing,
               ParsedPieces(v, u.align, u.sign, u.hash, u.zero, u.width, x, u.locale, u.type)
        PROVE  /\ Stage(v, 6) /\ Parse!Fit(v, Parse!ArgOf(Parse!Target(refs, k)).type) /\ Adds(v, u, d.end)
               /\ v.width = u.width /\ v.precision = x
               /\ \A w, pr, wr, prr : SpecsAre(v, w, pr, wr, prr) = Record(TypeMeans(u), AlignMeans(u), SignMeans(u), UpperMeans(u),
                                                 u.hash, u.locale, FillMeans(u), w, pr, wr, prr)
    <3>1. Stage(v, 6) /\ v.width = u.width /\ v.precision = x
      BY <2>3, <2>5 DEF Stage, ParsedPieces
    <3>2. Parse!Fit(v, Parse!ArgOf(Parse!Target(refs, k)).type)
      BY <1>3, <2>2, <2>5 DEF Parse!Fit, ParsedPieces
    <3>3. S5(v) = S5(u)
      BY <2>5 DEF S5, S4, S3, S2, ParsedPieces
    <3>4. Adds(v, u, d.end)
      BY <1>5, <1>6, <1>b, <2>2, <2>3, <2>5, <3>1, <3>3, PointAdds
    <3>5. /\ TypeMeans(v) = TypeMeans(u) /\ AlignMeans(v) = AlignMeans(u) /\ UpperMeans(v) = UpperMeans(u)
          /\ v.hash = u.hash /\ v.locale = u.locale /\ FillMeans(v) = FillMeans(u) /\ SignMeans(v) = SignMeans(u)
      BY <2>5 DEF ParsedPieces, TypeMeans, AlignMeans, UpperMeans, FillMeans, SignMeans
    <3> QED
      BY <3>1, <3>2, <3>4, <3>5 DEF SpecsAre
  <2>6. specs = Record(TypeMeans(u), AlignMeans(u), SignMeans(u), UpperMeans(u), u.hash, u.locale, FillMeans(u),
                       WidthOf(u), PrecisionOf(u), WidthRefOf(u, refs, k), Parse!NoRef)
    BY <2>2, <2>4 DEF SpecsRead, SpecsAre
  <2>7. CASE IsNumberTo(d, b)
    <3>1. d.ref = Parse!NoRef /\ d.value \in 0..Parse!IntMax /\ Word(b, d.end) \in Parse!Numerals /\ d.value = Parse!Value(Word(b, d.end))
      BY <2>7 DEF IsNumberTo
    <3>2. PICK x \in Parse!AmountForms : x.what = "number" /\ x.digits = Word(b, d.end) /\ x # Parse!Nothing /\ Parse!SpellAmount(x) = Word(b, d.end)
      BY <3>1, NumberAmount
    <3>3. PICK v \in Parse!SpecForms : ParsedPieces(v, u.align, u.sign, u.hash, u.zero, u.width, x, u.locale, u.type)
      BY <2>2, WithPrecision
    <3>4. /\ Stage(v, 6) /\ Parse!Fit(v, Parse!ArgOf(Parse!Target(refs, k)).type) /\ Adds(v, u, d.end)
          /\ v.width = u.width /\ v.precision = x
          /\ \A w, pr, wr, prr : SpecsAre(v, w, pr, wr, prr) = Record(TypeMeans(u), AlignMeans(u), SignMeans(u), UpperMeans(u),
                                            u.hash, u.locale, FillMeans(u), w, pr, wr, prr)
      BY <2>5, <3>2, <3>3
    <3>5. Parse!FieldRefs(FieldOf(r, v)) = Parse!FieldRefs(FieldOf(r, u))
      BY <2>2, <2>3, <2>4, <3>2, <3>4, NumberRefs
    <3>6. NumbersFit(v)
      BY <2>2, <3>1, <3>2, <3>4 DEF NumbersFit
    <3>7. Open(s, r, v, refs, k)
      BY <2>2, <3>4, <3>5, <3>6 DEF Open
    <3>8. /\ WidthOf(v) = WidthOf(u) /\ PrecisionOf(v) = d.value /\ WidthRefOf(v, refs, k) = WidthRefOf(u, refs, k)
          /\ PrecisionRefOf(v, refs, k) = Parse!NoRef
      BY <3>1, <3>2, <3>4 DEF WidthOf, PrecisionOf, WidthRefOf, PrecisionRefOf
    <3>9. new = Record(TypeMeans(u), AlignMeans(u), SignMeans(u), UpperMeans(u), u.hash, u.locale, FillMeans(u),
                       WidthOf(u), d.value, WidthRefOf(u, refs, k), Parse!NoRef)
      BY <1>2, <2>6, <3>1, PutPrecisionIs
    <3>10. new = SpecsRead(v, refs, k)
      BY <3>4, <3>8, <3>9 DEF SpecsRead
    <3>11. next_arg_id' = next_arg_id
      BY <1>8, <3>1
    <3> QED
      BY <1>3, <1>7, <1>8, <2>1, <2>2, <3>4, <3>7, <3>10, <3>11, AmountTaken
  <2>8. CASE IsRefTo(d, b)
    <3>1. PICK ref \in Parse!RefForms : ref = d.ref
      BY <2>8 DEF IsRefTo
    <3>2. /\ d.ref # Parse!NoRef /\ Parse!CanRefer(ref)
          /\ Parse!HasArg(Parse!ArgId(ref)) => Word(b, d.end) = <<"{">> \o Parse!SpellRef(ref) \o <<"}">>
      BY <2>8, <3>1 DEF IsRefTo
    <3>3. new = Record(TypeMeans(u), AlignMeans(u), SignMeans(u), UpperMeans(u), u.hash, u.locale, FillMeans(u),
                       WidthOf(u), PrecisionOf(u), WidthRefOf(u, refs, k), Parse!Index(ref))
      <4>1. new = PutPrecisionRef(specs, Parse!Index(ref))
        BY <1>2, <3>1, <3>2
      <4> QED
        BY <2>6, <4>1, PutPrecisionRefIs
    <3>4. CASE ~Parse!HasArg(Parse!ArgId(ref))
      <4>1. {"width_ref", "precision_ref"} \subseteq DOMAIN new /\ new.precision_ref = Parse!Index(ref)
        BY <3>3, RecordRefs
      <4>2. Lost(new, 6)
        BY <3>4, <4>1, IndexIs DEF Lost
      <4> QED
        BY <1>5, <1>8, <1>9, <4>2, SpecsStayLost
    <3>5. CASE Parse!HasArg(Parse!ArgId(ref))
      <4>1. PICK x \in Parse!AmountForms : x.what = "ref" /\ x.ref = ref /\ x # Parse!Nothing /\ Parse!SpellAmount(x) = Word(b, d.end)
        BY <3>2, <3>5, RefAmount
      <4>2. PICK v \in Parse!SpecForms : ParsedPieces(v, u.align, u.sign, u.hash, u.zero, u.width, x, u.locale, u.type)
        BY <2>2, WithPrecision
      <4>3. /\ Stage(v, 6) /\ Parse!Fit(v, Parse!ArgOf(Parse!Target(refs, k)).type) /\ Adds(v, u, d.end)
            /\ v.width = u.width /\ v.precision = x
            /\ \A w, pr, wr, prr : SpecsAre(v, w, pr, wr, prr) = Record(TypeMeans(u), AlignMeans(u), SignMeans(u), UpperMeans(u),
                                              u.hash, u.locale, FillMeans(u), w, pr, wr, prr)
        BY <2>5, <4>1, <4>2
      <4>4. RefAdded(r, u, v, ref) /\ Len(Parse!FieldRefs(FieldOf(r, u))) = 1 + OneIf(u.width.what = "ref")
        BY <2>2, <2>3, <4>1, <4>3, PrecisionRefs1
      <4>5. NumbersFit(v)
        BY <2>2, <4>1, <4>3 DEF NumbersFit
      <4>6. PICK more : more = Append(refs, ref)
        OBVIOUS
      <4>7. RefTook(s, r, u, v, refs, k, ref, more)
        BY <2>2, <3>2, <4>3, <4>4, <4>5, <4>6, RefTaken
      <4>8. /\ Open(s, r, v, more, k) /\ Counts(more, Parse!NextId(ref)) /\ Parse!Target(more, Len(refs) + 1) = Parse!ArgId(ref)
            /\ Parse!Target(more, k) = Parse!Target(refs, k) /\ k \in Nat /\ k >= 1 /\ Len(refs) = k - 1 + Len(Parse!FieldRefs(FieldOf(r, u)))
            /\ Longer(refs, more) /\ refs \in Seq(Parse!RefForms)
        BY <4>7 DEF RefTook
      <4>9. OneIf(u.width.what = "ref") \in 0..1 /\ OneIf(v.width.what = "ref") = OneIf(u.width.what = "ref")
        BY <4>3 DEF OneIf
      <4>10. Parse!Target(more, k + 1 + OneIf(v.width.what = "ref")) = Parse!ArgId(ref)
        BY <4>4, <4>8, <4>9, SMTT(40)
      <4>11. PrecisionRefOf(v, more, k) = Parse!Index(ref)
        BY <4>1, <4>3, <4>10, IndexIs DEF PrecisionRefOf
      <4>12. WidthRefOf(v, more, k) = WidthRefOf(u, refs, k)
        <5>1. CASE u.width.what = "ref"
          <6>1. OneIf(u.width.what = "ref") = 1
            BY <5>1 DEF OneIf
          <6>2. Len(refs) = k + 1 /\ k + 1 \in 1..Len(refs)
            BY <4>4, <4>8, <6>1, SMTT(40)
          <6>3. Parse!Target(more, k + 1) = Parse!Target(refs, k + 1)
            BY <4>8, <6>2, SameTarget
          <6> QED
            BY <4>3, <6>3 DEF WidthRefOf
        <5>2. CASE u.width.what # "ref"
          BY <4>3, <5>2 DEF WidthRefOf
        <5> QED
          BY <5>1, <5>2
      <4>13. WidthOf(v) = WidthOf(u) /\ PrecisionOf(v) = PrecisionOf(u)
        BY <2>3, <2>4, <4>1, <4>3 DEF WidthOf, PrecisionOf
      <4>14. new = SpecsRead(v, more, k)
        BY <3>3, <4>3, <4>11, <4>12, <4>13 DEF SpecsRead
      <4>15. next_arg_id' = Parse!NextId(ref)
        BY <1>8, <3>1, <3>2
      <4> QED
        BY <1>3, <1>7, <1>8, <2>1, <4>3, <4>8, <4>14, <4>15, AmountTaken
    <3> QED
      BY <3>4, <3>5
  <2> QED
    BY <1>6, <2>7, <2>8
<1> QED
  BY <1>5, <1>10, <1>11

(* The references of a width and a precision are replaced by their values. *)
Closed(sp) == [sp EXCEPT !.width = Parse!Resolved(sp.width_ref, @), !.width_ref = Parse!NoRef,
                         !.precision = Parse!Resolved(sp.precision_ref, @), !.precision_ref = Parse!NoRef]

LEMMA ClosedIs ==
  ASSUME NEW a, NEW b, NEW c, NEW d, NEW e, NEW f, NEW g, NEW h, NEW i, NEW j, NEW k, NEW x, NEW y,
         x = Parse!Resolved(j, h), y = Parse!Resolved(k, i)
  PROVE  Closed(Record(a, b, c, d, e, f, g, h, i, j, k)) = Record(a, b, c, d, e, f, g, x, y, Parse!NoRef, Parse!NoRef)
<1>1. PICK sp : sp = Record(a, b, c, d, e, f, g, h, i, j, k)
  OBVIOUS
<1>2. sp.width_ref = j /\ sp.precision_ref = k /\ sp.width = h /\ sp.precision = i
  BY <1>1 DEF Record
<1>3. Closed(sp) = PutPrecisionRef(PutPrecision(PutWidthRef(PutWidth(sp, x), Parse!NoRef), y), Parse!NoRef)
  BY <1>1, <1>2 DEF Closed, Record, PutPrecisionRef, PutPrecision, PutWidthRef, PutWidth
<1> QED
  BY <1>1, <1>3, PutWidthIs, PutWidthRefIs, PutPrecisionIs, PutPrecisionRefIs

Ended(e, sp) ==
  /\ Parse!At(e) = "}" /\ Parse!DynamicOk(sp.width_ref) /\ Parse!DynamicOk(sp.precision_ref)
  /\ out' = Append(out, [arg |-> arg, specs |-> Closed(sp)])
  /\ p' = e + 1 /\ begin' = e + 1 /\ fmt' = fmt /\ next_arg_id' = next_arg_id

LEMMA EndsOrFails ==
  ASSUME NEW e, NEW sp, Parse!FieldEnds(e, sp)
  PROVE  phase' = "error" \/ (phase' = "text" /\ Ended(e, sp))
BY DEF Parse!FieldEnds, Parse!Fail, Ended, Closed

(* A width or precision that is right is that of the grammar.              *)
LEMMA DynamicIsOk ==
  ASSUME NEW i, Parse!DynamicOk([kind |-> "index", index |-> i])
  PROVE  IsAmount(i)
<1>1. PICK ref : ref = [kind |-> "index", index |-> i]
  OBVIOUS
<1>2. ref.kind = "index" /\ ref.index = i /\ Parse!NoRef.kind = "none"
  BY <1>1 DEF Parse!NoRef
<1>3. Parse!HasArg(i) /\ Parse!ArgOf(i).type \in Parse!integral_set \ {"bool", "char"} /\ Parse!ArgOf(i).value \in 0..Parse!IntMax
  BY <1>1, <1>2 DEF Parse!DynamicOk
<1>4. Parse!ArgOf(i).type \in Parse!sint_set \cup Parse!uint_set
  BY <1>3 DEF Parse!integral_set
<1> QED
  BY <1>3, <1>4 DEF IsAmount

LEMMA ResolvedIs ==
  ASSUME NEW i, NEW static
  PROVE  /\ Parse!Resolved([kind |-> "index", index |-> i], static) = Parse!ArgOf(i).value
         /\ Parse!Resolved(Parse!NoRef, static) = static
<1>1. PICK ref : ref = [kind |-> "index", index |-> i]
  OBVIOUS
<1>2. ref.index = i /\ ref # Parse!NoRef
  BY <1>1 DEF Parse!NoRef
<1> QED
  BY <1>1, <1>2 DEF Parse!Resolved

LEMMA WidthMeans ==
  ASSUME NEW u \in Parse!SpecForms, NumbersFit(u), NEW refs, NEW k, Parse!DynamicOk(WidthRefOf(u, refs, k))
  PROVE  /\ Parse!AmountOk(u.width, refs, k + 1)
         /\ Parse!Resolved(WidthRefOf(u, refs, k), WidthOf(u)) = Parse!Amount(u.width, 0, refs, k + 1)
<1>1. u.width \in Parse!AmountForms
  BY PartsOfSpecs
<1>a. PICK a, m, z : a = u.width /\ m = k + 1 /\ z = 0
  OBVIOUS
<1>2. CASE u.width.what = "nothing"
  <2>1. WidthRefOf(u, refs, k) = Parse!NoRef /\ WidthOf(u) = z
    BY <1>2, <1>a DEF WidthRefOf, WidthOf
  <2>2. Parse!AmountOk(u.width, refs, m)
    BY <1>2, AmountOkIs, Zenon
  <2>3. Parse!Amount(a, z, refs, m) = z
    BY <1>2, <1>a, AmountIs
  <2> QED
    BY <1>a, <2>1, <2>2, <2>3, ResolvedIs
<1>3. CASE u.width.what = "number"
  <2>1. WidthRefOf(u, refs, k) = Parse!NoRef /\ WidthOf(u) = Parse!Value(u.width.digits) /\ Parse!Value(u.width.digits) <= Parse!IntMax
    BY <1>3 DEF WidthRefOf, WidthOf, NumbersFit
  <2>2. Parse!AmountOk(u.width, refs, m)
    BY <1>3, <2>1, AmountOkIs, Zenon
  <2>3. Parse!Amount(a, z, refs, m) = Parse!Value(u.width.digits)
    BY <1>3, <1>a, AmountIs
  <2> QED
    BY <1>a, <2>1, <2>2, <2>3, ResolvedIs
<1>4. CASE u.width.what = "ref"
  <2>1. PICK i : i = Parse!Target(refs, m)
    OBVIOUS
  <2>2. WidthRefOf(u, refs, k) = [kind |-> "index", index |-> i]
    BY <1>4, <1>a, <2>1 DEF WidthRefOf
  <2>3. IsAmount(i)
    BY <2>2, DynamicIsOk
  <2>4. Parse!AmountOk(u.width, refs, m)
    BY <1>4, <2>1, <2>3, AmountOkIs, Zenon
  <2>5. Parse!Amount(a, z, refs, m) = Parse!ArgOf(i).value
    BY <1>4, <1>a, <2>1, AmountIs
  <2> QED
    BY <1>a, <2>2, <2>4, <2>5, ResolvedIs
<1> QED
  BY <1>1, <1>2, <1>3, <1>4, KindOfAmount

LEMMA PrecisionMeans ==
  ASSUME NEW u \in Parse!SpecForms, NumbersFit(u), NEW refs, NEW k \in Nat, Parse!DynamicOk(PrecisionRefOf(u, refs, k)),
         NEW t, t.specs = u
  PROVE  /\ Parse!AmountOk(u.precision, refs, Parse!After(t, k))
         /\ Parse!Resolved(PrecisionRefOf(u, refs, k), PrecisionOf(u)) = Parse!Amount(u.precision, -1, refs, Parse!After(t, k))
<1>1. u.precision \in Parse!AmountForms
  BY PartsOfSpecs
<1>a. PICK a, m, z : a = u.precision /\ m = Parse!After(t, k) /\ z = -1
  OBVIOUS
<1>2. CASE u.precision.what = "nothing"
  <2>1. PrecisionRefOf(u, refs, k) = Parse!NoRef /\ PrecisionOf(u) = z
    BY <1>2, <1>a DEF PrecisionRefOf, PrecisionOf
  <2>2. Parse!AmountOk(u.precision, refs, m)
    BY <1>2, AmountOkIs, Zenon
  <2>3. Parse!Amount(a, z, refs, m) = z
    BY <1>2, <1>a, AmountIs
  <2> QED
    BY <1>a, <2>1, <2>2, <2>3, ResolvedIs
<1>3. CASE u.precision.what = "number"
  <2>1. PrecisionRefOf(u, refs, k) = Parse!NoRef /\ PrecisionOf(u) = Parse!Value(u.precision.digits) /\ Parse!Value(u.precision.digits) <= Parse!IntMax
    BY <1>3 DEF PrecisionRefOf, PrecisionOf, NumbersFit
  <2>2. Parse!AmountOk(u.precision, refs, m)
    BY <1>3, <2>1, AmountOkIs, Zenon
  <2>3. Parse!Amount(a, z, refs, m) = Parse!Value(u.precision.digits)
    BY <1>3, <1>a, AmountIs
  <2> QED
    BY <1>a, <2>1, <2>2, <2>3, ResolvedIs
<1>4. CASE u.precision.what = "ref"
  <2>1. PICK i : i = Parse!Target(refs, m)
    OBVIOUS
  <2>2. m = k + 1 + OneIf(u.width.what = "ref")
    BY <1>a DEF Parse!After, OneIf
  <2>3. PrecisionRefOf(u, refs, k) = [kind |-> "index", index |-> i]
    BY <1>4, <2>1, <2>2 DEF PrecisionRefOf
  <2>4. IsAmount(i)
    BY <2>3, DynamicIsOk
  <2>5. Parse!AmountOk(u.precision, refs, m)
    BY <1>4, <2>1, <2>4, AmountOkIs, Zenon
  <2>6. Parse!Amount(a, z, refs, m) = Parse!ArgOf(i).value
    BY <1>4, <1>a, <2>1, AmountIs
  <2> QED
    BY <1>a, <2>3, <2>5, <2>6, ResolvedIs
<1> QED
  BY <1>1, <1>2, <1>3, <1>4, KindOfAmount

(* The specifiers are at their end.                                        *)
LEMMA FieldIsClosed ==
  ASSUME Parse!ParseAssumption, fmt \in FormatStrings, SpecsInv, phase = "specs",
         NEW s, NEW r, NEW u, NEW refs, NEW k, InField(s, r, u, refs, k),
         NEW v \in Parse!SpecForms, v.width = u.width, v.precision = u.precision, Parse!Fit(v, Parse!ArgOf(arg).type),
         NEW e \in p..(Len(fmt) + 1), Adds(v, u, e), NEW sp,
         sp = SpecsAre(v, WidthOf(u), PrecisionOf(u), WidthRefOf(u, refs, k), PrecisionRefOf(u, refs, k)),
         Ended(e, sp)
  PROVE  ReadInv'
<1>1. /\ Open(s, r, u, refs, k) /\ Counts(refs, next_arg_id) /\ Parse!Mean(s) = out /\ arg = Parse!Target(refs, k)
      /\ ReadTo(s, r, u, p)
  BY DEF InField
<1>2. Sentence(s) /\ s \in Seq(Parse!TokenForms) /\ r \in Parse!RefForms /\ u \in Parse!SpecForms
  BY <1>1 DEF Open, Sentence
<1>3. p \in 1..(Len(fmt) + 1) /\ Len(fmt) \in Nat /\ IsSequence(out)
  BY InSpecsAt
<1>4. /\ Open(s, r, v, refs, k) /\ WidthOf(v) = WidthOf(u) /\ PrecisionOf(v) = PrecisionOf(u)
      /\ WidthRefOf(v, refs, k) = WidthRefOf(u, refs, k) /\ PrecisionRefOf(v, refs, k) = PrecisionRefOf(u, refs, k)
  BY <1>1, PieceOpens
<1>5. ReadTo(s, r, v, e) /\ e \in 1..(Len(fmt) + 1)
  BY <1>1, <1>2, <1>3, PieceIsBehind
<1>6. /\ Parse!RefsAgree(refs) /\ Parse!HasArg(Parse!Target(refs, k)) /\ Parse!Fit(v, Parse!ArgOf(Parse!Target(refs, k)).type) /\ NumbersFit(v)
      /\ refs = Parse!RefsOf(s) \o Parse!FieldRefs(FieldOf(r, v)) /\ k = Len(Parse!RefsOf(s)) + 1
  BY <1>4 DEF Open
<1>7. k \in Nat
  <2>1. Parse!RefsOf(s) \in Seq(Parse!RefForms)
    BY <1>2, RefsOfGrows
  <2> QED
    BY <1>6, <2>1
<1>8. PICK t : t = FieldOf(r, v)
  OBVIOUS
<1>9. t \in Parse!TokenForms /\ t.kind = "field" /\ t.specs = v /\ Parse!SpellToken(t) = Begun(r, v) \o <<"}">> /\ Begun(r, v) \in Texts
  BY <1>2, <1>8, FieldOfIs, BegunIs, ZenonT(60)
<1>10. /\ Parse!At(e) = "}" /\ Parse!DynamicOk(sp.width_ref) /\ Parse!DynamicOk(sp.precision_ref)
       /\ out' = Append(out, [arg |-> arg, specs |-> Closed(sp)])
       /\ p' = e + 1 /\ begin' = e + 1 /\ fmt' = fmt /\ next_arg_id' = next_arg_id
  BY DEF Ended
<1>11. PICK w, pr, wr, prr : w = WidthOf(v) /\ pr = PrecisionOf(v) /\ wr = WidthRefOf(v, refs, k) /\ prr = PrecisionRefOf(v, refs, k)
  OBVIOUS
<1>12. sp = Record(TypeMeans(v), AlignMeans(v), SignMeans(v), UpperMeans(v), v.hash, v.locale, FillMeans(v), w, pr, wr, prr)
  BY <1>4, <1>11 DEF SpecsAre
<1>13. sp.width_ref = wr /\ sp.precision_ref = prr
  BY <1>12, RecordIs
<1>14. Parse!AmountOk(v.width, refs, k + 1) /\ Parse!Resolved(wr, w) = Parse!Amount(v.width, 0, refs, k + 1)
  BY <1>6, <1>10, <1>11, <1>13, WidthMeans
<1>15. Parse!AmountOk(v.precision, refs, Parse!After(t, k)) /\ Parse!Resolved(prr, pr) = Parse!Amount(v.precision, -1, refs, Parse!After(t, k))
  <2>1. Parse!DynamicOk(PrecisionRefOf(v, refs, k)) /\ NumbersFit(v) /\ t.specs = v /\ k \in Nat
    BY <1>6, <1>7, <1>9, <1>10, <1>11, <1>13
  <2>2. /\ Parse!AmountOk(v.precision, refs, Parse!After(t, k))
        /\ Parse!Resolved(PrecisionRefOf(v, refs, k), PrecisionOf(v)) = Parse!Amount(v.precision, -1, refs, Parse!After(t, k))
    BY <2>1, PrecisionMeans
  <2> QED
    BY <1>11, <2>2
<1>16. Parse!FieldOk(t, refs, k)
  BY <1>6, <1>9, <1>14, <1>15 DEF Parse!FieldOk
<1>17. Closed(sp) = Parse!MeanSpecs(t, refs, k)
  <2>1. PICK x, y : x = Parse!Resolved(wr, w) /\ y = Parse!Resolved(prr, pr)
    OBVIOUS
  <2>2. Closed(sp) = Record(TypeMeans(v), AlignMeans(v), SignMeans(v), UpperMeans(v), v.hash, v.locale, FillMeans(v), x, y, Parse!NoRef, Parse!NoRef)
    BY <1>12, <2>1, ClosedIs
  <2>3. x = Parse!Amount(t.specs.width, 0, refs, k + 1) /\ y = Parse!Amount(t.specs.precision, -1, refs, Parse!After(t, k))
    BY <1>9, <1>14, <1>15, <2>1
  <2>4. Parse!MeanSpecs(t, refs, k) = SpecsAre(t.specs, x, y, Parse!NoRef, Parse!NoRef)
    BY <2>3, MeanSpecsAre
  <2> QED
    BY <1>9, <2>2, <2>4 DEF SpecsAre
<1>18. e \in 1..Len(fmt) /\ fmt[e] = "}"
  <2>1. e \in Int
    BY <1>3, <1>5
  <2>2. Parse!At(e) # "end"
    BY <1>10
  <2> QED
    BY <1>10, <2>1, <2>2, Chars
<1>19. Parse!Spell(s) \o Parse!SpellToken(t) = Word(1, e + 1)
  <2>1. PICK x \in Texts : x = Parse!Spell(s)
    BY <1>2, SpellGrows
  <2>2. PICK y \in Texts : y = Begun(r, v)
    BY <1>9
  <2>3. <<"}">> \in Texts
    BY ParsedOneText, SymbolsAre
  <2>4. (x \o y) \o <<"}">> = x \o (y \o <<"}">>)
    BY <2>3, TextsGroup, ZenonT(60)
  <2>5. x \o y = Word(1, e)
    BY <1>5, <2>1, <2>2 DEF ReadTo
  <2>6. Word(e, e + 1) = <<"}">>
    BY <1>18, OneChar
  <2>7. 1 \in 1..(Len(fmt) + 1) /\ e \in 1..(Len(fmt) + 1) /\ e + 1 \in e..(Len(fmt) + 1)
    <3>1. 1 \in 1..(Len(fmt) + 1)
      BY <1>3
    <3> QED
      BY <1>3, <1>18, <3>1, OneUp
  <2>8. Word(1, e) \o Word(e, e + 1) = Word(1, e + 1)
    BY <2>7, WordsJoin
  <2> QED
    BY <1>9, <2>1, <2>2, <2>4, <2>5, <2>6, <2>8
<1>20. IsSequence(Parse!Mean(s))
  BY <1>1, <1>3
<1>21. out' = Append(Parse!Mean(s), [arg |-> Parse!Target(refs, k), specs |-> Parse!MeanSpecs(t, refs, k)])
  BY <1>1, <1>10, <1>17
<1>22. refs = Parse!RefsOf(s) \o Parse!FieldRefs(t) /\ Counts(refs, next_arg_id)
  BY <1>1, <1>6, <1>8
<1> QED
  BY <1>2, <1>6, <1>9, <1>10, <1>16, <1>18, <1>19, <1>20, <1>21, <1>22, FieldCloses

LEMMA LostFails ==
  ASSUME Lost(specs, state), NEW sp, SameRefsOf(sp, specs), NEW e, Ended(e, sp)
  PROVE  FALSE
<1>1. Parse!DynamicOk(specs.width_ref) /\ Parse!DynamicOk(specs.precision_ref)
  BY DEF Ended, SameRefsOf
<1>2. \A ref : Parse!DynamicOk(ref) /\ ref # Parse!NoRef => Parse!HasArg(ref.index)
  BY DEF Parse!DynamicOk
<1> QED
  BY <1>1, <1>2 DEF Lost

LEMMA NothingIsAdded ==
  ASSUME Parse!ParseAssumption, fmt \in FormatStrings, p \in 1..(Len(fmt) + 1), NEW u \in Parse!SpecForms
  PROVE  Adds(u, u, p) /\ p \in p..(Len(fmt) + 1)
<1>1. Len(fmt) \in Nat /\ p \in Int /\ p <= p /\ p - p = 0 /\ p \in p..(Len(fmt) + 1)
  <2>1. Len(fmt) \in Nat
    BY Chars
  <2> QED
    BY <2>1
<1>2. \A i \in p..(p - 1) : fmt[i] \in Symbols
  BY <1>1
<1>3. Word(p, p) \in Seq(Symbols) /\ Len(Word(p, p)) = 0
  BY <1>1, <1>2, WordIs
<1>4. Word(p, p) = <<>>
  BY <1>3
<1>5. Parse!SpellSpecs(u) \o <<>> = Parse!SpellSpecs(u)
  BY PiecesAre, EmptyText
<1> QED
  BY <1>1, <1>4, <1>5 DEF Adds

(* The specifiers end without a type ...                                   *)
LEMMA NoTypeKeeps == ASSUME Parse!ParseAssumption, fmt \in FormatStrings, SpecsInv, Parse!NoType PROVE ReadInv'
<1>1. phase = "specs" /\ Parse!FieldEnds(p, specs)
  BY DEF Parse!NoType
<1>2. phase' = "error" \/ (phase' = "text" /\ Ended(p, specs))
  BY <1>1, EndsOrFails
<1>3. CASE phase' = "error"
  BY <1>3 DEF ReadInv
<1>4. CASE Ended(p, specs)
  <2>1. p \in 1..(Len(fmt) + 1) /\ (Lost(specs, state) \/ \E s, r, u, refs, k : InField(s, r, u, refs, k))
    BY <1>1, InSpecsAt
  <2>2. ~Lost(specs, state)
    <3>1. SameRefsOf(specs, specs)
      BY DEF SameRefsOf
    <3> QED
      BY <1>4, <3>1, LostFails
  <2>3. PICK s, r, u, refs, k : InField(s, r, u, refs, k)
    BY <2>1, <2>2
  <2>4. u \in Parse!SpecForms /\ Parse!Fit(u, Parse!ArgOf(arg).type) /\ specs = SpecsRead(u, refs, k)
    BY <2>3 DEF InField, Open
  <2>5. Adds(u, u, p) /\ p \in p..(Len(fmt) + 1)
    BY <2>1, <2>4, NothingIsAdded
  <2>6. specs = SpecsAre(u, WidthOf(u), PrecisionOf(u), WidthRefOf(u, refs, k), PrecisionRefOf(u, refs, k))
    BY <2>4 DEF SpecsRead
  <2> QED
    BY <1>1, <1>4, <2>3, <2>4, <2>5, <2>6, FieldIsClosed
<1> QED
  BY <1>2, <1>3, <1>4

LEMMA PutTypeKeeps == ASSUME NEW sp, {"width_ref", "precision_ref"} \subseteq DOMAIN sp, NEW x, NEW y PROVE SameRefsOf(PutType(sp, x, y), sp)
BY DEF PutType, SameRefsOf

LEMMA TypeIs ==
  ASSUME NEW c \in DOMAIN Parse!Presentation
  PROVE  /\ c # "fill" /\ c # "end"
         /\ \A v : v.type = <<c>> => TypeMeans(v) = Parse!Presentation[c].type /\ UpperMeans(v) = Parse!IsUpper(c)
<1>1. c # "fill" /\ c # "end"
  BY DEF Parse!Presentation
<1>2. <<c>> # <<>> /\ <<c>>[1] = c
  OBVIOUS
<1>3. ASSUME NEW v, v.type = <<c>> PROVE TypeMeans(v) = Parse!Presentation[c].type /\ UpperMeans(v) = Parse!IsUpper(c)
  <2>1. TypeMeans(v) = Parse!Presentation[c].type
    BY <1>2, <1>3 DEF TypeMeans
  <2>2. UpperMeans(v) <=> Parse!IsUpper(c)
    BY <1>2, <1>3 DEF UpperMeans
  <2>3. UpperMeans(v) \in BOOLEAN /\ Parse!IsUpper(c) \in BOOLEAN
    BY DEF UpperMeans, Parse!IsUpper
  <2> QED
    BY <2>1, <2>2, <2>3
<1> QED
  BY <1>1, <1>3

(* ... or with one.                                                        *)
LEMMA TypeKeeps == ASSUME Parse!ParseAssumption, fmt \in FormatStrings, SpecsInv, Parse!Type PROVE ReadInv'
<1>0. PICK c, upper : c = Parse!C /\ upper = Parse!IsUpper(c)
  OBVIOUS
<1>1. PICK sp : sp = PutType(specs, Parse!Presentation[c].type, upper)
  OBVIOUS
<1>2. phase = "specs" /\ c \in DOMAIN Parse!Presentation /\ Parse!ArgOf(arg).type \in Parse!Presentation[c].for /\ Parse!FieldEnds(p + 1, sp)
  BY <1>0, <1>1 DEF Parse!Type, PutType
<1>3. c = Parse!At(p) /\ Parse!At(p) # "end"
  BY <1>0, <1>2, CharIs, TypeIs
<1>4. /\ p + 1 \in p..(Len(fmt) + 1) /\ Word(p, p + 1) = <<c>>
      /\ state \in 0..7 /\ (Lost(specs, state) \/ \E s, r, u, refs, k : InField(s, r, u, refs, k))
  BY <1>2, <1>3, InSpecsAt
<1>5. phase' = "error" \/ (phase' = "text" /\ Ended(p + 1, sp))
  BY <1>2, EndsOrFails
<1>6. CASE phase' = "error"
  BY <1>6 DEF ReadInv
<1>7. CASE Ended(p + 1, sp)
  <2>1. ~Lost(specs, state)
    <3> SUFFICES ASSUME Lost(specs, state) PROVE FALSE
      OBVIOUS
    <3>1. SameRefsOf(sp, specs)
      BY <1>1, PutTypeKeeps DEF Lost
    <3> QED
      BY <1>7, <3>1, LostFails
  <2>2. PICK s, r, u, refs, k : InField(s, r, u, refs, k)
    BY <1>4, <2>1
  <2>3. u \in Parse!SpecForms /\ Stage(u, state) /\ Parse!Fit(u, Parse!ArgOf(arg).type) /\ specs = SpecsRead(u, refs, k)
    BY <2>2 DEF InField, Open
  <2>4. Stage(u, 7)
    <3>1. state \in Int /\ 7 \in Int /\ state <= 7
      BY <1>4
    <3> QED
      BY <2>3, <3>1, StageGrows
  <2>5. PICK v \in Parse!SpecForms : ParsedPieces(v, u.align, u.sign, u.hash, u.zero, u.width, u.precision, u.locale, <<c>>)
    <3>1. <<c>> \in Parse!Optional(DOMAIN Parse!Presentation)
      BY <1>2 DEF Parse!Optional
    <3> QED
      BY <2>3, <3>1, WithType
  <2>6. v.width = u.width /\ v.precision = u.precision /\ v.type = <<c>>
    BY <2>5 DEF ParsedPieces
  <2>7. Parse!Fit(v, Parse!ArgOf(arg).type)
    <3>1. v.type[1] = c
      BY <2>6
    <3> QED
      BY <1>2, <2>3, <2>5, <3>1 DEF Parse!Fit, ParsedPieces
  <2>8. Adds(v, u, p + 1)
    <3>1. Parse!SpellSpecs(u) = S7(u) /\ Parse!SpellSpecs(v) = S7(v) \o <<c>>
      BY <2>3, <2>4, <2>6, SpelledSoFar, PiecesAre
    <3>2. S7(v) = S7(u)
      BY <2>5 DEF S7, S6, S5, S4, S3, S2, SpellPrecision, ParsedPieces
    <3> QED
      BY <1>4, <3>1, <3>2 DEF Adds
  <2>9. /\ AlignMeans(v) = AlignMeans(u) /\ v.hash = u.hash /\ v.locale = u.locale
        /\ FillMeans(v) = FillMeans(u) /\ SignMeans(v) = SignMeans(u)
    BY <2>5 DEF ParsedPieces, AlignMeans, FillMeans, SignMeans
  <2>10. TypeMeans(v) = Parse!Presentation[c].type /\ UpperMeans(v) = upper
    BY <1>0, <1>2, <2>6, TypeIs
  <2>11. sp = SpecsAre(v, WidthOf(u), PrecisionOf(u), WidthRefOf(u, refs, k), PrecisionRefOf(u, refs, k))
    BY <1>1, <2>3, <2>9, <2>10, PutTypeIs DEF SpecsRead, SpecsAre
  <2> QED
    BY <1>2, <1>4, <1>7, <2>2, <2>6, <2>7, <2>8, <2>11, FieldIsClosed
<1> QED
  BY <1>5, <1>6, <1>7

(* The specifiers of a field begin.                                        *)
LEMMA FieldWithSpecsKeeps == ASSUME Parse!ParseAssumption, fmt \in FormatStrings, ReadInv, Parse!FieldWithSpecs PROVE SpecsInv'
<1>1. PICK r : r = Parse!FieldRef.ref
  OBVIOUS
<1>2. PICK e : e = Parse!FieldRef.end
  OBVIOUS
<1>3. /\ phase = "text" /\ Parse!At(p) = "{" /\ Parse!At(p + 1) # "end"
      /\ Parse!FieldRef.ok /\ Parse!CanRefer(r) /\ Parse!HasArg(Parse!ArgId(r)) /\ Parse!At(e) = ":" /\ next_arg_id' = Parse!NextId(r)
      /\ out' = Parse!Text(p) /\ p' = e + 1 /\ arg' = Parse!ArgId(r) /\ state' = 0 /\ specs' = Parse!DefaultSpecs /\ fmt' = fmt
  BY <1>1, <1>2 DEF Parse!FieldWithSpecs, Parse!FieldIsRead
<1>4. PICK s : InText(s)
  BY <1>3, InTextAt
<1>5. Sentence(s) /\ Parse!Spell(s) = Word(1, p) /\ Parse!Mean(s) = Parse!Text(p) /\ s \in Seq(Parse!TokenForms)
  BY <1>4 DEF InText, Sentence
<1>6. FieldBegins(s, r, e)
  BY <1>1, <1>2, <1>3, <1>4, FieldBegan
<1>7. r \in Parse!RefForms /\ e \in (p + 1)..(Len(fmt) + 1) /\ Word(p, e) = <<"{">> \o Parse!SpellRef(r)
  BY <1>6 DEF FieldBegins
<1>8. PICK u \in Parse!SpecForms : u = Parse!NoSpecs
  BY NoSpecsAre
<1>9. PICK k : k = Len(Parse!RefsOf(s)) + 1
  OBVIOUS
<1>10. PICK refs : refs = Append(Parse!RefsOf(s), r)
  OBVIOUS
<1>11. refs \in Seq(Parse!RefForms) /\ Parse!RefsAgree(refs) /\ Counts(refs, Parse!NextId(r)) /\ Parse!Target(refs, k) = Parse!ArgId(r)
  BY <1>6, <1>9, <1>10 DEF FieldBegins
<1>12. Parse!Nothing.what = "nothing" /\ u.width = Parse!Nothing /\ u.precision = Parse!Nothing
  BY <1>8, NoSpecsAre DEF Parse!Nothing
<1>13. refs = Parse!RefsOf(s) \o Parse!FieldRefs(FieldOf(r, u))
  <2>1. WidthRefs(u) = <<>> /\ PrecisionRefs(u) = <<>>
    BY <1>12, AmountRefs
  <2>2. <<r>> \in Seq(Parse!RefForms) /\ Parse!RefsOf(s) \in Seq(Parse!RefForms)
    BY <1>5, <1>7, OneRef, RefsOfGrows
  <2>3. <<r>> \o <<>> = <<r>>
    BY <2>2, ConcatEmptySeq
  <2>4. Parse!FieldRefs(FieldOf(r, u)) = <<r>>
    BY <1>7, <2>1, <2>3, RefsAre
  <2> QED
    BY <1>7, <1>10, <2>2, <2>4, AppendIsConcat
<1>14. Open(s, r, u, refs, k)
  <2>1. Parse!Fit(u, Parse!ArgOf(Parse!Target(refs, k)).type)
    BY <1>8, NoSpecsAre DEF Parse!Fit
  <2>2. NumbersFit(u)
    BY <1>12 DEF NumbersFit
  <2>3. Parse!HasArg(Parse!Target(refs, k))
    BY <1>3, <1>11
  <2> QED
    BY <1>5, <1>7, <1>9, <1>11, <1>13, <2>1, <2>2, <2>3 DEF Open
<1>15. Stage(u, 0)
  BY <1>8, NoSpecsAre DEF Stage
<1>16. SpecsRead(u, refs, k) = Parse!DefaultSpecs
  <2>1. WidthOf(u) = 0 /\ PrecisionOf(u) = -1 /\ WidthRefOf(u, refs, k) = Parse!NoRef /\ PrecisionRefOf(u, refs, k) = Parse!NoRef
    BY <1>12 DEF WidthOf, PrecisionOf, WidthRefOf, PrecisionRefOf
  <2>2. SpecsRead(u, refs, k) = SpecsAre(u, 0, -1, Parse!NoRef, Parse!NoRef)
    BY <2>1 DEF SpecsRead
  <2> QED
    BY <1>8, <2>2, NoSpecsAre DEF SpecsAre, Record, Parse!DefaultSpecs
<1>17. e \in 1..Len(fmt) /\ fmt[e] = ":" /\ Len(fmt) \in Nat /\ p \in 1..Len(fmt)
  <2>1. Len(fmt) \in Nat /\ p \in 1..Len(fmt)
    BY <1>3, InTextAt
  <2>2. e \in Int
    BY <1>7, <2>1, Further
  <2> QED
    BY <1>3, <2>1, <2>2, Chars
<1>18. /\ p \in 1..(Len(fmt) + 1) /\ e \in p..(Len(fmt) + 1) /\ e + 1 \in p..(Len(fmt) + 1)
       /\ e + 1 \in e..(Len(fmt) + 1) /\ e + 1 \in 1..(Len(fmt) + 1) /\ 1 \in 1..(Len(fmt) + 1)
  BY <1>7, <1>17, Further
<1>19. ReadTo(s, r, u, e + 1)
  <2>1. Parse!SpellSpecs(u) = <<>>
    BY <1>15, SpelledSoFar
  <2>2. Begun(r, u) = <<"{">> \o Parse!SpellRef(r) \o <<":">>
    BY <1>7, <2>1, BegunIs, EmptyText DEF Begun
  <2>3. Word(e, e + 1) = <<":">>
    BY <1>17, OneChar
  <2>4. Word(p, e) \o Word(e, e + 1) = Word(p, e + 1)
    BY <1>18, WordsJoin
  <2>5. Word(1, p) \o Word(p, e + 1) = Word(1, e + 1)
    BY <1>18, WordsJoin
  <2> QED
    BY <1>5, <1>7, <2>2, <2>3, <2>4, <2>5 DEF ReadTo
<1>20. IsSequence(Parse!Text(p))
  BY <1>3, InTextAt
<1>21. PICK o, a, id, b : o = Parse!Text(p) /\ a = Parse!ArgId(r) /\ id = Parse!NextId(r) /\ b = e + 1
  OBVIOUS
<1>22. /\ Counts(refs, id) /\ Parse!Mean(s) = o /\ a = Parse!Target(refs, k) /\ ReadTo(s, r, u, b) /\ b \in 1..(Len(fmt) + 1)
       /\ IsSequence(o) /\ 0 \in 0..7
       /\ fmt' = fmt /\ p' = b /\ state' = 0 /\ next_arg_id' = id /\ arg' = a /\ out' = o /\ specs' = SpecsRead(u, refs, k)
  <2>1. Counts(refs, id) /\ Parse!Mean(s) = o /\ a = Parse!Target(refs, k) /\ ReadTo(s, r, u, b) /\ b \in 1..(Len(fmt) + 1)
    BY <1>5, <1>11, <1>18, <1>19, <1>21
  <2>2. IsSequence(o) /\ 0 \in 0..7
    BY <1>20, <1>21
  <2>3. /\ fmt' = fmt /\ p' = b /\ state' = 0 /\ next_arg_id' = id /\ arg' = a /\ out' = o
    BY <1>3, <1>21
  <2>4. specs' = SpecsRead(u, refs, k)
    BY <1>3, <1>16
  <2> QED
    BY <2>1, <2>2, <2>3, <2>4
<1> QED
  BY <1>14, <1>15, <1>22, SpecsGoOn

-----------------------------------------------------------------------------
ParseInv == fmt \in FormatStrings /\ ReadInv /\ SpecsInv /\ Parse!AcceptedAsSentence

LEMMA TextBegins == ASSUME Parse!ParseAssumption, Parse!Init PROVE ParseInv
<1>1. fmt \in FormatStrings /\ p = 1 /\ begin = 1 /\ next_arg_id = 0 /\ phase = "text" /\ out = <<>>
  BY DEF Parse!Init
<1>2. Len(fmt) \in Nat
  BY <1>1, Chars
<1>3. p \in 1..(Len(fmt) + 1) /\ begin \in 1..p /\ IsSequence(out) /\ begin \in Nat /\ p \in 1..(Len(fmt) + 1)
  <2>1. <<>> \in Seq({})
    OBVIOUS
  <2> QED
    BY <1>1, <1>2, <2>1 DEF IsSequence
<1>4. PICK s : s = <<>>
  OBVIOUS
<1>5. s \in Seq(Parse!TokenForms) /\ Parse!Spell(s) = <<>> /\ Parse!RefsOf(s) = <<>> /\ Parse!SentenceOk(s) /\ Parse!Mean(s) = <<>>
  BY <1>4, EmptySentence
<1>6. Len(s) = 0
  BY <1>4
<1>7. Within(s)
  BY <1>6 DEF Within
<1>8. Counts(Parse!RefsOf(s), next_arg_id)
  <2>1. PICK n : n = Len(<<>>)
    OBVIOUS
  <2>2. n = 0
    BY <2>1
  <2> QED
    BY <1>1, <1>5, <2>1, <2>2 DEF Counts
<1>9. Word(1, p) = <<>>
  <2>1. p \in Int /\ p <= p /\ p - p = 0 /\ \A i \in p..(p - 1) : fmt[i] \in Symbols
    BY <1>1
  <2>2. Word(p, p) \in Seq(Symbols) /\ Len(Word(p, p)) = 0
    BY <2>1, WordIs
  <2>3. Word(p, p) = <<>>
    BY <2>2
  <2> QED
    BY <1>1, <2>3
<1>10. Parse!Text(p) = <<>>
  BY <1>1, <1>3, NothingToCopy
<1>11. InText(s)
  BY <1>5, <1>7, <1>8, <1>9, <1>10 DEF InText, Sentence
<1>12. ReadInv
  BY <1>3, <1>11 DEF ReadInv
<1> QED
  BY <1>1, <1>12 DEF ParseInv, SpecsInv, Parse!AcceptedAsSentence

(* What a step leaves behind: only the invariant of where it leads is left *)
(* to show.                                                                *)
LEMMA OnlyText == ASSUME fmt' = fmt, fmt \in FormatStrings, ReadInv', phase' \in {"text", "error"} PROVE ParseInv'
BY DEF ParseInv, SpecsInv, Parse!AcceptedAsSentence

LEMMA OnlySpecs == ASSUME fmt' = fmt, fmt \in FormatStrings, SpecsInv', phase' = "specs" PROVE ParseInv'
BY DEF ParseInv, ReadInv, Parse!AcceptedAsSentence

LEMMA OnlyDone == ASSUME fmt' = fmt, fmt \in FormatStrings, Parse!AcceptedAsSentence', phase' = "done" PROVE ParseInv'
BY DEF ParseInv, ReadInv, SpecsInv

LEMMA ParseFails == ASSUME fmt \in FormatStrings, Parse!Fail PROVE ParseInv'
BY DEF Parse!Fail, ParseInv, ReadInv, SpecsInv, Parse!AcceptedAsSentence

LEMMA TookStays == ASSUME NEW n, NEW d, NEW new, Parse!Took(n, d, new), phase = "specs" PROVE phase' = "specs" /\ fmt' = fmt
BY DEF Parse!Took

LEMMA TookDynamicStays ==
  ASSUME NEW n, NEW d, NEW new, Parse!TookDynamic(n, d, new), phase = "specs" PROVE phase' = "specs" /\ fmt' = fmt
BY DEF Parse!TookDynamic

LEMMA EndLeads == ASSUME NEW e, NEW new, Parse!FieldEnds(e, new) PROVE phase' \in {"text", "error"} /\ fmt' = fmt
BY DEF Parse!FieldEnds, Parse!Fail

LEMMA ParseStutters == ASSUME ParseInv, UNCHANGED Parse!vars PROVE ParseInv'
<1>1. /\ fmt' = fmt /\ p' = p /\ begin' = begin /\ next_arg_id' = next_arg_id /\ phase' = phase /\ arg' = arg
      /\ state' = state /\ specs' = specs /\ out' = out
  BY DEF Parse!vars
<1>2. fmt \in FormatStrings /\ ReadInv /\ SpecsInv /\ Parse!AcceptedAsSentence
  BY DEF ParseInv
<1>3. Word(1, p)' = Word(1, p) /\ Parse!Text(p)' = Parse!Text(p)
  BY <1>1 DEF Word, Parse!Text
<1>4. ReadInv'
  BY <1>1, <1>2, <1>3 DEF ReadInv, InText
<1>5. SpecsInv'
  BY <1>1, <1>2, <1>3 DEF SpecsInv, InField, ReadTo
<1>6. Parse!AcceptedAsSentence'
  BY <1>1, <1>2 DEF Parse!AcceptedAsSentence
<1> QED
  BY <1>1, <1>2, <1>4, <1>5, <1>6 DEF ParseInv

LEMMA ParseStep == ASSUME Parse!ParseAssumption, ParseInv, Parse!Next PROVE ParseInv'
<1>1. fmt \in FormatStrings /\ ReadInv /\ SpecsInv
  BY DEF ParseInv
<1>2. CASE Parse!Character
  <2>1. phase' = "text" /\ fmt' = fmt
    BY <1>2 DEF Parse!Character
  <2> QED
    BY <1>1, <1>2, <2>1, CharacterKeeps, OnlyText
<1>3. CASE Parse!Finish
  <2>1. phase' = "done" /\ fmt' = fmt
    BY <1>3 DEF Parse!Finish
  <2> QED
    BY <1>1, <1>3, <2>1, FinishAccepts, OnlyDone
<1>4. CASE Parse!OpenBrace
  <2>1. phase' = "text" /\ fmt' = fmt
    BY <1>4 DEF Parse!OpenBrace
  <2> QED
    BY <1>1, <1>4, <2>1, OpenBraceKeeps, OnlyText
<1>5. CASE Parse!CloseBrace
  <2>1. phase' = "text" /\ fmt' = fmt
    BY <1>5 DEF Parse!CloseBrace
  <2> QED
    BY <1>1, <1>5, <2>1, CloseBraceKeeps, OnlyText
<1>6. CASE Parse!Field
  <2>1. phase' = "text" /\ fmt' = fmt
    BY <1>6 DEF Parse!Field, Parse!FieldIsRead
  <2> QED
    BY <1>1, <1>6, <2>1, FieldKeeps, OnlyText
<1>7. CASE Parse!FieldWithSpecs
  <2>1. phase' = "specs" /\ fmt' = fmt
    BY <1>7 DEF Parse!FieldWithSpecs
  <2> QED
    BY <1>1, <1>7, <2>1, FieldWithSpecsKeeps, OnlySpecs
<1>8. CASE Parse!Unmatched \/ Parse!BadField \/ Parse!BadSpecs
  BY <1>1, <1>8, ParseFails DEF Parse!Unmatched, Parse!BadField, Parse!BadSpecs
<1>9. CASE Parse!Align
  <2>1. phase' = "specs" /\ fmt' = fmt
    BY <1>9, TookStays DEF Parse!Align
  <2> QED
    BY <1>1, <1>9, <2>1, AlignKeeps, OnlySpecs
<1>10. CASE Parse!Fill
  <2>1. phase' = "specs" /\ fmt' = fmt
    BY <1>10, TookStays DEF Parse!Fill
  <2> QED
    BY <1>1, <1>10, <2>1, FillKeeps, OnlySpecs
<1>11. CASE Parse!Sign
  <2>1. phase' = "specs" /\ fmt' = fmt
    BY <1>11, TookStays DEF Parse!Sign
  <2> QED
    BY <1>1, <1>11, <2>1, SignKeeps, OnlySpecs
<1>12. CASE Parse!Hash
  <2>1. phase' = "specs" /\ fmt' = fmt
    BY <1>12, TookStays DEF Parse!Hash
  <2> QED
    BY <1>1, <1>12, <2>1, HashKeeps, OnlySpecs
<1>13. CASE Parse!Zero
  <2>1. phase' = "specs" /\ fmt' = fmt
    BY <1>13, TookStays DEF Parse!Zero
  <2> QED
    BY <1>1, <1>13, <2>1, ZeroKeeps, OnlySpecs
<1>14. CASE Parse!Locale
  <2>1. phase' = "specs" /\ fmt' = fmt
    BY <1>14, TookStays DEF Parse!Locale
  <2> QED
    BY <1>1, <1>14, <2>1, LocaleKeeps, OnlySpecs
<1>15. CASE Parse!Width
  <2>1. phase' = "specs" /\ fmt' = fmt
    BY <1>15, TookDynamicStays DEF Parse!Width
  <2> QED
    BY <1>1, <1>15, <2>1, WidthKeeps, OnlySpecs
<1>16. CASE Parse!Precision
  <2>1. phase' = "specs" /\ fmt' = fmt
    BY <1>16, TookDynamicStays DEF Parse!Precision
  <2> QED
    BY <1>1, <1>16, <2>1, PrecisionKeeps, OnlySpecs
<1>17. CASE Parse!Type
  <2>1. phase' \in {"text", "error"} /\ fmt' = fmt
    BY <1>17, EndLeads DEF Parse!Type
  <2> QED
    BY <1>1, <1>17, <2>1, TypeKeeps, OnlyText
<1>18. CASE Parse!NoType
  <2>1. phase' \in {"text", "error"} /\ fmt' = fmt
    BY <1>18, EndLeads DEF Parse!NoType
  <2> QED
    BY <1>1, <1>18, <2>1, NoTypeKeeps, OnlyText
<1> QED
  BY <1>2, <1>3, <1>4, <1>5, <1>6, <1>7, <1>8, <1>9, <1>10, <1>11, <1>12, <1>13, <1>14, <1>15, <1>16,
     <1>17, <1>18 DEF Parse!Next

(* Whatever the format string is, what is accepted is a sentence of the    *)
(* grammar and what is written is what it means.                           *)
THEOREM ParserIsSound ==
  ASSUME Parse!ParseAssumption
  PROVE  Parse!Spec => []Parse!AcceptedAsSentence
<1>1. Parse!Init => ParseInv
  BY TextBegins
<1>2. ParseInv /\ [Parse!Next]_(Parse!vars) => ParseInv'
  BY ParseStep, ParseStutters
<1>3. ParseInv => Parse!AcceptedAsSentence
  BY DEF ParseInv
<1> QED
  BY <1>1, <1>2, <1>3, PTL DEF Parse!Spec
=============================================================================
