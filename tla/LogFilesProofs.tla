--------------------------- MODULE LogFilesProofs ---------------------------
(***************************************************************************)
(* Proofs about LogFiles, for every way of setting the logger up.          *)
(***************************************************************************)
EXTENDS LogFiles, SequenceInduction, FiniteSetTheorems

Most == LargerOf(DefaultRemain, Remain)
MostSize == LargerOf(DefaultInc, IncSize)

(* The files opened in this run of the process by init_logging.            *)
Opens == IF ipc \in {"clean", "open"} THEN inits - 1 ELSE inits

(* No file is open before the first opening of a run and while             *)
(* init_logging is between two files; an open one is in the list.          *)
RunInv ==
  /\ ipc # "idle" => inits > 0
  /\ ipc \in {"clean", "open"} => live = NoFile
  /\ Opens = 0 => live = NoFile /\ m_log_list = <<>>
  /\ live # NoFile => m_log_list # <<>>

(* A file that is rotated has room for one message more.                   *)
SizeInv ==
  ~setup.MaySwitch /\ m_log_file_type # "Date" =>
    /\ \A i \in DOMAIN disk : Len(disk[i].messages) <= MostSize + 1
    /\ live # NoFile => Len(Messages(disk, live)) <= MostSize

(* The list grows by one with each opening of init_logging, and in between *)
(* up to the number of files that may remain; the other files on the disk  *)
(* are among those the clean-up left.                                      *)
ListInv == Len(m_log_list) <= IF Opens = 0 THEN 0 ELSE LargerOf(Most, 1) + (Opens - 1)
OthersInv == CleanedUp => Cardinality(Names(disk) \ ToSet(m_log_list)) <= Most

(* The count in force is the default until init_logging stores its own,    *)
(* and the list is then no longer than that; with each file opened later   *)
(* it grows by one at most.                                                *)
LaterInv ==
  /\ m_log_remain_counts = IF ArgumentsStored THEN Remain ELSE DefaultRemain
  /\ ~ArgumentsStored => later = 0
  /\ Len(m_log_list) <= DefaultRemain + later

(* Nothing is written in a run before its first file is opened.            *)
FirstInv == Opens = 0 => written = before

IInv == /\ TypeOK /\ LiveFileOnDisk /\ RunInv /\ SizeInv /\ ListInv /\ OthersInv /\ DiskBound
        /\ LaterInv /\ FirstInv

-----------------------------------------------------------------------------
(* A directory: files that differ in name.                                 *)
Directory(d, m) ==
  /\ d \in Seq([name : FileName, messages : Seq(1..m)])
  /\ \A i, j \in DOMAIN d : i # j => d[i].name # d[j].name

(* The files of one are among those of the other.                          *)
Among(r, d) == \A k \in DOMAIN r : \E i \in DOMAIN d : r[k] = d[i]

(* An element is taken out of a sequence.                                  *)
LEMMA RemovedAt ==
  ASSUME NEW S, NEW d \in Seq(S), NEW i \in 1..Len(d)
  PROVE  /\ RemoveAt(d, i) \in Seq(S) /\ Len(RemoveAt(d, i)) = Len(d) - 1
         /\ \A k \in 1..(Len(d) - 1) : RemoveAt(d, i)[k] = IF k < i THEN d[k] ELSE d[k + 1]
<1> DEFINE a == SubSeq(d, 1, i - 1)
           b == SubSeq(d, i + 1, Len(d))
           n == Len(d)
<1>1. n \in Nat /\ i \in 1..n
  OBVIOUS
<1>2. a \in Seq(S) /\ Len(a) = i - 1 /\ \A k \in 1..(i - 1) : a[k] = d[k]
  BY <1>1
<1>3. b \in Seq(S) /\ Len(b) = n - i /\ \A k \in 1..(n - i) : b[k] = d[k + i]
  BY <1>1
<1>4. RemoveAt(d, i) = a \o b
  BY DEF RemoveAt
<1> HIDE DEF a, b, n
<1>51. a \o b \in Seq(S) /\ Len(a \o b) = Len(a) + Len(b)
  BY <1>2, <1>3, ConcatProperties, Zenon
<1> DEFINE c == a \o b
<1> HIDE DEF c
<1>52. Len(c) = n - 1
  BY <1>1, <1>2, <1>3, <1>51 DEF c
<1>5. a \o b \in Seq(S) /\ Len(a \o b) = n - 1
  BY <1>51, <1>52 DEF c
<1>6. \A k \in 1..(Len(a) + Len(b)) : (a \o b)[k] = IF k <= Len(a) THEN a[k] ELSE b[k - Len(a)]
  BY <1>2, <1>3, ConcatProperties, Zenon
<1>7. ASSUME NEW k \in 1..(n - 1) PROVE (a \o b)[k] = IF k < i THEN d[k] ELSE d[k + 1]
  <2>1. k \in 1..(Len(a) + Len(b))
    BY <1>1, <1>2, <1>3
  <2>2. CASE k < i
    <3>1. k <= Len(a) /\ k \in 1..(i - 1)
      BY <1>1, <1>2, <2>2
    <3> QED
      BY <1>2, <1>6, <2>1, <2>2, <3>1
  <2>3. CASE ~(k < i)
    <3>1. ~(k <= Len(a)) /\ k - Len(a) \in 1..(n - i) /\ (k - Len(a)) + i = k + 1
      BY <1>1, <1>2, <2>3
    <3> QED
      BY <1>3, <1>6, <2>1, <2>3, <3>1
  <2> QED
    BY <2>2, <2>3
<1> QED
  BY <1>4, <1>5, <1>7 DEF n

(* A file is removed.                                                      *)
LEMMA WithoutName ==
  ASSUME NEW m, NEW d, Directory(d, m), NEW n
  PROVE  /\ Directory(Without(d, n), m) /\ Among(Without(d, n), d)
         /\ Names(Without(d, n)) = Names(d) \ {n}
<1> DEFINE F == [name : FileName, messages : Seq(1..m)]
<1>1. d \in Seq(F) /\ DOMAIN d = 1..Len(d) /\ Len(d) \in Nat
  BY DEF Directory
<1> HIDE DEF F
<1>2. CASE \E i \in 1..Len(d) : d[i].name = n
  <2> DEFINE p == CHOOSE i \in DOMAIN d : d[i].name = n
             r == RemoveAt(d, p)
  <2>3. Without(d, n) = r
    BY <1>1, <1>2 DEF Without, Names
  <2>4. p \in 1..Len(d) /\ d[p].name = n
    BY <1>1, <1>2
  <2> HIDE DEF p
  <2>5. /\ r \in Seq(F) /\ Len(r) = Len(d) - 1
        /\ \A k \in 1..(Len(d) - 1) : r[k] = IF k < p THEN d[k] ELSE d[k + 1]
    BY <1>1, <2>4, RemovedAt
  <2> HIDE DEF r
  <2>6. DOMAIN r = 1..(Len(d) - 1)
    BY <1>1, <2>5
  <2> DEFINE e(k) == IF k < p THEN k ELSE k + 1
  <2>7. \A k \in DOMAIN r : e(k) \in 1..Len(d) /\ e(k) # p /\ r[k] = d[e(k)]
    BY <1>1, <2>4, <2>5, <2>6
  <2>8. \A k, l \in DOMAIN r : k # l => e(k) # e(l)
    BY <2>4, <2>6
  <2>9. \A i \in 1..Len(d) : i # p => \E k \in DOMAIN r : i = e(k)
    <3> SUFFICES ASSUME NEW i \in 1..Len(d), i # p PROVE \E k \in DOMAIN r : i = e(k)
      OBVIOUS
    <3>1. CASE i < p
      <4>1. i \in DOMAIN r /\ i = e(i)
        BY <1>1, <2>4, <2>6, <3>1
      <4> QED
        BY <4>1
    <3>2. CASE ~(i < p)
      <4>1. i - 1 \in DOMAIN r /\ i = e(i - 1)
        BY <1>1, <2>4, <2>6, <3>2
      <4> QED
        BY <4>1
    <3> QED
      BY <3>1, <3>2
  <2> HIDE DEF e
  <2>10. \A i, j \in 1..Len(d) : i # j => d[i].name # d[j].name
    BY <1>1 DEF Directory
  <2>11. Among(r, d)
    BY <1>1, <2>7 DEF Among
  <2>12. Directory(r, m)
    BY <2>5, <2>7, <2>8, <2>10 DEF Directory, F
  <2>13. Names(r) = Names(d) \ {n}
    BY <1>1, <2>4, <2>7, <2>9, <2>10 DEF Names
  <2> QED
    BY <2>3, <2>11, <2>12, <2>13
<1>3. CASE ~ \E i \in 1..Len(d) : d[i].name = n
  <2>1. Without(d, n) = d
    BY <1>1, <1>3 DEF Without, Names
  <2> QED
    BY <1>1, <1>3, <2>1 DEF Among, Names
<1> QED
  BY <1>2, <1>3

(* A file is the one modified last, with all its messages known.           *)
Placed(d, n, x) == Append(Without(d, n), [name |-> n, messages |-> x])

(* A file placed has its name and its messages; the others stay.           *)
LEMMA PlacedLast ==
  ASSUME NEW m, NEW d, Directory(d, m), NEW n \in FileName, NEW x \in Seq(1..m)
  PROVE  /\ Directory(Placed(d, n, x), m)
         /\ Names(Placed(d, n, x)) = Names(d) \cup {n}
         /\ Messages(Placed(d, n, x), n) = x
         /\ \A k \in DOMAIN Placed(d, n, x) :
              Placed(d, n, x)[k].messages = x \/ \E i \in DOMAIN d : Placed(d, n, x)[k] = d[i]
<1> DEFINE F == [name : FileName, messages : Seq(1..m)]
           f == [name |-> n, messages |-> x]
           w == Without(d, n)
           r == Append(w, f)
           l == Len(w)
<1>1. f \in F /\ f.name = n /\ f.messages = x
  OBVIOUS
<1>2. Directory(w, m) /\ Among(w, d) /\ Names(w) = Names(d) \ {n}
  BY WithoutName
<1>3. w \in Seq(F) /\ \A i, j \in DOMAIN w : i # j => w[i].name # w[j].name
  BY <1>2 DEF Directory
<1> HIDE DEF w, f, F
<1>4. l \in Nat /\ DOMAIN w = 1..l
  BY <1>3
<1>5. r \in Seq(F) /\ Len(r) = l + 1 /\ r[l + 1] = f /\ \A i \in 1..l : r[i] = w[i]
  BY <1>1, <1>3, AppendProperties
<1> HIDE DEF r
<1>6. DOMAIN r = 1..(l + 1)
  BY <1>5
<1> HIDE DEF l
<1>7. \A k \in DOMAIN r : (k = l + 1 /\ r[k] = f) \/ (k \in DOMAIN w /\ r[k] = w[k])
  BY <1>4, <1>5, <1>6
<1>8. l + 1 \in DOMAIN r /\ \A k \in DOMAIN w : k \in DOMAIN r /\ r[k] = w[k]
  BY <1>4, <1>5, <1>6
<1>9. \A k \in DOMAIN w : w[k].name # n /\ w[k].name \in Names(d) /\ \E i \in DOMAIN d : w[k] = d[i]
  BY <1>2 DEF Names, Among
<1>10. \A i, j \in DOMAIN r : i # j => r[i].name # r[j].name
  BY <1>1, <1>3, <1>7, <1>9
<1>11. Directory(r, m)
  BY <1>5, <1>10 DEF Directory, F
<1>12. Names(r) = Names(w) \cup {n}
  BY <1>1, <1>5, <1>7, <1>8 DEF Names
<1>13. Messages(r, n) = x
  <2>1. n \in Names(r)
    BY <1>12
  <2>2. f \in ToSet(r) /\ \A g \in ToSet(r) : g.name = n => g = f
    BY <1>5, <1>7, <1>8, <1>9 DEF ToSet
  <2>3. (CHOOSE g \in ToSet(r) : g.name = n) = f
    BY <1>1, <2>2
  <2> QED
    BY <1>1, <2>1, <2>3 DEF Messages
<1>14. \A k \in DOMAIN r : r[k].messages = x \/ \E i \in DOMAIN d : r[k] = d[i]
  BY <1>1, <1>7, <1>9
<1> QED
  BY <1>2, <1>11, <1>12, <1>13, <1>14 DEF Placed, r, w, f

(* What the disk has under a name.                                         *)
LEMMA MessagesOf ==
  ASSUME NEW m, NEW d, Directory(d, m), NEW n
  PROVE  /\ Messages(d, n) \in Seq(1..m)
         /\ \A i \in DOMAIN d : d[i].name = n => Messages(d, n) = d[i].messages
<1> DEFINE F == [name : FileName, messages : Seq(1..m)]
<1>0. d \in Seq(F) /\ \A f \in F : f.messages \in Seq(1..m)
  BY DEF Directory
<1> HIDE DEF F
<1>1. \A i \in DOMAIN d : d[i].messages \in Seq(1..m)
  BY <1>0
<1>2. CASE n \in Names(d)
  <2>1. PICK i \in DOMAIN d : d[i].name = n
    BY <1>2 DEF Names
  <2>2. d[i] \in ToSet(d) /\ \A g \in ToSet(d) : g.name = n => g = d[i]
    BY <2>1 DEF Directory, ToSet
  <2>3. (CHOOSE g \in ToSet(d) : g.name = n) = d[i]
    BY <2>1, <2>2
  <2>4. Messages(d, n) = d[i].messages
    BY <1>2, <2>3 DEF Messages
  <2>5. \A j \in DOMAIN d : d[j].name = n => j = i
    BY <2>1 DEF Directory
  <2> QED
    BY <1>1, <2>1, <2>4, <2>5
<1>3. CASE n \notin Names(d)
  BY <1>3 DEF Messages, Names
<1> QED
  BY <1>2, <1>3

(* A file is opened: emptied, or as it was.                                *)
LEMMA FileOpened ==
  ASSUME NEW m, NEW d, Directory(d, m), NEW n \in FileName,
         NEW r \in {Truncated(d, n), Appended(d, n)}
  PROVE  /\ Directory(r, m) /\ Names(r) = Names(d) \cup {n}
         /\ r = Truncated(d, n) => Messages(r, n) = <<>>
         /\ \A k \in DOMAIN r : r[k].messages = <<>> \/ \E i \in DOMAIN d : r[k] = d[i]
<1> DEFINE none == <<>>
<1>1. none \in Seq(1..m)
  OBVIOUS
<1>2. Truncated(d, n) = Placed(d, n, none)
  BY DEF Truncated, Placed
<1> HIDE DEF none
<1>3. CASE r = Truncated(d, n)
  <2>1. r = Placed(d, n, none)
    BY <1>2, <1>3
  <2>2. /\ Directory(r, m) /\ Names(r) = Names(d) \cup {n} /\ Messages(r, n) = none
        /\ \A k \in DOMAIN r : r[k].messages = none \/ \E i \in DOMAIN d : r[k] = d[i]
    BY <1>1, <2>1, PlacedLast
  <2> QED
    BY <2>2 DEF none
<1>4. CASE r # Truncated(d, n)
  <2>1. r = d /\ n \in Names(d)
    BY <1>4 DEF Appended
  <2> QED
    BY <1>4, <2>1
<1> QED
  BY <1>3, <1>4

(* The files modified last are kept.                                       *)
LEMMA NewestKept ==
  ASSUME NEW m, NEW d, Directory(d, m), NEW n \in Nat
  PROVE  /\ Directory(Newest(d, n), m) /\ Among(Newest(d, n), d)
         /\ Len(Newest(d, n)) <= n /\ Names(Newest(d, n)) \subseteq Names(d)
<1> DEFINE F == [name : FileName, messages : Seq(1..m)]
           l == Len(d)
           k == LesserOf(n, l)
           r == Newest(d, n)
<1>1. d \in Seq(F) /\ \A i, j \in DOMAIN d : i # j => d[i].name # d[j].name
  BY DEF Directory
<1> HIDE DEF F
<1>2. l \in Nat /\ DOMAIN d = 1..l
  BY <1>1
<1>3. k \in 0..l /\ k <= n
  BY <1>2 DEF LesserOf
<1>4. r = SubSeq(d, l - k + 1, l)
  BY DEF Newest
<1> HIDE DEF r, k
<1>5. r \in Seq(F) /\ Len(r) = k /\ \A i \in 1..k : r[i] = d[i + (l - k)]
  BY <1>1, <1>2, <1>3, <1>4
<1> HIDE DEF l
<1>6. DOMAIN r = 1..k
  BY <1>3, <1>5
<1> DEFINE e(i) == i + (l - k)
<1>7. \A i \in DOMAIN r : e(i) \in DOMAIN d /\ r[i] = d[e(i)]
  BY <1>2, <1>3, <1>5, <1>6
<1>8. \A i, j \in DOMAIN r : i # j => e(i) # e(j)
  BY <1>2, <1>3, <1>6
<1> HIDE DEF e
<1>9. Among(r, d)
  BY <1>7 DEF Among
<1>10. Directory(r, m)
  BY <1>1, <1>5, <1>7, <1>8 DEF Directory, F
<1>11. Names(r) \subseteq Names(d)
  BY <1>7 DEF Names
<1> QED
  BY <1>3, <1>5, <1>9, <1>10, <1>11 DEF r

(* There are as many names as files.                                       *)
LEMMA AsManyNames ==
  ASSUME NEW m, NEW d, Directory(d, m)
  PROVE  IsFiniteSet(Names(d)) /\ Cardinality(Names(d)) = Len(d)
<1>1. Len(d) \in Nat /\ DOMAIN d = 1..Len(d)
  BY DEF Directory
<1> DEFINE b == [i \in 1..Len(d) |-> d[i].name]
<1>2. b \in Bijection(1..Len(d), Names(d))
  BY <1>1 DEF Bijection, Injection, Surjection, IsInjective, Names, Directory
<1> HIDE DEF b
<1>3. ExistsBijection(1..Len(d), Names(d))
  BY <1>2 DEF ExistsBijection
<1> DEFINE l == Len(d)
<1>4. IsFiniteSet(1..l) /\ Cardinality(1..l) = l
  <2> HIDE DEF l
  <2>1. 1 \in Int /\ l \in Int
    BY <1>1 DEF l
  <2>2. l \in Nat
    BY <1>1 DEF l
  <2> QED
    BY <2>1, <2>2, FS_Interval
<1> QED
  BY <1>3, <1>4, FS_Bijection

(* A sequence has at most as many different elements as it is long.        *)
LEMMA FewDifferent ==
  ASSUME NEW S, NEW s \in Seq(S)
  PROVE  IsFiniteSet(ToSet(s)) /\ Cardinality(ToSet(s)) <= Len(s)
<1> DEFINE l == Len(s)
<1>1. l \in Nat /\ DOMAIN s = 1..l
  OBVIOUS
<1> HIDE DEF l
<1>2. s \in Surjection(1..l, ToSet(s))
  BY <1>1 DEF Surjection, ToSet
<1>3. 1 \in Int /\ l \in Int
  BY <1>1
<1>4. IsFiniteSet(1..l) /\ Cardinality(1..l) = IF 1 > l THEN 0 ELSE l - 1 + 1
  BY <1>3, FS_Interval
<1>5. Cardinality(1..l) = l
  BY <1>1, <1>4
<1>6. IsFiniteSet(ToSet(s)) /\ Cardinality(ToSet(s)) <= l
  BY <1>2, <1>4, <1>5, FS_Surjection
<1> QED
  BY <1>6 DEF l

(* A directory has at most the files outside a list and those of the list. *)
LEMMA FewFiles ==
  ASSUME NEW m, NEW d, Directory(d, m), NEW list \in Seq(FileName),
         NEW n \in Nat, Cardinality(Names(d) \ ToSet(list)) <= n
  PROVE  Len(d) <= n + Len(list)
<1> DEFINE A == Names(d) \ ToSet(list)
           B == ToSet(list)
<1>0. Len(d) \in Nat /\ Len(list) \in Nat
  BY DEF Directory
<1>1. IsFiniteSet(Names(d)) /\ Cardinality(Names(d)) = Len(d) /\ Len(d) \in Nat /\ Len(list) \in Nat
  BY <1>0, AsManyNames
<1>2. IsFiniteSet(B) /\ Cardinality(B) <= Len(list)
  BY FewDifferent
<1>3. IsFiniteSet(A)
  BY <1>1, FS_Subset
<1>4. /\ IsFiniteSet(A \cup B)
      /\ Cardinality(A \cup B) = Cardinality(A) + Cardinality(B) - Cardinality(A \cap B)
  BY <1>2, <1>3, FS_Union, Zenon
<1>5. Names(d) \in SUBSET (A \cup B)
  OBVIOUS
<1>6. Cardinality(Names(d)) <= Cardinality(A \cup B)
  BY <1>4, <1>5, FS_Subset
<1>7. IsFiniteSet(A \cap B)
  BY <1>3, FS_Subset
<1>8. Cardinality(A) \in Nat /\ Cardinality(B) \in Nat /\ Cardinality(A \cap B) \in Nat
  BY <1>2, <1>3, <1>7, FS_CardinalityType
<1>9. Cardinality(A) <= n
  OBVIOUS
<1> HIDE DEF A, B
<1> QED
  BY <1>1, <1>2, <1>4, <1>6, <1>8, <1>9

(* A sequence grows by one element.                                        *)
LEMMA OneMore ==
  ASSUME NEW S, NEW s \in Seq(S), NEW x \in S
  PROVE  /\ Append(s, x) \in Seq(S) /\ Append(s, x) # <<>>
         /\ Len(Append(s, x)) = Len(s) + 1 /\ Append(s, x)[Len(s) + 1] = x
         /\ \A i \in 1..Len(s) : Append(s, x)[i] = s[i]
         /\ ToSet(Append(s, x)) = ToSet(s) \cup {x}
<1> DEFINE r == Append(s, x)
           n == Len(s)
<1>1. n \in Nat /\ DOMAIN s = 1..n
  OBVIOUS
<1>2. r \in Seq(S) /\ Len(r) = n + 1 /\ r[n + 1] = x /\ \A i \in 1..n : r[i] = s[i]
  BY AppendProperties
<1> HIDE DEF r, n
<1>3. DOMAIN r = 1..(n + 1) /\ r # <<>>
  BY <1>1, <1>2
<1>4. \A k \in DOMAIN r : k \in DOMAIN s \/ k = n + 1
  BY <1>1, <1>3
<1>5. \A k \in DOMAIN s : k \in DOMAIN r
  BY <1>1, <1>3
<1>6. n + 1 \in DOMAIN r
  BY <1>1, <1>3
<1>7. ToSet(r) = ToSet(s) \cup {x}
  BY <1>1, <1>2, <1>4, <1>5, <1>6 DEF ToSet
<1> QED
  BY <1>2, <1>3, <1>7 DEF r, n

-----------------------------------------------------------------------------
M == setup.MaxMessages

(* What the types say of the setup and of the directory.                   *)
LEMMA Setting ==
  ASSUME FilesAssumption, TypeOK
  PROVE  /\ Remain \in Nat /\ DefaultRemain \in Nat \ {0} /\ IncSize \in Nat /\ DefaultInc \in Nat
         /\ LastSn \in Nat /\ M \in Nat /\ setup.DayLength \in Nat \ {0} /\ setup.MaxTime \in Nat
         /\ setup.MaxInits \in Nat /\ setup.MaxRuns \in Nat
         /\ m_log_file_type \in {"DateTime", "Date", "AutoIncSn"}
         /\ Most \in Nat /\ m_log_remain_counts \in Nat /\ m_log_remain_counts <= Most
         /\ MostSize \in Nat /\ m_inc_log_size \in Nat /\ m_inc_log_size <= MostSize
         /\ Directory(disk, M)
<1>1. setup \in SetupType
  BY DEF FilesAssumption, TypeOK
<1>2. /\ Remain \in Nat /\ DefaultRemain \in Nat \ {0} /\ IncSize \in Nat /\ DefaultInc \in Nat
      /\ LastSn \in Nat /\ M \in Nat /\ setup.DayLength \in Nat \ {0} /\ setup.MaxTime \in Nat
      /\ setup.MaxInits \in Nat /\ setup.MaxRuns \in Nat
  BY <1>1 DEF SetupType, Remain, DefaultRemain, IncSize, DefaultInc, LastSn, M
<1>3. m_log_file_type \in {"DateTime", "Date", "AutoIncSn"}
  BY <1>1 DEF SetupType, TypeOK
<1>4. m_log_remain_counts \in {DefaultRemain, Remain} /\ m_inc_log_size \in {DefaultInc, IncSize}
  BY DEF TypeOK
<1>5. /\ Most \in Nat /\ m_log_remain_counts \in Nat /\ m_log_remain_counts <= Most
      /\ MostSize \in Nat /\ m_inc_log_size \in Nat /\ m_inc_log_size <= MostSize
  BY <1>2, <1>4 DEF Most, MostSize, LargerOf
<1>6. Directory(disk, M)
  BY DEF TypeOK, Directory, File, M
<1> QED
  BY <1>2, <1>3, <1>5, <1>6

(* What they say of the counters and the lists.                            *)
LEMMA Counts ==
  ASSUME FilesAssumption, TypeOK
  PROVE  /\ inits \in Nat /\ inits <= setup.MaxInits /\ ipc \in {"idle", "clean", "open", "set"}
         /\ written \in Nat /\ before \in Nat /\ before <= written
         /\ opened \in Seq(FileName) /\ m_log_list \in Seq(FileName) /\ Len(m_log_list) \in Nat
         /\ later \in Nat
<1>1. written \in 0..setup.MaxMessages /\ before \in 0..written /\ inits \in 0..setup.MaxInits /\ setup.MaxMessages \in Nat
  BY Setting DEF TypeOK, M
<1>2. opened \in Seq(FileName) /\ m_log_list \in Seq(FileName) /\ ipc \in {"idle", "clean", "open", "set"}
      /\ later \in Nat
  BY DEF TypeOK
<1> QED
  BY <1>1, <1>2

(* What opening a file does to directory, list and statics.                *)
Opened(d, list) ==
  /\ LogFileName \in FileName /\ live' = LogFileName
  /\ Directory(disk', M) /\ Names(disk') = Names(d) \cup {live'}
  /\ \A k \in DOMAIN disk' : disk'[k].messages = <<>> \/ \E i \in DOMAIN d : disk'[k] = d[i]
  /\ m_log_file_type # "Date" => Messages(disk', live') = <<>>
  /\ m_log_list' \in Seq(FileName) /\ Len(m_log_list') = Len(list) + 1 /\ m_log_list' # <<>>
  /\ ToSet(m_log_list') = ToSet(list) \cup {live'}
  /\ log_sequence_no' \in 0..LastSn
  /\ opened' \in Seq(FileName) /\ later' \in Nat

(* create_log_file leaves that behind, whatever name it takes.             *)
LEMMA Opening ==
  ASSUME FilesAssumption, TypeOK, NEW d, Directory(d, M), NEW list \in Seq(FileName), OpenNext(d, list)
  PROVE  Opened(d, list)
<1>1. m_log_file_type \in {"DateTime", "Date", "AutoIncSn"} /\ setup.DayLength \in Nat \ {0} /\ LastSn \in Nat
  BY Setting
<1>2. now \in Nat /\ log_sequence_no \in Nat /\ log_sequence_no <= LastSn
  BY <1>1, Setting DEF TypeOK
<1>3. LogFileName \in FileName
  <2>1. now \div setup.DayLength \in Nat
    BY <1>1, <1>2
  <2> QED
    BY <1>1, <1>2, <2>1 DEF LogFileName, FileName
<1>4. disk' \in {Truncated(d, LogFileName), Appended(d, LogFileName)}
      /\ (m_log_file_type # "Date" => disk' = Truncated(d, LogFileName))
  BY DEF OpenNext
<1>5. live' = LogFileName /\ m_log_list' = Append(list, LogFileName) /\ opened' = Append(opened, LogFileName)
      /\ log_sequence_no' = NextSn
  BY DEF OpenNext
<1>6. /\ Directory(disk', M) /\ Names(disk') = Names(d) \cup {LogFileName}
      /\ disk' = Truncated(d, LogFileName) => Messages(disk', LogFileName) = <<>>
      /\ \A k \in DOMAIN disk' : disk'[k].messages = <<>> \/ \E i \in DOMAIN d : disk'[k] = d[i]
  BY <1>3, <1>4, FileOpened
<1>7. /\ m_log_list' \in Seq(FileName) /\ Len(m_log_list') = Len(list) + 1 /\ m_log_list' # <<>>
      /\ ToSet(m_log_list') = ToSet(list) \cup {LogFileName}
  BY <1>3, <1>5, OneMore
<1>8. log_sequence_no' \in 0..LastSn
  BY <1>1, <1>2, <1>5 DEF NextSn
<1>9. opened' \in Seq(FileName) /\ later' \in Nat
  BY <1>3, <1>5 DEF TypeOK, OpenNext, LaterOpened
<1> QED
  BY <1>3, <1>4, <1>5, <1>6, <1>7, <1>8, <1>9 DEF Opened

(* The next state's types, from the parts that an action can disturb.      *)
LEMMA TypesKept ==
  ASSUME FilesAssumption, TypeOK, setup' = setup, now' \in 0..setup.MaxTime,
         Directory(disk', M), live' \in FileName \cup {NoFile}, m_log_list' \in Seq(FileName),
         m_log_file_type' \in setup.Formats, log_sequence_no' \in 0..LastSn,
         m_log_remain_counts' \in {DefaultRemain, Remain}, m_inc_log_size' \in {DefaultInc, IncSize},
         ipc' \in {"idle", "clean", "open", "set"}, inits' \in 0..setup.MaxInits, runs' \in 1..setup.MaxRuns,
         written' \in 0..setup.MaxMessages, before' \in 0..written', opened' \in Seq(FileName), later' \in Nat
  PROVE  TypeOK'
<1>1. setup' \in Setups
  BY DEF TypeOK
<1>2. disk' \in Seq(File') /\ \A i, j \in DOMAIN disk' : i # j => disk'[i].name # disk'[j].name
  BY DEF Directory, File, M
<1> QED
  BY <1>1, <1>2 DEF TypeOK, LastSn, DefaultRemain, Remain, DefaultInc, IncSize

(* A message is written to the open file.                                  *)
LEMMA Writing ==
  ASSUME FilesAssumption, TypeOK, LiveFileOnDisk, live # NoFile, written < setup.MaxMessages
  PROVE  /\ live \in FileName
         /\ Directory(AfterWrite, M) /\ Names(AfterWrite) = Names(disk)
         /\ Len(Messages(AfterWrite, live)) = Len(Messages(disk, live)) + 1
         /\ \A k \in DOMAIN AfterWrite :
              \/ Len(AfterWrite[k].messages) = Len(Messages(disk, live)) + 1
              \/ \E i \in DOMAIN disk : AfterWrite[k] = disk[i]
<1> DEFINE x == Append(Messages(disk, live), written + 1)
<1>1. Directory(disk, M) /\ live \in FileName /\ live \in Names(disk)
  BY Setting DEF TypeOK, LiveFileOnDisk
<1>2. Messages(disk, live) \in Seq(1..M)
  BY <1>1, MessagesOf
<1>30. written \in 0..M /\ M \in Nat /\ written < M
  BY Setting DEF TypeOK, M
<1>3. written + 1 \in 1..M
  BY <1>30
<1>4. x \in Seq(1..M) /\ Len(x) = Len(Messages(disk, live)) + 1
  BY <1>2, <1>3
<1>5. AfterWrite = Placed(disk, live, x)
  BY DEF AfterWrite, Placed
<1> HIDE DEF x
<1>6. /\ Directory(AfterWrite, M) /\ Names(AfterWrite) = Names(disk) \cup {live}
      /\ Messages(AfterWrite, live) = x
      /\ \A k \in DOMAIN AfterWrite : AfterWrite[k].messages = x \/ \E i \in DOMAIN disk : AfterWrite[k] = disk[i]
  BY <1>1, <1>4, <1>5, PlacedLast
<1> QED
  BY <1>1, <1>4, <1>6

(* A full file gives way to the next: what is left of the directory and of *)
(* the list when that is opened.                                           *)
RotatedTo(d, list) ==
  /\ list \in Seq(FileName)
  /\ Len(list) <= Len(m_log_list) /\ Len(list) + 1 <= LargerOf(Most, Len(m_log_list))
  /\ Among(d, AfterWrite)
  /\ Names(d) \ ToSet(list) \subseteq Names(disk) \ ToSet(m_log_list)
  /\ Opened(d, list)

(* write_to_file of a message that fills the file does that.               *)
LEMMA Rotating ==
  ASSUME FilesAssumption, TypeOK, LiveFileOnDisk, RunInv, WriteAndRotate
  PROVE  \E d, list : RotatedTo(d, list)
<1> DEFINE L == m_log_list
<1>1. live # NoFile /\ written < setup.MaxMessages
  BY DEF WriteAndRotate
<1>2. Directory(AfterWrite, M) /\ Names(AfterWrite) = Names(disk)
  BY <1>1, Writing
<1>3. L \in Seq(FileName) /\ L # <<>> /\ Len(L) \in Nat \ {0}
  BY <1>1 DEF RunInv, TypeOK
<1>4. Most \in Nat /\ m_log_remain_counts \in Nat /\ m_log_remain_counts <= Most
  BY Setting
<1>5. CASE EnoughFiles
  <2> DEFINE d == Without(AfterWrite, Head(L))
             list == Tail(L)
  <2>1. OpenNext(d, list)
    BY <1>5 DEF WriteAndRotate
  <2>2. Directory(d, M) /\ Among(d, AfterWrite) /\ Names(d) = Names(disk) \ {Head(L)}
    BY <1>2, WithoutName
  <2> HIDE DEF d
  <2>3. list \in Seq(FileName) /\ Len(list) = Len(L) - 1
    BY <1>3
  <2>4. ToSet(L) \subseteq ToSet(list) \cup {Head(L)}
    <3>1. \A i \in 1..Len(L) : i = 1 \/ (i - 1 \in 1..Len(list) /\ list[i - 1] = L[i])
      BY <1>3, <2>3
    <3>2. Head(L) = L[1] /\ DOMAIN L = 1..Len(L) /\ DOMAIN list = 1..Len(list)
      BY <1>3, <2>3
    <3> HIDE DEF L, list
    <3> QED
      BY <3>1, <3>2 DEF ToSet
  <2> HIDE DEF list
  <2>5. Names(d) \ ToSet(list) \subseteq Names(disk) \ ToSet(L)
    BY <2>2, <2>4
  <2>6. Len(list) <= Len(L) /\ Len(list) + 1 <= LargerOf(Most, Len(L))
    BY <1>3, <1>4, <2>3 DEF LargerOf
  <2>7. Opened(d, list)
    BY <2>1, <2>2, <2>3, Opening
  <2> QED
    BY <2>2, <2>3, <2>5, <2>6, <2>7 DEF RotatedTo
<1>6. CASE ~EnoughFiles
  <2>1. OpenNext(AfterWrite, L)
    BY <1>6 DEF WriteAndRotate
  <2>2. Among(AfterWrite, AfterWrite)
    BY DEF Among
  <2>3. Opened(AfterWrite, L)
    BY <1>2, <1>3, <2>1, Opening
  <2>4. Len(L) + 1 <= LargerOf(Most, Len(L))
    BY <1>3, <1>4, <1>6 DEF EnoughFiles, LargerOf
  <2> QED
    BY <1>2, <1>3, <2>2, <2>3, <2>4 DEF RotatedTo
<1> QED
  BY <1>5, <1>6

-----------------------------------------------------------------------------
(* The types hold after each action.                                       *)
LEMMA TypesStep ==
  ASSUME FilesAssumption, TypeOK, LiveFileOnDisk, RunInv, Next
  PROVE  TypeOK'
<1> USE DEF statics
<1>0. UNCHANGED setup /\ Directory(disk, M)
  BY Setting DEF Next
<1>01. /\ setup.MaxTime \in Nat /\ setup.MaxInits \in Nat /\ setup.MaxRuns \in Nat /\ setup.MaxMessages \in Nat /\ LastSn \in Nat
       /\ now \in 0..setup.MaxTime /\ inits \in 0..setup.MaxInits /\ runs \in 1..setup.MaxRuns
       /\ written \in 0..setup.MaxMessages /\ before \in 0..written
  BY Setting DEF TypeOK, M
<1>1. CASE Tick
  <2>1. now' \in 0..setup.MaxTime
    BY <1>01, <1>1 DEF Tick
  <2> QED
    BY <1>0, <1>1, <2>1, TypesKept DEF Tick, TypeOK
<1>2. CASE InitBegin
  <2>1. inits' \in 0..setup.MaxInits
    BY <1>01, <1>2 DEF InitBegin
  <2> QED
    BY <1>0, <1>2, <2>1, TypesKept DEF InitBegin, TypeOK
<1>3. CASE InitClean
  <2>1. Directory(disk', M)
    BY <1>0, <1>3, NewestKept, Setting DEF InitClean
  <2> QED
    BY <1>0, <1>3, <2>1, TypesKept DEF InitClean, TypeOK
<1>4. CASE InitOpen
  <2>1. Opened(disk, m_log_list)
    BY <1>0, <1>4, Opening DEF InitOpen, TypeOK
  <2> QED
    BY <1>0, <1>4, <2>1, TypesKept DEF InitOpen, Opened, TypeOK
<1>5. CASE InitEnd
  BY <1>0, <1>5, TypesKept DEF InitEnd, TypeOK
<1>6. CASE SetLogFormate
  BY <1>0, <1>6, TypesKept DEF SetLogFormate, TypeOK
<1>7. ASSUME WriteMessage \/ WriteAndRotate PROVE written' \in 0..setup.MaxMessages /\ before' \in 0..written'
  BY <1>01, <1>7 DEF WriteMessage, WriteAndRotate
<1>8. CASE WriteMessage
  <2>1. Directory(disk', M)
    BY <1>8, Writing DEF WriteMessage
  <2> QED
    BY <1>0, <1>7, <1>8, <2>1, TypesKept DEF WriteMessage, TypeOK
<1>9. CASE WriteAndRotate
  <2>1. PICK d, list : Opened(d, list)
    BY <1>9, Rotating DEF RotatedTo
  <2> QED
    BY <1>0, <1>7, <1>9, <2>1, TypesKept DEF WriteAndRotate, Opened, TypeOK
<1>10. CASE Restart
  <2>1. runs' \in 1..setup.MaxRuns /\ log_sequence_no' \in 0..LastSn /\ inits' \in 0..setup.MaxInits
        /\ before' \in 0..written'
    BY <1>01, <1>10 DEF Restart
  <2> QED
    BY <1>0, <1>10, <2>1, TypesKept DEF Restart, TypeOK
<1> QED
  BY <1>1, <1>2, <1>3, <1>4, <1>5, <1>6, <1>8, <1>9, <1>10 DEF Next

(* The open file stays on the disk.                                        *)
LEMMA LiveStep ==
  ASSUME FilesAssumption, TypeOK, LiveFileOnDisk, RunInv, Next
  PROVE  LiveFileOnDisk'
<1> USE DEF LiveFileOnDisk
<1>1. CASE Tick \/ SetLogFormate \/ InitEnd
  BY <1>1 DEF Tick, SetLogFormate, InitEnd, Names
<1>2. CASE InitBegin \/ Restart
  BY <1>2 DEF InitBegin, Restart
<1>3. CASE InitClean
  BY <1>3 DEF InitClean, RunInv
<1>4. CASE InitOpen
  <2>1. Opened(disk, m_log_list)
    BY <1>4, Opening, Setting DEF InitOpen, TypeOK
  <2> QED
    BY <2>1 DEF Opened
<1>5. CASE WriteMessage
  BY <1>5, Writing DEF WriteMessage
<1>6. CASE WriteAndRotate
  BY <1>6, Rotating DEF RotatedTo, Opened
<1> QED
  BY <1>1, <1>2, <1>3, <1>4, <1>5, <1>6 DEF Next

(* Where a run of the process stands.                                      *)
LEMMA RunStep ==
  ASSUME FilesAssumption, TypeOK, LiveFileOnDisk, RunInv, Next
  PROVE  RunInv'
<1> USE DEF statics
<1>0. inits \in Nat /\ ipc \in {"idle", "clean", "open", "set"}
  BY Setting DEF TypeOK
<1>1. CASE Tick \/ SetLogFormate \/ InitEnd
  BY <1>0, <1>1 DEF RunInv, Opens, Tick, SetLogFormate, InitEnd
<1>2. CASE InitBegin
  BY <1>0, <1>2 DEF RunInv, Opens, InitBegin
<1>3. CASE InitClean
  BY <1>0, <1>3 DEF RunInv, Opens, InitClean
<1>4. CASE InitOpen
  <2>1. Opened(disk, m_log_list)
    BY <1>4, Opening, Setting DEF InitOpen, TypeOK
  <2> QED
    BY <1>0, <1>4, <2>1 DEF RunInv, Opens, InitOpen, Opened
<1>5. CASE WriteMessage
  BY <1>0, <1>5 DEF RunInv, Opens, WriteMessage
<1>6. CASE WriteAndRotate
  <2>1. m_log_list' # <<>>
    BY <1>6, Rotating DEF RotatedTo, Opened
  <2> QED
    BY <1>0, <1>6, <2>1 DEF RunInv, Opens, WriteAndRotate
<1>7. CASE Restart
  BY <1>7 DEF RunInv, Opens, Restart
<1> QED
  BY <1>1, <1>2, <1>3, <1>4, <1>5, <1>6, <1>7 DEF Next

(* A message more, and a rotation, leave the sizes within the limit.       *)
LEMMA SizeStep ==
  ASSUME FilesAssumption, TypeOK, LiveFileOnDisk, RunInv, SizeInv, Next
  PROVE  SizeInv'
<1> USE DEF statics
<1> SUFFICES ASSUME ~setup'.MaySwitch, m_log_file_type' # "Date"
             PROVE  /\ \A i \in DOMAIN disk' : Len(disk'[i].messages) <= MostSize' + 1
                    /\ live' # NoFile => Len(Messages(disk', live')) <= MostSize'
  BY DEF SizeInv
<1>1. setup' = setup /\ MostSize' = MostSize
  BY DEF Next, MostSize, DefaultInc, IncSize
<1>2. ~setup.MaySwitch /\ m_log_file_type' = m_log_file_type /\ m_log_file_type # "Date"
  BY <1>1 DEF Next, Tick, InitBegin, InitClean, InitOpen, InitEnd, SetLogFormate, WriteMessage, WriteAndRotate, Restart
<1>3. MostSize \in Nat /\ m_inc_log_size \in Nat /\ m_inc_log_size <= MostSize /\ Directory(disk, M)
      /\ m_log_remain_counts \in Nat /\ m_log_file_type \in {"DateTime", "Date", "AutoIncSn"}
  BY Setting
<1>4. /\ \A i \in DOMAIN disk : Len(disk[i].messages) <= MostSize + 1
      /\ live # NoFile => Len(Messages(disk, live)) <= MostSize
  BY <1>2 DEF SizeInv
<1>5. CASE Tick \/ SetLogFormate \/ InitEnd
  BY <1>1, <1>4, <1>5 DEF Tick, SetLogFormate, InitEnd, Messages, Names
<1>6. CASE InitBegin \/ Restart
  BY <1>1, <1>4, <1>6 DEF InitBegin, Restart
<1>7. CASE InitClean
  <2>1. live' = NoFile
    BY <1>7 DEF InitClean, RunInv
  <2>2. Among(disk', disk)
    BY <1>3, <1>7, NewestKept DEF InitClean
  <2> QED
    BY <1>1, <1>4, <2>1, <2>2 DEF Among
<1>8. ASSUME NEW d, NEW list, Opened(d, list), \A i \in DOMAIN d : Len(d[i].messages) <= MostSize + 1
      PROVE  /\ \A i \in DOMAIN disk' : Len(disk'[i].messages) <= MostSize + 1
             /\ Len(Messages(disk', live')) <= MostSize
  <2>1. Messages(disk', live') = <<>>
    BY <1>2, <1>8 DEF Opened
  <2>2. \A k \in DOMAIN disk' : disk'[k].messages = <<>> \/ \E i \in DOMAIN d : disk'[k] = d[i]
    BY <1>8 DEF Opened
  <2>3. Len(<<>>) <= MostSize /\ Len(<<>>) <= MostSize + 1
    BY <1>3
  <2> QED
    BY <1>8, <2>1, <2>2, <2>3
<1>9. CASE InitOpen
  <2>1. Opened(disk, m_log_list)
    BY <1>9, Opening, Setting DEF InitOpen, TypeOK
  <2> QED
    BY <1>1, <1>4, <1>8, <2>1
<1>10. ASSUME live # NoFile, written < setup.MaxMessages
       PROVE  \A k \in DOMAIN AfterWrite : Len(AfterWrite[k].messages) <= MostSize + 1
  <2>1. Len(Messages(disk, live)) + 1 <= MostSize + 1
    <3>1. Messages(disk, live) \in Seq(1..M)
      BY <1>3, MessagesOf
    <3>2. Len(Messages(disk, live)) \in Nat
      BY <3>1
    <3> QED
      BY <1>3, <1>4, <1>10, <3>2
  <2>2. \A k \in DOMAIN AfterWrite :
          \/ Len(AfterWrite[k].messages) = Len(Messages(disk, live)) + 1
          \/ \E i \in DOMAIN disk : AfterWrite[k] = disk[i]
    BY <1>10, Writing
  <2> QED
    BY <1>4, <2>1, <2>2
<1>11. CASE WriteMessage
  <2>1. live # NoFile /\ written < setup.MaxMessages /\ disk' = AfterWrite /\ live' = live
    BY <1>11 DEF WriteMessage
  <2>2. Messages(disk, live) \in Seq(1..M)
    BY <1>3, MessagesOf
  <2>3. Len(Messages(disk, live)) + 1 <= m_inc_log_size
    <3>1. Len(Messages(disk, live)) \in Nat
      BY <2>2
    <3> QED
      BY <1>2, <1>3, <1>11, <3>1 DEF WriteMessage, Full
  <2>4. Len(Messages(AfterWrite, live)) = Len(Messages(disk, live)) + 1
    BY <2>1, Writing
  <2>5. Len(Messages(AfterWrite, live)) <= MostSize
    BY <1>3, <2>2, <2>3, <2>4
  <2> QED
    BY <1>1, <1>10, <2>1, <2>5
<1>12. CASE WriteAndRotate
  <2>1. PICK d, list : Among(d, AfterWrite) /\ Opened(d, list)
    BY <1>12, Rotating DEF RotatedTo
  <2>2. \A i \in DOMAIN d : Len(d[i].messages) <= MostSize + 1
    BY <1>10, <1>12, <2>1 DEF WriteAndRotate, Among
  <2> QED
    BY <1>1, <1>8, <2>1, <2>2
<1> QED
  BY <1>5, <1>6, <1>7, <1>9, <1>11, <1>12 DEF Next

(* The list of names does not grow beyond its bound.                       *)
LEMMA ListStep ==
  ASSUME FilesAssumption, TypeOK, LiveFileOnDisk, RunInv, ListInv, Next
  PROVE  ListInv'
<1> USE DEF statics, ListInv
<1>1. Most' = Most /\ Most \in Nat /\ inits \in Nat /\ ipc \in {"idle", "clean", "open", "set"}
      /\ m_log_list \in Seq(FileName) /\ Len(m_log_list) \in Nat
  BY Setting DEF Next, Most, DefaultRemain, Remain, TypeOK
<1>2. CASE Tick \/ SetLogFormate \/ InitEnd \/ InitBegin \/ InitClean \/ WriteMessage
  BY <1>1, <1>2 DEF Opens, Tick, SetLogFormate, InitEnd, InitBegin, InitClean, WriteMessage
<1>3. CASE InitOpen
  <2>1. Opened(disk, m_log_list)
    BY <1>3, Opening, Setting DEF InitOpen, TypeOK
  <2>2. Len(m_log_list') = Len(m_log_list) + 1
    BY <2>1 DEF Opened
  <2>3. Opens \in Nat /\ Opens' = Opens + 1
    BY <1>1, <1>3 DEF InitOpen, Opens, RunInv
  <2> QED
    BY <1>1, <2>2, <2>3 DEF LargerOf
<1>4. CASE WriteAndRotate
  <2>1. Len(m_log_list') <= LargerOf(Most, Len(m_log_list)) /\ Len(m_log_list') \in Nat
    <3>1. PICK d, list : RotatedTo(d, list)
      BY <1>4, Rotating
    <3> QED
      BY <3>1 DEF RotatedTo, Opened
  <2>2. Opens' = Opens /\ Opens \in Nat /\ Opens # 0
    BY <1>1, <1>4 DEF WriteAndRotate, Opens, RunInv
  <2> QED
    BY <1>1, <2>1, <2>2 DEF LargerOf
<1>5. CASE Restart
  BY <1>5 DEF Restart, Opens
<1> QED
  BY <1>2, <1>3, <1>4, <1>5 DEF Next

(* The count in force, and the list beside the files opened later.         *)
LEMMA LaterStep ==
  ASSUME FilesAssumption, TypeOK, LiveFileOnDisk, RunInv, ListInv, LaterInv, Next
  PROVE  LaterInv'
<1> USE DEF statics
<1>1. /\ UNCHANGED <<Remain, DefaultRemain>> /\ Remain \in Nat /\ DefaultRemain \in Nat \ {0}
      /\ inits \in Nat /\ ipc \in {"idle", "clean", "open", "set"} /\ later \in Nat
      /\ m_log_list \in Seq(FileName) /\ Len(m_log_list) \in Nat
  BY Setting, Counts DEF Next, DefaultRemain, Remain
<1>2. CASE Tick \/ SetLogFormate \/ InitClean \/ WriteMessage
  BY <1>1, <1>2 DEF LaterInv, ArgumentsStored, Tick, SetLogFormate, InitClean, WriteMessage
<1>3. CASE InitBegin \/ InitEnd \/ Restart
  BY <1>1, <1>3 DEF LaterInv, ArgumentsStored, RunInv, InitBegin, InitEnd, Restart
<1>4. CASE InitOpen
  <2>1. Len(m_log_list') = Len(m_log_list) + 1
    BY <1>4, Opening, Setting DEF InitOpen, TypeOK, Opened
  <2>2. later' = LaterOpened /\ ArgumentsStored' = ArgumentsStored /\ m_log_remain_counts' = m_log_remain_counts
    BY <1>1, <1>4 DEF InitOpen, OpenNext, ArgumentsStored
  <2>3. ~ArgumentsStored => Len(m_log_list) = 0
    BY <1>1, <1>4 DEF InitOpen, RunInv, Opens, ArgumentsStored
  <2> QED
    BY <1>1, <2>1, <2>2, <2>3 DEF LaterInv, LaterOpened
<1>5. CASE WriteAndRotate
  <2>1. later' = LaterOpened /\ ArgumentsStored' = ArgumentsStored /\ m_log_remain_counts' = m_log_remain_counts
    BY <1>1, <1>5 DEF WriteAndRotate, OpenNext, ArgumentsStored
  <2>2. m_log_list # <<>>
    BY <1>5 DEF WriteAndRotate, RunInv
  <2>3. IF EnoughFiles THEN Len(m_log_list') = Len(m_log_list) ELSE Len(m_log_list') = Len(m_log_list) + 1
    <3>1. m_log_list' = Append(IF EnoughFiles THEN Tail(m_log_list) ELSE m_log_list, LogFileName)
      BY <1>5 DEF WriteAndRotate, OpenNext
    <3>2. PICK d, list : RotatedTo(d, list)
      BY <1>5, Rotating
    <3>3. LogFileName \in FileName
      BY <3>2 DEF RotatedTo, Opened
    <3> QED
      BY <1>1, <2>2, <3>1, <3>3
  <2> QED
    BY <1>1, <2>1, <2>3 DEF LaterInv, LaterOpened, EnoughFiles
<1> QED
  BY <1>2, <1>3, <1>4, <1>5 DEF Next

(* What is written goes to a file that is open.                            *)
LEMMA FirstStep ==
  ASSUME FilesAssumption, TypeOK, RunInv, FirstInv, Next
  PROVE  FirstInv'
<1>1. inits \in Nat /\ ipc \in {"idle", "clean", "open", "set"}
  BY Counts
<1> QED
  BY <1>1 DEF FirstInv, Opens, RunInv, Next, Tick, InitBegin, InitClean, InitOpen, InitEnd, SetLogFormate,
              WriteMessage, WriteAndRotate, Restart, statics

(* The files outside the list become no more after the clean-up.           *)
LEMMA OthersStep ==
  ASSUME FilesAssumption, TypeOK, LiveFileOnDisk, RunInv, OthersInv, Next
  PROVE  OthersInv'
<1> USE DEF statics
<1>1. Most' = Most /\ Most \in Nat /\ Directory(disk, M) /\ inits \in Nat /\ m_log_list \in Seq(FileName)
      /\ m_log_remain_counts \in Nat /\ m_log_remain_counts <= Most /\ ipc \in {"idle", "clean", "open", "set"}
  BY Setting DEF Next, Most, DefaultRemain, Remain, TypeOK
<1> DEFINE X == Names(disk) \ ToSet(m_log_list)
           Y == Names(disk') \ ToSet(m_log_list')
<1>2. IsFiniteSet(Names(disk)) /\ IsFiniteSet(X)
  BY <1>1, AsManyNames, FS_Subset
<1>3. ASSUME CleanedUp, Y \subseteq X PROVE Cardinality(Y) <= Most
  <2>1. Cardinality(X) <= Most /\ Cardinality(X) \in Nat
    BY <1>2, <1>3, FS_CardinalityType DEF OthersInv
  <2> HIDE DEF X, Y
  <2>2. Cardinality(Y) <= Cardinality(X) /\ Cardinality(Y) \in Nat
    BY <1>2, <1>3, FS_Subset, FS_CardinalityType
  <2> QED
    BY <1>1, <2>1, <2>2
<1> SUFFICES ASSUME CleanedUp' PROVE Cardinality(Y) <= Most
  BY <1>1 DEF OthersInv
<1>4. CASE Tick \/ SetLogFormate \/ InitEnd \/ InitBegin
  <2>1. CleanedUp /\ Y \subseteq X
    BY <1>1, <1>4 DEF Tick, SetLogFormate, InitEnd, InitBegin, CleanedUp
  <2> QED
    BY <1>3, <2>1
<1>5. CASE InitClean
  <2>1. Directory(disk', M) /\ Len(disk') <= m_log_remain_counts
    BY <1>1, <1>5, NewestKept DEF InitClean
  <2>2. IsFiniteSet(Names(disk')) /\ Cardinality(Names(disk')) = Len(disk')
    BY <2>1, AsManyNames
  <2>3. Cardinality(Y) <= Cardinality(Names(disk'))
    BY <2>2, FS_Subset
  <2>4. Cardinality(Y) \in Nat /\ Cardinality(Names(disk')) \in Nat
    BY <2>2, FS_Subset, FS_CardinalityType
  <2> HIDE DEF Y
  <2> QED
    BY <1>1, <2>1, <2>2, <2>3, <2>4
<1>6. ASSUME NEW d, NEW list, Opened(d, list), Names(d) \ ToSet(list) \subseteq X PROVE Y \subseteq X
  BY <1>6 DEF Opened
<1>7. CASE InitOpen
  <2>1. Opened(disk, m_log_list)
    BY <1>7, Opening, Setting DEF InitOpen, TypeOK
  <2>2. CleanedUp
    BY <1>1, <1>7 DEF InitOpen, RunInv, CleanedUp
  <2> QED
    BY <1>3, <1>6, <2>1, <2>2
<1>8. CASE WriteMessage
  <2>1. Names(disk') = Names(disk) /\ m_log_list' = m_log_list /\ CleanedUp
    BY <1>8, Writing DEF WriteMessage, CleanedUp
  <2> QED
    BY <1>3, <2>1
<1>9. CASE WriteAndRotate
  <2>1. CleanedUp
    BY <1>9 DEF WriteAndRotate, CleanedUp
  <2>2. PICK d, list : Opened(d, list) /\ Names(d) \ ToSet(list) \subseteq X
    BY <1>9, Rotating DEF RotatedTo
  <2> QED
    BY <1>3, <1>6, <2>1, <2>2
<1>10. CASE Restart
  BY <1>10 DEF Restart, CleanedUp
<1> QED
  BY <1>4, <1>5, <1>7, <1>8, <1>9, <1>10 DEF Next

(* Cleaned up: the two bounds together are the one of the directory.       *)
LEMMA BoundFollows ==
  ASSUME FilesAssumption, TypeOK, RunInv, ListInv, OthersInv, CleanedUp
  PROVE  DiskBound
<1>1. Most \in Nat /\ Directory(disk, M) /\ inits \in Nat /\ m_log_list \in Seq(FileName)
      /\ ipc \in {"idle", "clean", "open", "set"}
  BY Setting DEF TypeOK
<1>2. Len(disk) <= Most + Len(m_log_list)
  BY <1>1, FewFiles DEF OthersInv
<1>3. Len(disk) \in Nat /\ Len(m_log_list) \in Nat
  BY <1>1 DEF Directory
<1>4. Opens \in Nat /\ Opens <= inits /\ Len(m_log_list) <= IF Opens = 0 THEN 0 ELSE LargerOf(Most, 1) + (Opens - 1)
  BY <1>1 DEF Opens, RunInv, ListInv
<1>5. Len(disk) <= Most + LargerOf(Most, 1) + LargerOf(inits - 1, 0)
  BY <1>1, <1>2, <1>3, <1>4 DEF LargerOf
<1> QED
  BY <1>5 DEF DiskBound, Most

(* The directory stays within its bound.                                   *)
LEMMA BoundStep ==
  ASSUME FilesAssumption, TypeOK, RunInv, ListInv, OthersInv, DiskBound, Next,
         TypeOK', RunInv', ListInv', OthersInv'
  PROVE  DiskBound'
<1>1. FilesAssumption'
  BY DEF FilesAssumption
<1>2. CASE CleanedUp'
  BY <1>1, <1>2, BoundFollows, PTL
<1>3. CASE ~CleanedUp'
  <2> USE DEF statics
  <2> DEFINE bound == Most + LargerOf(Most, 1) + LargerOf(setup.MaxInits - 1, 0)
  <2>1. /\ Most \in Nat /\ setup.MaxInits \in Nat /\ Len(disk) \in Nat /\ inits \in 0..setup.MaxInits
        /\ ipc \in {"idle", "clean", "open", "set"}
    <3>1. Directory(disk, M)
      BY Setting
    <3>2. Len(disk) \in Nat
      BY <3>1 DEF Directory
    <3> QED
      BY <3>2, Setting DEF TypeOK
  <2>2. Len(disk) <= bound
    BY <2>1 DEF DiskBound, Most, LargerOf
  <2>3. disk' = disk
    <3>1. CASE Tick \/ SetLogFormate \/ InitEnd \/ InitBegin \/ Restart
      BY <3>1 DEF Tick, SetLogFormate, InitEnd, InitBegin, Restart
    <3>2. CASE InitClean \/ InitOpen
      BY <1>3, <2>1, <3>2 DEF InitClean, InitOpen, CleanedUp, RunInv
    <3>3. CASE WriteMessage \/ WriteAndRotate
      BY <1>3, <2>1, <3>3 DEF WriteMessage, WriteAndRotate, CleanedUp, RunInv, Opens
    <3> QED
      BY <3>1, <3>2, <3>3 DEF Next
  <2>4. setup' = setup
    BY DEF Next
  <2> QED
    BY <1>3, <2>2, <2>3, <2>4 DEF DiskBound, Most, DefaultRemain, Remain
<1> QED
  BY <1>2, <1>3

-----------------------------------------------------------------------------
(* The start.                                                              *)
LEMMA Starts ==
  ASSUME FilesAssumption, Init
  PROVE  IInv
<1>1. setup \in SetupType
  BY DEF FilesAssumption, Init
<1>2. TypeOK
  <2>1. LastSn \in Nat /\ setup.MaxTime \in Nat /\ setup.MaxMessages \in Nat /\ setup.MaxInits \in Nat
    BY <1>1 DEF SetupType, LastSn
  <2>2. runs \in 1..setup.MaxRuns
    BY <1>1 DEF Init, SetupType
  <2> QED
    BY <2>1, <2>2 DEF Init, TypeOK
<1>3. LiveFileOnDisk /\ RunInv
  BY DEF LiveFileOnDisk, RunInv, Opens, Init
<1>4. Most \in Nat /\ MostSize \in Nat /\ setup.MaxInits \in Nat
  BY <1>2, Setting
<1>5. SizeInv
  BY DEF SizeInv, Init
<1>6. ListInv /\ OthersInv
  BY DEF ListInv, OthersInv, Opens, CleanedUp, Init
<1>7. DiskBound
  BY <1>4 DEF DiskBound, Most, LargerOf, CleanedUp, Init
<1>8. LaterInv
  <2>1. DefaultRemain \in Nat /\ m_log_list = <<>> /\ later = 0 /\ inits = 0 /\ m_log_remain_counts = DefaultRemain
    BY <1>2, Setting DEF Init
  <2> QED
    BY <2>1 DEF LaterInv, ArgumentsStored
<1>9. FirstInv
  BY DEF FirstInv, Init
<1> QED
  BY <1>2, <1>3, <1>5, <1>6, <1>7, <1>8, <1>9 DEF IInv

(* Every step.                                                             *)
LEMMA Steps ==
  ASSUME FilesAssumption, IInv, [Next]_vars
  PROVE  IInv'
<1> USE DEF IInv
<1>1. CASE Next
  <2>1. TypeOK' /\ LiveFileOnDisk' /\ RunInv'
    BY <1>1, TypesStep, LiveStep, RunStep
  <2>2. SizeInv' /\ ListInv' /\ OthersInv' /\ LaterInv' /\ FirstInv'
    BY <1>1, SizeStep, ListStep, OthersStep, LaterStep, FirstStep
  <2> QED
    BY <1>1, <2>1, <2>2, BoundStep
<1>2. CASE UNCHANGED vars
  <2> USE <1>2 DEF vars, statics
  <2>1. TypeOK'
    BY DEF TypeOK, LastSn, DefaultRemain, Remain, DefaultInc, IncSize, File
  <2>2. LiveFileOnDisk' /\ RunInv'
    BY DEF LiveFileOnDisk, RunInv, Opens, Names
  <2>3. SizeInv'
    BY DEF SizeInv, MostSize, DefaultInc, IncSize, Messages, Names
  <2>4. ListInv' /\ OthersInv' /\ DiskBound' /\ LaterInv' /\ FirstInv'
    BY DEF ListInv, OthersInv, DiskBound, LaterInv, FirstInv, ArgumentsStored, Most, DefaultRemain, Remain, Opens, CleanedUp, Names
  <2> QED
    BY <2>1, <2>2, <2>3, <2>4
<1> QED
  BY <1>1, <1>2

(* The inductive invariant holds throughout.                               *)
THEOREM Invariance == Spec => []IInv
<1>1. FilesAssumption => (Init => IInv)
  BY Starts
<1>2. FilesAssumption => (IInv /\ [Next]_vars => IInv')
  BY Steps
<1> QED
  BY <1>1, <1>2, FilesAssumption, PTL DEF Spec

(* Whatever the application sets up and calls, and however often the       *)
(* process is restarted: removal of old files never takes the one that is  *)
(* being written, and no name is on the disk twice.                        *)
THEOREM FileIsKept == Spec => []LiveFileIsKept
<1>1. IInv => LiveFileIsKept
  BY DEF IInv, LiveFileIsKept
<1> QED
  BY <1>1, Invariance, PTL

(* A file of a type that is rotated exceeds the limit by one message at    *)
(* most.                                                                   *)
THEOREM FilesAreBounded == Spec => []SizeBound
<1>1. IInv => SizeBound
  BY DEF IInv, SizeInv, SizeBound, MostSize
<1> QED
  BY <1>1, Invariance, PTL

(* The directory holds no more files than the two counts and the calls of  *)
(* init_logging allow, however much is logged.                             *)
THEOREM DirectoryIsBounded == Spec => []DiskBound
<1>1. IInv => DiskBound
  BY DEF IInv
<1> QED
  BY <1>1, Invariance, PTL

-----------------------------------------------------------------------------
(* Which messages are lost.  The i-th last of a sequence; the messages of  *)
(* a directory.                                                            *)
Nth(o, i) == o[Len(o) + 1 - i]
Kept(d) == UNION {ToSet(d[i].messages) : i \in DOMAIN d}

(* The list is the end of what was opened.                                 *)
EndOf(L, o) == Len(L) <= Len(o) /\ \A i \in 1..Len(L) : Nth(L, i) = Nth(o, i)

(* The N files opened last were modified last; the very last, if it is     *)
(* there, is the last.                                                     *)
RecentOn(d, o, N) == \A i \in 1..N : i <= Len(o) => \E p \in DOMAIN d : p > Len(d) - i /\ d[p].name = Nth(o, i)
LastOn(d, o) == o # <<>> /\ Nth(o, 1) \in Names(d) => d # <<>> /\ d[Len(d)].name = Nth(o, 1)

(* The messages after b are in the order of the files, all in files of the *)
(* list, none is missing between one of them and the last, w.              *)
InOrder(d, b) == \A p, q \in DOMAIN d : \A x \in ToSet(d[p].messages), y \in ToSet(d[q].messages) :
                   p < q /\ x > b /\ y > b => x < y
Unlisted(d, L, b) == \A p \in DOMAIN d : d[p].name \notin ToSet(L) => \A x \in ToSet(d[p].messages) : x <= b
LatestPart(d, b, w) == \A x \in Kept(d) : x <= w /\ (x > b => x..w \subseteq Kept(d))

Fits(d, L, o, b, w, N) ==
  /\ Names(d) \subseteq ToSet(o) /\ EndOf(L, o)
  /\ RecentOn(d, o, N) /\ LastOn(d, o)
  /\ InOrder(d, b) /\ Unlisted(d, L, b) /\ LatestPart(d, b, w)

(* The files of the list are in its order on the disk.                     *)
AsListed(d, L) == \A p, q \in DOMAIN d, i, j \in DOMAIN L :
                    d[p].name = L[i] /\ d[q].name = L[j] /\ i < j => p < q

(* Message w is in one of the N files opened last.                         *)
Newer(d, w, o, N) == \E p \in DOMAIN d, i \in 1..N :
  i <= Len(o) /\ p > Len(d) - i /\ d[p].name = Nth(o, i) /\ w \in ToSet(d[p].messages)

(* The messages of a directory, and that they are numbers.                 *)
LEMMA KeptIs ==
  ASSUME NEW d, NEW x
  PROVE  x \in Kept(d) <=> \E p \in DOMAIN d : x \in ToSet(d[p].messages)
BY DEF Kept

(* The messages of a directory are numbers.                                *)
LEMMA MessagesAreNumbers ==
  ASSUME NEW m \in Nat, NEW d, Directory(d, m)
  PROVE  (\A p \in DOMAIN d : ToSet(d[p].messages) \subseteq Nat) /\ Kept(d) \subseteq Nat
<1> DEFINE F == [name : FileName, messages : Seq(1..m)]
<1>1. \A f \in F : ToSet(f.messages) \subseteq Nat
  <2> SUFFICES ASSUME NEW f \in F PROVE ToSet(f.messages) \subseteq Nat
    OBVIOUS
  <2>1. f.messages \in Seq(Nat)
    OBVIOUS
  <2> QED
    BY <2>1 DEF ToSet
<1>2. d \in Seq(F)
  BY DEF Directory
<1> HIDE DEF F
<1>3. \A p \in DOMAIN d : ToSet(d[p].messages) \subseteq Nat
  BY <1>1, <1>2
<1> QED
  BY <1>3 DEF Kept

(* Some of the files of d, in their order.                                 *)
SubDirectory(r, d) ==
  /\ Among(r, d)
  /\ \A k, l \in DOMAIN r : k < l => \E i, j \in DOMAIN d : i < j /\ r[k] = d[i] /\ r[l] = d[j]

(* What holds for some of the files if it does for all.                    *)
LEMMA Fewer ==
  ASSUME NEW m, NEW d, Directory(d, m), NEW r, Directory(r, m), SubDirectory(r, d), NEW L, NEW b
  PROVE  /\ InOrder(d, b) => InOrder(r, b)
         /\ Unlisted(d, L, b) => Unlisted(r, L, b)
         /\ AsListed(d, L) => AsListed(r, L)
         /\ Kept(r) \subseteq Kept(d) /\ Names(r) \subseteq Names(d)
<1> USE DEF SubDirectory, Among
<1>0. DOMAIN r \subseteq Nat
  BY DEF Directory
<1>1. ASSUME InOrder(d, b) PROVE InOrder(r, b)
  BY <1>1 DEF InOrder
<1>2. ASSUME Unlisted(d, L, b) PROVE Unlisted(r, L, b)
  BY <1>2 DEF Unlisted
<1>3. ASSUME AsListed(d, L) PROVE AsListed(r, L)
  <2> SUFFICES ASSUME NEW p \in DOMAIN r, NEW q \in DOMAIN r, NEW i \in DOMAIN L, NEW j \in DOMAIN L,
                      r[p].name = L[i], r[q].name = L[j], i < j, ~(p < q)
               PROVE  FALSE
    BY DEF AsListed
  <2>1. CASE p = q
    <3>1. PICK g \in DOMAIN d : r[p] = d[g]
      OBVIOUS
    <3>2. g < g /\ g \in Nat
      BY <1>3, <2>1, <3>1 DEF AsListed, Directory
    <3> QED
      BY <3>2
  <2>2. CASE q < p
    <3>1. PICK g, h \in DOMAIN d : g < h /\ r[q] = d[g] /\ r[p] = d[h]
      BY <2>2
    <3>2. h < g /\ g \in Nat /\ h \in Nat
      BY <1>3, <3>1 DEF AsListed, Directory
    <3> QED
      BY <3>1, <3>2
  <2> QED
    BY <1>0, <2>1, <2>2
<1>4. Kept(r) \subseteq Kept(d)
  BY DEF Kept
<1>5. Names(r) \subseteq Names(d)
  BY DEF Names
<1> QED
  BY <1>1, <1>2, <1>3, <1>4, <1>5

(* A removal leaves the others in order and no further from the end.       *)
LEMMA RemovalKeeps ==
  ASSUME NEW m, NEW d, Directory(d, m), NEW n
  PROVE  /\ SubDirectory(Without(d, n), d)
         /\ \A i \in DOMAIN d : d[i].name # n =>
              \E k \in DOMAIN Without(d, n) :
                /\ Without(d, n)[k] = d[i]
                /\ \A x \in Nat : i > Len(d) - x => k > Len(Without(d, n)) - x
<1> DEFINE F == [name : FileName, messages : Seq(1..m)]
           l == Len(d)
<1>1. d \in Seq(F) /\ DOMAIN d = 1..l /\ l \in Nat
  BY DEF Directory
<1> HIDE DEF F
<1>2. CASE n \in Names(d)
  <2> DEFINE p == CHOOSE i \in DOMAIN d : d[i].name = n
             r == RemoveAt(d, p)
  <2>1. Without(d, n) = r
    BY <1>2 DEF Without
  <2>2. p \in 1..l /\ d[p].name = n
    BY <1>1, <1>2 DEF Names
  <2> HIDE DEF p
  <2>3. /\ r \in Seq(F) /\ Len(r) = l - 1
        /\ \A k \in 1..(l - 1) : r[k] = IF k < p THEN d[k] ELSE d[k + 1]
    BY <1>1, <2>2, RemovedAt
  <2> HIDE DEF r, l
  <2>4. DOMAIN r = 1..(l - 1)
    BY <1>1, <2>3
  <2> DEFINE e(k) == IF k < p THEN k ELSE k + 1
  <2>5. \A k \in DOMAIN r : e(k) \in DOMAIN d /\ r[k] = d[e(k)]
    BY <1>1, <2>2, <2>3, <2>4
  <2>6. \A k, j \in DOMAIN r : k < j => e(k) < e(j)
    BY <2>2, <2>4
  <2>7. ASSUME NEW i \in DOMAIN d, d[i].name # n
        PROVE  \E k \in DOMAIN r : r[k] = d[i] /\ \A x \in Nat : i > l - x => k > Len(r) - x
    <3>1. CASE i < p
      <4>1. i \in DOMAIN r /\ r[i] = d[i]
        BY <1>1, <2>2, <2>3, <2>4, <3>1
      <4>2. \A x \in Nat : i > l - x => i > Len(r) - x
        BY <1>1, <2>3
      <4> QED
        BY <4>1, <4>2
    <3>2. CASE ~(i < p)
      <4>0. i \in 1..l /\ i # p
        BY <1>1, <2>2, <2>7
      <4>1. i - 1 \in DOMAIN r /\ ~(i - 1 < p) /\ (i - 1) + 1 = i
        BY <1>1, <2>2, <2>4, <3>2, <4>0
      <4>2. r[i - 1] = d[i]
        BY <2>3, <2>4, <4>1
      <4>3. \A x \in Nat : i > l - x => i - 1 > Len(r) - x
        BY <1>1, <2>3
      <4> QED
        BY <4>1, <4>2, <4>3
    <3> QED
      BY <3>1, <3>2
  <2> HIDE DEF e
  <2>8. SubDirectory(r, d)
    BY <2>5, <2>6 DEF SubDirectory, Among
  <2> QED
    BY <2>1, <2>7, <2>8 DEF l
<1>3. CASE n \notin Names(d)
  <2>1. Without(d, n) = d
    BY <1>3 DEF Without
  <2> QED
    BY <2>1 DEF SubDirectory, Among
<1> QED
  BY <1>2, <1>3

(* The last k elements of a sequence.                                      *)
LEMMA EndPart ==
  ASSUME NEW S, NEW d \in Seq(S), NEW k \in 0..Len(d)
  PROVE  /\ SubSeq(d, Len(d) - k + 1, Len(d)) \in Seq(S) /\ Len(SubSeq(d, Len(d) - k + 1, Len(d))) = k
         /\ \A i \in 1..k : /\ i + (Len(d) - k) \in 1..Len(d)
                            /\ SubSeq(d, Len(d) - k + 1, Len(d))[i] = d[i + (Len(d) - k)]
<1> DEFINE l == Len(d)
           g == l - k + 1
           r == SubSeq(d, g, l)
<1>1. l \in Nat /\ g \in 1..(l + 1)
  OBVIOUS
<1>2. r \in Seq(S) /\ Len(r) = (IF g <= l THEN l - g + 1 ELSE 0) /\ \A i \in 1..(l - g + 1) : r[i] = d[g + i - 1]
  <2> HIDE DEF g
  <2> QED
    BY <1>1
<1> HIDE DEF r, l
<1>3. \A i \in 1..k : i + (l - k) \in 1..l /\ i \in 1..(l - g + 1) /\ g + i - 1 = i + (l - k)
  BY <1>1 DEF l
<1>4. Len(r) = k
  BY <1>1, <1>2 DEF l
<1> QED
  BY <1>2, <1>3, <1>4 DEF r, l

(* The clean-up.                                                           *)
LEMMA CleanedFits ==
  ASSUME NEW m \in Nat, NEW d, Directory(d, m), NEW n \in Nat, NEW L, NEW o \in Seq(FileName),
         NEW b \in Nat, NEW w \in Nat, NEW N \in Nat, N <= n, NEW G \in Nat, G <= n
  PROVE  /\ Fits(d, L, o, b, w, N) => Fits(Newest(d, n), L, o, b, w, N)
         /\ AsListed(d, L) => AsListed(Newest(d, n), L)
         /\ Newer(d, w, o, G) => Newer(Newest(d, n), w, o, G)
<1> DEFINE F == [name : FileName, messages : Seq(1..m)]
           l == Len(d)
           k == LesserOf(n, l)
           r == Newest(d, n)
<1>0. Kept(d) \subseteq Nat
  BY MessagesAreNumbers
<1>1. d \in Seq(F) /\ DOMAIN d = 1..l /\ l \in Nat
  BY DEF Directory
<1> HIDE DEF F
<1>2. k \in 0..l /\ k <= n /\ (k = l \/ k = n)
  BY <1>1 DEF LesserOf
<1>3. r = SubSeq(d, l - k + 1, l)
  BY DEF Newest
<1>4. Directory(r, m)
  BY NewestKept
<1> HIDE DEF r, k
<1>5. r \in Seq(F) /\ Len(r) = k /\ \A i \in 1..k : i + (l - k) \in 1..l /\ r[i] = d[i + (l - k)]
  BY <1>1, <1>2, <1>3, EndPart
<1> HIDE DEF l
<1>6. DOMAIN r = 1..k
  BY <1>2, <1>5
<1> DEFINE e(i) == i + (l - k)
<1>7. \A i \in DOMAIN r : e(i) \in DOMAIN d /\ r[i] = d[e(i)]
  BY <1>1, <1>5, <1>6
<1>8. \A i, j \in DOMAIN r : i < j => e(i) < e(j)
  BY <1>1, <1>2, <1>6
<1>9. \A i \in DOMAIN d : i > l - k => i - (l - k) \in DOMAIN r /\ r[i - (l - k)] = d[i]
  <2> SUFFICES ASSUME NEW i \in DOMAIN d, i > l - k PROVE i - (l - k) \in DOMAIN r /\ r[i - (l - k)] = d[i]
    OBVIOUS
  <2>1. i - (l - k) \in 1..k /\ (i - (l - k)) + (l - k) = i
    BY <1>1, <1>2
  <2> QED
    BY <1>5, <1>6, <2>1
<1>10. SubDirectory(r, d)
  <2> HIDE DEF e
  <2> QED
    BY <1>7, <1>8 DEF SubDirectory, Among
<1>11. /\ \A a : InOrder(d, a) => InOrder(r, a)
       /\ \A a : Unlisted(d, L, a) => Unlisted(r, L, a)
       /\ AsListed(d, L) => AsListed(r, L)
       /\ Kept(r) \subseteq Kept(d) /\ Names(r) \subseteq Names(d)
  BY <1>4, <1>10, Fewer
<1>12. \A i \in DOMAIN d : \A x \in Nat : x <= n /\ i > l - x =>
         \E j \in DOMAIN r : r[j] = d[i] /\ j > Len(r) - x
  <2> SUFFICES ASSUME NEW i \in DOMAIN d, NEW x \in Nat, x <= n, i > l - x
               PROVE  \E j \in DOMAIN r : r[j] = d[i] /\ j > Len(r) - x
    OBVIOUS
  <2>1. i > l - k /\ i \in Nat
    BY <1>1, <1>2
  <2>2. i - (l - k) > Len(r) - x
    BY <1>1, <1>2, <1>5, <2>1
  <2> QED
    BY <1>9, <2>1, <2>2
<1>13. ASSUME Fits(d, L, o, b, w, N) PROVE Fits(r, L, o, b, w, N)
  <2>1. /\ Names(d) \subseteq ToSet(o) /\ EndOf(L, o) /\ RecentOn(d, o, N) /\ LastOn(d, o)
        /\ InOrder(d, b) /\ Unlisted(d, L, b) /\ LatestPart(d, b, w)
    BY <1>13 DEF Fits
  <2>2. RecentOn(r, o, N)
    <3> SUFFICES ASSUME NEW i \in 1..N, i <= Len(o)
                 PROVE  \E p \in DOMAIN r : p > Len(r) - i /\ r[p].name = Nth(o, i)
      BY DEF RecentOn
    <3>1. PICK p \in DOMAIN d : p > Len(d) - i /\ d[p].name = Nth(o, i)
      BY <2>1 DEF RecentOn
    <3>2. i \in Nat /\ i <= n
      OBVIOUS
    <3> QED
      BY <1>12, <3>1, <3>2 DEF l
  <2>3. LastOn(r, o)
    <3> SUFFICES ASSUME o # <<>>, Nth(o, 1) \in Names(r) PROVE r # <<>> /\ r[Len(r)].name = Nth(o, 1)
      BY DEF LastOn
    <3>1. d # <<>> /\ d[l].name = Nth(o, 1)
      BY <1>11, <2>1 DEF LastOn, l
    <3>2. k \in 1..k /\ r # <<>>
      BY <1>2, <1>6 DEF Names
    <3>3. r[k] = d[l]
      BY <1>1, <1>2, <1>5, <3>2
    <3> QED
      BY <1>5, <3>1, <3>2, <3>3
  <2>4. LatestPart(r, b, w)
    <3> SUFFICES ASSUME NEW x \in Kept(r), x > b, NEW y \in x..w PROVE y \in Kept(r)
      BY <1>11, <2>1 DEF LatestPart
    <3>1. PICK p \in DOMAIN r : x \in ToSet(r[p].messages)
      BY DEF Kept
    <3>2. x \in Kept(d) /\ y \in Kept(d)
      BY <1>11, <2>1 DEF LatestPart
    <3>3. PICK q \in DOMAIN d : y \in ToSet(d[q].messages)
      BY <3>2 DEF Kept
    <3>4. e(p) \in DOMAIN d /\ r[p] = d[e(p)]
      BY <1>7
    <3>5. x \in Nat /\ y \in Nat /\ y >= x /\ y > b
      <4>1. x \in Nat
        BY <1>0, <3>2
      <4> QED
        BY <4>1
    <3>6. ~(q < e(p))
      <4> HIDE DEF e
      <4> SUFFICES ASSUME q < e(p) PROVE FALSE
        OBVIOUS
      <4>1. y < x
        BY <2>1, <3>1, <3>3, <3>4, <3>5 DEF InOrder
      <4> QED
        BY <3>5, <4>1
    <3>7. q > l - k /\ q \in Nat
      BY <1>1, <1>2, <1>6, <3>6
    <3> QED
      BY <1>9, <3>3, <3>7 DEF Kept
  <2> QED
    BY <1>11, <2>1, <2>2, <2>3, <2>4 DEF Fits
<1>14. ASSUME Newer(d, w, o, G) PROVE Newer(r, w, o, G)
  <2>1. PICK p \in DOMAIN d, i \in 1..G :
          i <= Len(o) /\ p > l - i /\ d[p].name = Nth(o, i) /\ w \in ToSet(d[p].messages)
    BY <1>14 DEF Newer, l
  <2>2. i \in Nat /\ i <= n
    OBVIOUS
  <2>3. PICK j \in DOMAIN r : r[j] = d[p] /\ j > Len(r) - i
    BY <1>12, <2>1, <2>2
  <2> QED
    BY <2>1, <2>3 DEF Newer
<1> QED
  BY <1>11, <1>13, <1>14 DEF r

(* The message after w goes to the last file, r instead of d.              *)
WrittenLast(d, r, w) ==
  /\ Len(r) = Len(d) /\ d # <<>>
  /\ \A i \in 1..(Len(d) - 1) : r[i] = d[i]
  /\ r[Len(d)].name = d[Len(d)].name
  /\ ToSet(r[Len(d)].messages) = ToSet(d[Len(d)].messages) \cup {w + 1}

LEMMA WrittenFits ==
  ASSUME NEW m \in Nat, NEW d, Directory(d, m), NEW r, Directory(r, m), NEW L, NEW o \in Seq(FileName),
         NEW b \in Nat, NEW w \in Nat, b <= w, WrittenLast(d, r, w),
         d[Len(d)].name \in ToSet(L), o # <<>>, d[Len(d)].name = Nth(o, 1), NEW N \in Nat
  PROVE  /\ Fits(d, L, o, b, w, N) => Fits(r, L, o, b, w + 1, N)
         /\ AsListed(d, L) => AsListed(r, L)
         /\ Newer(r, w + 1, o, 1)
<1> DEFINE l == Len(d)
<1>1. l \in Nat \ {0} /\ DOMAIN d = 1..l /\ DOMAIN r = 1..l /\ Len(r) = l
  BY DEF Directory, WrittenLast
<1>2. \A p \in DOMAIN d : r[p].name = d[p].name /\ (p # l => r[p] = d[p])
  BY <1>1 DEF WrittenLast
<1>3. ToSet(r[l].messages) = ToSet(d[l].messages) \cup {w + 1}
  BY DEF WrittenLast
<1>4. d[l].name \in ToSet(L) /\ d[l].name = Nth(o, 1)
  OBVIOUS
<1> HIDE DEF l
<1>5. \A p \in DOMAIN d : ToSet(d[p].messages) \subseteq ToSet(r[p].messages)
  BY <1>2, <1>3
<1>6. \A p \in DOMAIN d : \A x \in ToSet(r[p].messages) : x \in ToSet(d[p].messages) \/ (p = l /\ x = w + 1)
  BY <1>2, <1>3
<1>7. Names(r) = Names(d)
  BY <1>1, <1>2 DEF Names
<1>8. Kept(r) = Kept(d) \cup {w + 1}
  <2>1. l \in DOMAIN d
    BY <1>1
  <2>2. \A x : x \in Kept(r) <=> x \in Kept(d) \/ x = w + 1
    <3> TAKE x
    <3>1. x \in Kept(r) <=> \E p \in DOMAIN d : x \in ToSet(r[p].messages)
      BY <1>1, KeptIs
    <3>2. x \in Kept(d) <=> \E p \in DOMAIN d : x \in ToSet(d[p].messages)
      BY KeptIs
    <3> QED
      BY <1>3, <1>5, <1>6, <2>1, <3>1, <3>2
  <2> QED
    BY <2>2
<1>9. ASSUME Fits(d, L, o, b, w, N) PROVE Fits(r, L, o, b, w + 1, N)
  <2>1. /\ Names(d) \subseteq ToSet(o) /\ EndOf(L, o) /\ RecentOn(d, o, N) /\ LastOn(d, o)
        /\ InOrder(d, b) /\ Unlisted(d, L, b) /\ LatestPart(d, b, w)
    BY <1>9 DEF Fits
  <2>2. RecentOn(r, o, N)
    BY <1>1, <1>2, <2>1 DEF RecentOn, l
  <2>3. LastOn(r, o)
    BY <1>1, <1>2, <1>4 DEF LastOn
  <2>4. InOrder(r, b)
    <3> SUFFICES ASSUME NEW p \in DOMAIN r, NEW q \in DOMAIN r,
                        NEW x \in ToSet(r[p].messages), NEW y \in ToSet(r[q].messages), p < q, x > b, y > b
                 PROVE  x < y
      BY DEF InOrder
    <3>1. x \in ToSet(d[p].messages) /\ x <= w
      <4>1. p # l
        BY <1>1
      <4>2. x \in ToSet(d[p].messages)
        BY <1>1, <1>6, <4>1
      <4>3. x \in Kept(d)
        BY <1>1, <4>2 DEF Kept
      <4> QED
        BY <2>1, <4>2, <4>3 DEF LatestPart
    <3>2. CASE y \in ToSet(d[q].messages)
      BY <1>1, <2>1, <3>1, <3>2 DEF InOrder
    <3>3. CASE y = w + 1
      <4>1. x \in Nat
        BY MessagesAreNumbers
      <4> QED
        BY <3>1, <3>3, <4>1
    <3> QED
      BY <1>1, <1>6, <3>2, <3>3
  <2>5. Unlisted(r, L, b)
    BY <1>1, <1>2, <1>4, <2>1 DEF Unlisted
  <2>6. LatestPart(r, b, w + 1)
    <3> SUFFICES ASSUME NEW x \in Kept(r) PROVE x <= w + 1 /\ (x > b => x..(w + 1) \subseteq Kept(r))
      BY DEF LatestPart
    <3>1. CASE x = w + 1
      BY <1>8, <3>1
    <3>2. CASE x \in Kept(d)
      <4>1. x <= w /\ (x > b => x..w \subseteq Kept(d))
        BY <2>1, <3>2 DEF LatestPart
      <4>2. x \in Int
        BY <3>2, MessagesAreNumbers
      <4>3. \A y \in x..(w + 1) : y \in x..w \/ y = w + 1
        BY <4>2
      <4> QED
        BY <1>8, <4>1, <4>2, <4>3
    <3> QED
      BY <1>8, <3>1, <3>2
  <2> QED
    BY <1>7, <2>1, <2>2, <2>3, <2>4, <2>5, <2>6 DEF Fits
<1>10. ASSUME AsListed(d, L) PROVE AsListed(r, L)
  BY <1>1, <1>2, <1>10 DEF AsListed
<1>11. Newer(r, w + 1, o, 1)
  <2>1. l \in DOMAIN r /\ 1 \in 1..1 /\ 1 <= Len(o) /\ l > Len(r) - 1
    BY <1>1
  <2>2. r[l].name = Nth(o, 1) /\ w + 1 \in ToSet(r[l].messages)
    BY <1>1, <1>2, <1>3, <1>4
  <2> QED
    BY <2>1, <2>2 DEF Newer
<1> QED
  BY <1>9, <1>10, <1>11

(* The oldest of the list is removed.                                      *)
LEMMA RemovedFits ==
  ASSUME NEW m \in Nat, NEW d, Directory(d, m), NEW L \in Seq(FileName), L # <<>>,
         NEW o \in Seq(FileName), NEW b \in Nat, NEW w \in Nat, NEW N \in Nat, N <= Len(L),
         Fits(d, L, o, b, w, N), AsListed(d, L)
  PROVE  /\ Fits(Without(d, Head(L)), Tail(L), o, b, w, N - 1)
         /\ AsListed(Without(d, Head(L)), Tail(L))
         /\ Len(L) > 1 /\ Newer(d, w, o, 1) => Newer(Without(d, Head(L)), w, o, 1)
<1> DEFINE n == Head(L)
           T == Tail(L)
           r == Without(d, n)
           l == Len(L)
<1>1. l \in Nat \ {0} /\ DOMAIN L = 1..l /\ n = L[1]
  OBVIOUS
<1>2. T \in Seq(FileName) /\ Len(T) = l - 1 /\ \A i \in 1..(l - 1) : T[i] = L[i + 1]
  OBVIOUS
<1> HIDE DEF T, n, l
<1>3. DOMAIN T = 1..(l - 1)
  BY <1>1, <1>2
<1>4. Directory(r, m) /\ Names(r) = Names(d) \ {n}
  BY WithoutName
<1>5. /\ SubDirectory(r, d)
      /\ \A i \in DOMAIN d : d[i].name # n =>
           \E k \in DOMAIN r : r[k] = d[i] /\ \A x \in Nat : i > Len(d) - x => k > Len(r) - x
  BY RemovalKeeps
<1> HIDE DEF r
<1>6. /\ InOrder(d, b) => InOrder(r, b)
      /\ Unlisted(d, L, b) => Unlisted(r, L, b)
      /\ AsListed(d, L) => AsListed(r, L)
      /\ Kept(r) \subseteq Kept(d) /\ Names(r) \subseteq Names(d)
  BY <1>4, <1>5, Fewer
<1>7. /\ Names(d) \subseteq ToSet(o) /\ EndOf(L, o) /\ RecentOn(d, o, N) /\ LastOn(d, o)
      /\ InOrder(d, b) /\ Unlisted(d, L, b) /\ LatestPart(d, b, w) /\ AsListed(d, L)
  BY DEF Fits
<1>8. Len(o) \in Nat /\ l <= Len(o) /\ n = Nth(o, l) /\ \A i \in 1..l : L[l + 1 - i] = Nth(o, i)
  <2>1. \A i \in 1..l : L[l + 1 - i] = Nth(o, i)
    BY <1>7 DEF EndOf, Nth, l
  <2>2. l \in 1..l /\ l + 1 - l = 1
    BY <1>1
  <2> QED
    BY <1>1, <1>7, <2>1, <2>2 DEF EndOf, l
<1>9. EndOf(T, o)
  <2>1. \A i \in 1..(l - 1) : T[(l - 1) + 1 - i] = L[l + 1 - i] /\ i \in 1..l
    <3> SUFFICES ASSUME NEW i \in 1..(l - 1) PROVE T[(l - 1) + 1 - i] = L[l + 1 - i] /\ i \in 1..l
      OBVIOUS
    <3>1. (l - 1) + 1 - i \in 1..(l - 1) /\ ((l - 1) + 1 - i) + 1 = l + 1 - i /\ i \in 1..l
      BY <1>1
    <3> QED
      BY <1>2, <3>1
  <2> QED
    BY <1>1, <1>2, <1>8, <2>1 DEF EndOf, Nth
<1>10. ASSUME NEW p \in DOMAIN d, NEW i \in 1..(l - 1), d[p].name = Nth(o, i)
       PROVE  d[p].name # n
  <2> SUFFICES ASSUME d[p].name = n PROVE FALSE
    OBVIOUS
  <2>1. 1 \in DOMAIN L /\ l + 1 - i \in DOMAIN L /\ 1 < l + 1 - i /\ i \in 1..l
    BY <1>1
  <2>2. d[p].name = L[1] /\ d[p].name = L[l + 1 - i]
    BY <1>1, <1>8, <1>10, <2>1
  <2>3. p < p
    BY <1>7, <2>1, <2>2 DEF AsListed
  <2>4. p \in Nat
    BY DEF Directory
  <2> QED
    BY <2>3, <2>4
<1>11. RecentOn(r, o, N - 1)
  <2> SUFFICES ASSUME NEW i \in 1..(N - 1), i <= Len(o)
               PROVE  \E p \in DOMAIN r : p > Len(r) - i /\ r[p].name = Nth(o, i)
    BY DEF RecentOn
  <2>1. i \in 1..N /\ i \in 1..(l - 1) /\ i \in Nat
    BY <1>1 DEF l
  <2>2. PICK p \in DOMAIN d : p > Len(d) - i /\ d[p].name = Nth(o, i)
    BY <1>7, <2>1 DEF RecentOn
  <2>3. d[p].name # n
    BY <1>10, <2>1, <2>2
  <2> QED
    BY <1>5, <2>1, <2>2, <2>3
<1>12. LastOn(r, o)
  <2> SUFFICES ASSUME o # <<>>, Nth(o, 1) \in Names(r) PROVE r # <<>> /\ r[Len(r)].name = Nth(o, 1)
    BY DEF LastOn
  <2>1. d # <<>> /\ d[Len(d)].name = Nth(o, 1) /\ Nth(o, 1) # n
    BY <1>4, <1>6, <1>7 DEF LastOn
  <2>2. Len(d) \in DOMAIN d /\ Len(d) > Len(d) - 1 /\ 1 \in Nat
    BY <2>1 DEF Directory
  <2>3. PICK k \in DOMAIN r : r[k] = d[Len(d)] /\ k > Len(r) - 1
    BY <1>5, <2>1, <2>2
  <2>4. DOMAIN r = 1..Len(r) /\ Len(r) \in Nat
    BY <1>4 DEF Directory
  <2>5. k = Len(r) /\ r # <<>>
    BY <2>3, <2>4
  <2> QED
    BY <2>1, <2>3, <2>5
<1>13. \A x \in ToSet(L) : x = n \/ x \in ToSet(T)
  <2>1. \A i \in DOMAIN L : i = 1 \/ (i - 1 \in DOMAIN T /\ T[i - 1] = L[i])
    <3> SUFFICES ASSUME NEW i \in DOMAIN L, i # 1 PROVE i - 1 \in DOMAIN T /\ T[i - 1] = L[i]
      OBVIOUS
    <3>1. i - 1 \in 1..(l - 1) /\ (i - 1) + 1 = i
      BY <1>1
    <3> QED
      BY <1>2, <1>3, <3>1
  <2> QED
    BY <1>1, <2>1 DEF ToSet
<1>14. Unlisted(r, T, b)
  <2> SUFFICES ASSUME NEW p \in DOMAIN r, r[p].name \notin ToSet(T) PROVE \A x \in ToSet(r[p].messages) : x <= b
    BY DEF Unlisted
  <2>1. r[p].name # n
    BY <1>4 DEF Names
  <2> QED
    BY <1>6, <1>7, <1>13, <2>1 DEF Unlisted
<1>15. LatestPart(r, b, w)
  <2> SUFFICES ASSUME NEW x \in Kept(r), x > b, NEW y \in x..w PROVE y \in Kept(r)
    BY <1>6, <1>7 DEF LatestPart
  <2>1. x \in Kept(d) /\ y \in Kept(d) /\ x \in Nat
    BY <1>6, <1>7, MessagesAreNumbers DEF LatestPart
  <2>2. PICK k \in DOMAIN r : x \in ToSet(r[k].messages)
    BY KeptIs
  <2>3. PICK p \in DOMAIN d : r[k] = d[p]
    BY <1>5 DEF SubDirectory, Among
  <2>4. PICK q \in DOMAIN d : y \in ToSet(d[q].messages)
    BY <2>1, KeptIs
  <2>5. d[q].name # n
    <3> SUFFICES ASSUME d[q].name = n PROVE FALSE
      OBVIOUS
    <3>1. d[p].name \in ToSet(L) /\ d[p].name # n
      <4>1. ~(x <= b)
        BY <2>1
      <4>2. d[p].name \in ToSet(L)
        BY <1>7, <2>2, <2>3, <4>1 DEF Unlisted
      <4>3. r[k].name # n
        BY <1>4 DEF Names
      <4> QED
        BY <2>3, <4>2, <4>3
    <3>2. PICK j \in DOMAIN L : d[p].name = L[j]
      BY <3>1 DEF ToSet
    <3>3. 1 \in DOMAIN L /\ 1 < j
      BY <1>1, <3>1, <3>2
    <3>4. q < p
      BY <1>1, <1>7, <3>2, <3>3 DEF AsListed
    <3>5. y > b
      BY <2>1
    <3>6. y < x
      BY <1>7, <2>2, <2>3, <2>4, <3>4, <3>5 DEF InOrder
    <3> QED
      BY <2>1, <3>6
  <2>6. \E j \in DOMAIN r : r[j] = d[q]
    BY <1>5, <2>5
  <2> QED
    BY <2>4, <2>6, KeptIs
<1>16. AsListed(r, T)
  <2>1. \A i \in DOMAIN T : i + 1 \in DOMAIN L /\ T[i] = L[i + 1]
    BY <1>1, <1>2, <1>3
  <2>2. \A i, j \in DOMAIN T : i < j => i + 1 < j + 1
    BY <1>3
  <2> QED
    BY <1>6, <1>7, <2>1, <2>2 DEF AsListed
<1>17. ASSUME l > 1, Newer(d, w, o, 1) PROVE Newer(r, w, o, 1)
  <2>1. PICK p \in DOMAIN d, i \in 1..1 :
          i <= Len(o) /\ p > Len(d) - i /\ d[p].name = Nth(o, i) /\ w \in ToSet(d[p].messages)
    BY <1>17 DEF Newer
  <2>2. i \in 1..(l - 1) /\ i \in Nat
    BY <1>1, <1>17
  <2>3. d[p].name # n
    BY <1>10, <2>1, <2>2
  <2>4. PICK k \in DOMAIN r : r[k] = d[p] /\ k > Len(r) - i
    BY <1>5, <2>1, <2>2, <2>3
  <2> QED
    BY <2>1, <2>4 DEF Newer
<1>18. Fits(r, T, o, b, w, N - 1)
  BY <1>6, <1>7, <1>9, <1>11, <1>12, <1>14, <1>15 DEF Fits
<1> QED
  BY <1>16, <1>17, <1>18 DEF r, n, T, l

(* One more at the end: the i-th last is the next.                         *)
LEMMA NthOfMore ==
  ASSUME NEW S, NEW s \in Seq(S), NEW x \in S
  PROVE  /\ Nth(Append(s, x), 1) = x
         /\ \A i \in 1..Len(s) : i + 1 \in 1..Len(Append(s, x)) /\ Nth(Append(s, x), i + 1) = Nth(s, i)
         /\ \A i \in 1..Len(Append(s, x)) : i = 1 \/ (i - 1 \in 1..Len(s) /\ Nth(Append(s, x), i) = Nth(s, i - 1))
<1> DEFINE r == Append(s, x)
           n == Len(s)
<1>1. n \in Nat
  OBVIOUS
<1>2. Len(r) = n + 1 /\ r[n + 1] = x /\ \A i \in 1..n : r[i] = s[i]
  BY OneMore
<1> HIDE DEF r, n
<1>3. Nth(r, 1) = x
  BY <1>1, <1>2 DEF Nth
<1>4. \A i \in 1..n : i + 1 \in 1..Len(r) /\ Nth(r, i + 1) = Nth(s, i)
  <2> SUFFICES ASSUME NEW i \in 1..n PROVE i + 1 \in 1..Len(r) /\ Nth(r, i + 1) = Nth(s, i)
    OBVIOUS
  <2>1. Len(r) + 1 - (i + 1) = n + 1 - i /\ n + 1 - i \in 1..n /\ i + 1 \in 1..Len(r)
    BY <1>1, <1>2
  <2> QED
    BY <1>2, <2>1 DEF Nth, n
<1>5. \A i \in 1..Len(r) : i = 1 \/ (i - 1 \in 1..n /\ (i - 1) + 1 = i)
  BY <1>1, <1>2
<1> QED
  BY <1>3, <1>4, <1>5 DEF r, n

(* The list and what was opened grow by the same name.                     *)
LEMMA EndOfMore ==
  ASSUME NEW L \in Seq(FileName), NEW o \in Seq(FileName), NEW n \in FileName, EndOf(L, o)
  PROVE  EndOf(Append(L, n), Append(o, n))
<1>1. Len(Append(L, n)) = Len(L) + 1 /\ Len(Append(o, n)) = Len(o) + 1 /\ Len(L) \in Nat /\ Len(o) \in Nat
  BY OneMore
<1>2. Len(L) <= Len(o) /\ \A i \in 1..Len(L) : Nth(L, i) = Nth(o, i)
  BY DEF EndOf
<1>3. ASSUME NEW i \in 1..Len(Append(L, n)) PROVE Nth(Append(L, n), i) = Nth(Append(o, n), i)
  <2>1. CASE i = 1
    BY <2>1, NthOfMore
  <2>2. CASE i # 1
    <3>1. i - 1 \in 1..Len(L) /\ i - 1 \in 1..Len(o) /\ i \in 1..Len(Append(o, n))
      BY <1>1, <1>2, <2>2
    <3>2. Nth(Append(L, n), i) = Nth(L, i - 1) /\ Nth(Append(o, n), i) = Nth(o, i - 1)
      BY <2>2, <3>1, NthOfMore
    <3> QED
      BY <1>2, <3>1, <3>2
  <2> QED
    BY <2>1, <2>2
<1> QED
  BY <1>1, <1>2, <1>3 DEF EndOf

(* The next file is opened, and is empty.                                  *)
LEMMA OpenedEmptyFits ==
  ASSUME NEW m \in Nat, NEW d, Directory(d, m), NEW L \in Seq(FileName), NEW o \in Seq(FileName),
         NEW n \in FileName, n \notin ToSet(L) \/ n \notin Names(d),
         NEW b \in Nat, NEW w \in Nat, NEW N \in Nat, Fits(d, L, o, b, w, N - 1)
  PROVE  /\ Fits(Truncated(d, n), Append(L, n), Append(o, n), b, w, N)
         /\ n \notin ToSet(L) /\ AsListed(d, L) => AsListed(Truncated(d, n), Append(L, n))
         /\ \A G \in Nat : w > b /\ Newer(d, w, o, G) => Newer(Truncated(d, n), w, Append(o, n), G + 1)
<1> DEFINE v == Without(d, n)
           f == [name |-> n, messages |-> <<>>]
           r == Truncated(d, n)
           l == Len(v)
           K == Append(L, n)
           u == Append(o, n)
<1>1. Directory(v, m) /\ Names(v) = Names(d) \ {n}
  BY WithoutName
<1>2. /\ SubDirectory(v, d)
      /\ \A i \in DOMAIN d : d[i].name # n =>
           \E k \in DOMAIN v : v[k] = d[i] /\ \A x \in Nat : i > Len(d) - x => k > l - x
  BY RemovalKeeps
<1>3. /\ InOrder(d, b) => InOrder(v, b)
      /\ Unlisted(d, L, b) => Unlisted(v, L, b)
      /\ AsListed(d, L) => AsListed(v, L)
      /\ Kept(v) \subseteq Kept(d) /\ Names(v) \subseteq Names(d)
  BY <1>1, <1>2, Fewer
<1>4. f.name = n /\ ToSet(f.messages) = {} /\ f \in [name : FileName, messages : Seq(1..m)]
  <2> DEFINE none == <<>>
  <2>1. none \in Seq(1..m) /\ ToSet(none) = {}
    BY DEF ToSet
  <2> HIDE DEF none
  <2>2. f = [name |-> n, messages |-> none]
    BY DEF none
  <2> QED
    BY <2>1, <2>2
<1> DEFINE F == [name : FileName, messages : Seq(1..m)]
<1>5. v \in Seq(F) /\ DOMAIN v = 1..l /\ l \in Nat
  BY <1>1 DEF Directory
<1>6. r = Append(v, f)
  BY DEF Truncated
<1> HIDE DEF v, f, r, l, F
<1>7. Len(r) = l + 1 /\ r[l + 1] = f /\ \A i \in 1..l : r[i] = v[i]
  BY <1>4, <1>5, <1>6, OneMore DEF F, l
<1>8. Directory(r, m) /\ Names(r) = Names(d) \cup {n}
  BY FileOpened DEF r
<1>9. DOMAIN r = 1..(l + 1)
  BY <1>7, <1>8 DEF Directory
<1>10. \A k \in DOMAIN r : (k = l + 1 /\ r[k] = f) \/ (k \in DOMAIN v /\ k < l + 1 /\ r[k] = v[k])
  BY <1>5, <1>7, <1>9
<1>11. l + 1 \in DOMAIN r /\ \A k \in DOMAIN v : k \in DOMAIN r /\ r[k] = v[k]
  BY <1>5, <1>7, <1>9
<1>12. /\ Names(d) \subseteq ToSet(o) /\ EndOf(L, o) /\ RecentOn(d, o, N - 1) /\ LastOn(d, o)
       /\ InOrder(d, b) /\ Unlisted(d, L, b) /\ LatestPart(d, b, w)
  BY DEF Fits
<1>13. K \in Seq(FileName) /\ Len(K) = Len(L) + 1 /\ ToSet(K) = ToSet(L) \cup {n} /\ Len(L) \in Nat
       /\ K[Len(L) + 1] = n /\ \A i \in 1..Len(L) : K[i] = L[i]
  BY OneMore
<1>14. u \in Seq(FileName) /\ Len(u) = Len(o) + 1 /\ ToSet(u) = ToSet(o) \cup {n} /\ Len(o) \in Nat
       /\ Nth(u, 1) = n /\ (\A i \in 1..Len(u) : i = 1 \/ (i - 1 \in 1..Len(o) /\ Nth(u, i) = Nth(o, i - 1)))
       /\ (\A i \in 1..Len(o) : i + 1 \in 1..Len(u) /\ Nth(u, i + 1) = Nth(o, i))
  BY OneMore, NthOfMore
<1>15. EndOf(K, u)
  BY <1>12, EndOfMore
<1> HIDE DEF K, u
<1>16. \A x : x \in Kept(r) <=> x \in Kept(v)
  <2> TAKE x
  <2>1. x \in Kept(r) <=> \E k \in DOMAIN r : x \in ToSet(r[k].messages)
    BY KeptIs
  <2>2. x \in Kept(v) <=> \E k \in DOMAIN v : x \in ToSet(v[k].messages)
    BY KeptIs
  <2> QED
    BY <1>4, <1>10, <1>11, <2>1, <2>2
<1>17. RecentOn(r, u, N)
  <2> SUFFICES ASSUME NEW i \in 1..N, i <= Len(u)
               PROVE  \E p \in DOMAIN r : p > Len(r) - i /\ r[p].name = Nth(u, i)
    BY DEF RecentOn
  <2>0. l + 1 > Len(r) - i
    BY <1>5, <1>7
  <2>1. CASE Nth(u, i) = n
    BY <1>4, <1>7, <1>11, <2>0, <2>1
  <2>2. CASE Nth(u, i) # n
    <3>1. i \in 1..Len(u) /\ i # 1
      BY <1>14, <2>2
    <3>2. i - 1 \in 1..(N - 1) /\ i - 1 <= Len(o) /\ i - 1 \in Nat /\ Nth(u, i) = Nth(o, i - 1)
      BY <1>14, <3>1
    <3>3. PICK p \in DOMAIN d : p > Len(d) - (i - 1) /\ d[p].name = Nth(o, i - 1)
      BY <1>12, <3>2 DEF RecentOn
    <3>4. PICK k \in DOMAIN v : v[k] = d[p] /\ k > l - (i - 1)
      <4>1. d[p].name # n
        BY <2>2, <3>2, <3>3
      <4>2. PICK k \in DOMAIN v : v[k] = d[p] /\ \A x \in Nat : p > Len(d) - x => k > l - x
        BY <1>2, <4>1
      <4> QED
        BY <3>2, <3>3, <4>2
    <3>5. k > Len(r) - i
      BY <1>5, <1>7, <3>4
    <3> QED
      BY <1>11, <3>2, <3>3, <3>4, <3>5
  <2> QED
    BY <2>1, <2>2
<1>18. LastOn(r, u)
  BY <1>4, <1>7, <1>9, <1>11, <1>14 DEF LastOn
<1>19. InOrder(r, b)
  <2> SUFFICES ASSUME NEW p \in DOMAIN r, NEW q \in DOMAIN r,
                      NEW x \in ToSet(r[p].messages), NEW y \in ToSet(r[q].messages), p < q, x > b, y > b
               PROVE  x < y
    BY DEF InOrder
  <2>1. p \in DOMAIN v /\ q \in DOMAIN v /\ r[p] = v[p] /\ r[q] = v[q]
    BY <1>4, <1>10
  <2> QED
    BY <1>3, <1>12, <2>1 DEF InOrder
<1>20. Unlisted(r, K, b)
  <2> SUFFICES ASSUME NEW p \in DOMAIN r, r[p].name \notin ToSet(K) PROVE \A x \in ToSet(r[p].messages) : x <= b
    BY DEF Unlisted
  <2>1. p \in DOMAIN v /\ r[p] = v[p] /\ v[p].name \notin ToSet(L)
    BY <1>4, <1>10, <1>13
  <2> QED
    BY <1>3, <1>12, <2>1 DEF Unlisted
<1>21. ASSUME NEW p \in DOMAIN d, NEW y \in ToSet(d[p].messages), ~(y <= b) PROVE d[p].name # n
  <2>1. d[p].name \in ToSet(L)
    BY <1>12, <1>21 DEF Unlisted
  <2> QED
    BY <2>1 DEF Names
<1>22. LatestPart(r, b, w)
  <2> SUFFICES ASSUME NEW x \in Kept(r), x > b, NEW y \in x..w PROVE y \in Kept(r)
    BY <1>3, <1>12, <1>16 DEF LatestPart
  <2>1. x \in Kept(d) /\ y \in Kept(d)
    BY <1>3, <1>12, <1>16 DEF LatestPart
  <2>2. ~(y <= b)
    BY <2>1, MessagesAreNumbers
  <2>3. PICK q \in DOMAIN d : y \in ToSet(d[q].messages)
    BY <2>1, KeptIs
  <2>4. \E k \in DOMAIN v : v[k] = d[q]
    BY <1>2, <1>21, <2>2, <2>3
  <2> QED
    BY <1>16, <2>3, <2>4, KeptIs
<1>23. ASSUME n \notin ToSet(L), AsListed(d, L) PROVE AsListed(r, K)
  <2> SUFFICES ASSUME NEW p \in DOMAIN r, NEW q \in DOMAIN r, NEW i \in DOMAIN K, NEW j \in DOMAIN K,
                      r[p].name = K[i], r[q].name = K[j], i < j
               PROVE  p < q
    BY DEF AsListed
  <2>1. DOMAIN K = 1..(Len(L) + 1) /\ DOMAIN L = 1..Len(L)
    BY <1>13
  <2>2. i \in DOMAIN L /\ K[i] = L[i] /\ L[i] # n
    <3>1. i \in DOMAIN L /\ K[i] = L[i]
      BY <1>13, <2>1
    <3> QED
      BY <1>23, <3>1 DEF ToSet
  <2>3. p \in DOMAIN v /\ p < l + 1 /\ r[p] = v[p]
    BY <1>4, <1>10, <2>2
  <2>4. CASE q \in DOMAIN v /\ r[q] = v[q]
    <3>1. v[q].name # n
      BY <1>1, <2>4 DEF Names
    <3>2. j \in DOMAIN L /\ K[j] = L[j]
      BY <1>13, <2>1, <2>4, <3>1
    <3> QED
      BY <1>3, <1>23, <2>2, <2>3, <2>4, <3>2 DEF AsListed
  <2>5. CASE q = l + 1
    BY <2>3, <2>5
  <2> QED
    BY <1>10, <2>4, <2>5
<1>24. ASSUME NEW G \in Nat, w > b, Newer(d, w, o, G) PROVE Newer(r, w, u, G + 1)
  <2>1. PICK p \in DOMAIN d, i \in 1..G :
          i <= Len(o) /\ p > Len(d) - i /\ d[p].name = Nth(o, i) /\ w \in ToSet(d[p].messages)
    BY <1>24 DEF Newer
  <2>2. d[p].name # n /\ i \in Nat
    BY <1>21, <1>24, <2>1
  <2>3. PICK k \in DOMAIN v : v[k] = d[p] /\ k > l - i
    BY <1>2, <2>1, <2>2
  <2>4. i + 1 \in 1..(G + 1) /\ i + 1 <= Len(u) /\ Nth(u, i + 1) = Nth(o, i)
    BY <1>14, <2>1
  <2>5. k > Len(r) - (i + 1)
    BY <1>5, <1>7, <2>2, <2>3
  <2> QED
    BY <1>11, <2>1, <2>3, <2>4, <2>5 DEF Newer
<1>25. Fits(r, K, u, b, w, N)
  BY <1>8, <1>12, <1>14, <1>15, <1>17, <1>18, <1>19, <1>20, <1>22 DEF Fits
<1> QED
  BY <1>23, <1>24, <1>25 DEF r, K, u

(* The file opened last is opened again, as it is.                         *)
LEMMA OpenedAgainFits ==
  ASSUME NEW m \in Nat, NEW d, Directory(d, m), NEW L \in Seq(FileName), NEW o \in Seq(FileName),
         NEW n \in Names(d), n \in FileName, o # <<>>, n = Nth(o, 1),
         NEW b \in Nat, NEW w \in Nat, NEW N \in Nat, Fits(d, L, o, b, w, N)
  PROVE  /\ Fits(d, Append(L, n), Append(o, n), b, w, N + 1)
         /\ \A G \in Nat : Newer(d, w, o, G) => Newer(d, w, Append(o, n), G + 1)
<1> DEFINE K == Append(L, n)
           u == Append(o, n)
           l == Len(d)
<1>1. /\ Names(d) \subseteq ToSet(o) /\ EndOf(L, o) /\ RecentOn(d, o, N) /\ LastOn(d, o)
      /\ InOrder(d, b) /\ Unlisted(d, L, b) /\ LatestPart(d, b, w)
  BY DEF Fits
<1>2. ToSet(K) = ToSet(L) \cup {n} /\ ToSet(u) = ToSet(o) \cup {n} /\ u # <<>>
      /\ Len(u) = Len(o) + 1 /\ Len(o) \in Nat
  BY OneMore
<1>3. Nth(u, 1) = n /\ (\A i \in 1..Len(u) : i = 1 \/ (i - 1 \in 1..Len(o) /\ Nth(u, i) = Nth(o, i - 1)))
      /\ (\A i \in 1..Len(o) : i + 1 \in 1..Len(u) /\ Nth(u, i + 1) = Nth(o, i))
  BY NthOfMore
<1>4. EndOf(K, u)
  BY <1>1, EndOfMore
<1>5. DOMAIN d = 1..l /\ l \in Nat /\ l \in DOMAIN d /\ d[l].name = n /\ d # <<>>
  BY <1>1 DEF LastOn, Directory
<1> HIDE DEF K, u, l
<1>6. RecentOn(d, u, N + 1)
  <2> SUFFICES ASSUME NEW i \in 1..(N + 1), i <= Len(u)
               PROVE  \E p \in DOMAIN d : p > l - i /\ d[p].name = Nth(u, i)
    BY DEF RecentOn, l
  <2>1. CASE i = 1
    <3>1. l > l - i
      BY <1>5
    <3> QED
      BY <1>3, <1>5, <2>1, <3>1
  <2>2. CASE i # 1
    <3>1. i - 1 \in 1..N /\ i - 1 <= Len(o) /\ Nth(u, i) = Nth(o, i - 1)
      BY <1>2, <1>3, <2>2
    <3>2. PICK p \in DOMAIN d : p > l - (i - 1) /\ d[p].name = Nth(o, i - 1)
      BY <1>1, <3>1 DEF RecentOn, l
    <3>3. p > l - i
      BY <1>5, <3>2
    <3> QED
      BY <3>1, <3>2, <3>3
  <2> QED
    BY <2>1, <2>2
<1>7. LastOn(d, u)
  BY <1>3, <1>5 DEF LastOn, l
<1>8. Unlisted(d, K, b)
  BY <1>1, <1>2 DEF Unlisted
<1>9. ASSUME NEW G \in Nat, Newer(d, w, o, G) PROVE Newer(d, w, u, G + 1)
  <2>1. PICK p \in DOMAIN d, i \in 1..G :
          i <= Len(o) /\ p > l - i /\ d[p].name = Nth(o, i) /\ w \in ToSet(d[p].messages)
    BY <1>9 DEF Newer, l
  <2>2. i + 1 \in 1..(G + 1) /\ i + 1 <= Len(u) /\ Nth(u, i + 1) = Nth(o, i) /\ p > l - (i + 1)
    BY <1>2, <1>3, <1>5, <2>1
  <2> QED
    BY <2>1, <2>2 DEF Newer, l
<1> QED
  BY <1>1, <1>2, <1>4, <1>6, <1>7, <1>8, <1>9 DEF Fits, K, u

(* Appending, whatever it is.                                              *)
LEMMA AppendAnything ==
  ASSUME NEW S, NEW s \in Seq(S), NEW x
  PROVE  /\ Len(Append(s, x)) = Len(s) + 1 /\ Append(s, x)[Len(s) + 1] = x
         /\ \A i \in 1..Len(s) : Append(s, x)[i] = s[i]
<1> DEFINE T == S \cup {x}
<1>1. s \in Seq(T) /\ x \in T
  OBVIOUS
<1> HIDE DEF T
<1> QED
  BY <1>1, OneMore

(* The file modified last is written again.                                *)
LEMMA PlacedOnLast ==
  ASSUME NEW m, NEW d, Directory(d, m), d # <<>>, NEW n, n = d[Len(d)].name, NEW x
  PROVE  /\ Len(Placed(d, n, x)) = Len(d)
         /\ \A i \in 1..(Len(d) - 1) : Placed(d, n, x)[i] = d[i]
         /\ Placed(d, n, x)[Len(d)] = [name |-> n, messages |-> x]
<1> DEFINE F == [name : FileName, messages : Seq(1..m)]
           l == Len(d)
           f == [name |-> n, messages |-> x]
           v == Without(d, n)
<1>1. d \in Seq(F) /\ DOMAIN d = 1..l /\ l \in Nat \ {0}
  BY DEF Directory
<1>13. \A i, j \in DOMAIN d : i # j => d[i].name # d[j].name
  BY DEF Directory
<1>14. l \in DOMAIN d /\ d[l].name = n
  BY <1>1
<1>2. l \in DOMAIN d /\ d[l].name = n /\ \A i \in DOMAIN d : d[i].name = n => i = l
  <2> HIDE DEF l, f, F, v
  <2> QED
    BY <1>13, <1>14
<1>3. Placed(d, n, x) = Append(v, f)
  BY DEF Placed
<1> HIDE DEF F, l, f
<1>4. n \in Names(d)
  BY <1>2 DEF Names
<1> DEFINE p == CHOOSE i \in DOMAIN d : d[i].name = n
<1>5. p = l
  BY <1>2
<1>6. v = RemoveAt(d, l)
  BY <1>4, <1>5 DEF Without
<1> HIDE DEF p, v
<1>7. l \in 1..Len(d)
  BY <1>1 DEF l
<1>8. RemoveAt(d, l) \in Seq(F) /\ Len(RemoveAt(d, l)) = Len(d) - 1
      /\ \A k \in 1..(Len(d) - 1) : RemoveAt(d, l)[k] = IF k < l THEN d[k] ELSE d[k + 1]
  BY <1>1, <1>7, RemovedAt
<1>9. v \in Seq(F) /\ Len(v) = l - 1 /\ \A i \in 1..(l - 1) : v[i] = d[i]
  BY <1>1, <1>6, <1>8 DEF l
<1> DEFINE r == Append(v, f)
           k == l - 1
<1>10. Len(v) = k /\ k \in Nat
  BY <1>1, <1>9
<1>11. Len(r) = k + 1 /\ r[k + 1] = f /\ \A i \in 1..k : r[i] = v[i]
  <2> HIDE DEF k
  <2> QED
    BY <1>9, <1>10, AppendAnything
<1> HIDE DEF r
<1>12. Len(r) = l /\ r[l] = f /\ \A i \in 1..(l - 1) : r[i] = d[i]
  BY <1>1, <1>9, <1>11
<1> QED
  BY <1>3, <1>12 DEF r, l, f

(* Fewer of the last files, and more of them.                              *)
LEMMA FewerRecent ==
  ASSUME NEW d, NEW L, NEW o, NEW b, NEW w, NEW N \in Nat, Fits(d, L, o, b, w, N), NEW K \in Int, K <= N
  PROVE  Fits(d, L, o, b, w, K)
BY DEF Fits, RecentOn

(* A weaker bound on what was lost.                                        *)
LEMMA MoreNewer ==
  ASSUME NEW d, NEW o, NEW w, NEW G \in Nat, NEW H \in Nat, G <= H, Newer(d, w, o, G)
  PROVE  Newer(d, w, o, H)
BY DEF Newer

(* A day does not end before it has begun.                                 *)
LEMMA DaysGoOn ==
  ASSUME NEW a \in Nat, NEW D \in Nat \ {0}
  PROVE  a \div D \in Nat /\ a \div D <= (a + 1) \div D
OBVIOUS

-----------------------------------------------------------------------------
(* The last i numbers before sn.                                           *)
NumberBefore(sn, i) == IF i <= sn THEN sn - i ELSE sn - i + LastSn + 1
Numbered(L, sn) == \A i \in 1..Len(L) : i <= LastSn + 1 => Nth(L, i)[2] = NumberBefore(sn, i)

(* All names are of one type; those of days are in the order of the days.  *)
Kinds(o, type, day) ==
  /\ \A i \in DOMAIN o : o[i][1] = type
  /\ type = "Date" => /\ \A i \in DOMAIN o : o[i][2] <= day
                      /\ \A i, j \in DOMAIN o : i < j => o[i][2] <= o[j][2]

(* What the names opened so far tell, if the type of the names stays.      *)
HistoryInv ==
  ~setup.MaySwitch =>
    /\ Kinds(opened, m_log_file_type, now \div setup.DayLength)
    /\ live # NoFile => opened # <<>> /\ live = Nth(opened, 1)
    /\ m_log_file_type = "AutoIncSn" => Numbered(m_log_list, log_sequence_no)

(* Two files or more may remain.                                           *)
Several == LesserOf(Remain, DefaultRemain) > 1

(* How the files on the disk, the list and what was opened fit together.   *)
DiskInv ==
  ~setup.MaySwitch =>
    /\ Fits(disk, m_log_list, opened, before, written, Promised)
    /\ m_log_file_type # "Date" => AsListed(disk, m_log_list)
    /\ written > before /\ Several /\ Remain >= inits => Newer(disk, written, opened, Opens + 1)

(* The setup is one for which the newest files are kept.                   *)
Usual == Most + setup.MaxInits <= LastSn + 2

(* The promise goes by the count in force, and a file opened adds one to   *)
(* it at most.                                                             *)
LEMMA Promises ==
  ASSUME FilesAssumption, TypeOK, LaterInv
  PROVE  /\ Promised \in Nat /\ Promised <= m_log_remain_counts
         /\ setup' = setup /\ later' = LaterOpened => Promised' \in Nat /\ Promised' - 1 \in Int /\ Promised' - 1 <= Promised
         /\ setup' = setup /\ later' = later => Promised' = Promised
<1>1. Remain \in Nat /\ DefaultRemain \in Nat \ {0} /\ later \in Nat
  BY Setting, Counts
<1>2. setup' = setup => Remain' = Remain /\ DefaultRemain' = DefaultRemain
  BY DEF Remain, DefaultRemain
<1>3. m_log_remain_counts = (IF ArgumentsStored THEN Remain ELSE DefaultRemain) /\ (~ArgumentsStored => later = 0)
  BY DEF LaterInv
<1>4. Promised \in Nat /\ Promised <= m_log_remain_counts
  BY <1>1, <1>3 DEF Promised, LesserOf
<1>5. ASSUME setup' = setup, later' = LaterOpened PROVE Promised' \in Nat /\ Promised' - 1 \in Int /\ Promised' - 1 <= Promised
  BY <1>1, <1>2, <1>3, <1>5 DEF Promised, LesserOf, LaterOpened
<1>6. ASSUME setup' = setup, later' = later PROVE Promised' = Promised
  BY <1>2, <1>6 DEF Promised
<1> QED
  BY <1>4, <1>5, <1>6

(* A name is used again for today's file only.                             *)
LEMMA NameToday ==
  ASSUME FilesAssumption, TypeOK, ~setup.MaySwitch, HistoryInv, m_log_file_type = "Date", LogFileName \in ToSet(opened)
  PROVE  opened # <<>> /\ LogFileName = Nth(opened, 1)
<1> DEFINE day == now \div setup.DayLength
           l == Len(opened)
<1>1. opened \in Seq(FileName) /\ l \in Nat /\ DOMAIN opened = 1..l
  BY DEF TypeOK
<1>2. LogFileName = <<"Date", day>>
  BY DEF LogFileName
<1>3. /\ \A i \in DOMAIN opened : opened[i][1] = "Date" /\ opened[i][2] <= day
      /\ \A i, j \in DOMAIN opened : i < j => opened[i][2] <= opened[j][2]
  BY DEF HistoryInv, Kinds
<1>4. day \in Nat
  <2>1. now \in Nat /\ setup.DayLength \in Nat \ {0}
    BY Setting DEF TypeOK
  <2> QED
    BY <2>1, DaysGoOn
<1> HIDE DEF day
<1>5. PICK i \in DOMAIN opened : opened[i] = LogFileName
  BY DEF ToSet
<1> HIDE DEF l
<1>6. l \in DOMAIN opened /\ opened[l] \in FileName /\ opened[l][2] \in Nat /\ (i = l \/ i < l)
  BY <1>1, <1>5 DEF FileName
<1>7. opened[l][2] = day
  BY <1>2, <1>3, <1>4, <1>5, <1>6
<1>8. opened[l] = <<"Date", day>>
  BY <1>3, <1>6, <1>7 DEF FileName
<1>9. Nth(opened, 1) = opened[l]
  BY <1>1 DEF Nth, l
<1> QED
  BY <1>1, <1>2, <1>5, <1>8, <1>9

(* The numbers of a list that loses its first, and of one that grows.      *)
LEMMA NumbersOfTail ==
  ASSUME NEW L \in Seq(FileName), L # <<>>, NEW sn, Numbered(L, sn)
  PROVE  Numbered(Tail(L), sn)
<1> DEFINE T == Tail(L)
           l == Len(L)
<1>1. l \in Nat \ {0} /\ Len(T) = l - 1 /\ \A i \in 1..(l - 1) : T[i] = L[i + 1]
  OBVIOUS
<1> HIDE DEF T, l
<1>2. ASSUME NEW i \in 1..Len(T) PROVE i \in 1..l /\ Nth(T, i) = Nth(L, i)
  <2>1. Len(T) + 1 - i \in 1..(l - 1) /\ (Len(T) + 1 - i) + 1 = l + 1 - i /\ i \in 1..l
    BY <1>1
  <2> QED
    BY <1>1, <2>1 DEF Nth, l
<1> QED
  BY <1>2 DEF Numbered, T, l

(* A file opened with the next number keeps the numbers in order.          *)
LEMMA NumbersOfMore ==
  ASSUME LastSn \in Nat, NEW L \in Seq(FileName), NEW sn \in 0..LastSn, NEW n \in FileName, n[2] = sn, Numbered(L, sn)
  PROVE  Numbered(Append(L, n), IF sn + 1 > LastSn THEN 0 ELSE sn + 1)
<1> DEFINE next == IF sn + 1 > LastSn THEN 0 ELSE sn + 1
           K == Append(L, n)
<1>1. Nth(K, 1) = n /\ \A i \in 1..Len(K) : i = 1 \/ (i - 1 \in 1..Len(L) /\ Nth(K, i) = Nth(L, i - 1))
  BY NthOfMore
<1>2. NumberBefore(next, 1) = sn
  BY DEF NumberBefore
<1>3. \A i \in Nat : i > 1 /\ i <= LastSn + 1 => NumberBefore(next, i) = NumberBefore(sn, i - 1)
  BY DEF NumberBefore
<1> HIDE DEF K, next
<1>4. ASSUME NEW i \in 1..Len(K), i <= LastSn + 1 PROVE Nth(K, i)[2] = NumberBefore(next, i)
  <2>1. CASE i = 1
    BY <1>1, <1>2, <2>1
  <2>2. CASE i # 1
    <3>1. i - 1 \in 1..Len(L) /\ i - 1 <= LastSn + 1 /\ i \in Nat /\ i > 1
      BY <1>1, <1>4, <2>2
    <3> QED
      BY <1>1, <1>3, <1>4, <2>2, <3>1 DEF Numbered
  <2> QED
    BY <2>1, <2>2
<1> QED
  BY <1>4 DEF Numbered, K, next

(* A number is not in a list that leaves one over.                         *)
LEMMA NumberIsNew ==
  ASSUME LastSn \in Nat, NEW L \in Seq(FileName), Len(L) <= LastSn, NEW sn \in 0..LastSn, NEW n, n[2] = sn,
         Numbered(L, sn)
  PROVE  n \notin ToSet(L)
<1> SUFFICES ASSUME NEW k \in DOMAIN L, L[k] = n PROVE FALSE
  BY DEF ToSet
<1> DEFINE i == Len(L) + 1 - k
<1>1. i \in 1..Len(L) /\ i <= LastSn /\ Len(L) + 1 - i = k
  OBVIOUS
<1>2. Nth(L, i) = n
  BY <1>1 DEF Nth
<1> HIDE DEF i
<1>3. NumberBefore(sn, i) = sn /\ i \in Nat /\ i >= 1
  BY <1>1, <1>2 DEF Numbered
<1> QED
  BY <1>1, <1>3 DEF NumberBefore

(* What opening does to disk, list and history.                            *)
LEMMA OpeningFits ==
  ASSUME FilesAssumption, TypeOK, ~setup.MaySwitch, HistoryInv, NEW d, Directory(d, M), NEW w \in Nat, NEW list \in Seq(FileName),
         OpenNext(d, list), m_log_file_type = "AutoIncSn" => Len(list) <= LastSn /\ Numbered(list, log_sequence_no),
         NEW N \in Nat, Fits(d, list, opened, before, w, N - 1),
         m_log_file_type # "Date" => AsListed(d, list)
  PROVE  /\ Fits(disk', m_log_list', opened', before, w, N)
         /\ m_log_file_type # "Date" => AsListed(disk', m_log_list')
         /\ \A G \in Nat : w > before /\ Newer(d, w, opened, G) => Newer(disk', w, opened', G + 1)
         /\ m_log_file_type = "AutoIncSn" => Numbered(m_log_list', log_sequence_no')
<1> DEFINE n == LogFileName
<1>1. /\ M \in Nat /\ Remain \in Nat /\ LastSn \in Nat /\ opened \in Seq(FileName)
      /\ before \in Nat /\ log_sequence_no \in 0..LastSn
      /\ m_log_file_type \in {"DateTime", "Date", "AutoIncSn"}
  BY Setting DEF TypeOK
<1>2. n \in FileName
  BY Opening DEF Opened
<1>3. m_log_list' = Append(list, n) /\ opened' = Append(opened, n)
  BY DEF OpenNext
<1>4. ASSUME m_log_file_type # "Date" PROVE n \notin ToSet(list)
  <2>1. CASE m_log_file_type = "DateTime"
    <3>1. n \notin ToSet(opened)
      BY <2>1 DEF OpenNext, NameIsNew
    <3>2. ToSet(list) \subseteq ToSet(opened)
      <4> SUFFICES ASSUME NEW k \in DOMAIN list PROVE list[k] \in ToSet(opened)
        BY DEF ToSet
      <4> DEFINE i == Len(list) + 1 - k
      <4>0. EndOf(list, opened)
        BY DEF Fits
      <4>1. i \in 1..Len(list) /\ Len(list) + 1 - i = k /\ Len(list) <= Len(opened)
        BY <4>0 DEF EndOf
      <4>2. list[k] = Nth(opened, i)
        <5>1. Nth(list, i) = list[k]
          BY <4>1 DEF Nth
        <5> HIDE DEF i
        <5> QED
          BY <4>0, <4>1, <5>1 DEF EndOf
      <4>3. Len(opened) + 1 - i \in DOMAIN opened
        BY <1>1, <4>1
      <4> QED
        BY <4>2, <4>3 DEF Nth, ToSet
    <3> QED
      BY <3>1, <3>2
  <2>2. CASE m_log_file_type = "AutoIncSn"
    <3>1. n = <<"AutoIncSn", log_sequence_no>>
      BY <2>2 DEF LogFileName
    <3> HIDE DEF n
    <3>2. n[2] = log_sequence_no
      BY <3>1
    <3> QED
      BY <1>1, <2>2, <3>2, NumberIsNew
  <2> QED
    BY <1>1, <1>4, <2>1, <2>2
<1>5. ASSUME m_log_file_type = "AutoIncSn" PROVE Numbered(m_log_list', log_sequence_no')
  <2>1. n[2] = log_sequence_no
    BY <1>5 DEF LogFileName
  <2>2. log_sequence_no' = IF log_sequence_no + 1 > LastSn THEN 0 ELSE log_sequence_no + 1
    BY <1>5 DEF OpenNext, NextSn
  <2> HIDE DEF n
  <2> QED
    BY <1>1, <1>2, <1>3, <1>5, <2>1, <2>2, NumbersOfMore
<1>6. CASE m_log_file_type # "Date" \/ n \notin Names(d)
  <2>1. disk' = Truncated(d, n)
    BY <1>6 DEF OpenNext, Appended
  <2>2. n \notin ToSet(list) \/ n \notin Names(d)
    BY <1>4, <1>6
  <2>3. Fits(d, list, opened, before, w, N - 1)
    OBVIOUS
  <2> HIDE DEF n
  <2>4. /\ Fits(Truncated(d, n), Append(list, n), Append(opened, n), before, w, N)
        /\ n \notin ToSet(list) /\ AsListed(d, list) => AsListed(Truncated(d, n), Append(list, n))
        /\ \A G \in Nat : w > before /\ Newer(d, w, opened, G)
                            => Newer(Truncated(d, n), w, Append(opened, n), G + 1)
    BY <1>1, <1>2, <2>2, <2>3, OpenedEmptyFits
  <2> QED
    BY <1>3, <1>4, <1>5, <2>1, <2>4
<1>7. CASE m_log_file_type = "Date" /\ n \in Names(d)
  <2>1. disk' = d
    BY <1>7 DEF OpenNext, Appended
  <2>2. n \in ToSet(opened)
    BY <1>7 DEF Fits
  <2>20. PICK K \in Nat : Fits(d, list, opened, before, w, K) /\ N <= K + 1
    <3>1. CASE N = 0
      <4>1. Fits(d, list, opened, before, w, 0)
        BY <3>1 DEF Fits, RecentOn
      <4> QED
        BY <3>1, <4>1
    <3>2. CASE N # 0
      BY <3>2
    <3> QED
      BY <3>1, <3>2
  <2>3. opened # <<>> /\ n = Nth(opened, 1)
    BY <1>7, <2>2, NameToday
  <2> HIDE DEF n
  <2>4. /\ Fits(d, Append(list, n), Append(opened, n), before, w, K + 1)
        /\ \A G \in Nat : Newer(d, w, opened, G) => Newer(d, w, Append(opened, n), G + 1)
    BY <1>1, <1>2, <1>7, <2>2, <2>20, <2>3, OpenedAgainFits
  <2>5. Fits(d, Append(list, n), Append(opened, n), before, w, N)
    <3>1. K + 1 \in Nat /\ N \in Int /\ N <= K + 1
      BY <2>20
    <3> QED
      BY <2>4, <3>1, FewerRecent
  <2> QED
    BY <1>3, <1>5, <1>7, <2>1, <2>4, <2>5
<1> QED
  BY <1>6, <1>7

(* A full file gives way to the next, and nothing is lost that should be   *)
(* kept.                                                                   *)
LEMMA RotatingFits ==
  ASSUME FilesAssumption, TypeOK, LiveFileOnDisk, RunInv, ListInv, LaterInv, ~setup.MaySwitch, Usual,
         HistoryInv, NEW d, d = AfterWrite, setup' = setup,
         Fits(d, m_log_list, opened, before, written', Promised),
         AsListed(d, m_log_list), Newer(d, written', opened, 1), WriteAndRotate
  PROVE  \E e, list :
           /\ list \in Seq(FileName) /\ Directory(e, M) /\ OpenNext(e, list)
           /\ m_log_file_type = "AutoIncSn" => Len(list) <= LastSn /\ Numbered(list, log_sequence_no)
           /\ Fits(e, list, opened, before, written', Promised' - 1)
           /\ AsListed(e, list)
           /\ Several => Newer(e, written', opened, 1)
<1> DEFINE L == m_log_list
<1>1. live # NoFile /\ written < setup.MaxMessages /\ written' = written + 1
  BY DEF WriteAndRotate
<1>2. Directory(d, M)
  BY <1>1, Writing
<1>3. L \in Seq(FileName) /\ L # <<>> /\ Len(L) \in Nat \ {0}
  BY <1>1 DEF RunInv, TypeOK
<1>4. /\ Most \in Nat /\ m_log_remain_counts \in Nat /\ m_log_remain_counts <= Most /\ Remain \in Nat
      /\ LastSn \in Nat /\ M \in Nat /\ written' \in Nat /\ before \in Nat /\ opened \in Seq(FileName)
      /\ setup.MaxInits \in Nat /\ inits \in Nat /\ inits <= setup.MaxInits
  <2>1. written \in Nat /\ before \in Nat /\ opened \in Seq(FileName) /\ inits \in Nat /\ inits <= setup.MaxInits
    BY Counts
  <2>2. /\ Most \in Nat /\ m_log_remain_counts \in Nat /\ m_log_remain_counts <= Most /\ Remain \in Nat
        /\ LastSn \in Nat /\ M \in Nat /\ setup.MaxInits \in Nat
    BY Setting
  <2> QED
    BY <1>1, <2>1, <2>2
<1>40. /\ DefaultRemain \in Nat \ {0} /\ later \in Nat
       /\ m_log_remain_counts = IF ArgumentsStored THEN Remain ELSE DefaultRemain
       /\ ~ArgumentsStored => later = 0
       /\ Len(L) <= DefaultRemain + later
       /\ later' = LaterOpened
  BY Setting, Counts DEF LaterInv, WriteAndRotate, OpenNext
<1>5. /\ Promised \in Nat /\ Promised <= m_log_remain_counts
      /\ Promised' \in Nat /\ Promised' - 1 \in Int /\ Promised' - 1 <= Promised
  BY <1>40, Promises
<1>6. Len(L) <= LastSn + 1 /\ Most <= LastSn + 1
  <2>1. Opens \in Nat /\ Opens # 0 /\ Opens <= inits
    BY <1>1, <1>4 DEF Opens, RunInv
  <2>2. LargerOf(Most, 1) = Most
    BY <1>4, <1>40 DEF LargerOf, Most
  <2>3. Len(L) <= Most + (Opens - 1) /\ Most + setup.MaxInits <= LastSn + 2
    BY <2>1, <2>2 DEF ListInv, Usual
  <2> HIDE DEF L
  <2> QED
    BY <1>3, <1>4, <2>1, <2>3
<1>7. m_log_file_type = "AutoIncSn" => Numbered(L, log_sequence_no)
  BY DEF HistoryInv
<1>8. CASE EnoughFiles
  <2> DEFINE e == Without(d, Head(L))
             list == Tail(L)
  <2>1. OpenNext(e, list)
    BY <1>8 DEF WriteAndRotate
  <2>2. Directory(e, M)
    BY <1>2, WithoutName
  <2>3. list \in Seq(FileName) /\ Len(list) = Len(L) - 1
    BY <1>3
  <2>4. m_log_remain_counts <= Len(L) /\ Promised <= Len(L)
    BY <1>3, <1>4, <1>5, <1>8 DEF EnoughFiles
  <2>40. Promised' = Promised
    <3>1. Remain' = Remain /\ DefaultRemain' = DefaultRemain
      BY DEF Remain, DefaultRemain
    <3> HIDE DEF L
    <3> QED
      BY <1>3, <1>4, <1>40, <2>4, <3>1 DEF Promised, LesserOf, LaterOpened
  <2>5. /\ Fits(e, list, opened, before, written', Promised - 1) /\ AsListed(e, list)
        /\ Len(L) > 1 /\ Newer(d, written', opened, 1) => Newer(e, written', opened, 1)
    <3> HIDE DEF L
    <3>1. Fits(d, L, opened, before, written', Promised) /\ AsListed(d, L)
      BY DEF L
    <3> QED
      BY <1>2, <1>3, <1>4, <1>5, <2>4, <3>1, RemovedFits
  <2>6. m_log_file_type = "AutoIncSn" => Numbered(list, log_sequence_no)
    <3> HIDE DEF L
    <3> QED
      BY <1>3, <1>7, NumbersOfTail
  <2>7. Len(list) <= LastSn
    BY <1>3, <1>4, <1>6, <2>3
  <2>8. Several => Newer(e, written', opened, 1)
    <3>1. Several => Len(L) > 1
      <4> HIDE DEF L
      <4> QED
        BY <1>3, <1>4, <1>40, <2>4 DEF Several, LesserOf
    <3> QED
      BY <2>5, <3>1
  <2> HIDE DEF e, list
  <2> QED
    BY <2>1, <2>2, <2>3, <2>40, <2>5, <2>6, <2>7, <2>8
<1>9. CASE ~EnoughFiles
  <2>1. OpenNext(d, L)
    BY <1>9 DEF WriteAndRotate
  <2>2. Len(L) <= LastSn
    <3>1. Len(L) + 1 <= Most
      BY <1>3, <1>4, <1>9 DEF EnoughFiles
    <3> QED
      BY <1>3, <1>4, <1>6, <3>1
  <2>3. Fits(d, L, opened, before, written', Promised' - 1)
    BY <1>4, <1>5, FewerRecent
  <2> QED
    BY <1>2, <1>3, <1>7, <2>1, <2>2, <2>3
<1> QED
  BY <1>8, <1>9

(* A message is written, to the file modified last.                        *)
LEMMA WritingFits ==
  ASSUME FilesAssumption, TypeOK, LiveFileOnDisk, RunInv, LaterInv, ~setup.MaySwitch, HistoryInv, DiskInv,
         live # NoFile, written < setup.MaxMessages
  PROVE  /\ Fits(AfterWrite, m_log_list, opened, before, written + 1, Promised)
         /\ m_log_file_type # "Date" => AsListed(AfterWrite, m_log_list)
         /\ Newer(AfterWrite, written + 1, opened, 1)
<1> DEFINE x == Append(Messages(disk, live), written + 1)
           r == AfterWrite
           l == Len(disk)
<1>1. /\ Directory(disk, M) /\ M \in Nat /\ Promised \in Nat /\ before \in Nat /\ written \in Nat /\ before <= written
      /\ opened \in Seq(FileName)
  BY Setting, Promises DEF TypeOK
<1>2. Directory(r, M)
  BY Writing
<1>3. opened # <<>> /\ live = Nth(opened, 1) /\ live \in Names(disk)
  BY DEF HistoryInv, LiveFileOnDisk
<1>4. Fits(disk, m_log_list, opened, before, written, Promised) /\ (m_log_file_type # "Date" => AsListed(disk, m_log_list))
  BY DEF DiskInv
<1>5. disk # <<>> /\ disk[l].name = live
  BY <1>3, <1>4 DEF Fits, LastOn
<1>6. l \in DOMAIN disk
  BY <1>1, <1>5 DEF Directory
<1>7. Messages(disk, live) = disk[l].messages /\ Messages(disk, live) \in Seq(1..M)
  BY <1>1, <1>5, <1>6, MessagesOf
<1>8. ToSet(x) = ToSet(disk[l].messages) \cup {written + 1}
  <2>1. Messages(disk, live) \in Seq(Nat) /\ written + 1 \in Nat
    BY <1>1, <1>7
  <2> QED
    BY <1>7, <2>1, OneMore
<1>9. r = Placed(disk, live, x)
  BY DEF AfterWrite, Placed
<1> HIDE DEF x, r
<1>10. Len(r) = l /\ (\A i \in 1..(l - 1) : r[i] = disk[i]) /\ r[l] = [name |-> live, messages |-> x]
  BY <1>1, <1>5, <1>9, PlacedOnLast
<1>11. WrittenLast(disk, r, written)
  BY <1>5, <1>8, <1>10 DEF WrittenLast
<1>12. live \in ToSet(m_log_list)
  <2>1. m_log_list # <<>> /\ m_log_list \in Seq(FileName) /\ EndOf(m_log_list, opened)
    BY <1>4 DEF RunInv, Fits, TypeOK
  <2>2. 1 \in 1..Len(m_log_list) /\ Len(m_log_list) + 1 - 1 = Len(m_log_list) /\ Len(m_log_list) \in DOMAIN m_log_list
    BY <2>1
  <2>3. m_log_list[Len(m_log_list)] = live
    BY <1>3, <2>1, <2>2 DEF EndOf, Nth
  <2> QED
    BY <2>2, <2>3 DEF ToSet
<1> QED
  BY <1>1, <1>2, <1>3, <1>4, <1>5, <1>11, <1>12, WrittenFits DEF r

(* What is known after a file has been opened.                             *)
AfterOpening ==
  /\ DiskInv'
  /\ m_log_file_type = "AutoIncSn" => Numbered(m_log_list', log_sequence_no')
  /\ \E d, list : list \in Seq(FileName) /\ Directory(d, M) /\ OpenNext(d, list)

(* Opened by init_logging.                                                 *)
LEMMA InitOpenFits ==
  ASSUME FilesAssumption, TypeOK, RunInv, ListInv, LaterInv, ~setup.MaySwitch, Usual, HistoryInv, DiskInv, Next, InitOpen
  PROVE  AfterOpening
<1> DEFINE L == m_log_list
<1>1. /\ Directory(disk, M) /\ Most \in Nat /\ LastSn \in Nat /\ Remain \in Nat /\ setup.MaxInits \in Nat
      /\ L \in Seq(FileName) /\ Len(L) \in Nat /\ inits \in Nat /\ inits <= setup.MaxInits
      /\ written \in Nat /\ before \in Nat
  BY Setting, Counts
<1>11. DefaultRemain \in Nat \ {0} /\ Remain \in Nat
  BY Setting
<1>2. OpenNext(disk, L) /\ ipc = "open" /\ ipc' = "set" /\ UNCHANGED <<setup, m_log_file_type, inits, written, before>>
  BY DEF InitOpen, Next
<1>3. Opens \in Nat /\ Opens' = Opens + 1 /\ Opens + 1 = inits
  BY <1>1, <1>2 DEF Opens, RunInv
<1>4. Len(L) <= LastSn
  BY <1>1, <1>11, <1>3 DEF ListInv, Usual, LargerOf, Most
<1>5. /\ Fits(disk, L, opened, before, written, Promised)
      /\ m_log_file_type # "Date" => AsListed(disk, L)
      /\ written > before /\ Several /\ Remain >= inits => Newer(disk, written, opened, Opens + 1)
      /\ m_log_file_type = "AutoIncSn" => Numbered(L, log_sequence_no)
  BY DEF DiskInv, HistoryInv
<1>6. Promised' \in Nat /\ Fits(disk, L, opened, before, written, Promised' - 1)
  <2>1. setup' = setup /\ later' = LaterOpened
    BY <1>2 DEF OpenNext
  <2>2. Promised \in Nat /\ Promised' \in Nat /\ Promised' - 1 \in Int /\ Promised' - 1 <= Promised
    BY <2>1, Promises
  <2> QED
    BY <1>5, <2>2, FewerRecent
<1> HIDE DEF L
<1>7. /\ Fits(disk', m_log_list', opened', before, written, Promised')
      /\ m_log_file_type # "Date" => AsListed(disk', m_log_list')
      /\ \A G \in Nat : written > before /\ Newer(disk, written, opened, G) => Newer(disk', written, opened', G + 1)
      /\ m_log_file_type = "AutoIncSn" => Numbered(m_log_list', log_sequence_no')
  BY <1>1, <1>2, <1>4, <1>5, <1>6, OpeningFits
<1>8. Remain' = Remain /\ Several' = Several
  BY <1>2 DEF Remain, DefaultRemain, Several
<1>9. written > before /\ Several /\ Remain >= inits => Newer(disk', written, opened', Opens + 1 + 1)
  BY <1>3, <1>5, <1>7
<1>10. DiskInv'
  BY <1>2, <1>3, <1>7, <1>8, <1>9 DEF DiskInv
<1> QED
  BY <1>1, <1>2, <1>7, <1>10 DEF AfterOpening

(* Opened after a rotation.                                                *)
LEMMA RotateFits ==
  ASSUME FilesAssumption, TypeOK, LiveFileOnDisk, RunInv, ListInv, LaterInv, ~setup.MaySwitch, Usual, HistoryInv, DiskInv,
         Next, WriteAndRotate
  PROVE  AfterOpening
<1>1. /\ live # NoFile /\ written < setup.MaxMessages /\ written' = written + 1 /\ m_log_file_type # "Date"
      /\ UNCHANGED <<setup, m_log_file_type, inits, ipc, before>>
  BY DEF WriteAndRotate, Full, Next
<1>2. /\ Remain \in Nat /\ inits \in Nat /\ ipc \in {"idle", "clean", "open", "set"} /\ written' \in Nat
  <2>1. Remain \in Nat
    BY Setting
  <2>2. inits \in Nat /\ written \in Nat /\ ipc \in {"idle", "clean", "open", "set"}
    BY Counts
  <2> QED
    BY <1>1, <2>1, <2>2
<1>3. Opens \in Nat /\ Opens # 0 /\ Opens' = Opens
  BY <1>1, <1>2 DEF Opens, RunInv
<1> DEFINE a == AfterWrite
<1>4. /\ Fits(a, m_log_list, opened, before, written', Promised) /\ AsListed(a, m_log_list)
      /\ Newer(a, written', opened, 1)
  BY <1>1, WritingFits
<1> HIDE DEF a
<1>5. PICK e, list :
        /\ list \in Seq(FileName) /\ Directory(e, M) /\ OpenNext(e, list)
        /\ m_log_file_type = "AutoIncSn" => Len(list) <= LastSn /\ Numbered(list, log_sequence_no)
        /\ Fits(e, list, opened, before, written', Promised' - 1)
        /\ AsListed(e, list)
        /\ Several => Newer(e, written', opened, 1)
  BY <1>1, <1>4, RotatingFits DEF a
<1> DEFINE w == written'
<1>6. w \in Nat /\ Promised' \in Nat /\ Fits(e, list, opened, before, w, Promised' - 1)
  <2>1. setup' = setup /\ later' = LaterOpened
    BY <1>1, <1>5 DEF OpenNext
  <2>2. Promised' \in Nat
    BY <2>1, Promises
  <2> QED
    BY <1>2, <1>5, <2>2
<1> HIDE DEF w
<1>7. /\ Fits(disk', m_log_list', opened', before, w, Promised')
      /\ m_log_file_type # "Date" => AsListed(disk', m_log_list')
      /\ \A G \in Nat : w > before /\ Newer(e, w, opened, G) => Newer(disk', w, opened', G + 1)
      /\ m_log_file_type = "AutoIncSn" => Numbered(m_log_list', log_sequence_no')
  BY <1>1, <1>5, <1>6, OpeningFits
<1>8. Remain' = Remain /\ Several' = Several
  BY <1>1 DEF Remain, DefaultRemain, Several
<1>9. ASSUME w > before, Several PROVE Newer(disk', w, opened', Opens + 1)
  <2>1. Newer(disk', w, opened', 1 + 1)
    <3>1. Newer(e, w, opened, 1) /\ 1 \in Nat
      BY <1>5, <1>9 DEF w
    <3> QED
      BY <1>7, <1>9, <3>1
  <2>2. 1 + 1 \in Nat /\ Opens + 1 \in Nat /\ 1 + 1 <= Opens + 1
    BY <1>3
  <2> QED
    BY <2>1, <2>2, MoreNewer
<1>10. DiskInv'
  BY <1>1, <1>3, <1>7, <1>8, <1>9 DEF DiskInv, w
<1> QED
  BY <1>5, <1>7, <1>10 DEF AfterOpening

(* A later day; one more name.                                             *)
LEMMA KindsLater ==
  ASSUME NEW o \in Seq(FileName), NEW type, NEW day \in Nat, NEW next \in Nat, day <= next, Kinds(o, type, day)
  PROVE  Kinds(o, type, next)
<1>1. \A i \in DOMAIN o : o[i][2] \in Nat
  BY DEF FileName
<1> QED
  BY <1>1 DEF Kinds

(* A name opened once more leaves the names of one kind.                   *)
LEMMA KindsMore ==
  ASSUME NEW o \in Seq(FileName), NEW n \in FileName, NEW type, n[1] = type, NEW day \in Nat,
         type = "Date" => n[2] = day, Kinds(o, type, day)
  PROVE  Kinds(Append(o, n), type, day)
<1> DEFINE u == Append(o, n)
           l == Len(o)
<1>1. u \in Seq(FileName) /\ Len(u) = l + 1 /\ u[l + 1] = n /\ (\A i \in 1..l : u[i] = o[i]) /\ l \in Nat /\ DOMAIN o = 1..l
  BY OneMore
<1> HIDE DEF u, l
<1>2. DOMAIN u = 1..(l + 1)
  BY <1>1
<1>3. \A i \in DOMAIN u : (i \in DOMAIN o /\ u[i] = o[i] /\ i < l + 1) \/ (i = l + 1 /\ u[i] = n)
  BY <1>1, <1>2
<1>4. \A i \in DOMAIN u : u[i][1] = type
  BY <1>3 DEF Kinds
<1>5. ASSUME type = "Date"
      PROVE  /\ \A i \in DOMAIN u : u[i][2] <= day
             /\ \A i, j \in DOMAIN u : i < j => u[i][2] <= u[j][2]
  <2>1. /\ \A i \in DOMAIN o : o[i][2] <= day
        /\ \A i, j \in DOMAIN o : i < j => o[i][2] <= o[j][2]
        /\ n[2] = day
    BY <1>5 DEF Kinds
  <2>2. \A i \in DOMAIN u : u[i][2] <= day
    BY <1>3, <2>1
  <2>3. \A i, j \in DOMAIN u : i < j => i \in DOMAIN o /\ u[i] = o[i]
    BY <1>1, <1>2, <1>3
  <2>4. \A i, j \in DOMAIN u : i < j => u[i][2] <= u[j][2]
    BY <1>3, <2>1, <2>3
  <2> QED
    BY <2>2, <2>4
<1> QED
  BY <1>4, <1>5 DEF Kinds, u

(* The history after each action.                                          *)
LEMMA HistoryStep ==
  ASSUME FilesAssumption, TypeOK, LiveFileOnDisk, RunInv, ListInv, LaterInv, FirstInv, Usual, HistoryInv, DiskInv, Next
  PROVE  HistoryInv'
<1> USE DEF statics
<1> SUFFICES ASSUME ~setup.MaySwitch PROVE HistoryInv'
  BY DEF Next, HistoryInv
<1>0. setup' = setup /\ LastSn' = LastSn
  BY DEF Next, LastSn
<1>1. m_log_file_type' = m_log_file_type
  BY <1>0 DEF Next, Tick, InitBegin, InitClean, InitOpen, InitEnd, SetLogFormate, WriteMessage, WriteAndRotate, Restart
<1>2. /\ Kinds(opened, m_log_file_type, now \div setup.DayLength)
      /\ live # NoFile => opened # <<>> /\ live = Nth(opened, 1)
      /\ m_log_file_type = "AutoIncSn" => Numbered(m_log_list, log_sequence_no)
  BY DEF HistoryInv
<1>3. now \in Nat /\ setup.DayLength \in Nat \ {0} /\ opened \in Seq(FileName)
      /\ now \div setup.DayLength \in Nat
  <2>1. now \in Nat /\ setup.DayLength \in Nat \ {0} /\ opened \in Seq(FileName)
    BY Setting DEF TypeOK
  <2> QED
    BY <2>1, DaysGoOn
<1>4. ASSUME opened' = opened, NEW type, type = m_log_file_type PROVE Kinds(opened', type, now' \div setup.DayLength)
  <2>1. CASE now' = now
    BY <1>2, <1>4, <2>1
  <2>2. CASE now' = now + 1
    <3> DEFINE a == now \div setup.DayLength
               c == now' \div setup.DayLength
    <3>1. a \in Nat /\ a <= c /\ c \in Nat
      BY <1>3, <2>2, DaysGoOn
    <3>2. Kinds(opened, m_log_file_type, a)
      BY <1>2
    <3> HIDE DEF a, c
    <3>3. Kinds(opened, m_log_file_type, c)
      BY <1>3, <3>1, <3>2, KindsLater
    <3> QED
      BY <1>4, <3>3 DEF c
  <2>3. now' = now \/ now' = now + 1
    BY DEF Next, Tick, InitBegin, InitClean, InitOpen, InitEnd, SetLogFormate, WriteMessage, WriteAndRotate, Restart
  <2> QED
    BY <2>1, <2>2, <2>3
<1>5. ASSUME NEW L, NEW sn, Numbered(L, sn), L = m_log_list', sn = log_sequence_no' PROVE Numbered(m_log_list, log_sequence_no)'
  BY <1>0, <1>5 DEF Numbered, NumberBefore
<1>6. CASE Tick \/ InitBegin \/ InitClean \/ InitEnd \/ SetLogFormate \/ WriteMessage \/ Restart
  <2>1. opened' = opened /\ (live' = live \/ live' = NoFile)
    BY <1>6 DEF Tick, InitBegin, InitClean, InitEnd, SetLogFormate, WriteMessage, Restart
  <2>2. (m_log_list' = m_log_list /\ log_sequence_no' = log_sequence_no) \/ m_log_list' = <<>>
    BY <1>6 DEF Tick, InitBegin, InitClean, InitEnd, SetLogFormate, WriteMessage, Restart
  <2>3. m_log_file_type = "AutoIncSn" => Numbered(m_log_list, log_sequence_no)'
    <3>1. CASE m_log_list' = m_log_list /\ log_sequence_no' = log_sequence_no
      BY <1>2, <1>5, <3>1
    <3>2. CASE m_log_list' = <<>>
      BY <3>2 DEF Numbered
    <3> QED
      BY <2>2, <3>1, <3>2
  <2>4. live' # NoFile => opened' # <<>> /\ live' = Nth(opened', 1)
    BY <1>2, <2>1
  <2>5. Kinds(opened', m_log_file_type', now' \div setup'.DayLength)
    BY <1>0, <1>1, <1>4, <2>1
  <2> QED
    BY <1>1, <2>3, <2>4, <2>5 DEF HistoryInv
<1>7. ASSUME NEW d, NEW list \in Seq(FileName), Directory(d, M), OpenNext(d, list), now' = now,
             m_log_file_type = "AutoIncSn" => Numbered(m_log_list, log_sequence_no)'
      PROVE  HistoryInv'
  <2>1. LogFileName \in FileName
    BY <1>7, Opening DEF Opened
  <2>2. LogFileName[1] = m_log_file_type /\ (m_log_file_type = "Date" => LogFileName[2] = now \div setup.DayLength)
    <3>1. m_log_file_type \in {"DateTime", "Date", "AutoIncSn"}
      BY Setting
    <3>2. CASE m_log_file_type = "DateTime"
      BY <3>2 DEF LogFileName
    <3>3. CASE m_log_file_type = "Date"
      BY <3>3 DEF LogFileName
    <3>4. CASE m_log_file_type = "AutoIncSn"
      BY <3>4 DEF LogFileName
    <3> QED
      BY <3>1, <3>2, <3>3, <3>4
  <2> DEFINE n == LogFileName
             day == now \div setup.DayLength
  <2>3. opened' = Append(opened, n) /\ live' = n
    BY <1>7 DEF OpenNext
  <2>4. n \in FileName /\ n[1] = m_log_file_type /\ (m_log_file_type = "Date" => n[2] = day) /\ day \in Nat
        /\ Kinds(opened, m_log_file_type, day)
    BY <1>2, <1>3, <2>1, <2>2
  <2>5. day = now' \div setup'.DayLength
    BY <1>0, <1>7
  <2> HIDE DEF n, day
  <2>6. Kinds(opened', m_log_file_type', now' \div setup'.DayLength)
    BY <1>1, <1>3, <2>3, <2>4, <2>5, KindsMore
  <2>7. opened' # <<>> /\ live' = Nth(opened', 1)
    BY <1>3, <2>3, <2>4, NthOfMore, OneMore
  <2> QED
    BY <1>1, <1>7, <2>6, <2>7 DEF HistoryInv
<1>8. CASE InitOpen \/ WriteAndRotate
  <2>1. AfterOpening
    BY <1>8, InitOpenFits, RotateFits
  <2>2. PICK d, list : list \in Seq(FileName) /\ Directory(d, M) /\ OpenNext(d, list)
    BY <2>1 DEF AfterOpening
  <2>3. m_log_file_type = "AutoIncSn" => Numbered(m_log_list, log_sequence_no)'
    BY <1>5, <2>1 DEF AfterOpening
  <2>4. now' = now
    BY <1>8 DEF InitOpen, WriteAndRotate
  <2> QED
    BY <1>7, <2>2, <2>3, <2>4
<1> QED
  BY <1>6, <1>8 DEF Next

(* Disk, list and history after each action.                               *)
LEMMA DiskStep ==
  ASSUME FilesAssumption, TypeOK, LiveFileOnDisk, RunInv, ListInv, LaterInv, FirstInv, Usual, HistoryInv, DiskInv, Next
  PROVE  DiskInv'
<1> USE DEF statics
<1> SUFFICES ASSUME ~setup.MaySwitch PROVE DiskInv'
  BY DEF Next, DiskInv
<1>1. setup' = setup /\ Remain' = Remain /\ Several' = Several
  BY DEF Next, Remain, DefaultRemain, Several
<1>10. /\ Promised \in Nat /\ Promised <= m_log_remain_counts
       /\ later' = later => Promised' = Promised
  BY <1>1, Promises
<1>2. m_log_file_type' = m_log_file_type
  BY <1>1 DEF Next, Tick, InitBegin, InitClean, InitOpen, InitEnd, SetLogFormate, WriteMessage, WriteAndRotate, Restart
<1>3. /\ Fits(disk, m_log_list, opened, before, written, Promised)
      /\ m_log_file_type # "Date" => AsListed(disk, m_log_list)
      /\ written > before /\ Several /\ Remain >= inits => Newer(disk, written, opened, Opens + 1)
  BY DEF DiskInv
<1>4. /\ Directory(disk, M) /\ M \in Nat /\ Remain \in Nat /\ before \in Nat /\ written \in Nat /\ inits \in Nat
      /\ opened \in Seq(FileName) /\ ipc \in {"idle", "clean", "open", "set"} /\ m_log_remain_counts \in Nat
  BY Setting DEF TypeOK
<1>5. Opens \in Nat
  BY <1>4 DEF Opens, RunInv
<1>6. CASE Tick \/ SetLogFormate
  BY <1>1, <1>10, <1>2, <1>3, <1>6 DEF Tick, SetLogFormate, DiskInv, Opens
<1>7. CASE InitBegin
  <2>1. UNCHANGED <<disk, m_log_list, opened, before, written, later>> /\ Opens' = Opens /\ inits' = inits + 1
    BY <1>4, <1>7 DEF InitBegin, Opens
  <2>2. Remain >= inits' => Remain >= inits
    BY <1>4, <2>1
  <2> QED
    BY <1>1, <1>10, <1>2, <1>3, <2>1, <2>2 DEF DiskInv
<1>8. CASE InitEnd
  <2>1. UNCHANGED <<disk, m_log_list, opened, before, written, inits, later>> /\ Opens' = Opens
    BY <1>8 DEF InitEnd, Opens
  <2> QED
    BY <1>1, <1>10, <1>2, <1>3, <2>1 DEF DiskInv
<1>9. CASE InitClean
  <2>1. disk' = Newest(disk, m_log_remain_counts) /\ ipc = "clean" /\ UNCHANGED <<m_log_list, opened, before, written, inits, later>>
        /\ Opens' = Opens
    BY <1>9 DEF InitClean, Opens
  <2>2. m_log_remain_counts = IF ArgumentsStored THEN Remain ELSE DefaultRemain
    BY DEF LaterInv
  <2>3. Opens + 1 = inits
    BY <1>4, <2>1 DEF Opens
  <2> DEFINE G == IF ArgumentsStored /\ Remain >= inits THEN Opens + 1 ELSE 0
  <2>4. G \in Nat /\ G <= m_log_remain_counts
    <3>1. CASE ArgumentsStored /\ Remain >= inits
      BY <1>4, <1>5, <2>2, <2>3, <3>1
    <3>2. CASE ~(ArgumentsStored /\ Remain >= inits)
      BY <1>4, <3>2
    <3> QED
      BY <3>1, <3>2
  <2>6. ~ArgumentsStored => written = before
    BY <1>4, <2>1 DEF ArgumentsStored, FirstInv, Opens, RunInv
  <2> HIDE DEF G
  <2>5. /\ Fits(disk', m_log_list, opened, before, written, Promised)
        /\ AsListed(disk, m_log_list) => AsListed(disk', m_log_list)
        /\ Newer(disk, written, opened, G) => Newer(disk', written, opened, G)
    BY <1>10, <1>3, <1>4, <2>1, <2>4, CleanedFits
  <2> QED
    BY <1>1, <1>10, <1>2, <1>3, <1>4, <2>1, <2>5, <2>6 DEF DiskInv, G
<1>13. CASE InitOpen \/ WriteAndRotate
  BY <1>13, InitOpenFits, RotateFits DEF AfterOpening
<1>11. CASE WriteMessage
  <2>1. disk' = AfterWrite /\ live # NoFile /\ written < setup.MaxMessages /\ written' = written + 1
        /\ UNCHANGED <<m_log_list, opened, before, inits, later>> /\ Opens' = Opens
    BY <1>11 DEF WriteMessage, Opens
  <2>2. /\ Fits(disk', m_log_list, opened, before, written', Promised)
        /\ m_log_file_type # "Date" => AsListed(disk', m_log_list)
        /\ Newer(disk', written', opened, 1)
    BY <2>1, WritingFits
  <2>3. 1 \in Nat /\ Opens + 1 \in Nat /\ 1 <= Opens + 1
    BY <1>5
  <2>4. Newer(disk', written', opened, Opens + 1)
    BY <2>2, <2>3, MoreNewer
  <2> QED
    BY <1>1, <1>10, <1>2, <2>1, <2>2, <2>4 DEF DiskInv
<1>12. CASE Restart
  <2>1. disk' = disk /\ m_log_list' = <<>> /\ opened' = opened /\ before' = written /\ written' = written /\ later' = 0
    BY <1>12 DEF Restart
  <2>2. /\ Names(disk) \subseteq ToSet(opened) /\ RecentOn(disk, opened, Promised) /\ LastOn(disk, opened)
        /\ LatestPart(disk, before, written)
    BY <1>3 DEF Fits
  <2>3. \A x \in Kept(disk) : x <= written /\ x \in Nat
    BY <1>4, <2>2, MessagesAreNumbers DEF LatestPart
  <2>4. \A p \in DOMAIN disk : \A x \in ToSet(disk[p].messages) : x <= written /\ ~(x > written)
    <3>1. \A p \in DOMAIN disk : \A x \in ToSet(disk[p].messages) : x \in Kept(disk)
      BY KeptIs
    <3> QED
      BY <1>4, <2>3, <3>1
  <2>5. InOrder(disk, written) /\ Unlisted(disk, <<>>, written) /\ LatestPart(disk, written, written)
    BY <1>4, <2>3, <2>4 DEF InOrder, Unlisted, LatestPart
  <2>6. EndOf(<<>>, opened)
    BY <1>4 DEF EndOf
  <2>7. Fits(disk, <<>>, opened, written, written, Promised) /\ AsListed(disk, <<>>)
    BY <2>2, <2>5, <2>6 DEF Fits, AsListed
  <2>8. Promised' \in Nat /\ Promised' <= Promised
    <3>1. later \in Nat /\ Remain \in Nat /\ DefaultRemain \in Nat /\ DefaultRemain' = DefaultRemain
      BY <1>1, Setting, Counts DEF DefaultRemain
    <3> QED
      BY <1>1, <2>1, <3>1 DEF Promised, LesserOf
  <2>9. Fits(disk, <<>>, opened, written, written, Promised')
    BY <1>10, <2>7, <2>8, FewerRecent
  <2> QED
    BY <1>1, <1>2, <1>4, <2>1, <2>7, <2>9 DEF DiskInv
<1> QED
  BY <1>6, <1>7, <1>8, <1>9, <1>13, <1>11, <1>12 DEF Next

(* Both at the start, and after every step.                                *)
FitInv == HistoryInv /\ DiskInv

(* Both hold when the run starts.                                          *)
LEMMA FitsAtStart ==
  ASSUME FilesAssumption, Init
  PROVE  FitInv
<1>1. disk = <<>> /\ opened = <<>> /\ m_log_list = <<>> /\ live = NoFile /\ written = 0 /\ before = 0
  BY DEF Init
<1>2. HistoryInv
  BY <1>1 DEF HistoryInv, Kinds, Numbered
<1>3. Fits(<<>>, <<>>, <<>>, 0, 0, Promised) /\ AsListed(<<>>, <<>>)
  <2>1. Names(<<>>) = {} /\ Kept(<<>>) = {} /\ EndOf(<<>>, <<>>)
    BY DEF Names, Kept, EndOf
  <2>2. setup \in SetupType
    BY DEF Init, FilesAssumption
  <2>3. Promised \in Nat
    BY <2>2 DEF SetupType, Remain, DefaultRemain, Promised, LesserOf, Init
  <2>4. RecentOn(<<>>, <<>>, Promised)
    BY <2>3 DEF RecentOn
  <2> QED
    BY <2>1, <2>4 DEF Fits, LastOn, InOrder, Unlisted, LatestPart, AsListed
<1>4. DiskInv
  BY <1>1, <1>3 DEF DiskInv
<1> QED
  BY <1>2, <1>4 DEF FitInv

(* Every step keeps both.                                                  *)
LEMMA FitsStep ==
  ASSUME FilesAssumption, IInv, Usual, FitInv, [Next]_vars
  PROVE  FitInv'
<1>1. CASE Next
  BY <1>1, HistoryStep, DiskStep DEF IInv, FitInv
<1>2. CASE UNCHANGED vars
  <2> USE <1>2 DEF vars, statics
  <2>1. HistoryInv'
    BY DEF FitInv, HistoryInv, Numbered, NumberBefore, LastSn
  <2>2. DiskInv'
    BY DEF FitInv, DiskInv, Promised, Several, Remain, DefaultRemain, Opens
  <2> QED
    BY <2>1, <2>2 DEF FitInv
<1> QED
  BY <1>1, <1>2

(* The setup stays what it is.                                             *)
LEMMA UsualStays ==
  ASSUME UsualSetups, FilesAssumption, TypeOK, ~setup.MaySwitch
  PROVE  Usual
BY DEF UsualSetups, TypeOK, Most, Remain, DefaultRemain, LastSn, Usual

(* With a usual setup, disk and list and history fit at all times.         *)
THEOREM EverythingFits ==
  ASSUME UsualSetups
  PROVE  Spec => []FitInv
<1>1. FilesAssumption => (Init => FitInv)
  BY FitsAtStart
<1>2. UsualSetups /\ FilesAssumption => (IInv /\ FitInv /\ [Next]_vars => FitInv')
  <2> SUFFICES ASSUME FilesAssumption, IInv, FitInv, [Next]_vars PROVE FitInv'
    OBVIOUS
  <2>1. CASE ~setup.MaySwitch
    <3>1. Usual
      BY <2>1, UsualStays DEF IInv
    <3> QED
      BY <3>1, FitsStep
  <2>2. CASE setup.MaySwitch
    <3>1. setup' = setup
      BY DEF Next, vars
    <3> QED
      BY <2>2, <3>1 DEF FitInv, HistoryInv, DiskInv
  <2> QED
    BY <2>1, <2>2
<1> QED
  BY <1>1, <1>2, FilesAssumption, Invariance, PTL DEF Spec

(* The files opened last are there.                                        *)
THEOREM NewestAreKept ==
  ASSUME UsualSetups
  PROVE  Spec => []KeepsNewestFiles
<1>1. FilesAssumption => (IInv /\ FitInv => KeepsNewestFiles)
  <2> SUFFICES ASSUME FilesAssumption, IInv, FitInv, ~setup.MaySwitch,
                      NEW i \in 1..LesserOf(Promised, Len(opened))
               PROVE  opened[Len(opened) + 1 - i] \in Names(disk)
    BY DEF KeepsNewestFiles
  <2>1. RecentOn(disk, opened, Promised)
    BY DEF FitInv, DiskInv, Fits
  <2>2. Promised \in Nat /\ Len(opened) \in Nat
    BY Promises, Counts DEF IInv
  <2>3. i \in 1..Promised /\ i <= Len(opened)
    BY <2>2 DEF LesserOf
  <2>4. PICK p \in DOMAIN disk : disk[p].name = Nth(opened, i)
    BY <2>1, <2>3 DEF RecentOn
  <2> QED
    BY <2>4 DEF Nth, Names
<1> QED
  BY <1>1, FilesAssumption, Invariance, EverythingFits, PTL

(* What is lost of a run are its oldest messages, and the last one is not. *)
THEOREM OldestAreLostFirst ==
  ASSUME UsualSetups
  PROVE  Spec => []OnlyOldestDestroyed
<1>1. FilesAssumption => (IInv /\ FitInv => OnlyOldestDestroyed)
  <2> SUFFICES ASSUME FilesAssumption, IInv, FitInv, ~setup.MaySwitch
               PROVE  /\ \A m \in Kept(disk) : m > before => m..written \subseteq Kept(disk)
                      /\ written > before /\ Several /\ Remain >= inits => written \in Kept(disk)
    BY DEF OnlyOldestDestroyed, Kept, Several
  <2>1. /\ LatestPart(disk, before, written)
        /\ written > before /\ Several /\ Remain >= inits => Newer(disk, written, opened, Opens + 1)
    BY DEF FitInv, DiskInv, Fits
  <2>2. ASSUME Newer(disk, written, opened, Opens + 1) PROVE written \in Kept(disk)
    BY <2>2, KeptIs DEF Newer
  <2> QED
    BY <2>1, <2>2 DEF LatestPart
<1> QED
  BY <1>1, FilesAssumption, Invariance, EverythingFits, PTL
=============================================================================
