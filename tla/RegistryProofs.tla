--------------------------- MODULE RegistryProofs ---------------------------
(***************************************************************************)
(* Proofs about Registry, for every set of threads and every number of     *)
(* lines: whatever searches and walks miss while others insert, a ring has *)
(* one writer, the file gets the lines of a thread in order and once, and  *)
(* only a few buffers are lost.                                            *)
(***************************************************************************)
EXTENDS Registry, SequenceTheorems, FiniteSetTheorems, TLAPS

(* The types, a line begun before it is added, and a walk that reads a     *)
(* buffer of the map.                                                      *)
StateInv ==
  /\ TypeOK
  /\ line \in [Thread -> Nat]
  /\ \A t \in Thread : op[t] = "add" => line[t] >= 1
  /\ bpc = "reading" => bat \in Registered

(* A buffer holds lines of one thread; one in the map is entered once, and *)
(* holds the lines of the thread it is entered for.                        *)
Of(t, lines) == \A i \in DOMAIN lines : lines[i][1] = t
Owns(t, b) == Of(t, current[b]) /\ Of(t, ring[b])

OwnerInv ==
  /\ \A b \in Buffers : \E t \in Thread : Owns(t, b)
  /\ \A t \in Registered : Owns(t, m_thread_log_buffer[t])
  /\ \A s, t \in Registered : s # t => m_thread_log_buffer[s] # m_thread_log_buffer[t]

(* The lines of a thread in the file, in the ring of the buffer the map    *)
(* has for it and in m_current_log there are older in this order, and none *)
(* is younger than the last that was added.                                *)
Ordered(lines) == \A i, j \in DOMAIN lines : i < j => lines[i][2] < lines[j][2]
Before(lines, later) == \A i \in DOMAIN lines, j \in DOMAIN later : lines[i][2] < later[j][2]
Upto(lines, n) == \A i \in DOMAIN lines : lines[i][2] <= n
Added(t) == IF op[t] = "add" /\ pc[t] # "idle" THEN line[t] - 1 ELSE line[t]

InOrder(lines, flushed, collected, n) ==
  /\ Ordered(lines) /\ Ordered(flushed) /\ Ordered(collected)
  /\ Before(lines, flushed) /\ Before(lines, collected) /\ Before(flushed, collected)
  /\ Upto(lines, n) /\ Upto(flushed, n) /\ Upto(collected, n)

OrderInv ==
  \A t \in Thread :
    IF t \in Registered
    THEN InOrder(saved[t], ring[m_thread_log_buffer[t]], current[m_thread_log_buffer[t]], Added(t))
    ELSE saved[t] = <<>>

IInv == StateInv /\ OwnerInv /\ OrderInv

-----------------------------------------------------------------------------
(* A sequence of sequences of which one is replaced.                       *)
LEMMA Replaced ==
  ASSUME NEW L, NEW s \in Seq(Seq(L)), NEW b \in 1..Len(s), NEW x \in Seq(L), NEW r, r = [s EXCEPT ![b] = x]
  PROVE  /\ r \in Seq(Seq(L)) /\ Len(r) = Len(s) /\ r[b] = x
         /\ \A c \in 1..Len(s) : c # b => r[c] = s[c]
<1>1. r \in [1..Len(s) -> Seq(L)]
  OBVIOUS
<1> QED
  BY <1>1

(* What add() or flush() does to the buffer b, l being the line added.     *)
Operates(o, l, b, cur, rng, cur2, rng2) ==
  IF o = "add" THEN cur2 = [cur EXCEPT ![b] = Append(@, l)] /\ rng2 = rng
  ELSE cur2 = [cur EXCEPT ![b] = <<>>] /\ rng2 = [rng EXCEPT ![b] = @ \o cur[b]]

Changes(o, l, b, cur, rng, cur2, rng2) ==
  /\ cur2 \in Seq(Seq(Line)) /\ rng2 \in Seq(Seq(Line))
  /\ Len(cur2) = Len(cur) /\ Len(rng2) = Len(cur)
  /\ \A c \in 1..Len(cur) : c # b => cur2[c] = cur[c] /\ rng2[c] = rng[c]
  /\ o = "add" => cur2[b] = Append(cur[b], l) /\ rng2[b] = rng[b]
  /\ o # "add" => cur2[b] = <<>> /\ rng2[b] = rng[b] \o cur[b]

LEMMA OperateChanges ==
  ASSUME NEW cur \in Seq(Seq(Line)), NEW rng \in Seq(Seq(Line)), NEW b \in 1..Len(cur), Len(rng) = Len(cur),
         NEW o, NEW l, o = "add" => l \in Line, NEW cur2, NEW rng2,
         Operates(o, l, b, cur, rng, cur2, rng2)
  PROVE  Changes(o, l, b, cur, rng, cur2, rng2)
<1> DEFINE L == Line
<1>0. b \in 1..Len(rng) /\ <<>> \in Seq(L)
  OBVIOUS
<1>1. cur[b] \in Seq(L) /\ rng[b] \in Seq(L)
  BY <1>0
<1>2. CASE o = "add"
  <2>1. Append(cur[b], l) \in Seq(L) /\ cur2 = [cur EXCEPT ![b] = Append(cur[b], l)] /\ rng2 = rng
    BY <1>1, <1>2, AppendProperties DEF Operates
  <2> QED
    BY <1>0, <1>2, <2>1, Replaced DEF Changes
<1>3. CASE o # "add"
  <2>1. rng[b] \o cur[b] \in Seq(L) /\ <<>> \in Seq(L)
    BY <1>1
  <2>2. cur2 = [cur EXCEPT ![b] = <<>>]
    BY <1>3 DEF Operates
  <2>3. rng2 = [rng EXCEPT ![b] = rng[b] \o cur[b]]
    BY <1>3 DEF Operates
  <2>4. /\ cur2 \in Seq(Seq(L)) /\ Len(cur2) = Len(cur) /\ cur2[b] = <<>>
        /\ \A c \in 1..Len(cur) : c # b => cur2[c] = cur[c]
    BY <1>0, <2>2, Replaced
  <2>5. \A x \in Seq(L) : rng2 = [rng EXCEPT ![b] = x] =>
          /\ rng2 \in Seq(Seq(L)) /\ Len(rng2) = Len(rng) /\ rng2[b] = x
          /\ \A c \in 1..Len(rng) : c # b => rng2[c] = rng[c]
    BY <1>0, Replaced
  <2>6. /\ rng2 \in Seq(Seq(L)) /\ Len(rng2) = Len(rng) /\ rng2[b] = rng[b] \o cur[b]
        /\ \A c \in 1..Len(rng) : c # b => rng2[c] = rng[c]
    BY <2>1, <2>3, <2>5
  <2> QED
    BY <1>3, <2>4, <2>6 DEF Changes
<1> QED
  BY <1>2, <1>3

(* What a search that ends does: the buffer b of cur and rng changes.      *)
Effect(t, b, cur, rng) == Changes(op[t], <<t, line[t]>>, b, cur, rng, current', ring')

LEMMA LineBegun ==
  ASSUME StateInv, NEW t \in Thread, op[t] = "add"
  PROVE  <<t, line[t]>> \in Line
<1>1. line[t] \in 1..MaxLines[t]
  BY RegistryAssumption DEF StateInv, TypeOK
<1> QED
  BY <1>1 DEF Line

LEMMA FoundEffect ==
  ASSUME StateInv, NEW t \in Thread, Found(t)
  PROVE  Effect(t, m_thread_log_buffer[t], current, ring)
<1> DEFINE b == m_thread_log_buffer[t]
<1>1. /\ current \in Seq(Seq(Line)) /\ ring \in Seq(Seq(Line)) /\ Len(ring) = Len(current)
      /\ b \in 1..Len(current)
  BY DEF StateInv, TypeOK, Found, Buffers
<1>2. op[t] = "add" => <<t, line[t]>> \in Line
  BY LineBegun
<1>3. Operates(op[t], <<t, line[t]>>, b, current, ring, current', ring')
  BY DEF Found, Operate, Operates
<1> HIDE DEF b
<1>4. Effect(t, b, current, ring)
  BY <1>1, <1>2, <1>3, OperateChanges DEF Effect
<1> QED
  BY <1>4 DEF b

LEMMA InsertEffect ==
  ASSUME StateInv, NEW t \in Thread, InsertEnd(t)
  PROVE  Effect(t, NewBuffer, Append(current, <<>>), Append(ring, <<>>))
<1> DEFINE b == NewBuffer
           cur == Append(current, <<>>)
           rng == Append(ring, <<>>)
<1>1. current \in Seq(Seq(Line)) /\ ring \in Seq(Seq(Line)) /\ Len(ring) = Len(current) /\ <<>> \in Seq(Line)
  BY DEF StateInv, TypeOK
<1>2. cur \in Seq(Seq(Line)) /\ rng \in Seq(Seq(Line)) /\ Len(rng) = Len(cur) /\ b \in 1..Len(cur)
  BY <1>1, AppendProperties DEF NewBuffer
<1>3. op[t] = "add" => <<t, line[t]>> \in Line
  BY LineBegun
<1>4. Operates(op[t], <<t, line[t]>>, b, cur, rng, current', ring')
  BY DEF InsertEnd, Operate, Operates
<1> HIDE DEF b, cur, rng
<1>5. Effect(t, b, cur, rng)
  BY <1>2, <1>3, <1>4, OperateChanges DEF Effect
<1> QED
  BY <1>5 DEF b, cur, rng

-----------------------------------------------------------------------------
(* The types.                                                              *)
LEMMA StateInit == Init => StateInv
<1> SUFFICES ASSUME Init PROVE StateInv
  OBVIOUS
<1>1. <<>> \in Seq(Seq(Line)) /\ <<>> \in Seq(Line) /\ Len(<<>>) = 0 /\ DOMAIN <<>> = {}
  OBVIOUS
<1>2. [t \in Thread |-> <<>>] \in [Thread -> Seq(Line)] /\ 0 \notin Thread /\ \A t \in Thread : 0 \in 0..MaxLines[t]
  BY <1>1, RegistryAssumption
<1> QED
  BY <1>1, <1>2 DEF Init, StateInv, TypeOK, Registered, Buffers

LEMMA StateStep ==
  ASSUME StateInv, [Next]_vars
  PROVE  StateInv'
<1> USE DEF StateInv, TypeOK, Registered, Buffers, mapvars, bufvars, thrvars, bgvars
<1>1. ASSUME NEW t \in Thread, FindBegin(t) PROVE StateInv'
  <2>1. /\ line' \in [Thread -> Nat] /\ op' \in [Thread -> {"add", "flush"}]
        /\ \A i \in Thread : line'[i] \in 0..MaxLines[i] /\ (op'[i] = "add" => line'[i] >= 1)
    <3>1. CASE op[t] = "add"
      BY <1>1, <3>1 DEF FindBegin
    <3>2. CASE op[t] # "add"
      <4>1. line' = [line EXCEPT ![t] = line[t] + 1] /\ op' = [op EXCEPT ![t] = "add"] /\ line[t] < MaxLines[t]
        BY <1>1, <3>2 DEF FindBegin
      <4>2. line[t] \in Nat /\ MaxLines[t] \in Nat
        BY RegistryAssumption
      <4>3. line' \in [Thread -> Nat] /\ \A i \in Thread : line'[i] = IF i = t THEN line[t] + 1 ELSE line[i]
        <5>1. line \in [Thread -> Nat] /\ line[t] + 1 \in Nat
          BY <4>2
        <5> HIDE DEF TypeOK, StateInv
        <5> QED
          BY <4>1, <5>1
      <4>4. op' \in [Thread -> {"add", "flush"}] /\ \A i \in Thread : op'[i] = "add" => i = t \/ op[i] = "add"
        BY <4>1
      <4>5. \A i \in Thread : line[i] \in 0..MaxLines[i] /\ (op[i] = "add" => line[i] >= 1)
        OBVIOUS
      <4> HIDE DEF TypeOK, StateInv
      <4> QED
        BY <4>1, <4>2, <4>3, <4>4, <4>5
    <3> QED
      BY <3>1, <3>2
  <2>2. pc' \in [Thread -> {"idle", "finding", "missed", "inserting"}] /\ overlapped' \in [Thread -> BOOLEAN]
    BY <1>1 DEF FindBegin
  <2>3. \A i \in Thread : pc'[i] = "inserting" <=> pc[i] = "inserting"
    BY <1>1 DEF FindBegin
  <2> QED
    BY <1>1, <2>1, <2>2, <2>3 DEF FindBegin
<1>2. ASSUME NEW t \in Thread, Found(t) PROVE StateInv'
  <2>1. Effect(t, m_thread_log_buffer[t], current, ring)
    BY <1>2, FoundEffect
  <2>2. current' \in Seq(Seq(Line)) /\ ring' \in Seq(Seq(Line)) /\ Len(ring') = Len(current') /\ Buffers' = Buffers
    BY <2>1 DEF Effect, Changes
  <2>3. pc' = [pc EXCEPT ![t] = "idle"] /\ pc[t] = "finding" /\ UNCHANGED <<mapvars, op, line, overlapped, bgvars>>
    BY <1>2 DEF Found
  <2> HIDE DEF Buffers
  <2> QED
    BY <2>2, <2>3
<1>3. ASSUME NEW t \in Thread, NotFound(t) PROVE StateInv'
  BY <1>3 DEF NotFound
<1>4. ASSUME NEW t \in Thread, InsertBegin(t) PROVE StateInv'
  BY <1>4, RegistryAssumption DEF InsertBegin
<1>5. ASSUME NEW t \in Thread, InsertEnd(t) PROVE StateInv'
  <2>1. Effect(t, NewBuffer, Append(current, <<>>), Append(ring, <<>>))
    BY <1>5, InsertEffect
  <2>2. Len(current') = NewBuffer /\ Len(ring') = NewBuffer
    BY <2>1, AppendProperties DEF Effect, Changes, NewBuffer
  <2>3. m_mutex_buffer = t /\ tree = m_thread_log_buffer
    BY <1>5, RegistryAssumption DEF InsertEnd
  <2>4. m_thread_log_buffer' = m_thread_log_buffer
        \/ m_thread_log_buffer' = [i \in Registered \cup {t} |-> IF i = t THEN NewBuffer ELSE m_thread_log_buffer[i]]
    BY <1>5, <2>3 DEF InsertEnd
  <2>5. Registered' \subseteq Thread /\ Registered \subseteq Registered'
        /\ \A i \in Registered' : m_thread_log_buffer'[i] \in Buffers'
    <3>1. Buffers' = 1..NewBuffer /\ Buffers = 1..(NewBuffer - 1) /\ NewBuffer \in Nat
      BY <2>1, <2>2 DEF NewBuffer, Effect, Changes
    <3>2. CASE m_thread_log_buffer' = m_thread_log_buffer
      BY <3>1, <3>2
    <3>3. CASE m_thread_log_buffer' = [i \in Registered \cup {t} |-> IF i = t THEN NewBuffer ELSE m_thread_log_buffer[i]]
      <4>1. Registered' = Registered \cup {t} /\ m_thread_log_buffer'[t] = NewBuffer
        BY <3>3
      <4>2. \A i \in Registered : i # t => m_thread_log_buffer'[i] = m_thread_log_buffer[i]
        BY <3>3
      <4>3. \A i \in Registered : m_thread_log_buffer[i] \in 1..NewBuffer
        BY <3>1
      <4>4. NewBuffer \in 1..NewBuffer
        BY <3>1 DEF NewBuffer
      <4> HIDE DEF NewBuffer, Buffers
      <4> QED
        BY <3>1, <4>1, <4>2, <4>3, <4>4
    <3> QED
      BY <2>4, <3>2, <3>3
  <2>6. /\ \A i \in Thread : pc'[i] = "inserting" <=> m_mutex_buffer' = i
        /\ m_mutex_buffer' = 0
    BY <1>5, <2>3, RegistryAssumption DEF InsertEnd
  <2>7. /\ pc' \in [Thread -> {"idle", "finding", "missed", "inserting"}]
        /\ overlapped' \in [Thread -> BOOLEAN] /\ boverlapped' \in BOOLEAN
    BY <1>5 DEF InsertEnd
  <2>8. UNCHANGED <<op, line, bpc, bat, saved>>
    BY <1>5 DEF InsertEnd
  <2>9. current' \in Seq(Seq(Line)) /\ ring' \in Seq(Seq(Line))
    BY <2>1 DEF Effect, Changes
  <2> QED
    BY <2>2, <2>5, <2>6, <2>7, <2>8, <2>9
<1>6. CASE WalkBegin
  BY <1>6 DEF WalkBegin
<1>7. CASE WalkNext
  BY <1>7 DEF WalkNext, After
<1>8. CASE WalkEnd
  BY <1>8 DEF WalkEnd
<1>9. CASE WalkRead
  <2>1. bat \in Registered /\ bat \in Thread /\ m_thread_log_buffer[bat] \in 1..Len(ring)
    BY <1>9 DEF WalkRead
  <2>2. CASE ring[m_thread_log_buffer[bat]] = <<>>
    BY <1>9, <2>2 DEF WalkRead
  <2>3. CASE ring[m_thread_log_buffer[bat]] # <<>>
    <3> DEFINE b == m_thread_log_buffer[bat]
    <3>1. ring[b] \in Seq(Line)
      BY <2>1
    <3>2. Tail(ring[b]) \in Seq(Line) /\ Head(ring[b]) \in Line
      BY <2>3, <3>1
    <3>3. ring' = [ring EXCEPT ![b] = Tail(ring[b])] /\ saved' = [saved EXCEPT ![bat] = Append(saved[bat], Head(ring[b]))]
      BY <1>9, <2>3 DEF WalkRead
    <3>4. ring' \in Seq(Seq(Line)) /\ Len(ring') = Len(ring)
      BY <2>1, <3>2, <3>3, Replaced
    <3>5. saved' \in [Thread -> Seq(Line)]
      BY <2>1, <3>2, <3>3
    <3> QED
      BY <1>9, <3>4, <3>5 DEF WalkRead
  <2> QED
    BY <2>2, <2>3
<1>10. CASE UNCHANGED vars
  BY <1>10 DEF vars
<1> QED
  BY <1>1, <1>2, <1>3, <1>4, <1>5, <1>6, <1>7, <1>8, <1>9, <1>10 DEF Next, Walk, get_log_buffer_by_id

-----------------------------------------------------------------------------
(* One writer per ring.                                                    *)
LEMMA OfChanged ==
  ASSUME NEW t, NEW s \in Seq(Line), NEW u \in Seq(Line), Of(t, s), Of(t, u)
  PROVE  /\ Of(t, <<>>) /\ Of(t, s \o u)
         /\ \A n : Of(t, Append(s, <<t, n>>))
         /\ s # <<>> => Of(t, Tail(s))
<1>1. Of(t, s \o u)
  BY DEF Of
<1>2. \A n : Of(t, Append(s, <<t, n>>))
  BY DEF Of
<1>3. s # <<>> => Of(t, Tail(s))
  BY DEF Of
<1> QED
  BY <1>1, <1>2, <1>3 DEF Of

(* The buffer that changes keeps its owner, the others are as they were.   *)
LEMMA OwnsChanged ==
  ASSUME NEW t, NEW n, NEW o,
         NEW cur \in Seq(Seq(Line)), NEW rng \in Seq(Seq(Line)), NEW b \in 1..Len(cur), Len(rng) = Len(cur),
         Of(t, cur[b]), Of(t, rng[b]), NEW cur2, NEW rng2, Changes(o, <<t, n>>, b, cur, rng, cur2, rng2)
  PROVE  Of(t, cur2[b]) /\ Of(t, rng2[b])
<1>1. cur[b] \in Seq(Line) /\ rng[b] \in Seq(Line)
  OBVIOUS
<1>2. CASE o = "add"
  BY <1>1, <1>2, OfChanged DEF Changes
<1>3. CASE o # "add"
  BY <1>1, <1>3, OfChanged DEF Changes
<1> QED
  BY <1>2, <1>3

LEMMA OwnerInit == Init => OwnerInv
BY DEF Init, OwnerInv, Registered, Buffers

LEMMA OwnerStep ==
  ASSUME StateInv, OwnerInv, [Next]_vars
  PROVE  OwnerInv'
<1> DEFINE m == m_thread_log_buffer
<1>0. /\ current \in Seq(Seq(Line)) /\ ring \in Seq(Seq(Line)) /\ Len(ring) = Len(current)
      /\ Buffers = 1..Len(current) /\ Registered \subseteq Thread /\ \A i \in Registered : m[i] \in Buffers
      /\ <<>> \in Seq(Line)
  BY DEF StateInv, TypeOK, Buffers
<1>1. ASSUME NEW t \in Thread, Found(t) PROVE OwnerInv'
  <2>1. t \in Registered /\ m' = m /\ Changes(op[t], <<t, line[t]>>, m[t], current, ring, current', ring')
    BY <1>1, FoundEffect DEF Found, Effect, mapvars
  <2>2. Of(t, current'[m[t]]) /\ Of(t, ring'[m[t]])
    BY <1>0, <2>1, OwnsChanged DEF OwnerInv, Owns
  <2>3. \A c \in Buffers : c # m[t] => current'[c] = current[c] /\ ring'[c] = ring[c]
    BY <1>0, <2>1 DEF Changes
  <2>4. Buffers' = Buffers
    BY <1>0, <2>1 DEF Changes, Buffers
  <2>5. \A b \in Buffers : \E i \in Thread : Owns(i, b)'
    BY <2>2, <2>3 DEF OwnerInv, Owns
  <2>6. \A i \in Registered : Of(i, current'[m[i]]) /\ Of(i, ring'[m[i]])
    BY <1>0, <2>1, <2>2, <2>3 DEF OwnerInv, Owns
  <2> QED
    BY <2>1, <2>4, <2>5, <2>6 DEF OwnerInv, Owns, Registered
<1>2. ASSUME NEW t \in Thread, InsertEnd(t) PROVE OwnerInv'
  <2> DEFINE cur == Append(current, <<>>)
             rng == Append(ring, <<>>)
  <2>1. Changes(op[t], <<t, line[t]>>, NewBuffer, cur, rng, current', ring')
    BY <1>2, InsertEffect DEF Effect
  <2>2. /\ cur \in Seq(Seq(Line)) /\ rng \in Seq(Seq(Line)) /\ Len(cur) = NewBuffer /\ Len(rng) = Len(cur)
        /\ NewBuffer \in 1..Len(cur) /\ cur[NewBuffer] = <<>> /\ rng[NewBuffer] = <<>>
        /\ \A c \in Buffers : c # NewBuffer /\ c \in 1..Len(cur) /\ cur[c] = current[c] /\ rng[c] = ring[c]
    BY <1>0, AppendProperties DEF NewBuffer
  <2>3. Of(t, current'[NewBuffer]) /\ Of(t, ring'[NewBuffer])
    <3>1. Of(t, cur[NewBuffer]) /\ Of(t, rng[NewBuffer])
      BY <2>2 DEF Of
    <3> HIDE DEF cur, rng
    <3> QED
      BY <2>1, <2>2, <3>1, OwnsChanged
  <2>4. \A c \in Buffers : current'[c] = current[c] /\ ring'[c] = ring[c]
    BY <2>1, <2>2 DEF Changes
  <2>5. Buffers' = Buffers \cup {NewBuffer} /\ NewBuffer \notin Buffers
    BY <1>0, <2>1, <2>2 DEF Changes, Buffers, NewBuffer
  <2>6. \A b \in Buffers' : \E i \in Thread : Owns(i, b)'
    BY <2>3, <2>4, <2>5 DEF OwnerInv, Owns
  <2>7. tree = m
    BY <1>2, RegistryAssumption DEF InsertEnd, StateInv, TypeOK
  <2>8. CASE m' = m
    BY <1>0, <2>4, <2>6, <2>8 DEF OwnerInv, Owns, Registered
  <2>9. CASE m' = [i \in Registered \cup {t} |-> IF i = t THEN NewBuffer ELSE m[i]]
    <3>1. Registered' = Registered \cup {t} /\ m'[t] = NewBuffer /\ \A i \in Registered : i # t => m'[i] = m[i]
      BY <2>9 DEF Registered
    <3>2. \A i \in Registered' : Of(i, current'[m'[i]]) /\ Of(i, ring'[m'[i]])
      BY <1>0, <2>3, <2>4, <3>1 DEF OwnerInv, Owns
    <3>3. \A i, j \in Registered' : i # j => m'[i] # m'[j]
      BY <1>0, <2>5, <3>1 DEF OwnerInv
    <3> QED
      BY <2>6, <3>2, <3>3 DEF OwnerInv, Owns
  <2> QED
    BY <1>2, <2>7, <2>8, <2>9 DEF InsertEnd, Registered
<1>3. CASE WalkRead
  <2> DEFINE b == m[bat]
  <2>1. bat \in Registered /\ b \in Buffers /\ m' = m /\ current' = current
    BY <1>0, <1>3 DEF StateInv, WalkRead, mapvars
  <2>2. ring' = ring \/ (ring[b] # <<>> /\ ring' = [ring EXCEPT ![b] = Tail(ring[b])])
    BY <1>3 DEF WalkRead
  <2>3. \A i : Of(i, ring[b]) /\ ring[b] # <<>> => Of(i, Tail(ring[b]))
    BY <1>0, <2>1, OfChanged DEF Of
  <2>4. \A i, c : c \in Buffers /\ Of(i, ring[c]) => Of(i, ring'[c])
    <3>1. CASE ring' = ring
      BY <3>1
    <3>2. CASE ring[b] # <<>> /\ ring' = [ring EXCEPT ![b] = Tail(ring[b])]
      <4>1. \A c \in Buffers : ring'[c] = IF c = b THEN Tail(ring[b]) ELSE ring[c]
        BY <1>0, <2>1, <3>2
      <4> QED
        BY <2>3, <3>2, <4>1
    <3> QED
      BY <2>2, <3>1, <3>2
  <2> QED
    BY <1>0, <2>1, <2>4 DEF OwnerInv, Owns, Registered, Buffers
<1>4. CASE UNCHANGED <<m_thread_log_buffer, current, ring>>
  BY <1>4 DEF OwnerInv, Owns, Registered, Buffers, Of
<1> QED
  BY <1>1, <1>2, <1>3, <1>4
  DEF Next, Walk, get_log_buffer_by_id, FindBegin, NotFound, InsertBegin, WalkBegin, WalkNext, WalkEnd, vars, mapvars, bufvars

-----------------------------------------------------------------------------
(* The order of the lines.                                                 *)
LEMMA LineNumber ==
  ASSUME NEW x \in Line
  PROVE  x[2] \in Nat
BY RegistryAssumption DEF Line

(* Lines no younger than n are no younger than k, if k is not less.        *)
LEMMA UptoMore ==
  ASSUME NEW s \in Seq(Line), NEW n \in Nat, NEW k \in Nat, n <= k, Upto(s, n)
  PROVE  Upto(s, k)
<1> SUFFICES ASSUME NEW i \in DOMAIN s PROVE s[i][2] <= k
  BY DEF Upto
<1> DEFINE x == s[i]
<1>1. x \in Line /\ x[2] <= n
  BY DEF Upto
<1> HIDE DEF x
<1>2. x[2] \in Nat
  BY <1>1, LineNumber
<1>3. x[2] <= k
  BY <1>1, <1>2
<1> QED
  BY <1>3 DEF x

(* A line is added, ...                                                    *)
LEMMA AddedInOrder ==
  ASSUME NEW a \in Seq(Line), NEW b \in Seq(Line), NEW c \in Seq(Line), NEW n \in Nat, InOrder(a, b, c, n),
         NEW t, NEW k \in Nat, n < k
  PROVE  InOrder(a, b, Append(c, <<t, k>>), k)
<1> DEFINE d == Append(c, <<t, k>>)
<1>1. /\ \A i \in DOMAIN a : a[i][2] \in Nat
      /\ \A i \in DOMAIN b : b[i][2] \in Nat
      /\ \A i \in DOMAIN c : c[i][2] \in Nat
  BY LineNumber
<1>2. DOMAIN d = 1..(Len(c) + 1) /\ d[Len(c) + 1][2] = k /\ DOMAIN c = 1..Len(c) /\ Len(c) \in Nat
      /\ \A i \in 1..Len(c) : d[i] = c[i]
  OBVIOUS
<1> HIDE DEF d
<1>3. Ordered(d)
  <2> SUFFICES ASSUME NEW i \in DOMAIN d, NEW j \in DOMAIN d, i < j PROVE d[i][2] < d[j][2]
    BY DEF Ordered
  <2>1. i \in DOMAIN c /\ d[i] = c[i] /\ c[i][2] \in Nat /\ c[i][2] <= n
    BY <1>1, <1>2 DEF InOrder, Upto
  <2>2. CASE j \in DOMAIN c
    BY <1>2, <2>1, <2>2 DEF InOrder, Ordered
  <2>3. CASE j = Len(c) + 1
    BY <1>2, <2>1, <2>3
  <2> QED
    BY <1>2, <2>2, <2>3
<1>4. ASSUME NEW s \in {a, b} PROVE Before(s, d)
  <2> SUFFICES ASSUME NEW i \in DOMAIN s, NEW j \in DOMAIN d PROVE s[i][2] < d[j][2]
    BY DEF Before
  <2>1. s[i][2] \in Nat /\ s[i][2] <= n
    BY <1>1 DEF InOrder, Upto
  <2>2. CASE j \in DOMAIN c
    BY <1>2, <2>1, <2>2 DEF InOrder, Before
  <2>3. CASE j = Len(c) + 1
    BY <1>2, <2>1, <2>3
  <2> QED
    BY <1>2, <2>2, <2>3
<1>5. Upto(d, k)
  <2> SUFFICES ASSUME NEW i \in DOMAIN d PROVE d[i][2] <= k
    BY DEF Upto
  <2>1. CASE i \in DOMAIN c
    BY <1>1, <1>2, <2>1 DEF InOrder, Upto
  <2>2. CASE i = Len(c) + 1
    BY <1>2, <2>2
  <2> QED
    BY <1>2, <2>1, <2>2
<1>6. Upto(a, k) /\ Upto(b, k)
  BY <1>1 DEF InOrder, Upto
<1>7. InOrder(a, b, d, k)
  BY <1>3, <1>4, <1>6, <1>5 DEF InOrder
<1> QED
  BY <1>7 DEF d

(* ... what was collected is flushed, ...                                  *)
LEMMA FlushedInOrder ==
  ASSUME NEW a \in Seq(Line), NEW b \in Seq(Line), NEW c \in Seq(Line), NEW n \in Nat, InOrder(a, b, c, n)
  PROVE  InOrder(a, b \o c, <<>>, n)
<1> DEFINE d == b \o c
<1>1. DOMAIN d = 1..(Len(b) + Len(c)) /\ Len(b) \in Nat /\ Len(c) \in Nat
      /\ DOMAIN b = 1..Len(b) /\ DOMAIN c = 1..Len(c)
      /\ \A i \in DOMAIN d : IF i <= Len(b) THEN d[i] = b[i] ELSE d[i] = c[i - Len(b)]
  OBVIOUS
<1> HIDE DEF d
<1>2. \A i \in DOMAIN d : IF i <= Len(b) THEN i \in DOMAIN b ELSE i - Len(b) \in DOMAIN c
  BY <1>1
<1>3. Ordered(d)
  <2> SUFFICES ASSUME NEW i \in DOMAIN d, NEW j \in DOMAIN d, i < j PROVE d[i][2] < d[j][2]
    BY DEF Ordered
  <2>1. CASE j <= Len(b)
    <3>1. i \in DOMAIN b /\ j \in DOMAIN b /\ d[i] = b[i] /\ d[j] = b[j]
      BY <1>1, <2>1
    <3> QED
      BY <3>1 DEF InOrder, Ordered
  <2>2. CASE i <= Len(b) /\ ~(j <= Len(b))
    <3>1. i \in DOMAIN b /\ j - Len(b) \in DOMAIN c /\ d[i] = b[i] /\ d[j] = c[j - Len(b)]
      BY <1>1, <2>2
    <3> QED
      BY <3>1 DEF InOrder, Before
  <2>3. CASE ~(i <= Len(b)) /\ ~(j <= Len(b))
    <3>1. i - Len(b) \in DOMAIN c /\ j - Len(b) \in DOMAIN c /\ d[i] = c[i - Len(b)] /\ d[j] = c[j - Len(b)]
      BY <1>1, <2>3
    <3>2. i - Len(b) < j - Len(b)
      BY <1>1
    <3> QED
      BY <3>1, <3>2 DEF InOrder, Ordered
  <2> QED
    BY <1>1, <2>1, <2>2, <2>3
<1>4. Before(a, d) /\ Upto(d, n)
  BY <1>1, <1>2 DEF InOrder, Before, Upto
<1>5. InOrder(a, d, <<>>, n)
  BY <1>3, <1>4 DEF InOrder, Ordered, Before, Upto
<1> QED
  BY <1>5 DEF d

(* ... and the first of that is written.                                   *)
LEMMA SavedLineInOrder ==
  ASSUME NEW a \in Seq(Line), NEW b \in Seq(Line), NEW c \in Seq(Line), NEW n \in Nat, InOrder(a, b, c, n), b # <<>>
  PROVE  InOrder(Append(a, Head(b)), Tail(b), c, n)
<1> DEFINE d == Append(a, Head(b))
           e == Tail(b)
<1>1. /\ DOMAIN d = 1..(Len(a) + 1) /\ d[Len(a) + 1] = b[1] /\ DOMAIN a = 1..Len(a) /\ Len(a) \in Nat
      /\ \A i \in 1..Len(a) : d[i] = a[i]
      /\ DOMAIN b = 1..Len(b) /\ Len(b) \in Nat \ {0}
      /\ DOMAIN e = 1..(Len(b) - 1) /\ \A i \in DOMAIN e : e[i] = b[i + 1]
  OBVIOUS
<1> HIDE DEF d, e
<1>2. 1 \in DOMAIN b /\ \A i \in DOMAIN e : i + 1 \in DOMAIN b
  BY <1>1
<1>3. Ordered(d)
  <2> SUFFICES ASSUME NEW i \in DOMAIN d, NEW j \in DOMAIN d, i < j PROVE d[i][2] < d[j][2]
    BY DEF Ordered
  <2>1. i \in DOMAIN a /\ d[i] = a[i]
    BY <1>1
  <2>2. CASE j \in DOMAIN a
    BY <1>1, <2>1, <2>2 DEF InOrder, Ordered
  <2>3. CASE j = Len(a) + 1
    BY <1>1, <1>2, <2>1, <2>3 DEF InOrder, Before
  <2> QED
    BY <1>1, <2>2, <2>3
<1>4. Ordered(e)
  <2> SUFFICES ASSUME NEW i \in DOMAIN e, NEW j \in DOMAIN e, i < j PROVE e[i][2] < e[j][2]
    BY DEF Ordered
  <2>1. i + 1 < j + 1
    BY <1>1
  <2> QED
    BY <1>1, <1>2, <2>1 DEF InOrder, Ordered
<1>5. Before(d, e)
  <2> SUFFICES ASSUME NEW i \in DOMAIN d, NEW j \in DOMAIN e PROVE d[i][2] < e[j][2]
    BY DEF Before
  <2>1. j + 1 \in DOMAIN b /\ e[j] = b[j + 1] /\ 1 < j + 1
    BY <1>1, <1>2
  <2>2. CASE i \in DOMAIN a
    BY <1>1, <2>1, <2>2 DEF InOrder, Before
  <2>3. CASE i = Len(a) + 1
    BY <1>1, <1>2, <2>1, <2>3 DEF InOrder, Ordered
  <2> QED
    BY <1>1, <2>2, <2>3
<1>6. Before(d, c)
  <2> SUFFICES ASSUME NEW i \in DOMAIN d, NEW j \in DOMAIN c PROVE d[i][2] < c[j][2]
    BY DEF Before
  <2>1. CASE i \in DOMAIN a
    BY <1>1, <2>1 DEF InOrder, Before
  <2>2. CASE i = Len(a) + 1
    BY <1>1, <1>2, <2>2 DEF InOrder, Before
  <2> QED
    BY <1>1, <2>1, <2>2
<1>7. Before(e, c)
  BY <1>1, <1>2 DEF InOrder, Before
<1>8. Upto(d, n) /\ Upto(e, n)
  <2>1. \A i \in DOMAIN a : a[i][2] <= n
    BY DEF InOrder, Upto
  <2>2. \A i \in DOMAIN b : b[i][2] <= n
    BY DEF InOrder, Upto
  <2>3. \A i \in DOMAIN d : d[i][2] <= n
    BY <1>1, <1>2, <2>1, <2>2
  <2>4. \A i \in DOMAIN e : e[i][2] <= n
    BY <1>1, <1>2, <2>2
  <2> QED
    BY <2>3, <2>4 DEF Upto
<1>9. InOrder(d, e, c, n)
  BY <1>3, <1>4, <1>8, <1>5, <1>6, <1>7 DEF InOrder
<1> QED
  BY <1>9 DEF d, e

(* Both operations: the line added is the next one.                        *)
LEMMA ChangedInOrder ==
  ASSUME NEW t, NEW k \in Nat, NEW o, NEW a \in Seq(Line),
         NEW cur \in Seq(Seq(Line)), NEW rng \in Seq(Seq(Line)), NEW b \in 1..Len(cur), Len(rng) = Len(cur),
         NEW n \in Nat, n <= k, o = "add" => n < k, InOrder(a, rng[b], cur[b], n),
         NEW cur2, NEW rng2, Changes(o, <<t, k>>, b, cur, rng, cur2, rng2)
  PROVE  InOrder(a, rng2[b], cur2[b], k)
<1>1. cur[b] \in Seq(Line) /\ rng[b] \in Seq(Line)
  OBVIOUS
<1>2. CASE o = "add"
  BY <1>1, <1>2, AddedInOrder DEF Changes
<1>3. CASE o # "add"
  <2>1. InOrder(a, rng[b] \o cur[b], <<>>, n)
    BY <1>1, FlushedInOrder
  <2>2. rng[b] \o cur[b] \in Seq(Line)
    <3> DEFINE x == rng[b]
               y == cur[b]
               L == Line
    <3>1. x \in Seq(L) /\ y \in Seq(L)
      BY <1>1
    <3> HIDE DEF x, y, L
    <3>2. x \o y \in Seq(L)
      BY <3>1
    <3> QED
      BY <3>2, Zenon DEF x, y, L
  <2>3. \A s \in Seq(Line) : Upto(s, n) => Upto(s, k)
    BY UptoMore
  <2>4. InOrder(a, rng[b] \o cur[b], <<>>, k)
    <3>1. a \in Seq(Line) /\ <<>> \in Seq(Line)
      OBVIOUS
    <3> QED
      BY <2>1, <2>2, <2>3, <3>1 DEF InOrder
  <2> QED
    BY <1>3, <2>4 DEF Changes
<1> QED
  BY <1>2, <1>3

LEMMA OrderInit == Init => OrderInv
BY DEF Init, OrderInv, Registered

LEMMA OrderStep ==
  ASSUME StateInv, OwnerInv, OrderInv, [Next]_vars
  PROVE  OrderInv'
<1> DEFINE m == m_thread_log_buffer
<1>0. /\ current \in Seq(Seq(Line)) /\ ring \in Seq(Seq(Line)) /\ Len(ring) = Len(current)
      /\ Buffers = 1..Len(current) /\ Registered \subseteq Thread /\ \A i \in Registered : m[i] \in Buffers
      /\ saved \in [Thread -> Seq(Line)] /\ line \in [Thread -> Nat]
      /\ \A i \in Thread : op[i] = "add" => line[i] >= 1
      /\ <<>> \in Seq(Line)
  BY DEF StateInv, TypeOK, Buffers
<1>1. \A i \in Thread : Added(i) \in Nat /\ Added(i) <= line[i] /\ (op[i] = "add" /\ pc[i] # "idle" => Added(i) < line[i])
  BY <1>0 DEF Added
<1>2. ASSUME NEW t \in Thread, Found(t) PROVE OrderInv'
  <2>1. /\ t \in Registered /\ m' = m /\ saved' = saved /\ pc' = [pc EXCEPT ![t] = "idle"] /\ pc[t] = "finding"
        /\ line' = line /\ op' = op
        /\ Changes(op[t], <<t, line[t]>>, m[t], current, ring, current', ring')
    BY <1>2, FoundEffect DEF Found, Effect, mapvars, bgvars
  <2>2. InOrder(saved[t], ring'[m[t]], current'[m[t]], line[t])
    BY <1>0, <1>1, <2>1, ChangedInOrder DEF OrderInv
  <2>3. \A i \in Registered : i # t => current'[m[i]] = current[m[i]] /\ ring'[m[i]] = ring[m[i]]
    BY <1>0, <2>1 DEF Changes, OwnerInv
  <2>4. Added(t)' = line[t] /\ \A i \in Thread : i # t => Added(i)' = Added(i)
    BY <2>1 DEF Added, StateInv, TypeOK
  <2> QED
    BY <2>1, <2>2, <2>3, <2>4 DEF OrderInv, Registered
<1>3. ASSUME NEW t \in Thread, InsertEnd(t) PROVE OrderInv'
  <2> DEFINE cur == Append(current, <<>>)
             rng == Append(ring, <<>>)
  <2>1. Changes(op[t], <<t, line[t]>>, NewBuffer, cur, rng, current', ring')
    BY <1>3, InsertEffect DEF Effect
  <2>2. /\ cur \in Seq(Seq(Line)) /\ rng \in Seq(Seq(Line)) /\ Len(cur) = NewBuffer /\ Len(rng) = Len(cur)
        /\ NewBuffer \in 1..Len(cur) /\ cur[NewBuffer] = <<>> /\ rng[NewBuffer] = <<>>
        /\ \A c \in Buffers : c # NewBuffer /\ c \in 1..Len(cur) /\ cur[c] = current[c] /\ rng[c] = ring[c]
    BY <1>0, AppendProperties DEF NewBuffer
  <2>3. \A c \in Buffers : current'[c] = current[c] /\ ring'[c] = ring[c]
    BY <2>1, <2>2 DEF Changes
  <2>4. tree = m /\ pc[t] = "inserting" /\ pc' = [pc EXCEPT ![t] = "idle"] /\ line' = line /\ op' = op /\ saved' = saved
    BY <1>3, RegistryAssumption DEF InsertEnd, StateInv, TypeOK
  <2>5. Added(t)' = line[t] /\ \A i \in Thread : i # t => Added(i)' = Added(i)
    BY <2>4 DEF Added, StateInv, TypeOK
  <2>6. CASE t \in Registered
    <3>1. m' = m
      BY <1>3, <2>4, <2>6 DEF InsertEnd, Registered
    <3>2. \A s \in Seq(Line) : Upto(s, Added(t)) => Upto(s, line[t])
      <4>1. line[t] \in Nat /\ Added(t) \in Nat /\ Added(t) <= line[t]
        BY <1>0, <1>1
      <4> QED
        BY <4>1, UptoMore
    <3>3. saved[t] \in Seq(Line) /\ ring[m[t]] \in Seq(Line) /\ current[m[t]] \in Seq(Line)
      BY <1>0, <2>6
    <3>4. InOrder(saved[t], ring[m[t]], current[m[t]], line[t])
      BY <2>6, <3>2, <3>3 DEF OrderInv, InOrder
    <3> QED
      BY <1>0, <2>3, <2>4, <2>5, <2>6, <3>1, <3>4 DEF OrderInv, Registered
  <2>7. CASE t \notin Registered
    <3>1. m' = [i \in Registered \cup {t} |-> IF i = t THEN NewBuffer ELSE m[i]]
      BY <1>3, <2>4, <2>7 DEF InsertEnd, Registered
    <3>2. InOrder(<<>>, <<>>, <<>>, Added(t)) /\ saved[t] = <<>>
      BY <2>7 DEF InOrder, Ordered, Before, Upto, OrderInv
    <3>3. InOrder(saved[t], rng[NewBuffer], cur[NewBuffer], Added(t)) /\ saved[t] \in Seq(Line)
      BY <1>0, <2>2, <3>2
    <3>4. line[t] \in Nat /\ Added(t) \in Nat /\ Added(t) <= line[t] /\ (op[t] = "add" => Added(t) < line[t])
      BY <1>0, <1>1, <2>4
    <3> HIDE DEF cur, rng
    <3>5. InOrder(saved[t], ring'[NewBuffer], current'[NewBuffer], line[t])
      BY <2>1, <2>2, <3>3, <3>4, ChangedInOrder
    <3>6. Registered' = Registered \cup {t} /\ m'[t] = NewBuffer /\ \A i \in Registered : m'[i] = m[i]
      BY <2>7, <3>1 DEF Registered
    <3> QED
      BY <1>0, <2>3, <2>4, <2>5, <2>7, <3>5, <3>6 DEF OrderInv
  <2> QED
    BY <2>6, <2>7
<1>4. CASE WalkRead
  <2> DEFINE b == m[bat]
  <2>1. bat \in Registered /\ b \in Buffers /\ UNCHANGED <<m_thread_log_buffer, current, pc, op, line>>
    BY <1>0, <1>4 DEF StateInv, WalkRead, mapvars, thrvars
  <2>2. CASE ring[b] = <<>>
    BY <1>4, <2>1, <2>2 DEF WalkRead, OrderInv, Registered, Added
  <2>3. CASE ring[b] # <<>>
    <3>1. ring' = [ring EXCEPT ![b] = Tail(ring[b])] /\ saved' = [saved EXCEPT ![bat] = Append(saved[bat], Head(ring[b]))]
      BY <1>4, <2>3 DEF WalkRead
    <3>2. \A c \in Buffers : ring'[c] = IF c = b THEN Tail(ring[b]) ELSE ring[c]
      <4>1. ring \in Seq(Seq(Line)) /\ Buffers = DOMAIN ring /\ b \in DOMAIN ring
        BY <1>0, <2>1
      <4> HIDE DEF b, m
      <4> QED
        BY <3>1, <4>1
    <3>3. \A i \in Thread : saved'[i] = IF i = bat THEN Append(saved[bat], Head(ring[b])) ELSE saved[i]
      BY <1>0, <2>1, <3>1
    <3>4. InOrder(saved'[bat], ring'[b], current[b], Added(bat))
      <4>1. saved[bat] \in Seq(Line) /\ ring[b] \in Seq(Line) /\ current[b] \in Seq(Line) /\ bat \in Thread
        BY <1>0, <2>1
      <4>2. InOrder(saved[bat], ring[b], current[b], Added(bat)) /\ Added(bat) \in Nat
        BY <1>1, <2>1, <4>1 DEF OrderInv
      <4>3. InOrder(Append(saved[bat], Head(ring[b])), Tail(ring[b]), current[b], Added(bat))
        BY <2>3, <4>1, <4>2, SavedLineInOrder
      <4> QED
        BY <2>1, <3>2, <3>3, <4>1, <4>3
    <3>5. \A i \in Registered : i # bat => m[i] # b
      BY <2>1 DEF OwnerInv
    <3>6. \A i \in Thread : Added(i)' = Added(i)
      BY <2>1 DEF Added
    <3>7. \A i \in Registered : i # bat =>
            /\ saved'[i] = saved[i] /\ ring'[m[i]] = ring[m[i]]
            /\ InOrder(saved[i], ring[m[i]], current[m[i]], Added(i))
      BY <1>0, <3>2, <3>3, <3>5 DEF OrderInv
    <3>8. \A i \in Thread : i \notin Registered => saved'[i] = <<>>
      BY <2>1, <3>3 DEF OrderInv
    <3>9. m' = m /\ current' = current /\ Registered' = Registered
      BY <2>1 DEF Registered
    <3> HIDE DEF b, m
    <3> QED
      BY <2>1, <3>4, <3>6, <3>7, <3>8, <3>9 DEF OrderInv, b, m
  <2> QED
    BY <2>2, <2>3
<1>5. ASSUME UNCHANGED <<m_thread_log_buffer, current, ring, saved>>, \A i \in Thread : Added(i)' = Added(i)
      PROVE  OrderInv'
  BY <1>5 DEF OrderInv, Registered
<1>6. ASSUME NEW t \in Thread, FindBegin(t) PROVE OrderInv'
  <2>1. \A i \in Thread : Added(i)' = Added(i)
    BY <1>0, <1>6 DEF FindBegin, Added, StateInv, TypeOK
  <2> QED
    BY <1>5, <1>6, <2>1 DEF FindBegin, mapvars, bufvars, bgvars
<1>7. ASSUME NEW t \in Thread, NotFound(t) \/ InsertBegin(t) PROVE OrderInv'
  <2>1. \A i \in Thread : Added(i)' = Added(i)
    BY <1>0, <1>7 DEF NotFound, InsertBegin, Added, StateInv, TypeOK
  <2> QED
    BY <1>5, <1>7, <2>1 DEF NotFound, InsertBegin, mapvars, bufvars, bgvars
<1>8. CASE WalkBegin \/ WalkNext \/ WalkEnd \/ UNCHANGED vars
  <2>1. UNCHANGED <<m_thread_log_buffer, current, ring, saved, op, pc, line>>
    BY <1>8 DEF WalkBegin, WalkNext, WalkEnd, vars, mapvars, bufvars, thrvars, bgvars
  <2> QED
    BY <1>5, <2>1 DEF Added
<1> QED
  BY <1>2, <1>3, <1>4, <1>6, <1>7, <1>8 DEF Next, Walk, get_log_buffer_by_id

-----------------------------------------------------------------------------
(* IInv is an invariant, and what it says of the state follows from it.    *)
THEOREM Invariance == Spec => []IInv
<1>1. Init => IInv
  BY StateInit, OwnerInit, OrderInit DEF IInv
<1>2. IInv /\ [Next]_vars => IInv'
  BY StateStep, OwnerStep, OrderStep DEF IInv
<1> QED
  BY <1>1, <1>2, PTL DEF Spec

(* Whatever searches miss, two threads never write to one ring.            *)
THEOREM SingleWriter == Spec => []OneWriterPerRing
<1>1. IInv => OneWriterPerRing
  <2> SUFFICES ASSUME IInv, NEW b \in Buffers, NEW x \in Range(current[b] \o ring[b]), NEW y \in Range(current[b] \o ring[b])
               PROVE  x[1] = y[1]
    BY DEF OneWriterPerRing
  <2>1. current[b] \in Seq(Line) /\ ring[b] \in Seq(Line)
    BY DEF IInv, StateInv, TypeOK, Buffers
  <2>2. PICK t \in Thread : Owns(t, b)
    BY DEF IInv, OwnerInv
  <2>3. Of(t, current[b] \o ring[b])
    BY <2>1, <2>2, OfChanged DEF Owns
  <2>4. \A s : Of(t, s) => \A z \in Range(s) : z[1] = t
    BY DEF Of, Range
  <2> QED
    BY <2>3, <2>4
<1> QED
  BY <1>1, Invariance, PTL

(* The lock is held by the thread that inserts, types hold, and the file   *)
(* has the lines of each thread in order and once.                         *)
THEOREM LinesInOrder == Spec => []SavedAndLocked
<1>1. IInv => SavedAndLocked
  <2>1. IInv => TypeOK
    BY DEF IInv, StateInv
  <2>2. ASSUME IInv, NEW t \in Thread PROVE Ordered(saved[t])
    <3>1. CASE t \in Registered
      BY <2>2, <3>1 DEF IInv, OrderInv, InOrder
    <3>2. CASE t \notin Registered
      BY <2>2, <3>2 DEF IInv, OrderInv, Ordered
    <3> QED
      BY <3>1, <3>2
  <2> QED
    BY <2>1, <2>2 DEF SavedAndLocked, SavedInOrder, Ordered
<1> QED
  BY <1>1, Invariance, PTL

-----------------------------------------------------------------------------
(* Threads with a buffer in the map whose next insertion will not enter    *)
(* the buffer it makes: their search may miss theirs, or has.              *)
Missing == {t \in Registered : (pc[t] = "finding" /\ overlapped[t]) \/ pc[t] \in {"missed", "inserting"}}

(* Each buffer entered after it lets each thread that is in the map miss   *)
(* its own once.                                                           *)
OrphanInv ==
  LET k == Cardinality(Registered)
  IN  2 * (Cardinality(Orphans) + Cardinality(Missing)) <= k * (k - 1)

(* Numbers of pairs.                                                       *)
LEMMA OneMorePairs ==
  ASSUME NEW k \in Nat
  PROVE  (k + 1) * ((k + 1) - 1) = k * (k - 1) + 2 * k
OBVIOUS

(* More threads have more pairs.                                           *)
LEMMA MorePairs ==
  ASSUME NEW k \in Nat, NEW n \in Nat, k <= n
  PROVE  k * (k - 1) <= n * (n - 1)
<1> DEFINE d == n - k
<1>1. d \in Nat /\ n = k + d
  OBVIOUS
<1> HIDE DEF d
<1>2. (k + d) * ((k + d) - 1) = k * (k - 1) + 2 * (k * d) + d * (d - 1)
  BY <1>1
<1>3. k * d \in Nat /\ d * (d - 1) >= 0 /\ d * (d - 1) \in Int /\ k * (k - 1) \in Int
  <2>1. CASE d = 0
    BY <1>1, <2>1
  <2>2. CASE d > 0
    <3>1. d - 1 \in Nat
      BY <1>1, <2>2
    <3>2. d * (d - 1) \in Nat
      BY <1>1, <3>1
    <3> QED
      BY <1>1, <3>2
  <2> QED
    BY <1>1, <2>1, <2>2
<1> QED
  BY <1>1, <1>2, <1>3

(* The sets counted are finite.                                            *)
LEMMA Countable ==
  ASSUME StateInv
  PROVE  /\ IsFiniteSet(Registered) /\ Cardinality(Registered) \in Nat
         /\ Cardinality(Registered) <= Cardinality(Thread) /\ Cardinality(Thread) \in Nat
         /\ IsFiniteSet(Orphans) /\ Cardinality(Orphans) \in Nat
         /\ IsFiniteSet(Missing) /\ Cardinality(Missing) \in Nat /\ Cardinality(Missing) <= Cardinality(Registered)
<1>1. IsFiniteSet(Registered) /\ Cardinality(Registered) <= Cardinality(Thread)
  BY RegistryAssumption, FS_Subset DEF StateInv, TypeOK
<1> DEFINE n == Len(current)
<1>2. n \in Nat /\ Buffers = 1..n
  BY DEF StateInv, TypeOK, Buffers
<1> HIDE DEF n
<1>3. IsFiniteSet(1..n)
  BY <1>2, FS_Interval
<1>4. Orphans \in SUBSET (1..n) /\ Missing \in SUBSET Registered
  BY <1>2 DEF Orphans, Missing
<1>5. IsFiniteSet(Orphans)
  BY <1>3, <1>4, FS_Subset
<1>6. IsFiniteSet(Missing) /\ Cardinality(Missing) <= Cardinality(Registered)
  BY <1>1, <1>4, FS_Subset
<1> QED
  BY <1>1, <1>5, <1>6, RegistryAssumption, FS_CardinalityType

(* Fewer of both are still few enough.                                     *)
LEMMA NoMoreOrphans ==
  ASSUME StateInv, StateInv', OrphanInv, Registered' = Registered,
         Orphans' \subseteq Orphans, Missing' \subseteq Missing
  PROVE  OrphanInv'
<1>1. Cardinality(Orphans') <= Cardinality(Orphans)
  BY Countable, FS_Subset
<1>2. Cardinality(Missing') <= Cardinality(Missing)
  BY Countable, FS_Subset
<1>3. Cardinality(Orphans') \in Nat /\ Cardinality(Missing') \in Nat
  <2>1. IsFiniteSet(Orphans') /\ IsFiniteSet(Missing')
    BY Countable, FS_Subset
  <2> QED
    BY <2>1, FS_CardinalityType
<1> DEFINE k == Cardinality(Registered)
           m == k * (k - 1)
<1>4. k \in Nat /\ Cardinality(Orphans) \in Nat /\ Cardinality(Missing) \in Nat
  BY Countable
<1>5. m \in Int
  BY <1>4
<1>6. 2 * (Cardinality(Orphans) + Cardinality(Missing)) <= m
  BY DEF OrphanInv
<1>7. OrphanInv' <=> 2 * (Cardinality(Orphans') + Cardinality(Missing')) <= m
  BY DEF OrphanInv
<1> HIDE DEF m, k
<1> QED
  BY <1>1, <1>2, <1>3, <1>4, <1>5, <1>6, <1>7

(* A buffer that is not entered: its thread was missing its own.           *)
LEMMA OneMoreOrphan ==
  ASSUME StateInv, OrphanInv, NEW t \in Missing, Registered' = Registered,
         NEW b, Orphans' = Orphans \cup {b}, Missing' = Missing \ {t}
  PROVE  OrphanInv'
<1>0. IsFiniteSet(Orphans) /\ Cardinality(Orphans) \in Nat
  BY Countable
<1>1. Cardinality(Orphans') <= Cardinality(Orphans) + 1 /\ IsFiniteSet(Orphans')
  <2> DEFINE s == Orphans
  <2>1. IsFiniteSet(s) /\ Cardinality(s) \in Nat /\ Orphans' = s \cup {b}
    BY <1>0
  <2> HIDE DEF s
  <2>2. IsFiniteSet(s \cup {b}) /\ Cardinality(s \cup {b}) = IF b \in s THEN Cardinality(s) ELSE Cardinality(s) + 1
    BY <2>1, FS_AddElement
  <2>3. IsFiniteSet(s \cup {b}) /\ Cardinality(s \cup {b}) <= Cardinality(s) + 1
    BY <2>1, <2>2
  <2> QED
    BY <2>1, <2>3 DEF s
<1>2. Cardinality(Missing') = Cardinality(Missing) - 1 /\ IsFiniteSet(Missing')
  BY Countable, FS_RemoveElement
<1>3. Cardinality(Orphans') \in Nat /\ Cardinality(Missing') \in Nat
  BY <1>1, <1>2, FS_CardinalityType
<1> DEFINE k == Cardinality(Registered)
           m == k * (k - 1)
<1>4. k \in Nat /\ Cardinality(Orphans) \in Nat /\ Cardinality(Missing) \in Nat
  BY Countable
<1>5. m \in Int
  BY <1>4
<1>6. 2 * (Cardinality(Orphans) + Cardinality(Missing)) <= m
  BY DEF OrphanInv
<1>7. OrphanInv' <=> 2 * (Cardinality(Orphans') + Cardinality(Missing')) <= m
  BY DEF OrphanInv
<1> HIDE DEF m, k
<1> QED
  BY <1>1, <1>2, <1>3, <1>4, <1>5, <1>6, <1>7

(* A buffer that is entered makes every other thread miss its own, at      *)
(* worst.                                                                  *)
LEMMA OneMoreEntered ==
  ASSUME StateInv, OrphanInv, NEW t, t \notin Registered, Registered' = Registered \cup {t},
         Orphans' \subseteq Orphans, Missing' \subseteq Registered
  PROVE  OrphanInv'
<1> DEFINE k == Cardinality(Registered)
           o == Cardinality(Orphans)
           o2 == Cardinality(Orphans')
           p2 == Cardinality(Missing')
           m == k * (k - 1)
           m2 == (k + 1) * ((k + 1) - 1)
<1>1. Cardinality(Registered') = k + 1
  BY Countable, FS_AddElement
<1>2. o2 <= o /\ IsFiniteSet(Orphans')
  BY Countable, FS_Subset
<1>3. p2 <= k /\ IsFiniteSet(Missing')
  BY Countable, FS_Subset
<1>4. k \in Nat /\ o \in Nat /\ Cardinality(Missing) \in Nat
  BY Countable
<1>5. o2 \in Nat /\ p2 \in Nat
  BY <1>2, <1>3, FS_CardinalityType
<1>6. 2 * (o + Cardinality(Missing)) <= m
  BY DEF OrphanInv
<1>7. OrphanInv' <=> 2 * (o2 + p2) <= m2
  BY <1>1 DEF OrphanInv
<1> HIDE DEF o, o2, p2, k
<1>8. m2 = m + 2 * k /\ m \in Int
  BY <1>4, OneMorePairs
<1> HIDE DEF m, m2
<1> QED
  BY <1>2, <1>3, <1>4, <1>5, <1>6, <1>7, <1>8

(* Every step keeps the orphans few.                                       *)
LEMMA OrphanStep ==
  ASSUME StateInv, StateInv', OrphanInv, [Next]_vars
  PROVE  OrphanInv'
<1> USE DEF Registered, Buffers
<1>1. ASSUME NEW t \in Thread, FindBegin(t) \/ Found(t) \/ NotFound(t) \/ InsertBegin(t) PROVE OrphanInv'
  <2>1. m_thread_log_buffer' = m_thread_log_buffer
    BY <1>1 DEF FindBegin, Found, NotFound, InsertBegin, mapvars
  <2>2. DOMAIN current' = DOMAIN current
    <3>1. CASE Found(t)
      <4>1. Effect(t, m_thread_log_buffer[t], current, ring)
        BY <3>1, FoundEffect
      <4> QED
        BY <4>1 DEF Effect, Changes, StateInv, TypeOK
    <3> QED
      BY <1>1, <3>1 DEF FindBegin, NotFound, InsertBegin, bufvars
  <2>3. Missing' \subseteq Missing
    <3>1. CASE FindBegin(t)
      <4>1. pc'[t] = "finding" /\ ~overlapped'[t]
        BY <3>1 DEF FindBegin, StateInv, TypeOK
      <4>2. \A i \in Thread : i # t => pc'[i] = pc[i] /\ overlapped'[i] = overlapped[i]
        BY <3>1 DEF FindBegin, StateInv, TypeOK
      <4> QED
        BY <2>1, <4>1, <4>2 DEF Missing, StateInv, TypeOK
    <3>2. CASE Found(t)
      BY <2>1, <3>2 DEF Found, Missing, StateInv, TypeOK
    <3>3. CASE NotFound(t)
      <4>1. /\ pc[t] = "finding" /\ pc'[t] = "missed" /\ (t \in Registered => overlapped[t])
            /\ \A i \in Thread : i # t => pc'[i] = pc[i]
        BY <3>3 DEF NotFound, StateInv, TypeOK
      <4>2. overlapped' = overlapped
        BY <3>3 DEF NotFound
      <4> QED
        BY <2>1, <4>1, <4>2 DEF Missing, StateInv, TypeOK
    <3>4. CASE InsertBegin(t)
      BY <2>1, <3>4 DEF InsertBegin, Missing, StateInv, TypeOK
    <3> QED
      BY <1>1, <3>1, <3>2, <3>3, <3>4
  <2>4. Orphans' = Orphans
    BY <2>1, <2>2 DEF Orphans
  <2> QED
    BY <2>1, <2>3, <2>4, NoMoreOrphans
<1>2. ASSUME NEW t \in Thread, InsertEnd(t) PROVE OrphanInv'
  <2> DEFINE b == NewBuffer
             n == Len(current)
  <2>1. pc[t] = "inserting" /\ pc'[t] = "idle" /\ tree = m_thread_log_buffer /\ \A i \in Thread : i # t => pc'[i] = pc[i]
    BY <1>2, RegistryAssumption DEF InsertEnd, StateInv, TypeOK
  <2>2. n \in Nat /\ DOMAIN current = 1..n /\ DOMAIN current' = 1..(n + 1) /\ b = n + 1
    <3>1. Effect(t, b, Append(current, <<>>), Append(ring, <<>>))
      BY <1>2, InsertEffect
    <3>2. current \in Seq(Seq(Line)) /\ Len(Append(current, <<>>)) = Len(current) + 1
      BY DEF StateInv, TypeOK
    <3> QED
      BY <3>1, <3>2 DEF Effect, Changes, NewBuffer
  <2>3. CASE t \in DOMAIN tree
    <3>1. m_thread_log_buffer' = m_thread_log_buffer /\ overlapped' = overlapped
      BY <1>2, <2>3 DEF InsertEnd
    <3>2. t \in Missing /\ Missing' = Missing \ {t}
      <4>1. t \in Registered /\ Registered' = Registered /\ Registered \subseteq Thread
        BY <2>1, <2>3, <3>1 DEF StateInv, TypeOK
      <4> HIDE DEF Registered
      <4>2. t \in Missing /\ t \notin Missing'
        BY <2>1, <4>1 DEF Missing
      <4>3. \A i \in Registered : i # t => (i \in Missing' <=> i \in Missing)
        BY <2>1, <3>1, <4>1 DEF Missing
      <4>4. Missing \subseteq Registered /\ Missing' \subseteq Registered
        BY <4>1 DEF Missing
      <4> QED
        BY <4>2, <4>3, <4>4
    <3>3. \A i \in Registered : m_thread_log_buffer[i] \in 1..n
      BY <2>2 DEF StateInv, TypeOK
    <3> HIDE DEF b, n
    <3>4. Orphans' = Orphans \cup {b}
      BY <2>2, <3>1, <3>3 DEF Orphans
    <3>5. Registered' = Registered
      BY <3>1
    <3> HIDE DEF Registered, Buffers
    <3> QED
      BY <3>2, <3>4, <3>5, OneMoreOrphan
  <2>4. CASE t \notin DOMAIN tree
    <3>1. /\ DOMAIN m_thread_log_buffer' = Registered \cup {t} /\ m_thread_log_buffer'[t] = b
          /\ \A i \in Registered : m_thread_log_buffer'[i] = m_thread_log_buffer[i]
      BY <1>2, <2>1, <2>4 DEF InsertEnd
    <3>2. t \notin Registered
      BY <2>1, <2>4
    <3>3. Missing' \subseteq Registered
      BY <2>1, <3>1 DEF Missing
    <3> HIDE DEF b, n
    <3>4. Orphans' \subseteq Orphans
      BY <2>2, <3>1 DEF Orphans
    <3>5. Registered' = Registered \cup {t}
      BY <3>1
    <3> HIDE DEF Registered, Buffers
    <3> QED
      BY <3>2, <3>3, <3>4, <3>5, OneMoreEntered
  <2> QED
    BY <2>3, <2>4
<1>3. ASSUME Walk \/ UNCHANGED vars PROVE OrphanInv'
  <2>1. m_thread_log_buffer' = m_thread_log_buffer /\ current' = current /\ pc' = pc /\ overlapped' = overlapped
    BY <1>3 DEF Walk, WalkBegin, WalkNext, WalkEnd, WalkRead, vars, mapvars, bufvars, thrvars
  <2>2. Orphans' = Orphans /\ Missing' = Missing /\ Registered' = Registered
    BY <2>1 DEF Orphans, Missing
  <2> QED
    BY <2>2, NoMoreOrphans
<1> QED
  BY <1>1, <1>2, <1>3 DEF Next, get_log_buffer_by_id

(* However many lines are logged and whatever searches miss, fewer buffers *)
(* are lost than there are pairs of threads.                               *)
THEOREM LostBuffersAreFew == Spec => []OrphansAreFew
<1>1. Init => OrphanInv
  <2> SUFFICES ASSUME Init PROVE OrphanInv
    OBVIOUS
  <2>1. Registered = {} /\ Orphans = {}
    BY DEF Init, Registered, Orphans, Buffers
  <2>2. Missing = {}
    BY <2>1 DEF Missing
  <2> QED
    BY <2>1, <2>2, FS_EmptySet DEF OrphanInv
<1>2. IInv /\ OrphanInv /\ IInv' /\ [Next]_vars => OrphanInv'
  BY OrphanStep DEF IInv
<1>3. IInv /\ OrphanInv => OrphansAreFew
  <2> SUFFICES ASSUME IInv, OrphanInv PROVE OrphansAreFew
    OBVIOUS
  <2> DEFINE N == Cardinality(Thread)
             k == Cardinality(Registered)
             o == Cardinality(Orphans)
             p == Cardinality(Missing)
  <2>1. k \in Nat /\ N \in Nat /\ k <= N /\ o \in Nat /\ p \in Nat
    BY Countable DEF IInv
  <2>2. 2 * (o + p) <= k * (k - 1)
    BY DEF OrphanInv
  <2>3. OrphansAreFew <=> o <= (N * (N - 1)) \div 2
    BY DEF OrphansAreFew
  <2> HIDE DEF N, k, o, p
  <2>4. k * (k - 1) <= N * (N - 1)
    BY <2>1, MorePairs
  <2> DEFINE m == N * (N - 1)
             j == k * (k - 1)
  <2>5. m \in Int /\ j \in Int /\ 2 * (o + p) <= j /\ j <= m
    BY <2>1, <2>2, <2>4
  <2>6. o <= (m \div 2)
    <3> HIDE DEF m, j
    <3> QED
      BY <2>1, <2>5
  <2> QED
    BY <2>3, <2>6
<1> QED
  BY <1>1, <1>2, <1>3, Invariance, PTL DEF Spec
=============================================================================
