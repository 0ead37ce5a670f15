-------------------------- MODULE CircleBufferOps --------------------------
(***************************************************************************)
(* The rest of class CircleBuffer: one thread uses a ring, call by call.   *)
(* Beside write() and read() it allocates, empties and frees the ring,     *)
(* moves the pointers by hand (inc_data_len, dec_data_len) and looks at    *)
(* the contents without taking them: memcmp, memcpy, strstr, operator[],   *)
(* and the lengths that do not wrap.  Module CircleBuffer has the calls    *)
(* that two threads make at once.                                          *)
(***************************************************************************)
EXTENDS Integers, Sequences, SequencesExt

CONSTANTS Byte,     \* the values a byte can take: numbers, zero among them
          Sizes,    \* the sizes alloc() is called with
          MaxBlock  \* bound: the longest block written, compared or looked for

VARIABLES allocated,      \* m_base_address # NULL
          m_buffer_size,
          mem,            \* the bytes from m_base_address = 0 on
          m_head, m_tail,
          result          \* what the last write() or read() returned

vars == <<allocated, m_buffer_size, mem, m_head, m_tail, result>>

m_tail_address == IF allocated THEN m_buffer_size + 1 ELSE 0
Address == 0..m_buffer_size
Block == SeqOf(Byte, MaxBlock)

LesserOf(a, b) == IF a <= b THEN a ELSE b

head == IF m_head < m_tail_address THEN m_head ELSE 0
tail == IF m_tail < m_tail_address THEN m_tail ELSE 0
vtail == IF tail >= head THEN tail ELSE tail + m_buffer_size + 1

UsedLen == vtail - head
AvailableLen == IF head = tail THEN m_buffer_size ELSE m_buffer_size - UsedLen

ContinuousAvailableLen ==
  IF head > tail THEN head - tail - 1
  ELSE IF tail = head /\ head = 0 THEN m_buffer_size
  ELSE m_tail_address - tail

ContinuousDataLen == IF tail >= head THEN tail - head ELSE m_tail_address - head

IsContinuousDataLen(count) == m_head + count < m_tail_address

(* A pointer that has reached the end goes on from the start.              *)
Wrapped(p) == IF p >= m_tail_address THEN p - (m_buffer_size + 1) ELSE p

-----------------------------------------------------------------------------
(* operator[]                                                              *)
At(index) == IF m_head + index >= m_tail_address
             THEN mem[index - (m_tail_address - m_head)]
             ELSE mem[m_head + index]

(* Where memcmp() and memcpy() begin.                                      *)
From(offset) == IF offset # 0 THEN Wrapped(head + offset) ELSE head

(* Mutant: a match that runs into the end of the memory is not carried on. *)
MemCmpToTheEnd(buf, offset) ==
  LET f[i \in 1..Len(buf)] ==
        LET p == From(offset) + i - 1
        IN  IF p >= m_tail_address THEN 0
            ELSE IF i < Len(buf) /\ mem[p] = buf[i] THEN f[i + 1] ELSE mem[p] - buf[i]
  IN  IF Len(buf) = 0 THEN 0 ELSE f[1]

(* The two loops of memcmp(): on to the next byte, from the end of the     *)
(* memory to its start, while bytes are equal and more are asked for.      *)
MemCmp(buf, offset) ==
  LET f[i \in 1..Len(buf)] ==
        LET byte == mem[Wrapped(From(offset) + i - 1)]
        IN  IF i < Len(buf) /\ byte = buf[i] THEN f[i + 1] ELSE byte - buf[i]
  IN  IF Len(buf) = 0 THEN 0 ELSE f[1]

(* memcpy()                                                                *)
MemCpy(count, offset) ==
  LET first == SubSeq([a \in 1..(m_buffer_size + 1) |-> mem[a - 1]],
                      From(offset) + 1, LesserOf(From(offset) + count, m_tail_address))
  IN  first \o [i \in 1..(count - Len(first)) |-> mem[i - 1]]

(* strstr(): the first place from 0 on at which memcmp() finds str.        *)
StrStr(str) ==
  LET places == {i \in 0..(UsedLen - Len(str)) : MemCmp(str, i) = 0}
  IN  IF UsedLen < Len(str) \/ places = {} THEN -1
      ELSE CHOOSE i \in places : \A j \in places : i <= j

-----------------------------------------------------------------------------
(* CircleBuffer()                                                          *)
Init ==
  /\ allocated = FALSE /\ m_buffer_size = 0
  /\ mem = [a \in {0} |-> 0]
  /\ m_head = 0 /\ m_tail = 0
  /\ result = 0

Free ==
  /\ allocated' = FALSE /\ m_buffer_size' = 0
  /\ mem' = [a \in {0} |-> 0]
  /\ m_head' = 0 /\ m_tail' = 0
  /\ UNCHANGED result

(* alloc(): new memory, with any contents, unless the size is the same;    *)
(* empty in any case.                                                      *)
Alloc(size) ==
  /\ allocated' = TRUE /\ m_buffer_size' = size
  /\ mem' \in IF size = m_buffer_size THEN {mem} ELSE [0..size -> Byte]
  /\ m_head' = 0 /\ m_tail' = 0
  /\ UNCHANGED result

Reset ==
  /\ m_head' = 0 /\ m_tail' = 0
  /\ UNCHANGED <<allocated, m_buffer_size, mem, result>>

(* write() stores m_tail where its loop stops, at the end of the memory    *)
(* rather than at the start.                                               *)
WriteRefused(src) ==
  /\ Len(src) = 0 \/ Len(src) > AvailableLen
  /\ result' = 0
  /\ UNCHANGED <<allocated, m_buffer_size, mem, m_head, m_tail>>

Write(src) ==
  /\ Len(src) \in 1..AvailableLen
  /\ mem' = [a \in Address |->
               IF a \in tail..(tail + Len(src) - 1) THEN src[a - tail + 1]
               ELSE IF a < tail + Len(src) - m_tail_address THEN src[a + m_tail_address - tail + 1]
               ELSE mem[a]]
  /\ m_tail' = IF tail + Len(src) <= m_tail_address THEN tail + Len(src)
               ELSE tail + Len(src) - m_tail_address
  /\ result' = 1
  /\ UNCHANGED <<allocated, m_buffer_size, m_head>>

ReadRefused(count) ==
  /\ count = 0 \/ UsedLen < count
  /\ result' = 0
  /\ UNCHANGED <<allocated, m_buffer_size, mem, m_head, m_tail>>

(* read(), likewise.                                                       *)
Read(count) ==
  /\ count \in 1..UsedLen
  /\ m_head' = IF head + count <= m_tail_address THEN head + count
               ELSE head + count - m_tail_address
  /\ result' = count
  /\ UNCHANGED <<allocated, m_buffer_size, mem, m_tail>>

(* inc_data_len() takes the bytes at the write position for data, whatever *)
(* they are: nothing checks that they are free, its caller has to.         *)
IncDataLen(count) ==
  /\ allocated /\ count \in 1..AvailableLen
  /\ m_tail' = Wrapped(m_tail + count)
  /\ UNCHANGED <<allocated, m_buffer_size, mem, m_head, result>>

(* Mutant: the count is not cut to what there is.                          *)
DecDataLenUncut(count) ==
  /\ allocated /\ count > 0
  /\ m_head' = Wrapped(m_head + count)
  /\ UNCHANGED <<allocated, m_buffer_size, mem, m_tail, result>>

DecDataLen(count) ==
  /\ allocated /\ count > 0
  /\ m_head' = Wrapped(m_head + LesserOf(count, UsedLen))
  /\ UNCHANGED <<allocated, m_buffer_size, mem, m_tail, result>>

Next == \/ Free \/ Reset
        \/ \E size \in Sizes : Alloc(size)
        \/ \E src \in Block : WriteRefused(src) \/ Write(src)
        \/ \E count \in 0..(MaxBlock + 1) :
             ReadRefused(count) \/ Read(count) \/ IncDataLen(count) \/ DecDataLen(count)

Spec == Init /\ [][Next]_vars

-----------------------------------------------------------------------------
(* The contents, oldest byte first, i places from an address on around the *)
(* ring, and the part of them that begins at offset.                       *)
Slot(a, i) == IF a + i <= m_buffer_size THEN a + i ELSE a + i - (m_buffer_size + 1)
Contents == [i \in 1..UsedLen |-> mem[Slot(head, i - 1)]]
Part(offset, count) == SubSeq(Contents, offset + 1, offset + count)
Parts == {p \in (0..MaxBlock) \X (0..MaxBlock) : p[1] + p[2] <= UsedLen}

(* Whatever was called before, the free and the used bytes add up to the   *)
(* size, both pointers rest in the ring or one past it, there is memory    *)
(* exactly when the size is not 0, and read() returns nothing or a count.  *)
TypeOK ==
  /\ allocated \in BOOLEAN /\ (allocated <=> m_buffer_size # 0)
  /\ m_buffer_size \in Sizes \cup {0}
  /\ m_head \in 0..m_tail_address /\ m_tail \in 0..m_tail_address
  /\ mem \in [Address -> Byte]
  /\ UsedLen + AvailableLen = m_buffer_size
  /\ result \in 0..(MaxBlock + 1)

(* memcmp() of a text with a part of the contents is zero exactly when the *)
(* two are equal, also where the part wraps and where a pointer rests past *)
(* the end: LyMsg::read() decides with it what is a header and what a tail.*)
MemCmpIsEquality ==
  \A p \in Parts, buf \in Block :
    Len(buf) = p[2] => (MemCmp(buf, p[1]) = 0 <=> buf = Part(p[1], p[2]))

(* memcpy() and operator[] return the contents, strstr() the first place a *)
(* text is at.                                                             *)
LookupsSeeContents ==
  /\ \A p \in Parts : MemCpy(p[2], p[1]) = Part(p[1], p[2])
  /\ \A i \in 0..(UsedLen - 1) : At(i) = Contents[i + 1]
  /\ \A str \in Block :
       LET at == {i \in 0..(UsedLen - Len(str)) : Part(i, Len(str)) = str}
       IN  IF at = {} THEN StrStr(str) = -1
           ELSE StrStr(str) \in at /\ \A i \in at : StrStr(str) <= i

(* The lengths that do not wrap: the data up to the end of the memory; the *)
(* free bytes up to its end, one too many when that one byte is the one    *)
(* that must stay unused (head at the start); and a count is called        *)
(* continuous only when it is.                                             *)
RunsAreContinuous ==
  allocated =>
  /\ ContinuousDataLen = LesserOf(UsedLen, m_tail_address - head)
  /\ ContinuousAvailableLen = LesserOf(AvailableLen, m_tail_address - tail)
                              + (IF head = 0 /\ tail # 0 THEN 1 ELSE 0)
  /\ \A n \in 0..UsedLen : IsContinuousDataLen(n) => n <= ContinuousDataLen

(* All that holds of the ring between two calls, whatever was called.      *)
LookupsAreSound == TypeOK /\ MemCmpIsEquality /\ LookupsSeeContents /\ RunsAreContinuous

(* The contents change as those of a queue do: written at the end, read    *)
(* and dropped from the front, nothing else but emptied.                   *)
QueueStep ==
  [][ \/ Contents' = <<>>
      \/ \E src \in SeqOf(Byte, MaxBlock + 1) : Contents' = Contents \o src
      \/ \E n \in 0..UsedLen : Contents' = SubSeq(Contents, n + 1, UsedLen) ]_vars

=============================================================================
