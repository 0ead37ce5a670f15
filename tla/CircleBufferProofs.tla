------------------------- MODULE CircleBufferProofs -------------------------
(***************************************************************************)
(* Proofs about the ring buffer, for every buffer size and every set of    *)
(* byte values: first about CircleBuffer, where a writer and a reader      *)
(* interleave inside their calls, then about CircleBufferOps, every method *)
(* of the class called alone.                                              *)
(***************************************************************************)
EXTENDS MCCircleBuffer, SequenceInduction

(* Either the compiler loads m_head once per use, or dec_data_len is never *)
(* called: the run ring_debug_drop shows what happens otherwise.           *)
BuildAssumption == ~DebugBuild \/ MaxDrop = 0

-----------------------------------------------------------------------------
(* Arithmetic around the ring.                                             *)

(* Slot stays inside the ring, and stepping a local pointer as the copy    *)
(* loops do moves it to the next slot.                                     *)
LEMMA SlotStep ==
  ASSUME NEW a \in Address, NEW i \in 0..BufferSize
  PROVE  /\ Slot(a, i) \in Address
         /\ Slot(a, 0) = a
         /\ i < BufferSize => Norm(Slot(a, i) + 1) = Slot(a, i + 1)
         /\ Norm(Slot(a, i) + 1) \in Address
  BY SizeAssumption DEF Slot, Norm, Address, m_tail_address

(* Two different offsets from one address are two different slots.         *)
LEMMA SlotInjective ==
  ASSUME NEW a \in Address, NEW i \in 0..BufferSize, NEW j \in 0..BufferSize, i # j
  PROVE  Slot(a, i) # Slot(a, j)
  BY SizeAssumption DEF Slot, Address

LEMMA SlotOfSlot ==
  ASSUME NEW a \in Address, NEW i \in Nat, NEW j \in Nat, i + j <= BufferSize
  PROVE  Slot(Slot(a, i), j) = Slot(a, i + j)
  BY SizeAssumption DEF Slot, Address

(* UsedLen is the distance from head to tail around the ring.              *)
LEMMA UsedIsDistance ==
  ASSUME NEW h \in Address, NEW t \in Address
  PROVE  /\ UsedLen(h, t) \in 0..BufferSize
         /\ Slot(h, UsedLen(h, t)) = t
  BY SizeAssumption DEF Slot, UsedLen, Address

(* Moving the tail on by k adds k bytes, moving the head on by k takes k.  *)
LEMMA UsedMoveTail ==
  ASSUME NEW h \in Address, NEW t \in Address, NEW k \in Nat,
         UsedLen(h, t) + k <= BufferSize
  PROVE  UsedLen(h, Slot(t, k)) = UsedLen(h, t) + k
  BY SizeAssumption DEF Slot, UsedLen, Address

LEMMA UsedMoveHead ==
  ASSUME NEW h \in Address, NEW t \in Address, NEW k \in 0..UsedLen(h, t)
  PROVE  UsedLen(Slot(h, k), t) = UsedLen(h, t) - k
  BY SizeAssumption DEF Slot, UsedLen, Address

(* A used slot is none of the free slots a block may be copied to.         *)
LEMMA UsedSlotsAreNotFree ==
  ASSUME NEW h \in Address, NEW t \in Address,
         NEW i \in 0..(UsedLen(h, t) - 1), NEW j \in Nat,
         UsedLen(h, t) + j <= BufferSize
  PROVE  Slot(h, i) # Slot(t, j)
<1>1. UsedLen(h, t) \in 0..BufferSize /\ Slot(h, UsedLen(h, t)) = t
  BY UsedIsDistance
<1>2. Slot(t, j) = Slot(h, UsedLen(h, t) + j)
  BY <1>1, SlotOfSlot
<1>3. /\ i \in 0..BufferSize
      /\ UsedLen(h, t) + j \in 0..BufferSize
      /\ i # UsedLen(h, t) + j
  BY <1>1, SizeAssumption
<1>4. Slot(h, i) # Slot(h, UsedLen(h, t) + j)
  BY <1>3, SlotInjective
<1> QED
  BY <1>2, <1>4

(* Where the pointers the code stores logically stand.                     *)
LEMMA Positions ==
  ASSUME TypeOK
  PROVE  /\ Pos(m_head) \in Address /\ Pos(m_tail) \in Address
         /\ Norm(m_tail) = Pos(m_tail)
         /\ m_head <= m_tail_address => Norm(m_head) = Pos(m_head)
         /\ Used \in 0..BufferSize
         /\ BufferSize \in Nat \ {0}
  BY SizeAssumption DEF TypeOK, Pos, Norm, Used, UsedLen, Address, m_tail_address

(* The two ways a compiled program can normalise a shared pointer.         *)
LEMMA NormSharedCases ==
  ASSUME NEW saw \in Nat, NEW p \in Nat
  PROVE  \/ NormShared(saw, p) = Norm(saw)
         \/ /\ DebugBuild
            /\ saw <= BufferSize
            /\ NormShared(saw, p) = p
  BY SizeAssumption DEF NormShared, Norm, m_tail_address

(* A tail loaded unnormalised measures the same as long as there is data.  *)
LEMMA UsedOfStoredTail ==
  ASSUME NEW h \in Address, NEW p \in 0..m_tail_address, UsedLen(h, Pos(p)) # 0
  PROVE  UsedLen(h, p) = UsedLen(h, Pos(p))
  BY SizeAssumption DEF UsedLen, Pos, Address, m_tail_address

-----------------------------------------------------------------------------
(* The inductive invariant, one lemma per step of the writer and reader.   *)

LEMMA InitInv == Init => IInv
  BY SizeAssumption DEF Init, IInv, TypeOK, WriterInv, HeadBeyondEndInv, ReaderInv, DataInv,
     Pos, Used, UsedLen, Address, m_tail_address

(* The positions of the pointers, apart from the bytes.                    *)
PositionInv == TypeOK /\ WriterInv /\ HeadBeyondEndInv /\ ReaderInv

LEMMA WriteCallStep == PositionInv /\ WriteCall => PositionInv'
<1> SUFFICES ASSUME PositionInv, WriteCall PROVE PositionInv'
  OBVIOUS
<1> USE SizeAssumption DEF PositionInv, WriteCall, rvars
<1>1. TypeOK'
  BY DEF TypeOK, m_tail_address
<1>2. wsrc' # <<>>
  OBVIOUS
<1>3. NormShared(wsaw', m_head) = Norm(m_head)
  BY DEF NormShared, Norm
<1>4. WriterInv' /\ HeadBeyondEndInv'
  BY <1>2, <1>3 DEF WriterInv, HeadBeyondEndInv, TypeOK, Pos, Used, UsedLen, AvailableLen, Norm, m_tail_address
<1>5. ReaderInv'
  BY DEF ReaderInv, UsedSeen, Used
<1> QED
  BY <1>1, <1>4, <1>5

LEMMA WriteRefusedStep == PositionInv /\ WriteRefused => PositionInv'
<1> SUFFICES ASSUME PositionInv, WriteRefused PROVE PositionInv'
  OBVIOUS
<1> USE SizeAssumption DEF PositionInv, WriteRefused, rvars
<1>1. TypeOK'
  BY DEF TypeOK, m_tail_address
<1>2. WriterInv' /\ HeadBeyondEndInv' /\ ReaderInv'
  BY DEF WriterInv, HeadBeyondEndInv, ReaderInv, UsedSeen, Used
<1> QED
  BY <1>1, <1>2

LEMMA WriteStartStep == PositionInv /\ WriteStart => PositionInv'
<1> SUFFICES ASSUME PositionInv, WriteStart PROVE PositionInv'
  OBVIOUS
<1> USE SizeAssumption DEF PositionInv, WriteStart, rvars
<1> DEFINE avail == AvailableLen(NormShared(wsaw, m_head), Norm(m_tail))
<1>1. avail \in Int
  BY DEF TypeOK, AvailableLen, UsedLen, NormShared, Norm, m_tail_address
<1>2. TypeOK'
  BY DEF TypeOK, Norm, WriterInv, m_tail_address
<1>3. Len(wsrc) <= avail /\ Len(wsrc) \in Nat /\ avail + Used <= BufferSize
  BY DEF TypeOK, WriterInv
<1>4. Norm(wtail') = Slot(Pos(m_tail), 0)
  BY DEF TypeOK, Norm, Pos, Slot, m_tail_address
<1>5. /\ Pos(m_head) \in Int /\ Pos(m_tail) \in Int
      /\ Used \in Int
  BY Positions DEF Address
<1>6. WriterInv'
  BY <1>1, <1>3, <1>4, <1>5 DEF WriterInv, Used
<1>7. HeadBeyondEndInv'
  BY <1>1, <1>3, <1>5 DEF HeadBeyondEndInv
<1>8. ReaderInv'
  BY DEF ReaderInv, UsedSeen, Used
<1> QED
  BY <1>2, <1>6, <1>7, <1>8

LEMMA WriteByteStep == PositionInv /\ WriteByte => PositionInv'
<1> SUFFICES ASSUME PositionInv, WriteByte PROVE PositionInv'
  OBVIOUS
<1> USE SizeAssumption DEF PositionInv, WriteByte, rvars
<1>1. /\ Pos(m_tail) \in Address
      /\ Used \in 0..BufferSize
      /\ Used + Len(wsrc) <= BufferSize
      /\ Len(wsrc) \in Nat
      /\ wdone \in 0..(Len(wsrc) - 1)
      /\ wdone \in 0..BufferSize /\ wdone < BufferSize
      /\ Norm(wtail) = Slot(Pos(m_tail), wdone)
  BY Positions, SMTT(30) DEF WriterInv, TypeOK
<1>2. /\ Norm(wtail) \in Address
      /\ Norm(wtail') = Slot(Pos(m_tail), wdone')
  BY <1>1, SlotStep
<1>3. TypeOK'
  BY <1>1, <1>2 DEF TypeOK, Address, m_tail_address
<1>4. WriterInv'
  BY <1>1, <1>2 DEF WriterInv, Used
<1>5. HeadBeyondEndInv' /\ ReaderInv'
  BY DEF HeadBeyondEndInv, ReaderInv, UsedSeen, Used
<1> QED
  BY <1>3, <1>4, <1>5

LEMMA WritePublishStep == PositionInv /\ WritePublish => PositionInv'
<1> SUFFICES ASSUME PositionInv, WritePublish PROVE PositionInv'
  OBVIOUS
<1> USE SizeAssumption DEF PositionInv, WritePublish, rvars
<1>1. /\ Pos(m_head) \in Address /\ Pos(m_tail) \in Address
      /\ Used \in 0..BufferSize
      /\ Used + Len(wsrc) <= BufferSize
      /\ Len(wsrc) \in Nat \ {0}
      /\ Norm(wtail) = Slot(Pos(m_tail), Len(wsrc))
  BY Positions DEF WriterInv, TypeOK
<1>2. Pos(m_tail') = Slot(Pos(m_tail), Len(wsrc))
  BY <1>1 DEF TypeOK, Norm, Pos, m_tail_address
<1>3. Used' = Used + Len(wsrc)
  BY <1>1, <1>2, UsedMoveTail DEF Used
<1>4. TypeOK'
  BY DEF TypeOK, m_tail_address
<1>5. WriterInv'
  BY DEF WriterInv
<1>6. HeadBeyondEndInv'
  BY <1>1, <1>2 DEF HeadBeyondEndInv, Slot, Address, TypeOK, Pos
<1>7. ASSUME rpc \in {"used", "load"}, UsedSeen <= Used, UsedSeen \in Int
      PROVE  UsedSeen' \in UsedSeen..Used'
  <2>1. Norm(m_head) = Pos(m_head)
    BY <1>7, Positions DEF ReaderInv
  <2>2. CASE NormShared(rsaw, m_tail') = NormShared(rsaw, m_tail)
    BY <2>2, <1>1, <1>3, <1>7 DEF UsedSeen
  <2>3. CASE NormShared(rsaw, m_tail') # NormShared(rsaw, m_tail)
    <3>1. NormShared(rsaw, m_tail') = m_tail'
      BY <2>3 DEF NormShared
    <3>2. UsedLen(Pos(m_head), m_tail') = Used'
      BY <1>1, <1>3, <1>4, UsedOfStoredTail DEF Used, TypeOK
    <3> QED
      BY <3>1, <3>2, <2>1, <1>1, <1>3, <1>7 DEF UsedSeen
  <2> QED
    BY <2>2, <2>3
<1>8. UsedSeen \in Int /\ rcount \in Nat
  BY DEF UsedSeen, UsedLen, NormShared, Norm, TypeOK, m_tail_address
<1>9. ReaderInv'
  BY <1>1, <1>3, <1>7, <1>8, LenProperties, SMTT(30) DEF ReaderInv, TypeOK
<1> QED
  BY <1>4, <1>5, <1>6, <1>9

LEMMA ReaderCallStep ==
  ASSUME PositionInv, NEW op \in {"read", "drop"}, NEW n \in Nat, ReaderCall(op, n),
         op = "drop" => MaxDrop # 0
  PROVE  PositionInv'
<1> USE SizeAssumption DEF PositionInv, ReaderCall, wvars
<1>1. TypeOK'
  BY DEF TypeOK, m_tail_address
<1>2. WriterInv' /\ HeadBeyondEndInv'
  BY DEF WriterInv, HeadBeyondEndInv, Used
<1>3. m_head <= m_tail_address
  BY DEF ReaderInv
<1>4. NormShared(rsaw', m_tail) = Norm(m_tail)
  BY DEF NormShared, Norm
<1>5. UsedSeen' = Used
  BY <1>3, <1>4, Positions DEF UsedSeen, Used
<1>6. ReaderInv'
  BY <1>3, <1>5, Positions DEF ReaderInv, Used
<1> QED
  BY <1>1, <1>2, <1>6

LEMMA ReadTooShortStep == PositionInv /\ ReadTooShort => PositionInv'
<1> SUFFICES ASSUME PositionInv, ReadTooShort PROVE PositionInv'
  OBVIOUS
<1> USE SizeAssumption DEF PositionInv, ReadTooShort, ReturnLocals, wvars
<1>1. TypeOK'
  BY DEF TypeOK, m_tail_address
<1>2. WriterInv' /\ HeadBeyondEndInv' /\ ReaderInv'
  BY DEF WriterInv, HeadBeyondEndInv, ReaderInv, Used
<1> QED
  BY <1>1, <1>2

LEMMA ReadEnoughStep == PositionInv /\ ReadEnough => PositionInv'
<1> SUFFICES ASSUME PositionInv, ReadEnough PROVE PositionInv'
  OBVIOUS
<1> USE SizeAssumption DEF PositionInv, ReadEnough, wvars
<1>1. TypeOK'
  BY DEF TypeOK, m_tail_address
<1>2. WriterInv' /\ HeadBeyondEndInv'
  BY DEF WriterInv, HeadBeyondEndInv, Used
<1>3. UsedSeen \in Int /\ Used \in Int
  BY Positions DEF UsedSeen, UsedLen, NormShared, Norm, TypeOK, m_tail_address
<1>4. ReaderInv'
  BY <1>3 DEF ReaderInv, Used, TypeOK
<1> QED
  BY <1>1, <1>2, <1>4

LEMMA ReadTailLoadStep == PositionInv /\ ReadTailLoad => PositionInv'
<1> SUFFICES ASSUME PositionInv, ReadTailLoad PROVE PositionInv'
  OBVIOUS
<1> USE SizeAssumption DEF PositionInv, ReadTailLoad, wvars
<1>1. TypeOK'
  BY DEF TypeOK, m_tail_address
<1>2. WriterInv' /\ HeadBeyondEndInv'
  BY DEF WriterInv, HeadBeyondEndInv, Used
<1>3. m_head <= m_tail_address /\ rcount <= Used
  BY DEF ReaderInv
<1>4. NormShared(rsaw', m_tail) = Norm(m_tail)
  BY DEF NormShared, Norm
<1>5. UsedSeen' = Used
  BY <1>3, <1>4, Positions DEF UsedSeen, Used
<1>6. ReaderInv'
  BY <1>3, <1>5, Positions DEF ReaderInv, Used, TypeOK
<1> QED
  BY <1>1, <1>2, <1>6

LEMMA ReadStartStep == PositionInv /\ ReadStart => PositionInv'
<1> SUFFICES ASSUME PositionInv, ReadStart PROVE PositionInv'
  OBVIOUS
<1> USE SizeAssumption DEF PositionInv, ReadStart, wvars
<1>1. TypeOK'
  BY DEF TypeOK, NormShared, Norm, m_tail_address
<1>2. WriterInv' /\ HeadBeyondEndInv'
  BY DEF WriterInv, HeadBeyondEndInv, Used
<1>3. /\ m_head <= m_tail_address /\ rdest = <<>>
      /\ UsedSeen \in rcount..Used /\ rcount <= Used /\ Used <= BufferSize
  BY Positions DEF ReaderInv
<1>4. /\ Norm(rhead') = Norm(m_head)
      /\ Norm(m_head) \in Address
      /\ Norm(m_head) = Pos(m_head)
      /\ rtail' \in 0..m_tail_address
      /\ UsedSeen = UsedLen(Norm(m_head), rtail')
  BY <1>3, Positions DEF TypeOK, Norm, NormShared, UsedSeen, Address, m_tail_address
<1>5. rcount <= UsedLen(Norm(m_head), Norm(rtail'))
  <2>1. rcount \in Nat /\ Used \in 0..BufferSize
    BY Positions DEF TypeOK
  <2>2. CASE rtail' <= BufferSize
    BY <2>1, <2>2, <1>3, <1>4 DEF Norm, m_tail_address
  <2>3. CASE rtail' = BufferSize + 1
    <3>1. Norm(m_head) # 0
      BY <2>1, <2>3, <1>3, <1>4 DEF UsedLen, Address
    <3> QED
      BY <3>1, <2>1, <2>3, <1>3, <1>4 DEF UsedLen, Norm, Address, m_tail_address
  <2> QED
    BY <2>2, <2>3, <1>4 DEF m_tail_address
<1>6. Norm(rhead') = Slot(Pos(m_head), Len(rdest'))
  BY <1>3, <1>4, SlotStep, EmptySeq
<1>7. ReaderInv'
  BY <1>3, <1>4, <1>5, <1>6 DEF ReaderInv, Used, TypeOK
<1> QED
  BY <1>1, <1>2, <1>7

LEMMA ReadByteStep == PositionInv /\ ReadByte => PositionInv'
<1> SUFFICES ASSUME PositionInv, ReadByte PROVE PositionInv'
  OBVIOUS
<1> USE SizeAssumption DEF PositionInv, ReadByte, wvars
<1> DEFINE d == Len(rdest)
<1>1. /\ Pos(m_head) \in Address
      /\ Used \in 0..BufferSize
      /\ d \in Nat /\ rcount \in Nat /\ rcount > 0
      /\ d + rcount <= Used
      /\ d \in 0..BufferSize /\ d < BufferSize
      /\ rcount <= UsedLen(Norm(rhead), Norm(rtail))
      /\ Norm(rhead) = Slot(Pos(m_head), d)
      /\ Norm(rtail) \in Address
  BY Positions, SMTT(30) DEF ReaderInv, TypeOK, Norm, Address, m_tail_address
<1>2. /\ Norm(rhead) \in Address
      /\ Norm(rhead') = Slot(Pos(m_head), d + 1)
      /\ Norm(rhead') \in Address
  BY <1>1, SlotStep
<1>3. /\ mem[Norm(rhead)] \in Byte
      /\ rdest' \in Seq(Byte)
      /\ Len(rdest') = d + 1
  BY <1>2, AppendProperties DEF TypeOK
<1>4. TypeOK'
  BY <1>1, <1>2, <1>3, SMTT(30) DEF TypeOK, Address, m_tail_address
<1>5. WriterInv' /\ HeadBeyondEndInv'
  BY DEF WriterInv, HeadBeyondEndInv, Used
<1>7. UsedLen(Norm(rhead), Norm(rtail)) \in Int
  BY <1>1, <1>2, UsedIsDistance
<1>6. UsedLen(Norm(rhead'), Norm(rtail)) = UsedLen(Norm(rhead), Norm(rtail)) - 1
  <2>1. Norm(rhead') = Slot(Norm(rhead), 1)
    BY <1>1, <1>2 DEF Slot, Norm, Address, m_tail_address
  <2>2. 1 \in 0..UsedLen(Norm(rhead), Norm(rtail))
    BY <1>1, <1>2, <1>7
  <2> QED
    BY <2>1, <2>2, <1>1, <1>2, UsedMoveHead
<1>8. ReaderInv'
  BY <1>1, <1>2, <1>3, <1>6, <1>7 DEF ReaderInv, Used
<1> QED
  BY <1>4, <1>5, <1>8

(* A head that reaches the end of the ring with n bytes free passes a tail *)
(* that is at least n bytes before that end.                               *)
LEMMA WrapLeavesRoom ==
  ASSUME NEW h \in Address, NEW t \in Address, NEW k \in 0..UsedLen(h, t), NEW n \in Int,
         UsedLen(h, t) + n <= BufferSize,
         h + k > BufferSize \/ (h = 0 /\ k = 0)
  PROVE  Slot(h, k) <= t /\ t + n <= BufferSize
  BY SizeAssumption DEF Slot, UsedLen, Address

(* A head loaded unnormalised finds no more room than there is, and takes  *)
(* the one-past-the-end address for the end of the ring.                   *)
LEMMA AvailableOfStoredHead ==
  ASSUME NEW p \in 0..m_tail_address, NEW t \in Address
  PROVE  /\ AvailableLen(p, t) \in Int
         /\ AvailableLen(p, t) + UsedLen(Pos(p), t) <= BufferSize
         /\ p = m_tail_address => t + AvailableLen(p, t) <= BufferSize
  BY SizeAssumption DEF AvailableLen, UsedLen, Pos, Address, m_tail_address

(* Moving m_head on by k of the bytes in use takes k bytes out, and never  *)
(* breaks what the writer knows about the space it has: either it does not *)
(* look at m_head again, or what it finds there is a place in the ring.    *)
LEMMA HeadAdvance ==
  ASSUME PositionInv, NEW k \in 0..Used,
         m_head' \in 0..(2 * BufferSize + 1),
         Pos(m_head') = Slot(Pos(m_head), k),
         m_head' > m_tail_address => m_head' = m_head + k,
         ~DebugBuild \/ m_head' <= m_tail_address,
         UNCHANGED <<mem, m_tail, wvars>>
  PROVE  Used' = Used - k /\ WriterInv' /\ HeadBeyondEndInv'
<1> USE SizeAssumption DEF PositionInv, wvars
<1> DEFINE avail == AvailableLen(NormShared(wsaw, m_head), Norm(m_tail))
           seen  == AvailableLen(NormShared(wsaw, m_head'), Norm(m_tail))
<1>1. /\ Pos(m_head) \in Address /\ Pos(m_tail) \in Address
      /\ Used \in 0..BufferSize /\ Used = UsedLen(Pos(m_head), Pos(m_tail))
      /\ Norm(m_tail) = Pos(m_tail)
      /\ avail \in Int /\ seen \in Int /\ Len(wsrc) \in Nat
  BY Positions, SMTT(30) DEF Used, TypeOK, AvailableLen, UsedLen, NormShared, Norm, m_tail_address
<1>2. Used' = Used - k
  BY <1>1, UsedMoveHead DEF Used
<1>3. \/ seen = avail
      \/ m_head' <= m_tail_address /\ seen = AvailableLen(m_head', Pos(m_tail))
  BY <1>1 DEF NormShared
<1>4. ASSUME wpc = "avail" PROVE seen + Used' <= BufferSize
  <2>1. CASE seen = avail
    BY <2>1, <1>1, <1>2, <1>4 DEF WriterInv
  <2>2. CASE m_head' <= m_tail_address /\ seen = AvailableLen(m_head', Pos(m_tail))
    BY <2>2, <1>1, AvailableOfStoredHead DEF Used
  <2> QED
    BY <2>1, <2>2, <1>3
<1>5. wpc = "copy" => Used' + Len(wsrc) <= BufferSize
  BY <1>1, <1>2 DEF WriterInv
<1>6. WriterInv'
  BY <1>4, <1>5 DEF WriterInv
<1>7. m_head' > BufferSize => seen = avail \/ Pos(m_tail) + seen <= BufferSize
  <2> HIDE DEF avail
  <2> QED
    BY <1>1, <1>3, AvailableOfStoredHead DEF m_tail_address
<1>8. ASSUME m_head' > BufferSize
      PROVE  /\ Pos(m_head') <= Pos(m_tail)
             /\ wpc = "avail" => Pos(m_tail) + seen <= BufferSize
             /\ wpc = "copy" => Pos(m_tail) + Len(wsrc) <= BufferSize
  <2>1. CASE m_head > BufferSize
    <3>1. /\ Pos(m_head) <= Pos(m_tail)
          /\ wpc = "avail" => Pos(m_tail) + avail <= BufferSize
          /\ wpc = "copy" => Pos(m_tail) + Len(wsrc) <= BufferSize
      BY <2>1 DEF HeadBeyondEndInv
    <3>2. Pos(m_head') <= Pos(m_tail)
      BY <3>1, <1>1 DEF Slot, UsedLen, Address
    <3>3. seen = avail \/ Pos(m_tail) + seen <= BufferSize
      BY <1>8, <1>7
    <3> QED
      BY <3>1, <3>2, <3>3
  <2>2. CASE m_head <= BufferSize
    <3>1. Pos(m_head) = m_head /\ m_head \in Address
      BY <2>2 DEF Pos, TypeOK, Address
    <3>2. m_head + k > BufferSize \/ (m_head = 0 /\ k = 0)
      <4>1. k \in Nat /\ m_head \in Nat
        BY <3>1, <1>1 DEF Address
      <4>2. CASE m_head' = m_tail_address
        <5>1. Slot(m_head, k) = 0
          BY <4>2, <3>1 DEF Pos, m_tail_address
        <5> QED
          BY <5>1, <4>1 DEF Slot
      <4> QED
        BY <4>1, <4>2, <3>1, <1>8, <2>2 DEF m_tail_address
    <3>3. \A n \in Int : Used + n <= BufferSize =>
            Slot(m_head, k) <= Pos(m_tail) /\ Pos(m_tail) + n <= BufferSize
      BY <3>1, <3>2, <1>1, WrapLeavesRoom
    <3>4. Pos(m_head') <= Pos(m_tail)
      BY <3>1, <3>3, <1>1
    <3>5. wpc = "avail" => Used + avail <= BufferSize
      BY <1>1 DEF WriterInv
    <3>6. wpc = "copy" => Used + Len(wsrc) <= BufferSize
      BY <1>1 DEF WriterInv
    <3>7. seen = avail \/ Pos(m_tail) + seen <= BufferSize
      BY <1>8, <1>7
    <3> QED
      BY <3>3, <3>4, <3>5, <3>6, <3>7, <1>1
  <2> QED
    BY <2>1, <2>2 DEF TypeOK
<1>9. HeadBeyondEndInv'
  BY <1>8 DEF HeadBeyondEndInv
<1> QED
  BY <1>2, <1>6, <1>9

LEMMA ReadPublishStep == PositionInv /\ ReadPublish => PositionInv' /\ rcount = 0
<1> SUFFICES ASSUME PositionInv, ReadPublish PROVE PositionInv' /\ rcount = 0
  OBVIOUS
<1> USE SizeAssumption DEF PositionInv, ReadPublish, ReturnLocals, wvars
<1> DEFINE d == Len(rdest)
<1>1. /\ rhead \in 0..m_tail_address
      /\ Used \in 0..BufferSize
      /\ d \in Nat /\ rcount \in Nat
      /\ d + rcount <= Used
      /\ rcount <= UsedLen(Norm(rhead), Norm(rtail))
      /\ Norm(rhead) = Slot(Pos(m_head), d)
  BY Positions DEF ReaderInv, TypeOK
<1>2. rcount = 0
  BY <1>1 DEF UsedLen, Norm, m_tail_address
<1>3. Pos(m_head') = Slot(Pos(m_head), d)
  BY <1>1 DEF Pos, Norm, m_tail_address
<1>4. /\ m_head' \in 0..(2 * BufferSize + 1)
      /\ m_head' <= m_tail_address
      /\ d \in 0..Used
  BY <1>1 DEF m_tail_address
<1>5. WriterInv' /\ HeadBeyondEndInv'
  BY <1>3, <1>4, HeadAdvance DEF m_tail_address
<1>6. TypeOK'
  BY <1>4 DEF TypeOK, m_tail_address
<1>7. ReaderInv'
  BY <1>4 DEF ReaderInv
<1> QED
  BY <1>2, <1>5, <1>6, <1>7

LEMMA DropClipStep == PositionInv /\ DropClip => PositionInv'
<1> SUFFICES ASSUME PositionInv, DropClip PROVE PositionInv'
  OBVIOUS
<1> USE SizeAssumption DEF PositionInv, DropClip, wvars
<1>1. UsedSeen <= Used /\ Used \in 0..BufferSize /\ rcount \in Nat
  BY Positions DEF ReaderInv, TypeOK
<1>2. UsedSeen \in Nat
  <2>1. m_head <= m_tail_address
    BY DEF ReaderInv
  <2>2. Norm(m_head) \in Address /\ NormShared(rsaw, m_tail) \in Nat
    BY <2>1, Positions DEF NormShared, Norm, TypeOK, m_tail_address
  <2> QED
    BY <2>2 DEF UsedSeen, UsedLen, Address
<1>3. rcount' \in 0..Used
  BY <1>1, <1>2 DEF LesserOf
<1>4. TypeOK'
  BY <1>1, <1>3 DEF TypeOK, m_tail_address
<1>5. WriterInv' /\ HeadBeyondEndInv'
  BY DEF WriterInv, HeadBeyondEndInv, Used
<1>6. ReaderInv'
  BY <1>3 DEF ReaderInv, Used
<1> QED
  BY <1>4, <1>5, <1>6

(* dec_data_len moves the head on by the clipped count, then only renames  *)
(* the place where it stands.                                              *)
LEMMA DropMoves ==
  ASSUME PositionInv, DropAdvance \/ DropFix
  PROVE  \E k \in 0..Used : /\ Pos(m_head') = Slot(Pos(m_head), k)
                            /\ m_head' \in 0..(2 * BufferSize + 1)
                            /\ m_head' > m_tail_address => m_head' = m_head + k
<1> USE SizeAssumption DEF PositionInv
<1>1. /\ Used \in 0..BufferSize
      /\ Pos(m_head) \in Address
  BY Positions
<1>2. CASE DropAdvance
  <2>1. m_head \in 0..m_tail_address /\ rcount \in 0..Used
    BY <1>1, <1>2 DEF DropAdvance, ReaderInv, TypeOK
  <2>2. m_head' = m_head + rcount /\ m_head' \in 0..(2 * BufferSize + 1)
    BY <2>1, <1>1, <1>2 DEF DropAdvance, m_tail_address
  <2>3. Pos(m_head') = Slot(Pos(m_head), rcount)
    <3>1. CASE m_head <= BufferSize
      BY <3>1, <2>1, <2>2, <1>1 DEF Pos, Slot, Address
    <3>2. CASE m_head = BufferSize + 1
      BY <3>2, <2>1, <2>2, <1>1 DEF Pos, Slot, Address
    <3> QED
      BY <3>1, <3>2, <2>1 DEF m_tail_address
  <2> QED
    BY <2>1, <2>2, <2>3
<1>3. CASE DropFix
  <2>1. m_head' = Pos(m_head)
    BY <1>3 DEF DropFix, Pos, TypeOK, m_tail_address
  <2>2. Slot(Pos(m_head), 0) = Pos(m_head) /\ 0 \in 0..Used
    BY <1>1, SlotStep
  <2> QED
    BY <2>1, <2>2, <1>1 DEF Pos, Address, m_tail_address
<1> QED
  BY <1>2, <1>3

LEMMA DropStep == BuildAssumption /\ PositionInv /\ (DropAdvance \/ DropFix) => PositionInv'
<1> SUFFICES ASSUME BuildAssumption, PositionInv, DropAdvance \/ DropFix PROVE PositionInv'
  OBVIOUS
<1> USE SizeAssumption DEF PositionInv, DropAdvance, DropFix, ReturnLocals, wvars
<1>1. PICK k \in 0..Used : /\ Pos(m_head') = Slot(Pos(m_head), k)
                           /\ m_head' \in 0..(2 * BufferSize + 1)
                           /\ m_head' > m_tail_address => m_head' = m_head + k
  BY DropMoves
<1>2. ~DebugBuild
  BY DEF BuildAssumption, ReaderInv
<1>3. WriterInv' /\ HeadBeyondEndInv'
  BY <1>1, <1>2, HeadAdvance
<1>4. TypeOK'
  <2>1. m_head' \in 0..(2 * BufferSize + 1)
    BY <1>1
  <2>2. CASE DropAdvance
    BY <2>1, <2>2 DEF TypeOK
  <2>3. CASE DropFix
    <3>1. rcount' = 0 /\ rhead' = 0 /\ rtail' = 0 /\ rsaw' = 0 /\ 0 \in 0..m_tail_address
      BY <2>3 DEF m_tail_address
    <3> QED
      BY <2>1, <2>3, <3>1 DEF TypeOK
  <2> QED
    BY <2>2, <2>3
<1>5. ReaderInv'
  BY <1>1 DEF ReaderInv, TypeOK, m_tail_address
<1> QED
  BY <1>3, <1>4, <1>5

(* The bytes: a writer only changes free slots, a reader copies used ones. *)
LEMMA WriteByteData ==
  ASSUME PositionInv, DataInv, WriteByte
  PROVE  DataInv' /\ \A i \in 0..(Used - 1) : mem'[Slot(Pos(m_head), i)] = mem[Slot(Pos(m_head), i)]
<1> USE SizeAssumption DEF PositionInv, WriteByte, rvars
<1>1. /\ Pos(m_head) \in Address /\ Pos(m_tail) \in Address
      /\ Used \in 0..BufferSize /\ Used = UsedLen(Pos(m_head), Pos(m_tail))
      /\ Used + Len(wsrc) <= BufferSize
      /\ Len(wsrc) \in Nat
      /\ wdone \in 0..(Len(wsrc) - 1)
      /\ Norm(wtail) = Slot(Pos(m_tail), wdone)
      /\ mem \in [Address -> Byte]
  BY Positions, SMTT(30) DEF WriterInv, TypeOK, Used
<1> DEFINE place(i) == Slot(Pos(m_tail), i)
<1>2. \A i \in 0..wdone : place(i) \in Address /\ (i # wdone => place(i) # place(wdone))
  <2>1. \A i \in 0..wdone : i \in 0..BufferSize /\ wdone \in 0..BufferSize
    BY <1>1
  <2>2. \A i \in 0..wdone : place(i) \in Address
    BY <2>1, <1>1, SlotStep
  <2>3. ASSUME NEW i \in 0..wdone, i # wdone
        PROVE  place(i) # place(wdone)
    BY <2>1, <2>3, <1>1, SlotInjective
  <2> QED
    BY <2>2, <2>3, ZenonT(40)
<1>3. \A i \in 0..(Used - 1) : Slot(Pos(m_head), i) # place(wdone)
  BY <1>1, UsedSlotsAreNotFree
<1>4. \A a \in Address : mem'[a] = IF a = place(wdone) THEN wsrc[wdone + 1] ELSE mem[a]
  BY <1>1
<1>5. \A i \in 0..(Used - 1) : Slot(Pos(m_head), i) \in Address
  BY <1>1, SlotStep
<1>6. \A i \in 0..(Used - 1) : mem'[Slot(Pos(m_head), i)] = mem[Slot(Pos(m_head), i)]
  BY <1>3, <1>4, <1>5
<1>7. ASSUME NEW i \in 1..wdone' PROVE mem'[place(i - 1)] = wsrc[i]
  <2>1. i - 1 \in 0..wdone
    BY <1>1
  <2>2. CASE i - 1 = wdone
    BY <2>2, <1>1, <1>2, <1>4
  <2>3. CASE i - 1 # wdone
    <3>1. i \in 1..wdone /\ mem[place(i - 1)] = wsrc[i]
      BY <2>1, <2>3, <1>1 DEF DataInv
    <3> QED
      BY <3>1, <2>1, <2>3, <1>2, <1>4
  <2> QED
    BY <2>2, <2>3
<1>8. ASSUME rpc = "copy", NEW i \in 1..Len(rdest)
      PROVE  rdest[i] = mem'[Slot(Pos(m_head), i - 1)]
  <2>1. i - 1 \in 0..(Used - 1)
    BY <1>1, <1>8, LenProperties, SMTT(30) DEF ReaderInv, TypeOK
  <2> QED
    BY <2>1, <1>6, <1>8 DEF DataInv
<1>9. DataInv'
  BY <1>7, <1>8 DEF DataInv
<1> QED
  BY <1>6, <1>9

LEMMA ReadByteData == PositionInv /\ DataInv /\ ReadByte => DataInv'
<1> SUFFICES ASSUME PositionInv, DataInv, ReadByte PROVE DataInv'
  OBVIOUS
<1> USE SizeAssumption DEF PositionInv, ReadByte, wvars
<1>1. /\ Pos(m_head) \in Address
      /\ Used \in 0..BufferSize
      /\ rcount \in Nat /\ Len(rdest) \in Nat /\ Len(rdest) + rcount <= Used
      /\ Norm(rhead) = Slot(Pos(m_head), Len(rdest))
      /\ rdest \in Seq(Byte)
      /\ mem \in [Address -> Byte]
  BY Positions DEF ReaderInv, TypeOK
<1>2. Norm(rhead) \in Address
  BY <1>1, SlotStep
<1>3. /\ Len(rdest') = Len(rdest) + 1
      /\ rdest'[Len(rdest) + 1] = mem[Norm(rhead)]
      /\ \A i \in 1..Len(rdest) : rdest'[i] = rdest[i]
  BY <1>1, <1>2, AppendProperties
<1>4. ASSUME NEW i \in 1..Len(rdest') PROVE rdest'[i] = mem[Slot(Pos(m_head), i - 1)]
  <2>1. CASE i = Len(rdest) + 1
    BY <2>1, <1>1, <1>3
  <2>2. CASE i # Len(rdest) + 1
    BY <2>2, <1>1, <1>3 DEF DataInv
  <2> QED
    BY <2>1, <2>2
<1> QED
  BY <1>4 DEF DataInv

LEMMA DataStep ==
  ASSUME PositionInv, DataInv, [Next]_vars
  PROVE  DataInv'
<1> USE DEF PositionInv, wvars, rvars
<1>1. CASE WriteCall \/ WriteRefused
  BY <1>1 DEF WriteCall, WriteRefused, DataInv
<1>2. CASE WriteStart
  BY <1>2 DEF WriteStart, DataInv, WriterInv
<1>3. CASE WriteByte
  BY <1>3, WriteByteData
<1>4. CASE WritePublish
  BY <1>4 DEF WritePublish, DataInv
<1>5. CASE ReadCall \/ DropCall
  BY <1>5 DEF ReadCall, DropCall, ReaderCall, DataInv
<1>6. CASE ReadTooShort \/ ReadEnough \/ ReadTailLoad 
  BY <1>6 DEF ReadTooShort, ReadEnough, ReadTailLoad, DataInv
<1>7. CASE ReadStart
  <2>1. rdest' = <<>> /\ Len(rdest') = 0
    BY <1>7, EmptySeq DEF ReadStart, ReaderInv
  <2> QED
    BY <1>7, <2>1 DEF ReadStart, DataInv
<1>8. CASE ReadByte
  BY <1>8, ReadByteData
<1>9. CASE ReadPublish \/ DropClip \/ DropAdvance \/ DropFix
  BY <1>9 DEF ReadPublish, DropClip, DropAdvance, DropFix, DataInv
<1>10. CASE UNCHANGED vars
  BY <1>10 DEF vars, DataInv
<1> QED
  BY <1>1, <1>2, <1>3, <1>4, <1>5, <1>6, <1>7, <1>8, <1>9, <1>10 DEF Next, Writer, Reader

LEMMA PositionStep ==
  ASSUME BuildAssumption, PositionInv, [Next]_vars
  PROVE  PositionInv'
<1>1. CASE Writer
  BY <1>1, WriteCallStep, WriteRefusedStep, WriteStartStep, WriteByteStep, WritePublishStep DEF Writer
<1>2. CASE ReadCall
  <2>1. \A n \in 1..BufferSize : n \in Nat
    BY SizeAssumption
  <2> QED
    BY <1>2, <2>1, ReaderCallStep DEF ReadCall
<1>3. CASE DropCall
  <2>1. \A n \in 1..MaxDrop : n \in Nat /\ MaxDrop # 0
    BY SizeAssumption
  <2> QED
    BY <1>3, <2>1, ReaderCallStep DEF DropCall
<1>4. CASE ReadTooShort \/ ReadEnough \/ ReadTailLoad \/ ReadStart \/ ReadByte \/ ReadPublish
  BY <1>4, ReadTooShortStep, ReadEnoughStep, ReadTailLoadStep, ReadStartStep, ReadByteStep, ReadPublishStep
<1>5. CASE DropClip \/ DropAdvance \/ DropFix
  BY <1>5, DropClipStep, DropStep
<1>6. CASE UNCHANGED vars
  BY <1>6 DEF vars, wvars, rvars, PositionInv, TypeOK, WriterInv, HeadBeyondEndInv, ReaderInv, Used, UsedSeen
<1> QED
  BY <1>1, <1>2, <1>3, <1>4, <1>5, <1>6 DEF Next, Reader

(* IInv is inductive.                                                      *)
THEOREM Invariance == ASSUME BuildAssumption PROVE Spec => []IInv
<1>1. Init => IInv
  BY InitInv
<1>2. IInv /\ [Next]_vars => IInv'
  BY PositionStep, DataStep DEF IInv, PositionInv
<1> QED
  BY <1>1, <1>2, PTL DEF Spec

(* Every variable keeps its type: the pointers rest in the ring or one past *)
(* its end, and only dec_data_len moves m_head further, for one step.      *)
THEOREM TypeCorrect == ASSUME BuildAssumption PROVE Spec => []TypeOK
<1>1. IInv => TypeOK
  BY DEF IInv
<1> QED
  BY <1>1, Invariance, PTL

(* write() lands only on bytes the reader has given back, whatever m_head  *)
(* get_available_buff_len() saw.                                           *)
THEOREM NoOverwrite == ASSUME BuildAssumption PROVE Spec => []WriterStaysInFreeSpace
<1>1. IInv => WriterStaysInFreeSpace
  BY DEF IInv, WriterInv, WriterStaysInFreeSpace
<1> QED
  BY <1>1, Invariance, PTL

LEMMA ContentsFacts ==
  ASSUME TypeOK
  PROVE  /\ Contents \in Seq(Byte) /\ Len(Contents) = Used
         /\ \A i \in 1..Used : Contents[i] = mem[Slot(Pos(m_head), i - 1)]
<1>1. Pos(m_head) \in Address /\ Used \in 0..BufferSize
  BY Positions
<1>2. \A i \in 1..Used : Slot(Pos(m_head), i - 1) \in Address
  <2>1. \A i \in 1..Used : i - 1 \in 0..BufferSize
    BY <1>1, SizeAssumption
  <2> QED
    BY <1>1, <2>1, SlotStep
<1>3. \A i \in 1..Used : mem[Slot(Pos(m_head), i - 1)] \in Byte
  BY <1>2 DEF TypeOK
<1> QED
  BY <1>1, <1>3 DEF Contents

LEMMA CopiedIsFront ==
  ASSUME IInv, rpc = "copy"
  PROVE  ReaderSeesPublishedBytes
<1> DEFINE d == Len(rdest)
<1>1. /\ Used \in 0..BufferSize /\ d \in Nat /\ rcount \in Nat
      /\ d + rcount <= Used
      /\ rdest \in Seq(Byte)
      /\ \A i \in 1..d : rdest[i] = mem[Slot(Pos(m_head), i - 1)]
  BY Positions DEF IInv, TypeOK, ReaderInv, DataInv
<1>2. \A i \in 1..d : rdest[i] = Contents[i]
  BY <1>1, ContentsFacts, SMTT(30) DEF IInv
<1>3. SubSeq(Contents, 1, d) = [i \in 1..d |-> Contents[i]]
  BY <1>1
<1>4. rdest = [i \in 1..d |-> rdest[i]]
  BY <1>1
<1> QED
  BY <1>1, <1>2, <1>3, <1>4 DEF ReaderSeesPublishedBytes

(* read() copies exactly the oldest bytes, all of them published.          *)
THEOREM NoTornRead == ASSUME BuildAssumption PROVE Spec => []ReaderSeesPublishedBytes
<1>1. IInv => ReaderSeesPublishedBytes
  BY CopiedIsFront DEF ReaderSeesPublishedBytes
<1> QED
  BY <1>1, Invariance, PTL

(* A read() that found its bytes returns all of them.                      *)
THEOREM ReadNeverShort == ASSUME BuildAssumption PROVE Spec => ReadIsComplete
<1>1. IInv /\ [Next]_vars => [rpc = "copy" /\ rpc' = "idle" => rcount = 0]_vars
  <2> SUFFICES ASSUME IInv, Next, rpc = "copy", rpc' = "idle" PROVE rcount = 0
    OBVIOUS
  <2>1. CASE ReadPublish
    BY <2>1, ReadPublishStep DEF IInv, PositionInv
  <2>2. CASE Writer
    BY <2>2 DEF Writer, WriteCall, WriteRefused, WriteStart, WriteByte, WritePublish, rvars
  <2>3. CASE Reader /\ ~ReadPublish
    BY <2>3 DEF Reader, ReadCall, DropCall, ReaderCall, ReadTooShort, ReadEnough, ReadTailLoad,
       ReadStart, ReadByte, DropClip, DropAdvance, DropFix
  <2> QED
    BY <2>1, <2>2, <2>3 DEF Next
<1> QED
  BY <1>1, Invariance, PTL DEF Spec, ReadIsComplete

-----------------------------------------------------------------------------
(* The ring implements the FIFO: each step is a step of it or a stutter.   *)

LEMMA ContentsGrow ==
  ASSUME IInv, WritePublish
  PROVE  /\ Contents' = Contents \o wsrc
         /\ Len(Contents) + Len(wsrc) <= BufferSize
<1> USE SizeAssumption DEF WritePublish, rvars
<1> DEFINE n == Len(wsrc)
<1>1. /\ Pos(m_head) \in Address /\ Pos(m_tail) \in Address
      /\ Used \in 0..BufferSize /\ Used = UsedLen(Pos(m_head), Pos(m_tail))
      /\ Used + n <= BufferSize /\ n \in Nat /\ wsrc \in Seq(Byte)
      /\ Norm(wtail) = Slot(Pos(m_tail), n)
      /\ \A i \in 1..n : mem[Slot(Pos(m_tail), i - 1)] = wsrc[i]
  BY Positions DEF IInv, TypeOK, WriterInv, DataInv, Used
<1>2. Pos(m_tail') = Slot(Pos(m_tail), n)
  BY <1>1 DEF IInv, TypeOK, Norm, Pos, m_tail_address
<1>3. Used' = Used + n
  BY <1>1, <1>2, UsedMoveTail DEF Used
<1>4. ASSUME NEW i \in (Used + 1)..(Used + n)
      PROVE  mem[Slot(Pos(m_head), i - 1)] = wsrc[i - Used]
  <2> DEFINE j == i - Used
  <2>1. j \in 1..n /\ j - 1 \in Nat /\ Used + (j - 1) <= BufferSize /\ Used + (j - 1) = i - 1
    BY <1>1
  <2>2. Slot(Pos(m_head), Used) = Pos(m_tail)
    BY <1>1, UsedIsDistance
  <2> HIDE DEF j
  <2>3. Slot(Pos(m_tail), j - 1) = Slot(Pos(m_head), i - 1)
    BY <2>1, <2>2, <1>1, SlotOfSlot
  <2> QED
    BY <2>1, <2>3, <1>1 DEF j
<1>5. /\ Contents \in Seq(Byte) /\ Len(Contents) = Used
      /\ \A i \in 1..Used : Contents[i] = mem[Slot(Pos(m_head), i - 1)]
  BY ContentsFacts DEF IInv
<1> DEFINE both == Contents \o wsrc
<1>6. /\ both \in Seq(Byte) /\ Len(both) = Used + n
      /\ \A i \in 1..(Used + n) : both[i] = IF i <= Used THEN Contents[i] ELSE wsrc[i - Used]
  <2>1. /\ both \in Seq(Byte) /\ Len(both) = Len(Contents) + Len(wsrc)
        /\ \A i \in 1..(Len(Contents) + Len(wsrc)) :
             both[i] = IF i <= Len(Contents) THEN Contents[i] ELSE wsrc[i - Len(Contents)]
    BY <1>1, <1>5, ConcatProperties, ZenonT(40)
  <2> HIDE DEF both
  <2> QED
    BY <2>1, <1>5
<1> HIDE DEF both
<1>7. \A i \in 1..(Used + n) : both[i] = mem[Slot(Pos(m_head), i - 1)]
  BY <1>1, <1>4, <1>5, <1>6
<1>8. Contents' = [i \in 1..(Used + n) |-> mem[Slot(Pos(m_head), i - 1)]]
  BY <1>3 DEF Contents
<1>9. both = [i \in 1..(Used + n) |-> both[i]]
  BY <1>6
<1>10. Contents' = both
  BY <1>7, <1>8, <1>9
<1> QED
  BY <1>1, <1>5, <1>10 DEF both

LEMMA ContentsShrink ==
  ASSUME TypeOK, NEW k \in 0..Used,
         Pos(m_head') = Slot(Pos(m_head), k),
         UNCHANGED <<mem, m_tail>>
  PROVE  /\ Contents' = SubSeq(Contents, k + 1, Len(Contents))
         /\ k = 0 => Contents' = Contents
<1>1. /\ Pos(m_head) \in Address /\ Pos(m_tail) \in Address
      /\ Used \in 0..BufferSize /\ Used = UsedLen(Pos(m_head), Pos(m_tail))
      /\ BufferSize \in Nat
  BY Positions DEF Used
<1>2. Used' = Used - k
  BY <1>1, UsedMoveHead DEF Used
<1>3. /\ Contents \in Seq(Byte) /\ Len(Contents) = Used
      /\ \A i \in 1..Used : Contents[i] = mem[Slot(Pos(m_head), i - 1)]
  BY ContentsFacts
<1>4. ASSUME NEW i \in 1..(Used - k)
      PROVE  mem[Slot(Pos(m_head'), i - 1)] = Contents[k + i]
  <2>1. i - 1 \in Nat /\ k \in Nat /\ k + (i - 1) <= BufferSize /\ k + (i - 1) = (k + i) - 1 /\ k + i \in 1..Used
    BY <1>1
  <2>2. Slot(Pos(m_head'), i - 1) = Slot(Pos(m_head), k + (i - 1))
    BY <2>1, <1>1, SlotOfSlot
  <2> QED
    BY <2>1, <2>2, <1>3
<1>5. Contents' = [i \in 1..(Used - k) |-> mem[Slot(Pos(m_head'), i - 1)]]
  BY <1>2 DEF Contents
<1>6. SubSeq(Contents, k + 1, Used) = [i \in 1..(Used - k) |-> Contents[k + i]]
  BY <1>1, <1>3
<1>7. Contents' = SubSeq(Contents, k + 1, Len(Contents))
  BY <1>3, <1>4, <1>5, <1>6
<1>8. SubSeq(Contents, 1, Used) = Contents
  BY <1>3
<1> QED
  BY <1>3, <1>7, <1>8

LEMMA SameContents ==
  ASSUME UNCHANGED <<mem, m_head, m_tail>>
  PROVE  Contents' = Contents
  BY DEF Contents, Used

LEMMA WriterRefines == IInv /\ Writer => [Fifo!Next]_Fifo!vars
<1> SUFFICES ASSUME IInv, Writer PROVE Fifo!Next \/ UNCHANGED Fifo!vars
  OBVIOUS
<1>1. Delivered' = Delivered
  BY DEF Writer, WriteCall, WriteRefused, WriteStart, WriteByte, WritePublish, Delivered, rvars
<1>2. CASE WriteCall
  <2>1. wsrc = <<>> /\ wsrc' \in Seq(Byte) \ {<<>>}
    BY <1>2, SizeAssumption DEF WriteCall, IInv, WriterInv
  <2>2. Contents' = Contents
    BY <1>2, SameContents DEF WriteCall
  <2>3. Fifo!Submit
    BY <1>1, <2>1, <2>2 DEF Fifo!Submit
  <2> QED
    BY <2>3 DEF Fifo!Next
<1>3. CASE WriteRefused
  <2>1. Contents' = Contents
    BY <1>3, SameContents DEF WriteRefused
  <2>2. Fifo!Refuse
    BY <1>1, <1>3, <2>1 DEF Fifo!Refuse, WriteRefused, IInv, WriterInv
  <2> QED
    BY <2>2 DEF Fifo!Next
<1>4. CASE WriteStart
  <2>1. Contents' = Contents /\ wsrc' = wsrc
    BY <1>4, SameContents DEF WriteStart
  <2> QED
    BY <1>1, <2>1 DEF Fifo!vars
<1>5. CASE WriteByte
  <2>1. \A i \in 0..(Used - 1) : mem'[Slot(Pos(m_head), i)] = mem[Slot(Pos(m_head), i)]
    BY <1>5, WriteByteData DEF IInv, PositionInv
  <2>2. m_head' = m_head /\ Used' = Used /\ wsrc' = wsrc /\ Used \in Int
    BY <1>5, Positions DEF WriteByte, Used, IInv
  <2>3. \A i \in 1..Used : i - 1 \in 0..(Used - 1)
    BY <2>2
  <2>4. Contents' = Contents
    BY <2>1, <2>2, <2>3 DEF Contents
  <2> QED
    BY <1>1, <2>2, <2>4 DEF Fifo!vars
<1>6. CASE WritePublish
  <2>1. /\ Contents' = Contents \o wsrc
        /\ Len(Contents) + Len(wsrc) <= BufferSize
        /\ wsrc # <<>> /\ wsrc' = <<>>
    BY <1>6, ContentsGrow DEF WritePublish, IInv, WriterInv
  <2>2. Fifo!Accept
    BY <1>1, <2>1 DEF Fifo!Accept
  <2> QED
    BY <2>2 DEF Fifo!Next
<1> QED
  BY <1>2, <1>3, <1>4, <1>5, <1>6 DEF Writer

LEMMA ReaderRefines == BuildAssumption /\ IInv /\ Reader => [Fifo!Next]_Fifo!vars
<1> SUFFICES ASSUME BuildAssumption, IInv, Reader PROVE Fifo!Next \/ UNCHANGED Fifo!vars
  OBVIOUS
<1> USE DEF wvars
<1>1. wsrc' = wsrc
  BY DEF Reader, ReadCall, DropCall, ReaderCall, ReadTooShort, ReadEnough, ReadTailLoad, ReadStart,
     ReadByte, ReadPublish, DropClip, DropAdvance, DropFix
<1>2. /\ TypeOK /\ Used \in 0..BufferSize /\ Len(Contents) = Used
      /\ BufferSize \in Nat /\ Pos(m_head) \in Address /\ rdest \in Seq(Byte)
  BY Positions, ContentsFacts DEF IInv, TypeOK
<1>3. CASE ReadCall \/ DropCall
  <2>1. Contents' = Contents
    BY <1>3, SameContents DEF ReadCall, DropCall, ReaderCall
  <2>2. Delivered' = <<>>
    BY <1>3 DEF ReadCall, DropCall, ReaderCall, Delivered
  <2>3. Fifo!Take
    BY <1>1, <2>1, <2>2 DEF Fifo!Take
  <2> QED
    BY <2>3 DEF Fifo!Next
<1>4. CASE ReadTooShort \/ ReadEnough \/ ReadTailLoad \/ ReadStart \/ ReadByte \/ DropClip
  <2>1. Contents' = Contents
    BY <1>4, SameContents DEF ReadTooShort, ReadEnough, ReadTailLoad, ReadStart, ReadByte, DropClip
  <2>2. Delivered' = Delivered
    BY <1>4 DEF ReadTooShort, ReadEnough, ReadTailLoad, ReadStart, ReadByte, DropClip,
       Delivered, IInv, ReaderInv
  <2> QED
    BY <1>1, <2>1, <2>2 DEF Fifo!vars
<1>5. CASE ReadPublish
  <2> DEFINE d == Len(rdest)
  <2>1. /\ d \in 0..Used
        /\ Pos(m_head') = Slot(Pos(m_head), d)
        /\ rdest = SubSeq(Contents, 1, d)
        /\ UNCHANGED <<mem, m_tail>>
        /\ Delivered = <<>> /\ Delivered' = rdest
    <3>1. rcount \in Nat /\ d \in Nat /\ d + rcount <= Used /\ Norm(rhead) = Slot(Pos(m_head), d)
      BY <1>2, <1>5 DEF ReadPublish, IInv, TypeOK, ReaderInv
    <3>2. Pos(m_head') = Norm(rhead)
      BY <1>5, SizeAssumption DEF ReadPublish, IInv, TypeOK, Pos, Norm, m_tail_address
    <3>3. rdest = SubSeq(Contents, 1, d)
      BY <1>5, CopiedIsFront DEF ReadPublish, ReaderSeesPublishedBytes
    <3> QED
      BY <3>1, <3>2, <3>3, <1>2, <1>5 DEF ReadPublish, Delivered
  <2>2. /\ Contents' = SubSeq(Contents, d + 1, Len(Contents))
        /\ d = 0 => Contents' = Contents
    BY <2>1, <1>2, ContentsShrink
  <2>3. CASE d = 0
    <3>1. rdest = <<>>
      BY <2>3, <1>2, EmptySeq
    <3> QED
      BY <3>1, <2>1, <2>2, <2>3, <1>1 DEF Fifo!vars
  <2>4. CASE d # 0
    <3>1. d \in 1..Len(Contents)
      BY <2>1, <2>4, <1>2
    <3>2. Fifo!Read(d)
      BY <2>1, <2>2, <1>1 DEF Fifo!Read
    <3> QED
      BY <3>1, <3>2 DEF Fifo!Next
  <2> QED
    BY <2>3, <2>4
<1>6. CASE DropAdvance \/ DropFix
  <2>1. PICK k \in 0..Used : Pos(m_head') = Slot(Pos(m_head), k)
    BY <1>6, DropMoves DEF IInv, PositionInv
  <2>2. /\ Contents' = SubSeq(Contents, k + 1, Len(Contents))
        /\ k = 0 => Contents' = Contents
    BY <2>1, <1>2, <1>6, ContentsShrink DEF DropAdvance, DropFix
  <2>3. Delivered' = Delivered
    BY <1>6 DEF DropAdvance, DropFix, Delivered, IInv, ReaderInv
  <2>4. CASE k = 0
    BY <2>2, <2>3, <2>4, <1>1 DEF Fifo!vars
  <2>5. CASE k # 0
    <3>1. k \in 1..Len(Contents)
      BY <2>5, <1>2
    <3>2. Fifo!Drop(k)
      BY <2>2, <2>3, <1>1 DEF Fifo!Drop
    <3> QED
      BY <3>1, <3>2 DEF Fifo!Next
  <2> QED
    BY <2>4, <2>5
<1> QED
  BY <1>3, <1>4, <1>5, <1>6 DEF Reader

(* The two halves of the implementation meet at the three stores that move *)
(* a shared pointer; everything else is invisible to the FIFO.             *)
THEOREM RingIsFifo == ASSUME BuildAssumption PROVE Spec => FifoSpec
<1>1. Init => Fifo!Init
  <2> SUFFICES ASSUME Init PROVE Fifo!Init
    OBVIOUS
  <2>1. Used = 0
    BY SizeAssumption DEF Init, Used, UsedLen, Pos
  <2>2. Contents = <<>>
    BY <2>1 DEF Contents
  <2> QED
    BY <2>2 DEF Init, Delivered, Fifo!Init
<1>2. IInv /\ [Next]_vars => [Fifo!Next]_Fifo!vars
  <2> SUFFICES ASSUME IInv, [Next]_vars PROVE [Fifo!Next]_Fifo!vars
    OBVIOUS
  <2>1. CASE UNCHANGED vars
    <3>1. Contents' = Contents /\ Delivered' = Delivered /\ wsrc' = wsrc
      BY <2>1, SameContents DEF vars, rvars, wvars, Delivered
    <3> QED
      BY <3>1 DEF Fifo!vars
  <2> QED
    BY <2>1, WriterRefines, ReaderRefines DEF Next
<1> QED
  BY <1>1, <1>2, Invariance, PTL DEF Spec, FifoSpec, Fifo!Spec

-----------------------------------------------------------------------------
(***************************************************************************)
(* The methods called alone: CircleBufferOps.                              *)
(***************************************************************************)

(* The two positions and the two lengths of a ring.                        *)
LEMMA Places ==
  ASSUME Ops!TypeOK
  PROVE  /\ m_buffer_size \in Nat
         /\ allocated => m_buffer_size > 0 /\ Ops!m_tail_address = m_buffer_size + 1
         /\ ~ allocated => m_buffer_size = 0 /\ Ops!m_tail_address = 0 /\ m_head = 0 /\ m_tail = 0
         /\ Ops!head \in Ops!Address /\ Ops!tail \in Ops!Address
         /\ Ops!UsedLen \in 0..m_buffer_size /\ Ops!AvailableLen = m_buffer_size - Ops!UsedLen
         /\ Ops!tail = Ops!Slot(Ops!head, Ops!UsedLen)
<1>1. m_buffer_size \in Nat /\ (m_buffer_size = 0 \/ m_buffer_size > 0)
  BY OpsAssumption DEF Ops!TypeOK
<1>2. CASE allocated
  <2>1. m_buffer_size > 0 /\ Ops!m_tail_address = m_buffer_size + 1
    BY <1>1, <1>2 DEF Ops!TypeOK, Ops!m_tail_address
  <2>2. m_head \in 0..(m_buffer_size + 1) /\ m_tail \in 0..(m_buffer_size + 1)
    BY <2>1 DEF Ops!TypeOK
  <2>3. Ops!head \in 0..m_buffer_size /\ Ops!tail \in 0..m_buffer_size
    BY <1>1, <2>1, <2>2 DEF Ops!head, Ops!tail
  <2>4. Ops!UsedLen \in 0..m_buffer_size /\ Ops!AvailableLen = m_buffer_size - Ops!UsedLen
    BY <1>1, <2>3 DEF Ops!UsedLen, Ops!vtail, Ops!AvailableLen
  <2>5. Ops!tail = Ops!Slot(Ops!head, Ops!UsedLen)
    BY <1>1, <2>3 DEF Ops!UsedLen, Ops!vtail, Ops!Slot
  <2> QED
    BY <1>1, <1>2, <2>1, <2>3, <2>4, <2>5 DEF Ops!Address
<1>3. CASE ~ allocated
  <2>1. m_buffer_size = 0 /\ Ops!m_tail_address = 0
    BY <1>3 DEF Ops!TypeOK, Ops!m_tail_address
  <2>2. m_head = 0 /\ m_tail = 0
    BY <2>1 DEF Ops!TypeOK
  <2>3. Ops!head = 0 /\ Ops!tail = 0
    BY <2>1, <2>2 DEF Ops!head, Ops!tail
  <2>4. Ops!UsedLen = 0 /\ Ops!AvailableLen = 0
    BY <2>1, <2>3 DEF Ops!UsedLen, Ops!vtail, Ops!AvailableLen
  <2> QED
    BY <1>3, <2>1, <2>2, <2>3, <2>4 DEF Ops!Slot, Ops!Address
<1> QED
  BY <1>2, <1>3

(* Around the ring, by places.                                             *)
LEMMA Around ==
  ASSUME Ops!TypeOK, NEW a \in Ops!Address, NEW i \in 0..m_buffer_size
  PROVE  /\ Ops!Slot(a, i) \in Ops!Address
         /\ \A j \in 0..(m_buffer_size - i) : Ops!Slot(Ops!Slot(a, i), j) = Ops!Slot(a, i + j)
         /\ \A j \in 0..m_buffer_size : Ops!Slot(a, i) = Ops!Slot(a, j) => i = j
         /\ allocated => Ops!Slot(a, i) = Ops!Wrapped(a + i)
         /\ mem[Ops!Slot(a, i)] \in Byte
<1>1. m_buffer_size \in Nat /\ a \in 0..m_buffer_size
  BY Places DEF Ops!Address
<1>2. Ops!Slot(a, i) \in 0..m_buffer_size
  BY <1>1 DEF Ops!Slot
<1>3. \A j \in 0..(m_buffer_size - i) : Ops!Slot(Ops!Slot(a, i), j) = Ops!Slot(a, i + j)
  BY <1>1 DEF Ops!Slot
<1>4. \A j \in 0..m_buffer_size : Ops!Slot(a, i) = Ops!Slot(a, j) => i = j
  BY <1>1 DEF Ops!Slot
<1>5. allocated => Ops!Slot(a, i) = Ops!Wrapped(a + i)
  BY <1>1, Places DEF Ops!Slot, Ops!Wrapped
<1>6. mem[Ops!Slot(a, i)] \in Byte
  BY <1>2 DEF Ops!TypeOK, Ops!Address
<1> QED
  BY <1>2, <1>3, <1>4, <1>5, <1>6 DEF Ops!Address

-----------------------------------------------------------------------------
(* Every call leaves the ring well formed.                                 *)

LEMMA InitTypeOK == Ops!Init => Ops!TypeOK
<1> SUFFICES ASSUME Ops!Init PROVE Ops!TypeOK
  OBVIOUS
<1>1. allocated = FALSE /\ m_buffer_size = 0 /\ m_head = 0 /\ m_tail = 0 /\ result = 0
  BY DEF Ops!Init
<1>2. mem \in [Ops!Address -> Byte]
  BY OpsAssumption DEF Ops!Init, Ops!Address
<1>3. Ops!m_tail_address = 0
  BY <1>1 DEF Ops!m_tail_address
<1>4. Ops!head = 0 /\ Ops!tail = 0
  BY <1>1, <1>3 DEF Ops!head, Ops!tail
<1>5. Ops!UsedLen + Ops!AvailableLen = m_buffer_size
  BY <1>1, <1>4 DEF Ops!UsedLen, Ops!vtail, Ops!AvailableLen
<1>6. result \in 0..(MaxBlock + 1) /\ m_head \in 0..Ops!m_tail_address /\ m_tail \in 0..Ops!m_tail_address
  BY OpsAssumption, <1>1, <1>3
<1>7. allocated \in BOOLEAN /\ (allocated <=> m_buffer_size # 0) /\ m_buffer_size \in Sizes \cup {0}
  BY <1>1
<1> QED
  BY <1>2, <1>5, <1>6, <1>7, Zenon DEF Ops!TypeOK

(* Emptied, the ring is well formed.                                       *)
LEMMA FreeTypeOK ==
  ASSUME Ops!TypeOK, Ops!Free \/ Ops!Reset \/ \E size \in Sizes : Ops!Alloc(size)
  PROVE  Ops!TypeOK' /\ Ops!Contents' = <<>>
<1> DEFINE Emptied == /\ m_buffer_size' \in Sizes \cup {0} /\ allocated' \in BOOLEAN /\ (allocated' <=> m_buffer_size' # 0)
                      /\ m_head' = 0 /\ m_tail' = 0 /\ result' = result
<1>1. Emptied
  <2>1. CASE Ops!Free
    BY <2>1 DEF Ops!Free
  <2>2. CASE Ops!Reset
    BY <2>2 DEF Ops!Reset, Ops!TypeOK
  <2>3. ASSUME NEW size \in Sizes, Ops!Alloc(size) PROVE Emptied
    <3>1. allocated' = TRUE /\ m_buffer_size' = size /\ m_head' = 0 /\ m_tail' = 0 /\ result' = result
      BY <2>3 DEF Ops!Alloc
    <3>2. size # 0
      BY OpsAssumption
    <3> QED
      BY <3>1, <3>2
  <2> QED
    BY <2>1, <2>2, <2>3
<1>2. mem' \in [Ops!Address' -> Byte]
  <2>1. CASE Ops!Free
    BY OpsAssumption, <2>1 DEF Ops!Free, Ops!Address
  <2>2. CASE Ops!Reset
    BY <2>2 DEF Ops!Reset, Ops!TypeOK, Ops!Address
  <2>3. ASSUME NEW size \in Sizes, Ops!Alloc(size) PROVE mem' \in [Ops!Address' -> Byte]
    <3>1. m_buffer_size' = size /\ mem' \in IF size = m_buffer_size THEN {mem} ELSE [0..size -> Byte]
      BY <2>3 DEF Ops!Alloc
    <3> QED
      BY <3>1 DEF Ops!TypeOK, Ops!Address
  <2> QED
    BY <2>1, <2>2, <2>3
<1>3. result' \in 0..(MaxBlock + 1)
  BY <1>1 DEF Ops!TypeOK
<1>4. m_buffer_size' \in Nat /\ m_head' = 0 /\ m_tail' = 0
  BY OpsAssumption, <1>1
<1> HIDE DEF Emptied
<1>5. Ops!m_tail_address' \in Nat
  <2>1. Ops!m_tail_address' = m_buffer_size' + 1 \/ Ops!m_tail_address' = 0
    BY Zenon DEF Ops!m_tail_address
  <2> QED
    BY <1>4, <2>1
<1>6. Ops!head' = 0 /\ Ops!tail' = 0
  BY <1>4, <1>5 DEF Ops!head, Ops!tail
<1>7. Ops!UsedLen' = 0 /\ Ops!AvailableLen' = m_buffer_size'
  BY <1>4, <1>6 DEF Ops!UsedLen, Ops!vtail, Ops!AvailableLen
<1>8. m_head' \in 0..Ops!m_tail_address' /\ m_tail' \in 0..Ops!m_tail_address'
  BY <1>4, <1>5
<1>9. Ops!UsedLen' + Ops!AvailableLen' = m_buffer_size'
  <2>1. \A k \in Nat : 0 + k = k
    OBVIOUS
  <2> QED
    BY <1>4, <1>7, <2>1, ZenonT(40)
<1>10. Ops!TypeOK'
  BY <1>1, <1>2, <1>3, <1>8, <1>9 DEF Emptied, Ops!TypeOK
<1> QED
  BY <1>7, <1>10 DEF Ops!Contents

(* A refused call changes nothing but the result.                          *)
LEMMA RefusedTypeOK ==
  ASSUME Ops!TypeOK,
         \/ \E src \in Ops!Block : Ops!WriteRefused(src)
         \/ \E count \in 0..(MaxBlock + 1) : Ops!ReadRefused(count)
         \/ UNCHANGED Ops!vars
  PROVE  Ops!TypeOK' /\ Ops!Contents' = Ops!Contents
<1>1. UNCHANGED <<allocated, m_buffer_size, mem, m_head, m_tail>> /\ result' \in {0, result}
  BY DEF Ops!WriteRefused, Ops!ReadRefused, Ops!vars
<1>2. Ops!TypeOK'
  BY OpsAssumption, <1>1 DEF Ops!TypeOK, Ops!Address, Ops!m_tail_address, Ops!head, Ops!tail, Ops!vtail, Ops!UsedLen, Ops!AvailableLen
<1>3. Ops!Contents' = Ops!Contents
  BY <1>1 DEF Ops!Contents, Ops!UsedLen, Ops!vtail, Ops!head, Ops!tail, Ops!m_tail_address, Ops!Slot
<1> QED
  BY <1>2, <1>3

(* write() appends its block.                                              *)
LEMMA WritePositions ==
  ASSUME Ops!TypeOK, NEW src \in Ops!Block, Ops!Write(src)
  PROVE  /\ Ops!TypeOK'
         /\ Ops!head' = Ops!head /\ Ops!UsedLen' = Ops!UsedLen + Len(src) /\ m_buffer_size' = m_buffer_size
         /\ \A i \in 0..(Ops!UsedLen - 1) : mem'[Ops!Slot(Ops!head, i)] = mem[Ops!Slot(Ops!head, i)]
         /\ \A i \in 0..(Len(src) - 1) : mem'[Ops!Slot(Ops!tail, i)] = src[i + 1]
<1>1. src \in Seq(Byte) /\ Len(src) \in 1..Ops!AvailableLen
  BY DEF Ops!Write, Ops!Block, Ops!SeqOf
<1>2. UNCHANGED <<allocated, m_buffer_size, m_head>> /\ result' = 1
  BY DEF Ops!Write
<1>3. allocated
  BY <1>1, Places
<1>4. PICK n \in Nat : n = Len(src)
  BY <1>1
<1>5. m_tail' = IF Ops!tail + n <= Ops!m_tail_address THEN Ops!tail + n ELSE Ops!tail + n - Ops!m_tail_address
  BY <1>4 DEF Ops!Write
<1>51. m_buffer_size \in Nat /\ Ops!m_tail_address = m_buffer_size + 1 /\ Ops!tail \in 0..m_buffer_size /\ n \in 1..m_buffer_size
  BY <1>1, <1>3, <1>4, Places DEF Ops!Address
<1>6. Ops!head' = Ops!head /\ Ops!tail' = Ops!Slot(Ops!tail, n) /\ Ops!m_tail_address' = Ops!m_tail_address
  <2>1. Ops!head' = Ops!head /\ Ops!m_tail_address' = Ops!m_tail_address
    BY <1>2 DEF Ops!head, Ops!m_tail_address
  <2>2. Ops!tail' = IF m_tail' < Ops!m_tail_address THEN m_tail' ELSE 0
    BY <1>2, <2>1 DEF Ops!tail
  <2>3. Ops!tail' = Ops!Slot(Ops!tail, n)
    BY <1>5, <1>51, <2>2 DEF Ops!Slot
  <2> QED
    BY <2>1, <2>3
<1>7. mem' = [a \in Ops!Address |->
                IF a \in Ops!tail..(Ops!tail + n - 1) THEN src[a - Ops!tail + 1]
                ELSE IF a < Ops!tail + n - Ops!m_tail_address THEN src[a + Ops!m_tail_address - Ops!tail + 1]
                ELSE mem[a]]
  BY <1>4 DEF Ops!Write
<1>71. m_buffer_size \in Nat /\ Ops!m_tail_address = m_buffer_size + 1 /\ Ops!head \in Ops!Address /\ Ops!tail \in Ops!Address
       /\ n \in 1..(m_buffer_size - Ops!UsedLen) /\ Ops!UsedLen \in 0..m_buffer_size /\ Ops!tail = Ops!Slot(Ops!head, Ops!UsedLen)
  BY <1>1, <1>3, <1>4, Places
<1>72. \A k \in 1..n : src[k] \in Byte
  BY <1>1, <1>4
<1>8. mem' \in [Ops!Address -> Byte]
  <2>1. ASSUME NEW a \in Ops!Address PROVE mem'[a] \in Byte
    <3>1. mem[a] \in Byte
      BY DEF Ops!TypeOK
    <3>2. a \in Ops!tail..(Ops!tail + n - 1) => a - Ops!tail + 1 \in 1..n
      BY <1>71 DEF Ops!Address
    <3>3. a < Ops!tail + n - Ops!m_tail_address => a + Ops!m_tail_address - Ops!tail + 1 \in 1..n
      BY <1>71 DEF Ops!Address
    <3> QED
      BY <1>7, <1>72, <3>1, <3>2, <3>3
  <2> QED
    BY <1>7, <2>1
<1>9. Ops!UsedLen' = Ops!UsedLen + n /\ Ops!AvailableLen' = Ops!AvailableLen - n
  <2>1. \/ Ops!head <= Ops!tail /\ Ops!UsedLen = Ops!tail - Ops!head
        \/ Ops!head > Ops!tail /\ Ops!UsedLen = Ops!tail + m_buffer_size + 1 - Ops!head
    BY <1>71 DEF Ops!UsedLen, Ops!vtail, Ops!Address
  <2>2. \/ Ops!tail + n <= m_buffer_size /\ Ops!tail' = Ops!tail + n
        \/ Ops!tail + n > m_buffer_size /\ Ops!tail' = Ops!tail + n - (m_buffer_size + 1)
    BY <1>6, <1>71 DEF Ops!Slot, Ops!Address
  <2>3. Ops!UsedLen' = IF Ops!tail' >= Ops!head THEN Ops!tail' - Ops!head ELSE Ops!tail' + m_buffer_size + 1 - Ops!head
    BY <1>2, <1>6, <1>71, <2>2 DEF Ops!UsedLen, Ops!vtail, Ops!Address
  <2>4. Ops!UsedLen' = Ops!UsedLen + n
    BY <1>71, <2>1, <2>2, <2>3 DEF Ops!Address
  <2>5. Ops!head # Ops!tail'
    BY <1>71, <2>1, <2>2 DEF Ops!Address
  <2> QED
    BY <1>2, <1>6, <1>71, <2>4, <2>5, Places DEF Ops!AvailableLen
<1>10. m_tail' \in 0..Ops!m_tail_address
  BY <1>1, <1>3, <1>4, <1>5, Places DEF Ops!Address
<1>11. result' \in 0..(MaxBlock + 1)
  BY OpsAssumption, <1>2
<1>12. Ops!TypeOK'
  <2>1. Ops!Address' = Ops!Address
    BY <1>2 DEF Ops!Address
  <2>2. Ops!UsedLen' + Ops!AvailableLen' = m_buffer_size
    BY <1>4, <1>9, <1>51, Places
  <2> QED
    BY <1>2, <1>6, <1>8, <1>10, <1>11, <2>1, <2>2 DEF Ops!TypeOK
<1>13. ASSUME NEW i \in 0..(Ops!UsedLen - 1) PROVE mem'[Ops!Slot(Ops!head, i)] = mem[Ops!Slot(Ops!head, i)]
  <2>1. PICK a \in Ops!Address : a = Ops!Slot(Ops!head, i)
    BY <1>71, Around
  <2>2. ~ (a \in Ops!tail..(Ops!tail + n - 1)) /\ ~ (a < Ops!tail + n - Ops!m_tail_address)
    BY <1>71, <2>1 DEF Ops!Slot, Ops!Address
  <2> QED
    BY <1>7, <2>1, <2>2
<1>14. ASSUME NEW i \in 0..(n - 1) PROVE mem'[Ops!Slot(Ops!tail, i)] = src[i + 1]
  <2>1. PICK a \in Ops!Address : a = Ops!Slot(Ops!tail, i)
    BY <1>71, Around
  <2>2. CASE Ops!tail + i <= m_buffer_size
    <3>1. a \in Ops!tail..(Ops!tail + n - 1) /\ a - Ops!tail + 1 = i + 1
      BY <1>71, <2>1, <2>2 DEF Ops!Slot, Ops!Address
    <3> QED
      BY <1>7, <2>1, <3>1
  <2>3. CASE Ops!tail + i > m_buffer_size
    <3>1. ~ (a \in Ops!tail..(Ops!tail + n - 1)) /\ a < Ops!tail + n - Ops!m_tail_address /\ a + Ops!m_tail_address - Ops!tail + 1 = i + 1
      BY <1>71, <2>1, <2>3 DEF Ops!Slot, Ops!Address
    <3> QED
      BY <1>7, <2>1, <3>1
  <2> QED
    BY <1>71, <2>2, <2>3 DEF Ops!Address
<1> QED
  BY <1>2, <1>4, <1>6, <1>9, <1>12, <1>13, <1>14

(* read() takes its bytes from the front, and so does dec_data_len().      *)
LEMMA ReadPositions ==
  ASSUME Ops!TypeOK, NEW count \in 0..(MaxBlock + 1), Ops!Read(count) \/ Ops!DecDataLen(count)
  PROVE  /\ Ops!TypeOK'
         /\ UNCHANGED <<m_buffer_size, mem>>
         /\ \E n \in 0..Ops!UsedLen : Ops!head' = Ops!Slot(Ops!head, n) /\ Ops!UsedLen' = Ops!UsedLen - n
<1>1. UNCHANGED <<allocated, m_buffer_size, mem, m_tail>> /\ result' \in {result, count}
  BY DEF Ops!Read, Ops!DecDataLen
<1>2. PICK n \in 0..Ops!UsedLen : m_head' \in 0..Ops!m_tail_address /\ Ops!head' = Ops!Slot(Ops!head, n)
  <2>1. CASE Ops!Read(count)
    <3>1. count \in 1..Ops!UsedLen /\ allocated
      BY <2>1, Places DEF Ops!Read
    <3>2. m_head' = IF Ops!head + count <= Ops!m_tail_address THEN Ops!head + count ELSE Ops!head + count - Ops!m_tail_address
      BY <2>1 DEF Ops!Read
    <3>3. m_head' \in 0..Ops!m_tail_address
      BY <3>1, <3>2, Places DEF Ops!Address
    <3>4. Ops!head' = Ops!Slot(Ops!head, count)
      BY <1>1, <3>1, <3>2, Places DEF Ops!head, Ops!Slot, Ops!m_tail_address, Ops!Address
    <3> QED
      BY <3>1, <3>3, <3>4
  <2>2. CASE Ops!DecDataLen(count)
    <3>1. allocated /\ count > 0 /\ m_head' = Ops!Wrapped(m_head + Ops!LesserOf(count, Ops!UsedLen))
      BY <2>2 DEF Ops!DecDataLen
    <3>2. PICK n \in 0..Ops!UsedLen : n = Ops!LesserOf(count, Ops!UsedLen)
      BY OpsAssumption, Places DEF Ops!LesserOf
    <3>3. m_head' = Ops!Wrapped(m_head + n)
      BY <3>1, <3>2
    <3>4. m_head' \in 0..m_buffer_size
      BY <3>1, <3>3, Places DEF Ops!TypeOK, Ops!Wrapped
    <3>5. m_head' = Ops!Slot(Ops!head, n)
      BY <3>1, <3>3, Places DEF Ops!TypeOK, Ops!Wrapped, Ops!Slot, Ops!head
    <3>6. Ops!head' = m_head' /\ m_head' \in 0..Ops!m_tail_address
      BY <1>1, <3>1, <3>4, Places DEF Ops!head, Ops!m_tail_address
    <3> QED
      BY <3>5, <3>6
  <2> QED
    BY <2>1, <2>2
<1>3. Ops!tail' = Ops!tail /\ Ops!m_tail_address' = Ops!m_tail_address
  BY <1>1 DEF Ops!tail, Ops!m_tail_address
<1>4. Ops!UsedLen' = Ops!UsedLen - n /\ Ops!AvailableLen' = m_buffer_size - Ops!UsedLen'
  BY <1>1, <1>2, <1>3, Places DEF Ops!UsedLen, Ops!AvailableLen, Ops!vtail, Ops!Slot, Ops!Address
<1>5. Ops!TypeOK'
  <2>1. Ops!Address' = Ops!Address /\ result' \in 0..(MaxBlock + 1)
    BY <1>1 DEF Ops!TypeOK, Ops!Address
  <2>2. Ops!UsedLen' + Ops!AvailableLen' = m_buffer_size
    BY <1>4, Places
  <2> QED
    BY <1>1, <1>2, <1>3, <2>1, <2>2 DEF Ops!TypeOK
<1> QED
  BY <1>1, <1>2, <1>4, <1>5

(* inc_data_len() appends what is in the memory.                           *)
LEMMA IncPositions ==
  ASSUME Ops!TypeOK, NEW count \in 0..(MaxBlock + 1), Ops!IncDataLen(count)
  PROVE  /\ Ops!TypeOK'
         /\ UNCHANGED <<m_buffer_size, mem>>
         /\ Ops!head' = Ops!head /\ Ops!UsedLen' = Ops!UsedLen + count /\ count <= Ops!AvailableLen
<1>1. /\ allocated /\ count \in 1..Ops!AvailableLen /\ m_tail' = Ops!Wrapped(m_tail + count)
      /\ UNCHANGED <<allocated, m_buffer_size, mem, m_head, result>>
  BY DEF Ops!IncDataLen
<1>2. m_tail' \in 0..m_buffer_size
  BY <1>1, Places DEF Ops!TypeOK, Ops!Wrapped
<1>3. m_tail' = Ops!Slot(Ops!tail, count)
  BY <1>1, Places DEF Ops!TypeOK, Ops!Wrapped, Ops!Slot, Ops!tail
<1>4. Ops!tail' = Ops!Slot(Ops!tail, count) /\ Ops!head' = Ops!head /\ Ops!m_tail_address' = Ops!m_tail_address
  BY <1>1, <1>2, <1>3, Places DEF Ops!tail, Ops!head, Ops!m_tail_address
<1>5. Ops!UsedLen' = Ops!UsedLen + count /\ Ops!AvailableLen' = m_buffer_size - Ops!UsedLen'
  <2>1. /\ m_buffer_size \in Nat /\ Ops!head \in 0..m_buffer_size /\ Ops!tail \in 0..m_buffer_size
        /\ count \in 1..(m_buffer_size - Ops!UsedLen)
    BY <1>1, Places DEF Ops!Address
  <2>2. Ops!UsedLen = IF Ops!tail >= Ops!head THEN Ops!tail - Ops!head ELSE Ops!tail + m_buffer_size + 1 - Ops!head
    BY <2>1 DEF Ops!UsedLen, Ops!vtail
  <2>3. Ops!tail' = IF Ops!tail + count <= m_buffer_size THEN Ops!tail + count ELSE Ops!tail + count - (m_buffer_size + 1)
    BY <1>4 DEF Ops!Slot
  <2>4. Ops!UsedLen' = IF Ops!tail' >= Ops!head THEN Ops!tail' - Ops!head ELSE Ops!tail' + m_buffer_size + 1 - Ops!head
    BY <1>1, <1>4, <2>1, <2>3 DEF Ops!UsedLen, Ops!vtail
  <2>5. Ops!UsedLen' = Ops!UsedLen + count /\ Ops!head # Ops!tail'
    BY <2>1, <2>2, <2>3, <2>4
  <2> QED
    BY <1>1, <1>4, <2>5 DEF Ops!AvailableLen
<1>6. Ops!TypeOK'
  <2>1. Ops!Address' = Ops!Address
    BY <1>1 DEF Ops!Address
  <2>2. Ops!UsedLen' + Ops!AvailableLen' = m_buffer_size /\ m_tail' \in 0..Ops!m_tail_address
    BY <1>1, <1>2, <1>5, Places
  <2> QED
    BY <1>1, <1>4, <2>1, <2>2 DEF Ops!TypeOK
<1> QED
  BY <1>1, <1>4, <1>5, <1>6

-----------------------------------------------------------------------------
(* The contents of a well-formed ring, place by place.                     *)
LEMMA ContentsAt ==
  ASSUME Ops!TypeOK
  PROVE  /\ Ops!Contents \in [1..Ops!UsedLen -> Byte] /\ Ops!Contents \in Seq(Byte) /\ Len(Ops!Contents) = Ops!UsedLen
         /\ \A i \in 1..Ops!UsedLen : Ops!Contents[i] = mem[Ops!Slot(Ops!head, i - 1)]
<1>1. Ops!UsedLen \in Nat /\ Ops!UsedLen <= m_buffer_size /\ Ops!head \in Ops!Address
  BY Places
<1>2. ASSUME NEW i \in 1..Ops!UsedLen PROVE mem[Ops!Slot(Ops!head, i - 1)] \in Byte
  <2>1. i - 1 \in 0..m_buffer_size
    BY <1>1, Places
  <2> QED
    BY <1>1, <2>1, Around
<1>3. Ops!Contents \in [1..Ops!UsedLen -> Byte]
  BY <1>2 DEF Ops!Contents
<1>4. Ops!Contents \in Seq(Byte) /\ Len(Ops!Contents) = Ops!UsedLen
  BY <1>1, <1>3
<1> QED
  BY <1>3, <1>4 DEF Ops!Contents

(* Two sequences put together, place by place.                             *)
LEMMA Joined ==
  ASSUME NEW S, NEW s \in Seq(S), NEW t \in Seq(S), NEW m \in Nat, m = Len(s), NEW n \in Nat, n = Len(t)
  PROVE  s \o t = [i \in 1..(m + n) |-> IF i <= m THEN s[i] ELSE t[i - m]]
<1>1. s \o t \in Seq(S) /\ Len(s \o t) = m + n
  BY ConcatProperties
<1>2. \A i \in 1..(m + n) : (s \o t)[i] = IF i <= m THEN s[i] ELSE t[i - m]
  BY ConcatProperties
<1>3. s \o t = [i \in 1..(m + n) |-> (s \o t)[i]]
  <2>1. PICK w \in Seq(S) : w = s \o t
    BY <1>1
  <2>2. w \in [1..Len(w) -> S]
    BY LenProperties
  <2> QED
    BY <1>1, <2>1, <2>2
<1> QED
  BY <1>2, <1>3

(* The three ways in which contents change.                                *)
LEMMA WriteAppends ==
  ASSUME Ops!TypeOK, NEW src \in Ops!Block, Ops!Write(src)
  PROVE  Ops!Contents' = Ops!Contents \o src
<1>1. PICK n \in Nat : n = Len(src)
  BY DEF Ops!Block, Ops!SeqOf
<1>2. src \in Seq(Byte)
  BY DEF Ops!Block, Ops!SeqOf
<1>3. Ops!UsedLen \in Nat /\ Len(Ops!Contents) = Ops!UsedLen /\ Ops!UsedLen' = Ops!UsedLen + n /\ n \in 1..(m_buffer_size - Ops!UsedLen)
  <2>1. n \in 1..Ops!AvailableLen /\ Ops!UsedLen' = Ops!UsedLen + n
    BY <1>1, WritePositions DEF Ops!Write
  <2>2. Ops!UsedLen \in Nat /\ Ops!AvailableLen = m_buffer_size - Ops!UsedLen /\ Len(Ops!Contents) = Ops!UsedLen
    BY Places, ContentsAt
  <2> QED
    BY <2>1, <2>2
<1>4. ASSUME NEW i \in 1..(Ops!UsedLen + n)
      PROVE  mem'[Ops!Slot(Ops!head, i - 1)] = IF i <= Ops!UsedLen THEN Ops!Contents[i] ELSE src[i - Ops!UsedLen]
  <2>1. CASE i <= Ops!UsedLen
    <3>1. i \in 1..Ops!UsedLen /\ i - 1 \in 0..(Ops!UsedLen - 1)
      BY <1>3, <2>1
    <3>2. mem'[Ops!Slot(Ops!head, i - 1)] = mem[Ops!Slot(Ops!head, i - 1)]
      BY <3>1, WritePositions
    <3>3. mem[Ops!Slot(Ops!head, i - 1)] = Ops!Contents[i]
      BY <3>1, ContentsAt
    <3> QED
      BY <2>1, <3>2, <3>3
  <2>2. CASE i > Ops!UsedLen
    <3>1. PICK j \in 0..(n - 1) : i = Ops!UsedLen + j + 1
      BY <1>3, <2>2
    <3>2. Ops!Slot(Ops!head, i - 1) = Ops!Slot(Ops!tail, j)
      <4>1. Ops!UsedLen \in 0..m_buffer_size /\ j \in 0..(m_buffer_size - Ops!UsedLen) /\ i - 1 = Ops!UsedLen + j
        BY <1>3, <3>1, Places
      <4>2. Ops!head \in Ops!Address /\ Ops!tail = Ops!Slot(Ops!head, Ops!UsedLen)
        BY Places
      <4>3. Ops!Slot(Ops!Slot(Ops!head, Ops!UsedLen), j) = Ops!Slot(Ops!head, Ops!UsedLen + j)
        BY <4>1, <4>2, Around, ZenonT(40)
      <4> QED
        BY <4>1, <4>2, <4>3
    <3>3. mem'[Ops!Slot(Ops!tail, j)] = src[j + 1]
      BY <1>1, <3>1, WritePositions
    <3> QED
      BY <1>3, <2>2, <3>1, <3>2, <3>3
  <2> QED
    BY <1>3, <2>1, <2>2
<1>5. Ops!head' = Ops!head /\ m_buffer_size' = m_buffer_size
  BY WritePositions
<1>6. Ops!Contents' = [i \in 1..(Ops!UsedLen + n) |-> mem'[Ops!Slot(Ops!head, i - 1)]]
  BY <1>3, <1>5 DEF Ops!Contents, Ops!Slot
<1>7. Ops!Contents \o src = [i \in 1..(Ops!UsedLen + n) |-> IF i <= Ops!UsedLen THEN Ops!Contents[i] ELSE src[i - Ops!UsedLen]]
  <2>1. Ops!Contents \in Seq(Byte) /\ Len(Ops!Contents) = Ops!UsedLen /\ Ops!UsedLen \in Nat
    BY <1>3, ContentsAt
  <2>2. src \in Seq(Byte) /\ Len(src) = n /\ n \in Nat
    BY <1>1, <1>2
  <2> QED
    BY <2>1, <2>2, Joined
<1> QED
  BY <1>4, <1>6, <1>7

LEMMA ReadDrops ==
  ASSUME Ops!TypeOK, NEW count \in 0..(MaxBlock + 1), Ops!Read(count) \/ Ops!DecDataLen(count)
  PROVE  \E n \in 0..Ops!UsedLen : Ops!Contents' = SubSeq(Ops!Contents, n + 1, Ops!UsedLen)
<1>1. PICK n \in 0..Ops!UsedLen : Ops!head' = Ops!Slot(Ops!head, n) /\ Ops!UsedLen' = Ops!UsedLen - n
  BY ReadPositions
<1>2. m_buffer_size' = m_buffer_size /\ mem' = mem
  BY ReadPositions
<1>3. Ops!UsedLen \in 0..m_buffer_size /\ m_buffer_size \in Nat /\ Ops!head \in Ops!Address
  BY Places
<1>4. Ops!Contents' = [i \in 1..(Ops!UsedLen - n) |-> mem[Ops!Slot(Ops!Slot(Ops!head, n), i - 1)]]
  BY <1>1, <1>2 DEF Ops!Contents, Ops!Slot
<1>5. ASSUME NEW i \in 1..(Ops!UsedLen - n) PROVE mem[Ops!Slot(Ops!Slot(Ops!head, n), i - 1)] = Ops!Contents[n + i]
  <2>1. n \in 0..m_buffer_size /\ i - 1 \in 0..(m_buffer_size - n) /\ n + i \in 1..Ops!UsedLen /\ n + (i - 1) = n + i - 1
    BY <1>3
  <2>2. Ops!Slot(Ops!Slot(Ops!head, n), i - 1) = Ops!Slot(Ops!head, n + i - 1)
    BY <1>3, <2>1, Around
  <2> QED
    BY <2>1, <2>2, ContentsAt
<1>6. SubSeq(Ops!Contents, n + 1, Ops!UsedLen) = [i \in 1..(Ops!UsedLen - n) |-> Ops!Contents[n + i]]
  BY <1>3, ContentsAt
<1> QED
  BY <1>4, <1>5, <1>6

LEMMA IncAppends ==
  ASSUME Ops!TypeOK, NEW count \in 0..(MaxBlock + 1), Ops!IncDataLen(count)
  PROVE  \E src \in Ops!SeqOf(Byte, MaxBlock + 1) : Ops!Contents' = Ops!Contents \o src
<1>1. m_buffer_size' = m_buffer_size /\ mem' = mem /\ Ops!head' = Ops!head /\ Ops!UsedLen' = Ops!UsedLen + count
  BY IncPositions
<1>2. /\ Ops!UsedLen \in 0..m_buffer_size /\ m_buffer_size \in Nat /\ Ops!head \in Ops!Address /\ Ops!tail \in Ops!Address
      /\ Ops!tail = Ops!Slot(Ops!head, Ops!UsedLen) /\ count \in 0..(m_buffer_size - Ops!UsedLen)
  BY OpsAssumption, Places, IncPositions
<1> DEFINE src == [i \in 1..count |-> mem[Ops!Slot(Ops!tail, i - 1)]]
<1>3. ASSUME NEW i \in 1..count PROVE mem[Ops!Slot(Ops!tail, i - 1)] \in Byte /\ Ops!Slot(Ops!tail, i - 1) = Ops!Slot(Ops!head, Ops!UsedLen + i - 1)
  <2>1. i - 1 \in 0..(m_buffer_size - Ops!UsedLen) /\ i - 1 \in 0..m_buffer_size /\ Ops!UsedLen + (i - 1) = Ops!UsedLen + i - 1
    BY <1>2
  <2> QED
    BY <1>2, <2>1, Around
<1>4. src \in [1..count -> Byte]
  BY <1>3
<1>5. src \in Seq(Byte) /\ Len(src) = count
  BY <1>2, <1>4
<1>6. src \in Ops!SeqOf(Byte, MaxBlock + 1)
  BY OpsAssumption, <1>2, <1>4 DEF Ops!SeqOf
<1>7. \A i \in 1..count : src[i] = mem[Ops!Slot(Ops!head, Ops!UsedLen + i - 1)]
  BY <1>3
<1> HIDE DEF src
<1>8. Ops!Contents' = [i \in 1..(Ops!UsedLen + count) |-> mem[Ops!Slot(Ops!head, i - 1)]]
  BY <1>1 DEF Ops!Contents, Ops!Slot
<1>9. Ops!Contents \o src = [i \in 1..(Ops!UsedLen + count) |-> IF i <= Ops!UsedLen THEN Ops!Contents[i] ELSE src[i - Ops!UsedLen]]
  <2>1. Ops!Contents \in Seq(Byte) /\ Len(Ops!Contents) = Ops!UsedLen /\ Ops!UsedLen \in Nat
    BY <1>2, ContentsAt
  <2>2. PICK n \in Nat : n = count
    BY <1>2
  <2>3. src \in Seq(Byte) /\ Len(src) = n
    BY <1>5, <2>2
  <2>4. Ops!Contents \o src = [i \in 1..(Ops!UsedLen + n) |-> IF i <= Ops!UsedLen THEN Ops!Contents[i] ELSE src[i - Ops!UsedLen]]
    BY <2>1, <2>3, Joined
  <2> QED
    BY <2>2, <2>4
<1>10. ASSUME NEW i \in 1..(Ops!UsedLen + count)
       PROVE  mem[Ops!Slot(Ops!head, i - 1)] = IF i <= Ops!UsedLen THEN Ops!Contents[i] ELSE src[i - Ops!UsedLen]
  <2>1. CASE i <= Ops!UsedLen
    BY <1>2, <2>1, ContentsAt
  <2>2. CASE i > Ops!UsedLen
    <3>1. i - Ops!UsedLen \in 1..count /\ Ops!UsedLen + (i - Ops!UsedLen) - 1 = i - 1
      BY <1>2, <2>2
    <3>2. src[i - Ops!UsedLen] = mem[Ops!Slot(Ops!head, i - 1)]
      BY <1>7, <3>1
    <3> QED
      BY <1>2, <2>2, <3>2
  <2> QED
    BY <1>2, <2>1, <2>2
<1>11. Ops!Contents' = Ops!Contents \o src
  BY <1>8, <1>9, <1>10
<1> QED
  BY <1>6, <1>11

-----------------------------------------------------------------------------
(* Every step, whatever the call.                                          *)
QueueNext == \/ Ops!Contents' = <<>>
             \/ \E src \in Ops!SeqOf(Byte, MaxBlock + 1) : Ops!Contents' = Ops!Contents \o src
             \/ \E n \in 0..Ops!UsedLen : Ops!Contents' = SubSeq(Ops!Contents, n + 1, Ops!UsedLen)

LEMMA EveryStep ==
  ASSUME Ops!TypeOK, [Ops!Next]_Ops!vars
  PROVE  Ops!TypeOK' /\ QueueNext
<1>1. CASE Ops!Free \/ Ops!Reset \/ \E size \in Sizes : Ops!Alloc(size)
  BY <1>1, FreeTypeOK DEF QueueNext
<1>2. CASE \/ \E src \in Ops!Block : Ops!WriteRefused(src)
           \/ \E count \in 0..(MaxBlock + 1) : Ops!ReadRefused(count)
           \/ UNCHANGED Ops!vars
  <2>1. Ops!TypeOK' /\ Ops!Contents' = Ops!Contents
    BY <1>2, RefusedTypeOK
  <2>2. <<>> \in Ops!SeqOf(Byte, MaxBlock + 1)
    BY OpsAssumption DEF Ops!SeqOf
  <2>3. Ops!Contents' = Ops!Contents \o <<>>
    BY <2>1, ContentsAt
  <2> QED
    BY <2>1, <2>2, <2>3 DEF QueueNext
<1>3. ASSUME NEW src \in Ops!Block, Ops!Write(src) PROVE Ops!TypeOK' /\ QueueNext
  <2>1. src \in Ops!SeqOf(Byte, MaxBlock + 1)
    BY OpsAssumption DEF Ops!Block, Ops!SeqOf
  <2>2. Ops!TypeOK' /\ Ops!Contents' = Ops!Contents \o src
    BY <1>3, WritePositions, WriteAppends
  <2> QED
    BY <2>1, <2>2 DEF QueueNext
<1>4. ASSUME NEW count \in 0..(MaxBlock + 1), Ops!Read(count) \/ Ops!DecDataLen(count) PROVE Ops!TypeOK' /\ QueueNext
  <2>1. Ops!TypeOK'
    BY <1>4, ReadPositions
  <2>2. \E n \in 0..Ops!UsedLen : Ops!Contents' = SubSeq(Ops!Contents, n + 1, Ops!UsedLen)
    BY <1>4, ReadDrops
  <2> QED
    BY <2>1, <2>2 DEF QueueNext
<1>5. ASSUME NEW count \in 0..(MaxBlock + 1), Ops!IncDataLen(count) PROVE Ops!TypeOK' /\ QueueNext
  <2>1. Ops!TypeOK'
    BY <1>5, IncPositions
  <2>2. \E src \in Ops!SeqOf(Byte, MaxBlock + 1) : Ops!Contents' = Ops!Contents \o src
    BY <1>5, IncAppends
  <2> QED
    BY <2>1, <2>2 DEF QueueNext
<1> QED
  BY <1>1, <1>2, <1>3, <1>4, <1>5 DEF Ops!Next

(* What the one thread does to the ring is what CircleBufferOps allows.    *)
LEMMA OneThreadCalls == OneThread => Ops!Spec
<1>1. CallsInit => Ops!Init
  BY DEF CallsInit
<1>2. [CallsNext]_allvars => [Ops!Next]_Ops!vars
  BY DEF CallsNext, allvars, vars, Ops!vars
<1> QED
  BY <1>1, <1>2, PTL DEF OneThread, Ops!Spec

(* The contents of the ring change as those of a queue do (CircleBuffer's  *)
(* write(), read(), inc_data_len(), dec_data_len(), reset(), alloc(),      *)
(* free()), for every byte set, ring size and block.                       *)
THEOREM RingIsAQueue == OneThread => QueueStep
<1>1. Ops!Init => Ops!TypeOK
  BY InitTypeOK
<1>2. Ops!TypeOK /\ [Ops!Next]_Ops!vars => Ops!TypeOK' /\ [QueueNext]_Ops!vars
  BY EveryStep
<1>3. Ops!Spec => [][QueueNext]_Ops!vars
  BY <1>1, <1>2, PTL DEF Ops!Spec
<1>4. OneThread => [][QueueNext]_Ops!vars
  BY <1>3, OneThreadCalls
<1> QED
  BY <1>4 DEF QueueStep, Ops!QueueStep, QueueNext

-----------------------------------------------------------------------------
(* The loop of memcmp() from any byte on: it stops at the first difference *)
(* or at the last byte.                                                    *)
Compares(f, b, c, n) ==
  f = [i \in 1..n |-> IF i < n /\ b[i] = c[i] THEN f[i + 1] ELSE b[i] - c[i]]
Same(b, c, n) == \A i \in 1..n : b[i] = c[i]

LEMMA CompareEnds ==
  ASSUME NEW n \in Nat \ {0}, NEW b \in [1..n -> Nat], NEW c \in [1..n -> Nat]
  PROVE  \E f \in [1..n -> Int] : Compares(f, b, c, n)
<1> DEFINE N == n - 1
           T == Int
           base == b[n] - c[n]
           G == [p \in T \X (1..N) |-> IF b[n - p[2]] = c[n - p[2]] THEN p[1] ELSE b[n - p[2]] - c[n - p[2]]]
<1>1. N \in Nat /\ base \in T
  OBVIOUS
<1>2. ASSUME NEW x \in T, NEW k \in 1..N
      PROVE  /\ G[<<x, k>>] = IF b[n - k] = c[n - k] THEN x ELSE b[n - k] - c[n - k]
             /\ G[<<x, k>>] \in T
  <2>1. n - k \in 1..n
    OBVIOUS
  <2>2. b[n - k] - c[n - k] \in T
    BY <2>1
  <2> QED
    BY <2>2
<1>3. StepOf(G, T, N)
  BY <1>2 DEF StepOf
<1>4. PICK u \in [0..N -> T] : Results(u, base, G, N)
  <2> HIDE DEF N, T, base, G
  <2> QED
    BY <1>1, <1>3, Recursion
<1>5. u[0] = base /\ \A k \in 1..N : u[k] = G[<<u[k - 1], k>>]
  BY <1>4 DEF Results
<1> HIDE DEF G
<1> DEFINE f == [i \in 1..n |-> u[n - i]]
<1>6. f \in [1..n -> Int] /\ \A i \in 1..n : f[i] = u[n - i]
  OBVIOUS
<1> HIDE DEF f
<1>7. ASSUME NEW i \in 1..n PROVE f[i] = IF i < n /\ b[i] = c[i] THEN f[i + 1] ELSE b[i] - c[i]
  <2>1. CASE i = n
    BY <1>5, <1>6, <2>1, SMTT(30)
  <2>2. CASE i < n
    <3>1. PICK k \in 1..N : k = n - i
      BY <2>2
    <3>2. k - 1 \in 0..N /\ n - k = i /\ i + 1 \in 1..n /\ n - (i + 1) = k - 1
      BY <2>2, <3>1
    <3>3. u[k - 1] \in T /\ u[k] = G[<<u[k - 1], k>>] /\ f[i] = u[k] /\ f[i + 1] = u[k - 1]
      BY <1>5, <1>6, <3>1, <3>2
    <3>4. G[<<u[k - 1], k>>] = IF b[n - k] = c[n - k] THEN u[k - 1] ELSE b[n - k] - c[n - k]
      BY <1>2, <3>3
    <3> QED
      BY <2>2, <3>2, <3>3, <3>4
  <2> QED
    BY <2>1, <2>2
<1>8. f = [i \in 1..n |-> IF i < n /\ b[i] = c[i] THEN f[i + 1] ELSE b[i] - c[i]]
  BY <1>6, <1>7
<1> QED
  BY <1>6, <1>8 DEF Compares

LEMMA CompareDecides ==
  ASSUME NEW n \in Nat \ {0}, NEW b \in [1..n -> Nat], NEW c \in [1..n -> Nat],
         NEW f, Compares(f, b, c, n)
  PROVE  f[1] = 0 <=> Same(b, c, n)
<1>1. \A i \in 1..n : f[i] = IF i < n /\ b[i] = c[i] THEN f[i + 1] ELSE b[i] - c[i]
  <2> DEFINE F(i) == IF i < n /\ b[i] = c[i] THEN f[i + 1] ELSE b[i] - c[i]
  <2>1. f = [i \in 1..n |-> F(i)]
    BY DEF Compares
  <2> HIDE DEF F
  <2>2. \A i \in 1..n : f[i] = F(i)
    BY <2>1
  <2> QED
    BY <2>2 DEF F
<1> DEFINE D == {k \in Nat : f[n - k] = 0 <=> \A j \in (n - k)..n : b[j] = c[j]}
<1>2. 0 \in D
  <2>1. f[n] = b[n] - c[n] /\ b[n] \in Nat /\ c[n] \in Nat
    BY <1>1
  <2>2. n - 0 = n /\ n..n = {n}
    OBVIOUS
  <2> QED
    BY <2>1, <2>2
<1>3. ASSUME NEW k \in 0..(n - 1 - 1), k \in D PROVE k + 1 \in D
  <2>1. PICK i \in 1..n : i = n - (k + 1) /\ i < n /\ i + 1 = n - k
    OBVIOUS
  <2>2. f[i] = IF b[i] = c[i] THEN f[i + 1] ELSE b[i] - c[i]
    BY <1>1, <2>1
  <2>3. f[i + 1] = 0 <=> \A j \in (i + 1)..n : b[j] = c[j]
    BY <1>3, <2>1
  <2>4. b[i] \in Nat /\ c[i] \in Nat /\ i..n = {i} \cup (i + 1)..n
    OBVIOUS
  <2>5. b[i] - c[i] = 0 <=> b[i] = c[i]
    BY <2>4
  <2>6. f[i] = 0 <=> \A j \in i..n : b[j] = c[j]
    BY <2>2, <2>3, <2>4, <2>5
  <2> QED
    BY <2>1, <2>6
<1> HIDE DEF D
<1>4. 0..(n - 1) \subseteq D
  <2>1. PICK N \in Nat : N = n - 1
    OBVIOUS
  <2>2. 0..N \subseteq D
    BY <1>2, <1>3, <2>1, InductionUpTo
  <2> QED
    BY <2>1, <2>2
<1>5. n - 1 \in D /\ n - (n - 1) = 1
  BY <1>4
<1> QED
  BY <1>5 DEF D, Same

-----------------------------------------------------------------------------
(* What the lookups see.  A part of the contents lies in the memory from   *)
(* where memcmp() and memcpy() begin, around the end.                      *)
LEMMA PartAt ==
  ASSUME Ops!TypeOK, NEW o \in Nat, NEW n \in Nat, o + n <= Ops!UsedLen
  PROVE  /\ Ops!Part(o, n) \in [1..n -> Byte] /\ Ops!Part(o, n) \in Seq(Byte) /\ Len(Ops!Part(o, n)) = n
         /\ Ops!From(o) \in Ops!Address
         /\ \A i \in 1..n : /\ Ops!Part(o, n)[i] = mem[Ops!Slot(Ops!From(o), i - 1)]
                           /\ Ops!Part(o, n)[i] = mem[Ops!Wrapped(Ops!From(o) + i - 1)]
<1>1. Ops!UsedLen \in 0..m_buffer_size /\ m_buffer_size \in Nat /\ Ops!head \in Ops!Address
  BY Places
<1>2. Ops!From(o) = Ops!Slot(Ops!head, o) /\ Ops!From(o) \in Ops!Address
  <2>1. CASE o = 0
    BY <1>1, <2>1 DEF Ops!From, Ops!Slot, Ops!Address
  <2>2. CASE o # 0
    <3>1. allocated /\ o \in 0..m_buffer_size
      BY <1>1, <2>2, Places
    <3>2. Ops!Slot(Ops!head, o) = Ops!Wrapped(Ops!head + o) /\ Ops!Slot(Ops!head, o) \in Ops!Address
      BY <1>1, <3>1, Around
    <3> QED
      BY <2>2, <3>2 DEF Ops!From
  <2> QED
    BY <2>1, <2>2
<1>3. Ops!Part(o, n) = [i \in 1..n |-> Ops!Contents[o + i]]
  <2>1. Ops!Contents \in Seq(Byte) /\ Len(Ops!Contents) = Ops!UsedLen
    BY ContentsAt
  <2> QED
    BY <1>1, <2>1 DEF Ops!Part
<1>4. ASSUME NEW i \in 1..n
      PROVE  /\ Ops!Contents[o + i] \in Byte
             /\ Ops!Contents[o + i] = mem[Ops!Slot(Ops!From(o), i - 1)]
             /\ Ops!Contents[o + i] = mem[Ops!Wrapped(Ops!From(o) + i - 1)]
  <2>1. /\ o + i \in 1..Ops!UsedLen /\ o \in 0..m_buffer_size /\ i - 1 \in 0..(m_buffer_size - o)
        /\ i - 1 \in 0..m_buffer_size /\ o + (i - 1) = o + i - 1
    BY <1>1
  <2>2. Ops!Contents[o + i] = mem[Ops!Slot(Ops!head, o + i - 1)] /\ Ops!Contents[o + i] \in Byte
    BY <2>1, ContentsAt
  <2>3. Ops!Slot(Ops!From(o), i - 1) = Ops!Slot(Ops!head, o + i - 1)
    BY <1>1, <1>2, <2>1, Around
  <2>4. Ops!Slot(Ops!From(o), i - 1) = Ops!Wrapped(Ops!From(o) + (i - 1))
    <3>1. allocated
      BY <1>1, <2>1, Places
    <3> QED
      BY <1>2, <2>1, <3>1, Around
  <2>5. Ops!From(o) + (i - 1) = Ops!From(o) + i - 1
    BY <1>1, <1>2 DEF Ops!Address
  <2> QED
    BY <2>2, <2>3, <2>4, <2>5
<1>5. Ops!Part(o, n) \in [1..n -> Byte]
  BY <1>3, <1>4
<1>6. Ops!Part(o, n) \in Seq(Byte) /\ Len(Ops!Part(o, n)) = n
  BY <1>5
<1> QED
  BY <1>2, <1>3, <1>4, <1>5, <1>6

LEMMA MemCmpDecides ==
  ASSUME Ops!TypeOK, NEW o \in Nat, NEW buf \in Seq(Byte), o + Len(buf) <= Ops!UsedLen
  PROVE  Ops!MemCmp(buf, o) = 0 <=> buf = Ops!Part(o, Len(buf))
<1>1. PICK n \in Nat : n = Len(buf)
  OBVIOUS
<1>2. PICK b : b = Ops!Part(o, n)
  OBVIOUS
<1>3. /\ b \in [1..n -> Byte] /\ b \in Seq(Byte) /\ Len(b) = n
      /\ \A i \in 1..n : b[i] = mem[Ops!Wrapped(Ops!From(o) + i - 1)]
  <2>1. o + n <= Ops!UsedLen
    BY <1>1
  <2>2. /\ Ops!Part(o, n) \in [1..n -> Byte] /\ Ops!Part(o, n) \in Seq(Byte) /\ Len(Ops!Part(o, n)) = n
        /\ \A i \in 1..n : Ops!Part(o, n)[i] = mem[Ops!Wrapped(Ops!From(o) + i - 1)]
    BY <2>1, PartAt, ZenonT(40)
  <2> QED
    BY <1>2, <2>2, ZenonT(40)
<1>4. buf = b <=> Same(b, buf, n)
  <2>1. buf \in [1..n -> Byte]
    BY <1>1, LenProperties
  <2> QED
    BY <1>3, <2>1 DEF Same
<1>5. CASE n = 0
  <2>1. Ops!MemCmp(buf, o) = 0
    BY <1>1, <1>5 DEF Ops!MemCmp
  <2> QED
    BY <1>1, <1>2, <1>4, <1>5, <2>1 DEF Same
<1>6. CASE n # 0
  <2>1. n \in Nat \ {0} /\ b \in [1..n -> Nat] /\ buf \in [1..n -> Nat]
    <3>1. buf \in [1..n -> Byte] /\ Byte \subseteq Nat
      BY OpsAssumption, <1>1, LenProperties
    <3> QED
      BY <1>1, <1>3, <1>6, <3>1
  <2> DEFINE Loop(f) ==
        f = [i \in 1..n |-> IF i < n /\ mem[Ops!Wrapped(Ops!From(o) + i - 1)] = buf[i] THEN f[i + 1]
                            ELSE mem[Ops!Wrapped(Ops!From(o) + i - 1)] - buf[i]]
  <2>2. ASSUME NEW f PROVE Loop(f) <=> Compares(f, b, buf, n)
    <3> DEFINE Stored(i) == IF i < n /\ mem[Ops!Wrapped(Ops!From(o) + i - 1)] = buf[i] THEN f[i + 1]
                          ELSE mem[Ops!Wrapped(Ops!From(o) + i - 1)] - buf[i]
               Seen(i) == IF i < n /\ b[i] = buf[i] THEN f[i + 1] ELSE b[i] - buf[i]
    <3>1. \A i \in 1..n : Stored(i) = Seen(i)
      BY <1>3
    <3>2. Loop(f) <=> f = [i \in 1..n |-> Stored(i)]
      OBVIOUS
    <3>3. Compares(f, b, buf, n) <=> f = [i \in 1..n |-> Seen(i)]
      BY DEF Compares
    <3> HIDE DEF Stored, Seen, Loop
    <3>4. [i \in 1..n |-> Stored(i)] = [i \in 1..n |-> Seen(i)]
      BY <3>1
    <3> QED
      BY <3>2, <3>3, <3>4
  <2>3. Ops!MemCmp(buf, o) = (CHOOSE f : Loop(f))[1]
    BY <1>1, <1>6 DEF Ops!MemCmp
  <2> HIDE DEF Loop
  <2>4. \E f : Loop(f)
    BY <2>1, <2>2, CompareEnds
  <2>5. PICK g : g = CHOOSE f : Loop(f)
    OBVIOUS
  <2>6. Loop(g)
    BY <2>4, <2>5
  <2>7. Compares(g, b, buf, n)
    BY <2>2, <2>6
  <2>8. g[1] = 0 <=> Same(b, buf, n)
    BY <2>1, <2>7, CompareDecides, ZenonT(40)
  <2>9. Ops!MemCmp(buf, o) = g[1]
    BY <2>3, <2>5
  <2> QED
    BY <1>1, <1>2, <1>4, <2>8, <2>9
<1> QED
  BY <1>5, <1>6

(* A stretch of a sequence, place by place.                                *)
LEMMA Stretch ==
  ASSUME NEW S, NEW s \in Seq(S), NEW a \in Nat, NEW l \in Nat, a + l <= Len(s)
  PROVE  SubSeq(s, a + 1, a + l) = [i \in 1..l |-> s[a + i]]
<1>1. \A i \in 1..l : i \in Int /\ a + i = a + 1 + i - 1
  OBVIOUS
<1>2. PICK w : w = SubSeq(s, a + 1, a + l)
  OBVIOUS
<1>3. w \in Seq(S) /\ Len(w) = l /\ \A i \in 1..l : w[i] = s[a + i]
  BY <1>1, <1>2
<1>4. w \in [1..l -> S]
  BY <1>3, LenProperties
<1>5. w = [i \in 1..l |-> s[a + i]]
  BY <1>3, <1>4
<1> QED
  BY <1>2, <1>5

LEMMA MemCpyCopies ==
  ASSUME Ops!TypeOK, NEW o \in Nat, NEW n \in Nat, o + n <= Ops!UsedLen
  PROVE  Ops!MemCpy(n, o) = Ops!Part(o, n)
<1>1. Ops!UsedLen \in 0..m_buffer_size /\ m_buffer_size \in Nat
  BY Places
<1>2. PICK a \in 0..m_buffer_size : a = Ops!From(o)
  BY PartAt DEF Ops!Address
<1>3. PICK M : M = [k \in 1..(m_buffer_size + 1) |-> mem[k - 1]]
  OBVIOUS
<1>4. M \in [1..(m_buffer_size + 1) -> Byte] /\ \A k \in 0..m_buffer_size : M[k + 1] = mem[k] /\ mem[k] \in Byte
  BY <1>1, <1>3 DEF Ops!TypeOK, Ops!Address
<1>5. M \in Seq(Byte) /\ Len(M) = m_buffer_size + 1
  BY <1>1, <1>4
<1>6. PICK l \in Nat : l = (IF n <= m_buffer_size + 1 - a THEN n ELSE m_buffer_size + 1 - a)
  BY <1>1, <1>2
<1>7. SubSeq(M, a + 1, Ops!LesserOf(a + n, Ops!m_tail_address)) = [i \in 1..l |-> mem[a + i - 1]]
  <2>1. CASE allocated
    <3>1. Ops!LesserOf(a + n, Ops!m_tail_address) = a + l
      BY <1>1, <1>2, <1>6, <2>1, Places DEF Ops!LesserOf
    <3>2. SubSeq(M, a + 1, a + l) = [i \in 1..l |-> M[a + i]]
      <4>1. a \in Nat /\ a + l <= Len(M)
        BY <1>1, <1>2, <1>5, <1>6
      <4> QED
        BY <1>5, <4>1, Stretch
    <3>3. \A i \in 1..l : M[a + i] = mem[a + i - 1]
      <4>1. \A i \in 1..l : a + i - 1 \in 0..m_buffer_size /\ (a + i - 1) + 1 = a + i
        BY <1>1, <1>2, <1>6
      <4> QED
        BY <1>4, <4>1
    <3> QED
      BY <3>1, <3>2, <3>3
  <2>2. CASE ~ allocated
    <3>1. n = 0 /\ a = 0 /\ l = 0 /\ Ops!LesserOf(a + n, Ops!m_tail_address) = 0
      BY <1>1, <1>2, <1>6, <2>2, Places DEF Ops!LesserOf
    <3>2. SubSeq(M, 1, 0) = [i \in 1..0 |-> mem[a + i - 1]]
      BY <1>5
    <3> QED
      BY <3>1, <3>2
  <2> QED
    BY <2>1, <2>2
<1>8. PICK first : first = [i \in 1..l |-> mem[a + i - 1]]
  OBVIOUS
<1>9. PICK second : second = [i \in 1..(n - l) |-> mem[i - 1]]
  OBVIOUS
<1>10. first \in Seq(Byte) /\ Len(first) = l
  <2>1. \A i \in 1..l : a + i - 1 \in 0..m_buffer_size
    BY <1>1, <1>2, <1>6
  <2>2. first \in [1..l -> Byte]
    BY <1>4, <1>8, <2>1
  <2> QED
    BY <2>2
<1>11. n - l \in Nat /\ second \in Seq(Byte) /\ Len(second) = n - l
  <2>1. n - l \in Nat /\ \A i \in 1..(n - l) : i - 1 \in 0..m_buffer_size
    BY <1>1, <1>2, <1>6
  <2>2. second \in [1..(n - l) -> Byte]
    BY <1>4, <1>9, <2>1
  <2> QED
    BY <2>1, <2>2
<1>12. Ops!MemCpy(n, o) = first \o second
  BY <1>2, <1>3, <1>7, <1>8, <1>9, <1>10 DEF Ops!MemCpy
<1>13. first \o second = [i \in 1..(l + (n - l)) |-> IF i <= l THEN first[i] ELSE second[i - l]]
  <2>1. PICK k \in Nat : k = n - l
    BY <1>11
  <2>2. second \in Seq(Byte) /\ Len(second) = k
    BY <1>11, <2>1
  <2>3. first \o second = [i \in 1..(l + k) |-> IF i <= l THEN first[i] ELSE second[i - l]]
    BY <1>10, <2>2, Joined
  <2> QED
    BY <2>1, <2>3
<1>14. ASSUME NEW i \in 1..n PROVE Ops!Part(o, n)[i] = IF i <= l THEN first[i] ELSE second[i - l]
  <2>1. Ops!Part(o, n)[i] = mem[Ops!Slot(a, i - 1)]
    BY <1>2, PartAt
  <2>2. CASE i <= l
    <3>1. Ops!Slot(a, i - 1) = a + i - 1 /\ i \in 1..l
      BY <1>1, <1>2, <1>6, <2>2 DEF Ops!Slot
    <3> QED
      BY <1>8, <2>1, <2>2, <3>1
  <2>3. CASE i > l
    <3>1. Ops!Slot(a, i - 1) = (i - l) - 1 /\ i - l \in 1..(n - l)
      BY <1>1, <1>2, <1>6, <2>3 DEF Ops!Slot
    <3> QED
      BY <1>6, <1>9, <2>1, <2>3, <3>1, SMTT(30)
  <2> QED
    BY <1>6, <2>2, <2>3
<1>15. l + (n - l) = n
  BY <1>6
<1>16. Ops!Part(o, n) = [i \in 1..n |-> Ops!Part(o, n)[i]]
  BY PartAt
<1> QED
  BY <1>12, <1>13, <1>14, <1>15, <1>16

LEMMA AtSees ==
  ASSUME Ops!TypeOK, NEW i \in 0..(Ops!UsedLen - 1)
  PROVE  Ops!At(i) = Ops!Contents[i + 1]
<1>1. Ops!UsedLen \in 0..m_buffer_size /\ m_buffer_size \in Nat /\ i \in 0..m_buffer_size
  BY Places
<1>2. allocated /\ Ops!m_tail_address = m_buffer_size + 1 /\ m_head \in 0..(m_buffer_size + 1)
  BY <1>1, Places DEF Ops!TypeOK
<1>3. Ops!Contents[i + 1] = mem[Ops!Slot(Ops!head, i)]
  <2>1. i + 1 \in 1..Ops!UsedLen /\ (i + 1) - 1 = i
    BY <1>1
  <2> QED
    BY <2>1, ContentsAt
<1>4. Ops!Slot(Ops!head, i) = IF m_head + i >= Ops!m_tail_address THEN i - (Ops!m_tail_address - m_head) ELSE m_head + i
  BY <1>1, <1>2 DEF Ops!head, Ops!Slot
<1> QED
  BY <1>3, <1>4 DEF Ops!At

LEMMA StrStrFinds ==
  ASSUME Ops!TypeOK, NEW str \in Seq(Byte)
  PROVE  LET at == {i \in 0..(Ops!UsedLen - Len(str)) : Ops!Part(i, Len(str)) = str}
         IN  IF at = {} THEN Ops!StrStr(str) = -1
             ELSE Ops!StrStr(str) \in at /\ \A i \in at : Ops!StrStr(str) <= i
<1>1. PICK n \in Nat : n = Len(str)
  OBVIOUS
<1>2. Ops!UsedLen \in Nat
  BY Places
<1> DEFINE at == {i \in 0..(Ops!UsedLen - n) : Ops!Part(i, n) = str}
           places == {i \in 0..(Ops!UsedLen - n) : Ops!MemCmp(str, i) = 0}
<1>3. places = at
  <2>1. ASSUME NEW i \in 0..(Ops!UsedLen - n) PROVE Ops!MemCmp(str, i) = 0 <=> Ops!Part(i, n) = str
    <3>1. i \in Nat /\ i + Len(str) <= Ops!UsedLen
      BY <1>1, <1>2
    <3> QED
      BY <1>1, <3>1, MemCmpDecides
  <2> QED
    BY <2>1
<1>4. Ops!StrStr(str) = IF Ops!UsedLen < n \/ places = {} THEN -1 ELSE CHOOSE i \in places : \A j \in places : i <= j
  BY <1>1 DEF Ops!StrStr
<1>5. at \in SUBSET Nat /\ (Ops!UsedLen < n => at = {})
  BY <1>1, <1>2
<1> HIDE DEF at, places
<1>6. IF at = {} THEN Ops!StrStr(str) = -1 ELSE Ops!StrStr(str) \in at /\ \A i \in at : Ops!StrStr(str) <= i
  <2>1. CASE at = {}
    BY <1>3, <1>4, <2>1
  <2>2. CASE at # {}
    <3>1. \E i \in at : \A j \in at : i <= j
      BY <1>5, <2>2, Least
    <3>2. Ops!StrStr(str) = CHOOSE i \in at : \A j \in at : i <= j
      BY <1>3, <1>4, <1>5, <2>2
    <3> QED
      BY <2>2, <3>1, <3>2
  <2> QED
    BY <2>1, <2>2
<1> QED
  BY <1>1, <1>6 DEF at

LEMMA RunsContinuous == Ops!TypeOK => Ops!RunsAreContinuous
<1> SUFFICES ASSUME Ops!TypeOK, allocated PROVE Ops!RunsAreContinuous
  BY DEF Ops!RunsAreContinuous
<1>1. /\ m_buffer_size \in Nat /\ Ops!m_tail_address = m_buffer_size + 1
      /\ Ops!head \in 0..m_buffer_size /\ Ops!tail \in 0..m_buffer_size
      /\ Ops!UsedLen \in 0..m_buffer_size /\ Ops!AvailableLen = m_buffer_size - Ops!UsedLen
      /\ m_head \in 0..(m_buffer_size + 1)
  BY Places DEF Ops!TypeOK, Ops!Address
<1>2. Ops!UsedLen = IF Ops!tail >= Ops!head THEN Ops!tail - Ops!head ELSE Ops!tail + m_buffer_size + 1 - Ops!head
  BY <1>1 DEF Ops!UsedLen, Ops!vtail
<1>3. Ops!ContinuousDataLen = Ops!LesserOf(Ops!UsedLen, Ops!m_tail_address - Ops!head)
  BY <1>1, <1>2 DEF Ops!ContinuousDataLen, Ops!LesserOf
<1>4. Ops!ContinuousAvailableLen = Ops!LesserOf(Ops!AvailableLen, Ops!m_tail_address - Ops!tail)
                               + (IF Ops!head = 0 /\ Ops!tail # 0 THEN 1 ELSE 0)
  BY <1>1, <1>2 DEF Ops!ContinuousAvailableLen, Ops!LesserOf
<1>5. ASSUME NEW n \in 0..Ops!UsedLen, Ops!IsContinuousDataLen(n) PROVE n <= Ops!ContinuousDataLen
  <2>1. m_head + n < m_buffer_size + 1
    BY <1>1, <1>5 DEF Ops!IsContinuousDataLen
  <2>2. Ops!head + n < m_buffer_size + 1
    BY <1>1, <2>1 DEF Ops!head
  <2> QED
    BY <1>1, <1>2, <2>2 DEF Ops!ContinuousDataLen
<1> QED
  BY <1>3, <1>4, <1>5 DEF Ops!RunsAreContinuous

-----------------------------------------------------------------------------
(* Between two calls the ring is well formed, memcmp() of a text with a    *)
(* part of the contents is zero exactly when the two are equal, memcpy()   *)
(* and operator[] return the contents, strstr() the first place a text is  *)
(* at, and the lengths that do not wrap are what they say: wherever the    *)
(* contents wrap, for every byte set, ring size and block.                 *)
LEMMA WellFormedIsSound == Ops!TypeOK => Ops!LookupsAreSound
<1> SUFFICES ASSUME Ops!TypeOK PROVE Ops!LookupsAreSound
  OBVIOUS
<1>1. ASSUME NEW p \in Ops!Parts PROVE p[1] \in Nat /\ p[2] \in Nat /\ p[1] + p[2] <= Ops!UsedLen
  BY OpsAssumption, <1>1 DEF Ops!Parts
<1>2. ASSUME NEW str \in Ops!Block PROVE str \in Seq(Byte)
  BY DEF Ops!Block, Ops!SeqOf
<1>3. Ops!MemCmpIsEquality
  <2>1. ASSUME NEW p \in Ops!Parts, NEW buf \in Ops!Block, Len(buf) = p[2]
        PROVE  Ops!MemCmp(buf, p[1]) = 0 <=> buf = Ops!Part(p[1], p[2])
    <3>1. p[1] \in Nat /\ buf \in Seq(Byte) /\ p[1] + Len(buf) <= Ops!UsedLen
      BY <1>1, <1>2, <2>1
    <3>2. Ops!MemCmp(buf, p[1]) = 0 <=> buf = Ops!Part(p[1], Len(buf))
      BY <3>1, MemCmpDecides
    <3> QED
      BY <2>1, <3>2
  <2> QED
    BY <2>1 DEF Ops!MemCmpIsEquality
<1>4. Ops!LookupsSeeContents
  <2>1. ASSUME NEW p \in Ops!Parts PROVE Ops!MemCpy(p[2], p[1]) = Ops!Part(p[1], p[2])
    BY <1>1, MemCpyCopies
  <2>2. \A i \in 0..(Ops!UsedLen - 1) : Ops!At(i) = Ops!Contents[i + 1]
    BY AtSees
  <2>3. ASSUME NEW str \in Ops!Block
        PROVE  LET at == {i \in 0..(Ops!UsedLen - Len(str)) : Ops!Part(i, Len(str)) = str}
               IN  IF at = {} THEN Ops!StrStr(str) = -1
                   ELSE Ops!StrStr(str) \in at /\ \A i \in at : Ops!StrStr(str) <= i
    BY <1>2, StrStrFinds
  <2> QED
    BY <2>1, <2>2, <2>3 DEF Ops!LookupsSeeContents
<1>5. Ops!RunsAreContinuous
  BY RunsContinuous
<1> QED
  BY <1>3, <1>4, <1>5 DEF Ops!LookupsAreSound

(* Whatever was called before, memcmp(), memcpy(), operator[], strstr()    *)
(* and the lengths that do not wrap answer for the contents of the ring.   *)
THEOREM RingIsReadable == OneThread => []LookupsAreSound
<1>1. Ops!Init => Ops!TypeOK
  BY InitTypeOK
<1>2. Ops!TypeOK /\ [Ops!Next]_Ops!vars => Ops!TypeOK'
  BY EveryStep
<1>3. Ops!TypeOK => LookupsAreSound
  BY WellFormedIsSound DEF LookupsAreSound
<1>4. Ops!Spec => []LookupsAreSound
  BY <1>1, <1>2, <1>3, PTL DEF Ops!Spec
<1> QED
  BY <1>4, OneThreadCalls

=============================================================================
