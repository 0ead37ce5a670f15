---------------------------- MODULE CircleBuffer ----------------------------
(***************************************************************************)
(* class CircleBuffer as the log pipeline shares it between two threads:   *)
(* the thread that logs calls write(), the thread that saves the log file  *)
(* calls read() and dec_data_len().  There is no lock and neither m_head   *)
(* nor m_tail is atomic, so every access to a pointer owned by the other   *)
(* thread, and every byte copied, is a step of its own.  Loads and stores  *)
(* of one thread are taken to reach the other in program order (x86).      *)
(*                                                                         *)
(* Addresses count from m_base_address = 0.  The ring has BufferSize + 1   *)
(* bytes, and a stored pointer may rest at the one-past-the-end address    *)
(* m_tail_address, which stands for address 0.                             *)
(***************************************************************************)
EXTENDS Integers, Sequences

CONSTANTS
  BufferSize,  \* m_buffer_size
  Byte,        \* the values a byte can take
  MaxWrite,    \* bound: the longest block a write() call is given
  MaxDrop,     \* the largest count dec_data_len() is called with, 0 for never
  DebugBuild   \* the compiler loads m_head twice in (m_head < m_tail_address) ? m_head : ...

ASSUME SizeAssumption == /\ BufferSize \in Nat \ {0}
                         /\ MaxWrite \in Nat
                         /\ MaxDrop \in Nat
                         /\ DebugBuild \in BOOLEAN

VARIABLES
  mem,     \* the bytes at m_base_address
  m_head, m_tail,
  wpc,     \* the writer: "idle", or inside write() at "avail", "copy"
  wsaw,    \* m_head as its first load in get_available_buff_len returned it
  wsrc,    \* argument src
  wtail,   \* local tail
  wdone,   \* number of bytes of src copied
  rpc,     \* the reader: "idle", or at "used", "tail", "load", "copy", "drop", "fix"
  rop,     \* the operation in progress: "read" or "drop" (dec_data_len)
  rsaw,    \* m_tail as the first of two loads returned it
  rcount,  \* argument count, what is left of it once copying
  rhead, rtail, \* locals head and tail of read()
  rdest    \* bytes copied to dest, kept until the next call

wvars == <<wpc, wsaw, wsrc, wtail, wdone>>
rvars == <<rpc, rop, rsaw, rcount, rhead, rtail, rdest>>
vars  == <<mem, m_head, m_tail, wvars, rvars>>

m_tail_address == BufferSize + 1
Address == 0..BufferSize

(* (p < m_tail_address) ? p : m_base_address, on a pointer of one's own.   *)
Norm(p) == IF p < m_tail_address THEN p ELSE 0

(* The same expression on the other thread's pointer, which was first seen *)
(* as saw and is now at p: a debug build loads it a second time.           *)
NormShared(saw, p) ==
  IF saw < m_tail_address THEN (IF DebugBuild THEN p ELSE saw) ELSE 0

(* get_used_buff_len() and get_available_buff_len() on the normalised      *)
(* pointers they compute.                                                  *)
UsedLen(head, tail) == (IF tail >= head THEN tail ELSE tail + BufferSize + 1) - head
(* Mutant: forgets that one byte of the ring stays unused.                 *)
AvailableLenNoGap(head, tail) ==
  IF head = tail THEN BufferSize ELSE BufferSize + 1 - UsedLen(head, tail)

AvailableLen(head, tail) ==
  IF head = tail THEN BufferSize ELSE BufferSize - UsedLen(head, tail)

LesserOf(a, b) == IF a <= b THEN a ELSE b

-----------------------------------------------------------------------------
(* alloc() followed by reset(): new char[] leaves the bytes unspecified.   *)
Init ==
  /\ mem \in [Address -> Byte]
  /\ m_head = 0 /\ m_tail = 0
  /\ wpc = "idle" /\ wsaw = 0 /\ wsrc = <<>> /\ wtail = 0 /\ wdone = 0
  /\ rpc = "idle" /\ rop = "read" /\ rsaw = 0 /\ rcount = 0
  /\ rhead = 0 /\ rtail = 0 /\ rdest = <<>>

(* write(src, count) with count > 0, up to the first load of m_head.       *)
WriteCall ==
  /\ wpc = "idle"
  /\ \E n \in 1..MaxWrite : wsrc' \in [1..n -> Byte]
  /\ wsaw' = m_head
  /\ wpc' = "avail"
  /\ UNCHANGED <<mem, m_head, m_tail, wtail, wdone, rvars>>

(* count > get_available_buff_len(): nothing is written.                   *)
WriteRefused ==
  /\ wpc = "avail"
  /\ Len(wsrc) > AvailableLen(NormShared(wsaw, m_head), Norm(m_tail))
  /\ wpc' = "idle" /\ wsaw' = 0 /\ wsrc' = <<>>
  /\ UNCHANGED <<mem, m_head, m_tail, wtail, wdone, rvars>>

(* Mutant: m_tail moved before the bytes are copied.                       *)
WriteStartPublishing ==
  /\ wpc = "avail"
  /\ Len(wsrc) <= AvailableLen(NormShared(wsaw, m_head), Norm(m_tail))
  /\ wpc' = "copy"
  /\ wtail' = Norm(m_tail)
  /\ m_tail' = (Norm(m_tail) + Len(wsrc)) % (BufferSize + 1)
  /\ wsaw' = 0
  /\ UNCHANGED <<mem, m_head, wsrc, wdone, rvars>>

WriteStart ==
  /\ wpc = "avail"
  /\ Len(wsrc) <= AvailableLen(NormShared(wsaw, m_head), Norm(m_tail))
  /\ wpc' = "copy"
  /\ wtail' = Norm(m_tail)
  /\ wsaw' = 0
  /\ UNCHANGED <<mem, m_head, m_tail, wsrc, wdone, rvars>>

(* *tail++ = *src++; reaching m_tail_address with bytes left continues at  *)
(* m_base_address.                                                         *)
WriteByte ==
  /\ wpc = "copy"
  /\ wdone < Len(wsrc)
  /\ mem' = [mem EXCEPT ![Norm(wtail)] = wsrc[wdone + 1]]
  /\ wtail' = Norm(wtail) + 1
  /\ wdone' = wdone + 1
  /\ UNCHANGED <<m_head, m_tail, wpc, wsaw, wsrc, rvars>>

(* m_tail = tail: the one step at which the reader can see the block.      *)
WritePublish ==
  /\ wpc = "copy"
  /\ wdone = Len(wsrc)
  /\ m_tail' = wtail
  /\ wpc' = "idle" /\ wsrc' = <<>> /\ wtail' = 0 /\ wdone' = 0
  /\ UNCHANGED <<mem, m_head, wsaw, rvars>>

-----------------------------------------------------------------------------
(* read(dest, count) or dec_data_len(count): both begin with               *)
(* get_used_buff_len(), whose first load of m_tail this is.                *)
ReaderCall(op, count) ==
  /\ rpc = "idle"
  /\ rop' = op /\ rcount' = count
  /\ rsaw' = m_tail
  /\ rpc' = "used"
  /\ rdest' = <<>>
  /\ UNCHANGED <<mem, m_head, m_tail, wvars, rhead, rtail>>

ReadCall == \E n \in 1..BufferSize : ReaderCall("read", n)
DropCall == \E n \in 1..MaxDrop : ReaderCall("drop", n)

(* The locals end with the call; what was copied stays in dest.            *)
ReturnLocals == rop' = "read" /\ rsaw' = 0 /\ rcount' = 0 /\ rhead' = 0 /\ rtail' = 0

UsedSeen == UsedLen(Norm(m_head), NormShared(rsaw, m_tail))

(* read() returns 0: there is less than count.                             *)
ReadTooShort ==
  /\ rpc = "used" /\ rop = "read"
  /\ UsedSeen < rcount
  /\ rpc' = "idle" /\ ReturnLocals
  /\ UNCHANGED <<mem, m_head, m_tail, wvars, rdest>>

(* Mutant: copies whatever there is.                                       *)
ReadEnoughUnchecked ==
  /\ rpc = "used" /\ rop = "read"
  /\ rpc' = "tail" /\ rsaw' = 0
  /\ UNCHANGED <<mem, m_head, m_tail, wvars, rop, rcount, rhead, rtail, rdest>>

ReadEnough ==
  /\ rpc = "used" /\ rop = "read"
  /\ UsedSeen >= rcount
  /\ rpc' = "tail" /\ rsaw' = 0
  /\ UNCHANGED <<mem, m_head, m_tail, wvars, rop, rcount, rhead, rtail, rdest>>

(* read() loads m_tail again, in a debug build twice again.                *)
ReadTailLoad ==
  /\ rpc = "tail"
  /\ rsaw' = m_tail
  /\ rpc' = "load"
  /\ UNCHANGED <<mem, m_head, m_tail, wvars, rop, rcount, rhead, rtail, rdest>>

(* Line 136 would return 0 on head == tail; ReadIsComplete shows it is     *)
(* never taken.                                                            *)
ReadStart ==
  /\ rpc = "load"
  /\ rhead' = Norm(m_head)
  /\ rtail' = NormShared(rsaw, m_tail)
  /\ rpc' = "copy" /\ rsaw' = 0
  /\ UNCHANGED <<mem, m_head, m_tail, wvars, rop, rcount, rdest>>

(* *dest++ = *head++, stopping at tail and wrapping at m_tail_address.     *)
ReadByte ==
  /\ rpc = "copy"
  /\ rcount > 0 /\ Norm(rhead) # Norm(rtail)
  /\ rdest' = Append(rdest, mem[Norm(rhead)])
  /\ rhead' = Norm(rhead) + 1
  /\ rcount' = rcount - 1
  /\ UNCHANGED <<mem, m_head, m_tail, wvars, rpc, rop, rsaw, rtail>>

(* m_head = head: the step that gives the space back to the writer.        *)
ReadPublish ==
  /\ rpc = "copy"
  /\ rcount = 0 \/ Norm(rhead) = Norm(rtail)
  /\ m_head' = rhead
  /\ rpc' = "idle" /\ ReturnLocals
  /\ UNCHANGED <<mem, m_tail, wvars, rdest>>

(* Mutant: the count is taken as it is.                                    *)
DropClipUnclipped ==
  /\ rpc = "used" /\ rop = "drop"
  /\ rpc' = "drop" /\ rsaw' = 0
  /\ UNCHANGED <<mem, m_head, m_tail, wvars, rop, rcount, rhead, rtail, rdest>>

(* dec_data_len: count is cut to what get_used_buff_len() returned.        *)
DropClip ==
  /\ rpc = "used" /\ rop = "drop"
  /\ rcount' = LesserOf(rcount, UsedSeen)
  /\ rpc' = "drop" /\ rsaw' = 0
  /\ UNCHANGED <<mem, m_head, m_tail, wvars, rop, rhead, rtail, rdest>>

(* m_head += count is a store of its own: until the next step m_head may   *)
(* point beyond the end of the ring.                                       *)
DropAdvance ==
  /\ rpc = "drop"
  /\ m_head' = m_head + rcount
  /\ rpc' = "fix"
  /\ UNCHANGED <<mem, m_tail, wvars, rop, rsaw, rcount, rhead, rtail, rdest>>

(* Mutant: m_head is never brought back into the ring.                     *)
DropFixUnwrapped ==
  /\ rpc = "fix"
  /\ rpc' = "idle" /\ ReturnLocals
  /\ UNCHANGED <<mem, m_head, m_tail, wvars, rdest>>

(* if (m_head >= m_tail_address) m_head -= m_buffer_size + 1.              *)
DropFix ==
  /\ rpc = "fix"
  /\ m_head' = IF m_head >= m_tail_address THEN m_head - (BufferSize + 1) ELSE m_head
  /\ rpc' = "idle" /\ ReturnLocals
  /\ UNCHANGED <<mem, m_tail, wvars, rdest>>

-----------------------------------------------------------------------------
Writer == WriteCall \/ WriteRefused \/ WriteStart \/ WriteByte \/ WritePublish

Reader == \/ ReadCall \/ ReadTooShort \/ ReadEnough \/ ReadTailLoad
          \/ ReadStart \/ ReadByte \/ ReadPublish
          \/ DropCall \/ DropClip \/ DropAdvance \/ DropFix

Next == Writer \/ Reader

Spec == Init /\ [][Next]_vars

-----------------------------------------------------------------------------
(* Where a stored pointer logically stands, also while m_head is beyond    *)
(* the end between DropAdvance and DropFix.                                *)
Pos(p) == IF p <= BufferSize THEN p ELSE p - (BufferSize + 1)

(* The i-th address from address a on, around the ring.                    *)
Slot(a, i) == IF a + i <= BufferSize THEN a + i ELSE a + i - (BufferSize + 1)

Used == UsedLen(Pos(m_head), Pos(m_tail))

(* The bytes published and not given back, oldest first.                   *)
Contents == [i \in 1..Used |-> mem[Slot(Pos(m_head), i - 1)]]

(* The types, and how far the pointers stray: a stored pointer rests in    *)
(* the ring or one past its end, m_head for one step of dec_data_len       *)
(* further, never by a whole turn of the ring.                             *)
TypeOK ==
  /\ mem \in [Address -> Byte]
  /\ m_head \in 0..(2 * BufferSize + 1)
  /\ m_tail \in 0..m_tail_address
  /\ wpc \in {"idle", "avail", "copy"}
  /\ wsaw \in 0..(2 * BufferSize + 1)
  /\ wsrc \in Seq(Byte)
  /\ wtail \in 0..m_tail_address
  /\ wdone \in 0..Len(wsrc) \/ wpc # "copy"
  /\ rpc \in {"idle", "used", "tail", "load", "copy", "drop", "fix"}
  /\ rop \in {"read", "drop"}
  /\ rsaw \in 0..m_tail_address
  /\ rcount \in Nat
  /\ rhead \in 0..m_tail_address /\ rtail \in 0..m_tail_address
  /\ rdest \in Seq(Byte)

(* The block being copied fits in what the reader has really given back,   *)
(* whatever m_head the writer saw: write() never lands on an unread byte.  *)
WriterStaysInFreeSpace ==
  wpc = "copy" => Used + Len(wsrc) <= BufferSize

(* What read() has copied so far is exactly the front of the buffer, and   *)
(* the rest it is going to copy is published: a reader never sees bytes    *)
(* the writer is still copying or has not copied yet.                      *)
ReaderSeesPublishedBytes ==
  rpc = "copy" => /\ Len(rdest) + rcount <= Used
                  /\ rdest = SubSeq(Contents, 1, Len(rdest))

(* A read() that found count bytes delivers count bytes: the second look   *)
(* at m_tail finds no less than the first, neither head == tail (line 136) *)
(* nor a copy loop that stops early.                                       *)
ReadIsComplete ==
  [][rpc = "copy" /\ rpc' = "idle" => rcount = 0]_vars

(***************************************************************************)
(* The inductive invariant behind the two.  Positions first: where the     *)
(* pointers stand relative to each other at every step of the two calls.   *)
(***************************************************************************)

(* What the writer is about to find available is never more than there is. *)
WriterInv ==
  /\ wpc = "idle" => wsrc = <<>>
  /\ wpc # "idle" => wsrc # <<>>
  /\ wpc # "copy" => wdone = 0
  /\ wpc = "avail" =>
       AvailableLen(NormShared(wsaw, m_head), Norm(m_tail)) + Used <= BufferSize
  /\ wpc = "copy" => /\ Used + Len(wsrc) <= BufferSize
                     /\ wdone <= Len(wsrc)
                     /\ Norm(wtail) = Slot(Pos(m_tail), wdone)

(* While m_head rests at or beyond m_tail_address it stands for a position *)
(* at or before the tail, and the writer is not going to wrap: it takes    *)
(* m_head for 0 now.                                                       *)
HeadBeyondEndInv ==
  m_head > BufferSize =>
    /\ Pos(m_head) <= Pos(m_tail)
    /\ wpc = "avail" => Pos(m_tail) + AvailableLen(NormShared(wsaw, m_head), Norm(m_tail)) <= BufferSize
    /\ wpc = "copy" => Pos(m_tail) + Len(wsrc) <= BufferSize

(* What the reader has seen is never more than there is, and is enough.    *)
ReaderInv ==
  /\ rpc # "fix" => m_head <= m_tail_address
  /\ rop = "drop" => MaxDrop # 0
  /\ rpc \in {"drop", "fix"} => rop = "drop"
  /\ rpc = "used" => UsedSeen <= Used
  /\ rpc \in {"tail", "load"} => rcount <= Used
  /\ rpc \notin {"idle", "copy"} => rdest = <<>>
  /\ rpc = "load" => UsedSeen \in rcount..Used
  /\ rpc = "copy" => /\ Len(rdest) + rcount <= Used
                     /\ rcount <= UsedLen(Norm(rhead), Norm(rtail))
                     /\ Norm(rhead) = Slot(Pos(m_head), Len(rdest))
  /\ rpc = "drop" => rcount <= Used

(* Then the bytes: those copied in are in place, those copied out were.    *)
DataInv ==
  /\ wpc = "copy" => \A i \in 1..wdone : mem[Slot(Pos(m_tail), i - 1)] = wsrc[i]
  /\ rpc = "copy" => \A i \in 1..Len(rdest) : rdest[i] = mem[Slot(Pos(m_head), i - 1)]

(* All of them together are inductive: what the copying of a block relies  *)
(* on at one step, the steps of the other thread leave true.               *)
IInv == TypeOK /\ WriterInv /\ HeadBeyondEndInv /\ ReaderInv /\ DataInv

(* What the caller of read() gets is there once the call has returned.     *)
Delivered == IF rpc = "idle" THEN rdest ELSE <<>>
Fifo == INSTANCE ByteFifo WITH src <- wsrc, fifo <- Contents, out <- Delivered

(* The buffer is a FIFO of whole blocks for its two threads: a write() takes *)
(* effect at its last store or not at all, a read() returns the oldest bytes *)
(* and dec_data_len() drops the oldest bytes, however the calls overlap.     *)
FifoSpec == Fifo!Spec

=============================================================================
