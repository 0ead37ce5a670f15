------------------------------ MODULE FmtBuffer ------------------------------
(***************************************************************************)
(* fmt: the buffers a line is formatted into.  All are a block of memory   *)
(* with a size and a capacity; they differ in what grow_ does when         *)
(* something does not fit:                                                 *)
(*                                                                         *)
(*   memory     basic_memory_buffer: moves to a larger block               *)
(*   container  container_buffer: resizes the container it writes to       *)
(*   iterator   iterator_buffer: writes the full block to an iterator      *)
(*   limited    the same, up to a limit: format_to_n()                     *)
(*   array      iterator_buffer for a pointer and a limit: writes in place *)
(*              and, once that is full, to a block that is thrown away     *)
(*   pointer    iterator_buffer for a pointer: writes in place             *)
(*   counting   counting_buffer: only counts                               *)
(*                                                                         *)
(* The characters written are 1, 2, 3, ...: out of order, lost or repeated *)
(* ones show.                                                              *)
(***************************************************************************)
EXTENDS Integers, Sequences, SequencesExt, FiniteSetsExt

CONSTANTS
  Kinds,       \* the kinds of buffers, of those above
  BufferSize,  \* buffer_size: 256; of memory, inline_buffer_size: 500
  Limits,      \* n of format_to_n(), N of an array
  MaxChars,    \* bound: characters written
  MaxAtOnce,   \* bound: characters appended by one call
  NotLimited,  \* a capacity nothing exceeds: ~size_t()
  AllocMax      \* max_size() of the allocator

VARIABLES
  kind, limit,
  data,      \* what the block holds: size_ is its length
  capacity,  \* capacity_
  inplace,   \* array: the block is the array; memory: it is store_
  dest,      \* what the iterator got, or was written to the array and stays
  count,     \* count_
  rest,      \* what append() has still to copy
  reserved,  \* how many characters a reserve() was made for that are not written yet
  next,      \* the next character
  pc         \* "open", "closed": out() has been called

vars == <<kind, limit, data, capacity, inplace, dest, count, rest, reserved, next, pc>>

Chars(from, n) == [i \in 1..n |-> from + i - 1]
Least(a, b) == IF a < b THEN a ELSE b

Init ==
  /\ kind \in Kinds
  /\ limit \in IF kind \in {"limited", "array"} THEN Limits ELSE {NotLimited}
  /\ capacity = CASE kind = "container" -> 0 [] kind = "pointer" -> NotLimited
                  [] kind = "array" -> limit [] OTHER -> BufferSize
  /\ inplace = (kind \in {"array", "memory"})
  /\ data = <<>> /\ dest = <<>> /\ count = 0 /\ rest = <<>> /\ reserved = 0 /\ next = 1 /\ pc = "open"

-----------------------------------------------------------------------------
(* A buffer as a value: what grow_ and flush() make of it.                 *)
Buf == [data |-> data, capacity |-> capacity, inplace |-> inplace, dest |-> dest, count |-> count]
IsBuf(b) == /\ data' = b.data /\ capacity' = b.capacity /\ inplace' = b.inplace
            /\ dest' = b.dest /\ count' = b.count

(* flush() with fixed_buffer_traits::limit().                              *)
LimitedPrefix(b) ==
  LET n == IF limit > b.count THEN Least(Len(b.data), limit - b.count) ELSE 0
  IN  [b EXCEPT !.dest = @ \o SubSeq(b.data, 1, n), !.count = @ + Len(b.data), !.data = <<>>]

(* The first flush() leaves the array, the next ones throw away.           *)
FlushArray(b) ==
  IF b.inplace THEN [LimitedPrefix(b) EXCEPT !.inplace = FALSE, !.capacity = BufferSize]
  ELSE [LimitedPrefix(b) EXCEPT !.dest = b.dest]

Flush(b) == CASE kind = "iterator" -> [b EXCEPT !.dest = @ \o b.data, !.data = <<>>]
              [] kind = "limited"  -> LimitedPrefix(b)
              [] kind = "array"    -> FlushArray(b)
              [] kind = "counting" -> [b EXCEPT !.count = @ + Len(b.data), !.data = <<>>]
              [] OTHER -> b

(* Larger by half at least, within max_size() if that is enough.           *)
MemoryCapacity(b, n) ==
  LET larger == b.capacity + b.capacity \div 2
  IN  IF n > larger THEN n ELSE IF larger > AllocMax THEN Max({n, AllocMax}) ELSE larger

(* Mutant: a full block is written out for one more character only.        *)
GrowForOne(b, n) ==
  CASE kind \in {"iterator", "limited", "array", "counting"} ->
         IF Len(b.data) = b.capacity /\ n = Len(b.data) + 1 THEN Flush(b) ELSE b
    [] kind = "container" -> [b EXCEPT !.capacity = n]
    [] kind = "memory"    -> [b EXCEPT !.capacity = MemoryCapacity(b, n), !.inplace = FALSE]
    [] OTHER -> b

(* grow_(): make room, though perhaps not for as much as n.                *)
Grow(b, n) ==
  CASE kind \in {"iterator", "limited", "array", "counting"} ->
         IF Len(b.data) = b.capacity THEN Flush(b) ELSE b
    [] kind = "container" -> [b EXCEPT !.capacity = n]
    [] kind = "memory"    -> [b EXCEPT !.capacity = MemoryCapacity(b, n), !.inplace = FALSE]
    [] OTHER -> b

try_reserve(b, n) == IF n > b.capacity THEN Grow(b, n) ELSE b

(* One turn of the loop of append(): as much as fits.                      *)
AppendTo(b, chars) ==
  LET g == try_reserve(b, Len(b.data) + Len(chars))
      n == Least(Len(chars), g.capacity - Len(g.data))
  IN  [buf |-> [g EXCEPT !.data = @ \o SubSeq(chars, 1, n)], rest |-> SubSeq(chars, n + 1, Len(chars))]

Idle == pc = "open" /\ rest = <<>>
Written(n) == next' = next + n /\ reserved' = IF reserved > n THEN reserved - n ELSE 0
Room(n) == next + n - 1 <= MaxChars

-----------------------------------------------------------------------------
PushBack ==
  /\ Idle /\ Room(1)
  /\ IsBuf([try_reserve(Buf, Len(data) + 1) EXCEPT !.data = Append(@, next)])
  /\ Written(1)
  /\ UNCHANGED <<kind, limit, rest, pc>>

BeginAppend(n) ==
  /\ Idle /\ Room(n)
  /\ rest' = Chars(next, n)
  /\ Written(n)
  /\ UNCHANGED <<kind, limit, data, capacity, inplace, dest, count, pc>>

CopySome ==
  /\ pc = "open" /\ rest # <<>>
  /\ IsBuf(AppendTo(Buf, rest).buf)
  /\ rest' = AppendTo(Buf, rest).rest
  /\ UNCHANGED <<kind, limit, reserved, next, pc>>

(* reserve(): for what is written next, character by character.            *)
Reserve(n) ==
  /\ Idle /\ Room(n) /\ reserved = 0
  /\ IsBuf(try_reserve(Buf, Len(data) + n))
  /\ reserved' = n
  /\ UNCHANGED <<kind, limit, rest, next, pc>>

(* Mutant: no check that the block has room now.                           *)
WriteInPlaceUnchecked(n) ==
  LET g == try_reserve(Buf, Len(data) + n)
  IN  /\ Idle /\ Room(n)
      /\ IsBuf([g EXCEPT !.data = @ \o Chars(next, Least(n, g.capacity - Len(g.data)))])
      /\ Written(n)
      /\ UNCHANGED <<kind, limit, rest, pc>>

(* to_pointer(): n characters directly into the block, with try_resize(),  *)
(* if it has room for them; otherwise nothing, and they are copied.        *)
WriteInPlace(n) ==
  LET g == try_reserve(Buf, Len(data) + n)
  IN  /\ Idle /\ Room(n)
      /\ IF g.capacity < Len(g.data) + n
         THEN IsBuf(g) /\ rest' = Chars(next, n)
         ELSE IsBuf([g EXCEPT !.data = @ \o Chars(next, n)]) /\ UNCHANGED rest
      /\ Written(n)
      /\ UNCHANGED <<kind, limit, pc>>

(* out(), and what the caller gets: flush() for the kinds that have one.   *)
Close ==
  /\ Idle /\ reserved = 0
  /\ IsBuf(IF kind = "counting" THEN Buf ELSE Flush(Buf))
  /\ pc' = "closed"
  /\ UNCHANGED <<kind, limit, rest, reserved, next>>

Sizes == 1..MaxAtOnce

Next == \/ PushBack
        \/ \E n \in Sizes : BeginAppend(n)
        \/ CopySome
        \/ \E n \in Sizes : Reserve(n)
        \/ \E n \in Sizes : WriteInPlace(n)
        \/ Close

Spec == Init /\ [][Next]_vars /\ WF_vars(CopySome)

-----------------------------------------------------------------------------
(* What has been given to the buffer and copied.                           *)
Given == Chars(1, next - 1 - Len(rest))
Cut(s) == IF Len(s) > limit THEN SubSeq(s, 1, limit) ELSE s

(* Types; a block never holds more than it has room for.                   *)
TypeOK ==
  /\ kind \in Kinds /\ limit \in Nat
  /\ Len(data) <= capacity
  /\ inplace \in BOOLEAN /\ count \in 0..MaxChars
  /\ Len(dest) <= limit
  /\ reserved \in 0..MaxAtOnce /\ next \in 1..(MaxChars + 1)
  /\ pc \in {"open", "closed"}

(* At every moment what has been passed on and what the block holds are    *)
(* together what was given, in order, cut at the limit if there is one.    *)
Output == CASE kind = "array" -> IF inplace THEN data ELSE dest
            [] kind \in {"memory", "container", "pointer"} -> data
            [] OTHER -> dest \o data

NothingIsLost == IF kind = "counting" THEN count + Len(data) = Len(Given) ELSE Cut(Output) = Cut(Given)

(* What the caller finds: all of it in a container of that length, a       *)
(* prefix and the total size of format_to_n(), the number of characters.   *)
Results ==
  pc = "closed" =>
    /\ kind \in {"iterator", "limited", "array"} => dest = Cut(Given) /\ data = <<>>
    /\ kind \in {"limited", "array", "counting"} => count + (IF kind = "counting" THEN Len(data) ELSE 0) = next - 1
    /\ kind = "container" => data = Given /\ capacity = Len(Given)
    /\ kind \in {"memory", "pointer"} => data = Given

(* Nothing is lost on the way, and the caller finds it all.                *)
Inv == TypeOK /\ NothingIsLost /\ Results

(* append() comes to an end: every turn of its loop copies something.      *)
AppendEnds == rest # <<>> ~> rest = <<>>

=============================================================================
