# Verification of lolog

lolog is a header-only asynchronous logging library. Its own program is
`src/include/Lolog-Inl.h` (line numbers without a file are of that one).
`src/include/fmt` is the copy of {fmt} it comes with, which formats every line
of a log call; `src/test` and `src/bench` only call the library.

Check a module with TLC through its MC module and a configuration, for example
`tlc -config ring_release.cfg MCCircleBuffer.tla`, and the proofs about it with
`tlapm CircleBufferProofs.tla`: a module `X` has its proofs in `XProofs`.
`PROJECT.json` lists the runs, the mutants, the source lines of every definition, the hazards
and the theorems. An operator that a module has only for a mutant says so.

## The system

A thread that logs formats its text into a buffer of its own, frames it and
writes it to a ring of its own. One background thread takes a frame at a time
from each ring in turn and writes it to the log file. No lock protects the
rings, and m_head, m_tail, m_is_running, m_file_log and the settings are plain
variables shared by the threads.

    debug() ... fatal()   fmt::format     LyMsg::write     CircleBuffer     LyMsg::read     save_log_file
    levels, colours   ->  m_current_log ->  header text tail ->  5 MB ring  ->  a frame   ->  m_file_log, stderr
                          (one per thread that logs)                        (one background thread)

| part | lines | state | operations | what makes it correct |
|---|---|---|---|---|
| `CircleBuffer` | 31-297 | `m_head`, `m_tail`, the bytes | `write`, `read`, `dec_data_len`; one thread at a time: `alloc`, `reset`, `free`, `memcmp`, `memcpy`, `strstr`, `operator[]`, lengths | a FIFO of bytes for one writer and one reader; nothing unread overwritten, nothing unpublished read; lookups see the contents wherever they wrap |
| `LyMsg` | 299-450 | `m_using_tail`, `m_check_msg_version` | `write`, `read`, `abandon_error_data` | what is read is a message that was written; after error data the next message is found |
| registry | 705-748 | `m_thread_log_buffer`, its mutex | `get_log_buffer_by_id`, the walk | one buffer per thread, found again, its lines in order |
| thread buffers | 656-702 | `m_current_log` | `add`, `flush` | text refused by a full ring leaves later, in order |
| background thread | 725-801 | `m_is_running`, the message in hand | `save_log_file` | order per thread, no line lost without a cause, every ring served, ends when told |
| application calls | 500-520, 568-605, 648 | `m_std_out`, the file | `init_logging`, `stop`, destructor | the file may be reopened and the logger destroyed at any time |
| files | 524-601, 781-792 | `m_file_log`, `m_log_list`, `m_log_file_type`, the directory | opening, rotation, removal | old files go first, the directory stays bounded |
| front end | 808-1067 | `g_log_level`, `g_color`, `g_print_line`, `kLevelMap` | log calls, setters, macros | a line is whole and carries its level and colour, colours end |
| {fmt} | `base.h`, `args.h`, `format.h`, `format-inl.h`, `chrono.h`, `printf.h` | a parser's place, an argument store, a buffer | parsing, arguments, buffers, text of values | what is written reads back as what was given |

What is hard here: two threads in one ring without a lock; a map searched
without one; a file closed and opened by one thread and written by another; a
ring that is full and text that is merged meanwhile; messages too long to be
read back; texts that look like headers; a call that throws in the middle; an
exit at any moment; names of files that repeat; defaults that apply until
`init_logging` ends. In {fmt}: room computed before the text is written,
lengths in bytes and in columns, numbers at the ends of their types, the
rounding of floating-point numbers and of calendars. The `hazards` of
`PROJECT.json` list each at its line.

## Modules

Three abstract specifications say what a part promises, and the detailed ones
implement them: `ByteFifo` (by `CircleBuffer`, `FifoSpec`), `MessageChannel`
(by `LyMsg`, `ChannelSpec`), `ThreadLogs` (by `ULog`, `LogsSpec`). Each layer
uses the one below as what it was shown to be: `LyMsg` a ring that is a FIFO of
bytes, `ULog` a channel of whole frames, `Registry` buffers that keep what is
flushed to them. `LogFiles` refines the one place where `ULog` says that a file
may be closed and opened, and `FrontEnd` the one where it says that a line is
logged.

### CircleBuffer

One writer (the logging thread in `write`) and one reader (the background
thread in `read` or `dec_data_len`). A step is one access to a pointer the
other thread owns, or one byte copied. `wpc` and `rpc` say where each thread is
in its call; `wsaw`, `rsaw` keep what a first load returned until the second.

| action | code |
|---|---|
| `WriteCall`, `WriteRefused`, `WriteStart`, `WriteByte`, `WritePublish` | 166-190, with `get_available_buff_len` 96-104 |
| `ReadCall`, `ReadTooShort`, `ReadEnough`, `ReadTailLoad`, `ReadStart`, `ReadByte`, `ReadPublish` | 128-164, with `get_used_buff_len` 88-94 |
| `DropCall`, `DropClip`, `DropAdvance`, `DropFix` | 205-215 |

Addresses count from `m_base_address` = 0; a stored pointer may rest one past
the end, which stands for 0. `dec_data_len` stores `m_head` twice, once beyond
the end of the ring: both stores are steps. The expression
`(m_head < m_tail_address) ? m_head : m_base_address` loads a volatile pointee
through a pointer that is not volatile itself: an unoptimised build loads
`m_head` twice, an optimised one once. `DebugBuild` chooses. Loads and stores
of one thread are taken to reach the other in program order, which x86
guarantees for these accesses and the C++ standard does not: on a weaker
machine, or with a compiler that moves the plain stores, nothing here holds.

`WriterStaysInFreeSpace` and `ReaderSeesPublishedBytes` are the two sides of
the race. `ReadIsComplete` says that the second look at `m_tail` in `read`
finds no less than the first: the early return at line 136 and the clipping of
the copy loops are dead code.

`CircleBufferOps` has every operation of the class, one call a step: `alloc`,
`reset` and `free` with the places where a call on a freed ring returns early,
`inc_data_len` and `dec_data_len`, and the lookups `memcmp`, `memcpy`,
`strstr`, `operator[]` and the continuous lengths, which read data that may
wrap in two pieces. `LookupsAreSound` compares each with the sequence of bytes
the ring stands for; `QueueStep` says that each call changes that sequence as a
queue.

### LyMsg

The ring is a sequence of bytes here. A message is three writes into it
(`WriteHeader`, `WriteData`, `WriteTail`, 367-378), so that the reader may find
the header alone.

| action | code |
|---|---|
| `ReadNoHeader`, `ReadBadLength`, `ReadHeader` | 317-339: no flag at the front, a length that is too long, or a header |
| `ReadNotYet`, `ReadMessage`, `ReadWrongTail` | 341-365: too little is there yet, the message with or without its tail, the wrong tail |
| `AbandonByte`, `AbandonEnough` | `abandon_error_data` 380-403, a byte at a time up to its limit or the next flag |

Texts contain the bytes of the flag, of lengths and of tails. A text given up
because it is too long may hold what looks like a message; only the first
message may not (`FirstText`), since `read` would conclude for good that
messages have no tails (hazard at 341). `discard_error_data` has no caller.

`ChannelSpec`: whole, in order, and only what is too long is given up.
`TailsAreUsed` (in `FramesAreSound`): the one decision that is taken for all
messages to come is right. `EveryMessageIsReached`: the reader gets past
anything.

### Registry

`m_thread_log_buffer` maps ids to buffers. Each `add` and each `flush` searches
it without the lock.

| action | code |
|---|---|
| `FindBegin`, `Found`, `NotFound` | the search 712-714, and what the caller does with what it found |
| `InsertBegin`, `InsertEnd` | the locked insertion 715-722 |
| `WalkBegin`, `WalkNext`, `WalkEnd`, `WalkRead` | the walk of the background thread 735-748 |

A search, or a step of the walk, that another thread's insertion overlaps is a
data race: it may miss what is there. (It could also crash; that is left out.)
`insert` does not replace an entry, but the caller is given the new buffer in
any case: what a thread writes then goes to a buffer nobody reads.
`OneWriterPerRing` is what `CircleBuffer` rests on. `OrphansAreFew` bounds the
damage: N(N-1)/2 such buffers for N threads, however long they log.
`SavedInOrder` (in `SavedAndLocked`) says that lines are in order and once even
so, and `EveryBufferIsRead` that the walk reaches what is in the map.

### ULog

State: for each thread `current` (its `m_current_log`) and `ring` (a sequence
of frames), the background thread's place `bpc`, `bat`, and the lines `hand` of
the message it holds, `fileOpen`, the screen flags, and the application's place
`mpc`. History variables (`logged`, `saved`, `lost`, `refused`, `missed`,
`screen`) only serve the properties. A line is its number among the lines of
its thread; lengths are in units.

| action | code |
|---|---|
| `LogFlushed`, `LogKept` | a log call: `add` and the `flush` of `endl`, 606-620, 675-701, with `LyMsg::write` 367-378 |
| `BgTest`, `BgNext` | the loop and the walk over the map, 733-746 |
| `BgReadNothing`, `BgReadMessage`, `BgReadOverlong`, `BgAbandon` | `LyMsg::read` 317-365, `abandon_error_data` 380-403 |
| `BgSave` with `Echo` | 748-795 |
| `OpenBegin`, `OpenThrows`, `OpenEnd` | `open_log_file` up to and from the opening, 568-601; a path of fewer than four characters makes line 573 throw, with `m_is_running` set |
| `SetStdOut`, `Stop`, `ExitBegin`, `Join` | 849, 648, 510-520 |

Abstractions: the search of the map is one step with the log call (`Registry`
has it apart); a write to the file is one step; the three bytes that
`abandon_error_data` may leave until the next frame comes are dropped with the
rest; `m_buffer_send` is null, as everywhere in the repository; after the
destructor nothing logs. `Main` is the thread that runs `main()`: it logs only
before the destructor begins, other threads also while it runs.

`InOrder`: lines keep their order from `m_current_log` to the file and none is
there twice. `AllAccounted`: each line is somewhere, or was given up and never
turns up again. `LossHasCause`: given up only without an open file, at exit, or
after a refused flush. `ExitIsClean`: the buffers are deleted after the
background thread has ended, which holds no message then. (`Consistent` is
`TypeOK`, `InOrder` and `ExitIsClean`.) `NoticesAreApart`: one notice for a
backlog that stays large. `EveryMessageIsTaken` and `ExitTerminates` are the
liveness properties.

### LogFiles

The directory is a sequence of files ordered by modification, a file a name and
the numbers of its messages, a name its kind and the time, day or number in it.
A behaviour has one `setup`: the kinds of names, the arguments and the defaults
of `init_logging`, and the bounds.

| action | code |
|---|---|
| `InitBegin`, `InitClean`, `InitOpen`, `InitEnd` | `init_logging` 831-845 with `open_log_file` 568-601: close, remove old files, open, store the arguments |
| `WriteMessage`, `WriteAndRotate` | 757-761, 781-792 |
| `SetLogFormate` | 862, 522 |
| `Tick`, `Restart` | the clock; the process ends anywhere and starts again |

Between `InitBegin` and `InitEnd` the background thread goes on, so it may
rotate with the defaults of `m_log_remain_counts` and `m_inc_log_size`. Left
out: a rotation between the two statements that open a file and enter it in
`m_log_list`; a failure to open (`ULog` has it); other programs' files.

`LiveFileIsKept`, `OnlyOldestDestroyed`, `KeepsNewestFiles`, `DiskBound` and
`SizeBound` are described in the module. Three limits of the code show in how
they are stated. The clean-up of `open_log_file` (582-584) runs before
`init_logging` stores its count (840): after a restart it keeps the default of 5
files even if the application asks for 10. `KeepsNewestFiles` therefore promises
as many as asked for, or as many as the default and the files opened since the
count was stored (`Promised`), if that is less. `m_log_list` starts empty after a restart, so rotation may
remove newer files than those of the earlier run: `OnlyOldestDestroyed` speaks
of the messages of one run. A list that grew to the default count, because a
rotation came before `init_logging` ended, is never shortened, and every
further `init_logging` makes it longer by one: `DiskBound` counts with the
larger of the two counts and with the calls. An application that calls
`init_logging` more often than files may remain can lose its last message while
empty files stay, so the second part of `OnlyOldestDestroyed` asks that there be
as many files as calls. The proofs found both (see below).

### FrontEnd

A log call adds its line piece by piece; a piece is its kind and the level of
its call. `Call`, `CallFiltered`, `SetColor`, `Stamp`, `Body`, `BodyThrows`,
`ResetColor`, `Endl`, `EndlRefused` are the statements of `debug` ... `fatal`
and `debugex` ... `fatalex` (864-880 for the first of them; `Stamp` is the date,
the level and the place); `set_log_level`,
`set_color`, `set_print_file_line` (847-860) and `InitBegin`, `InitColor`,
`InitLevels` (831-844) are what other threads do meanwhile. `kLevelMap` exists
once for each translation unit, and `OneLevelMap` says whether the linker made
them one.

`LinesAreWhole` (in `TextIsWhole`): all pieces of a line are of one call, a
frame ends where a line ends, and what a call that threw left behind is the
start of the thread's next line and nothing else. `ColourDoesNotLeak`: the
terminal is as it was after each frame, unless the colour was turned off in the
middle of a call.

### {fmt}

Parsing, stores and buffers are state machines; what is written for a value is
an operator, which one behaviour of `MCFmtCalls` calls once.

| module | models | compared with |
|---|---|---|
| `FmtParse` | `parse_format_string`, `parse_format_specs`, argument ids, dynamic width and precision (`base.h`); a step is a turn of a loop | `FmtGrammar`: the grammar of format strings, what a sentence spells and means, with nothing parsed |
| `FmtArgs` | types mapped and packed in a word, or unpacked; names; `dynamic_format_arg_store` with `push_back`, `clear`, `reserve`, its copies and the hidden slot that names are looked up through (`base.h`, `args.h`) | the list of arguments given |
| `FmtBuffer` | `buffer` and its seven kinds: `push_back`, `append`, `try_reserve`, writing in place (`base.h`, `format.h`) | the characters written |
| `FmtText` | padding, which all writers share | - |
| `FmtInt` | integers, booleans, characters, pointers; three ways to count digits; `digit_grouping` (`format.h`) | `FmtReads`: the text is read back |
| `FmtUnicode` | decoding and columns of UTF-8, precision, fill, escaping, UTF-16 both ways (`format.h`, `base.h`, `format-inl.h`) | `FmtReads` |
| `FmtChrono` | formats of times with the handlers that check and write them, `tm_writer`, ISO weeks, fractions, durations, `safe_duration_cast` (`chrono.h`) | `FmtTimes`: the calendar |
| `FmtPrintf` | `vprintf`: positions, flags, width, precision, length, conversions (`printf.h`) | `FmtPrintfReads`: the C standard |
| `FmtBigint`, `FmtDragonbox`, `FmtFloat` | `bigint` and `format_dragon`; `to_decimal` and the digits of a segment; the forms of a floating-point number (`format.h`, `format-inl.h`) | `FmtFloatReads`: the nearest number of so many digits, the shortest that reads back |

The reference modules compute nothing the way the code does: they say what a
text must be, given what was to be written. Arithmetic is that of small words
with the order of sizes kept: eleven bits for an int, bigits of four bits,
floating-point numbers with four bits of significand and a long one with eight
(which has no hidden bit, as x87 has none). A table of powers of ten is
replaced by the powers: whether the table's entries are right is not examined.
The limits of a precision are small too: `max_double_digits` is 12 for 767,
`max_int` is 20 for the largest int. With these the small double still has no
more digits than the first of them, as in the code, where all that is cut are
zeros; of a long double, which may have more digits than 767, this is not so in
the code, and the model says nothing of it.

`ReadAsWritten`: a string is accepted if and only if it is in the language,
and then what is written is what it means. `StoreIsSound`,
`CallFindsArguments`, `StoreFindsArguments`: whatever is collected is found
again by index and name, and nothing refers to memory that moved. Two things in
the code are excepted. `reserve()` (`args.h:207-212`) may move the names and
leaves the hidden slot as it is; until the next name is pushed, which writes it
anew, the slot refers to freed memory (`moved`), and a lookup by name may see
anything (`NamesSeen`). And the count of arguments includes the hidden slot, so
that the index one past the last is read past the end (`PastTheEnd`).
`NothingIsLost`: what a buffer's caller finds is what was written, up to its
limit, and the count beyond it. `IntegersReadBack`, `StringsFit`,
`TimesAreRight`, `PrintfAgrees` and `FloatsAreRight` compare texts with the
references.

`MCCircleBuffer` and `MCFmtStores` each have two parts of which a behaviour
exercises one: two threads at a ring or one thread with every call of the class
(`TwoThreads`, `OneThread`), and the arguments or the buffers of a call.

## Runs

| run | bounds | shows |
|---|---|---|
| `ring_release` | ring of 3 + 1 bytes, two byte values, blocks of 1 to 3, drops of 1 to 3, single loads | the ring is a FIFO, no overwrite, no torn read, reads complete; the inductive invariant of the proofs |
| `ring_debug_drop` | the same with double loads and drops of 1 | **violated**: `WriterStaysInFreeSpace` |
| `ring_ops` | rings of 1 and 3 bytes, two byte values, blocks up to 3, any order of calls | lookups see the contents, calls are those of a queue |
| `framing` | flag of 2 bytes, ring of 10, messages up to 7 read, 3 messages, 2 bytes given up at a time | `MessageChannel`, tails stay in use, every message is reached |
| `registry` | 3 threads, one of them with 2 lines, the others with one | one writer per ring, order, few orphans, every buffer is read |
| `pipeline` | 2 threads: 3 lines of length 1 or 3, and 1 line of 2; a ring of 7; messages up to 5 read; 2 openings that may fail or throw; printing, stop and exit at any time | order, accounting, loss only with a cause, notices, `ThreadLogs`, every message taken, exit ends |
| `exit_drain` | 1 thread, which runs `main()`, 3 lines, one opening that succeeds | **violated**: `LoggedBeforeReturnIsSaved` |
| `files` | five setups: each kind of name; numbers 0 to 3 and 16 messages; kinds that change at any time, with numbers 0 and 1; 4 calls of `init_logging` in a run; and 4 files asked for where the default is 2. Otherwise 2 calls, and always 2 runs of the process | removal, retention, names that repeat, the size of a file and of the directory |
| `frontend` | 1 thread, 2 levels, 2 units (symmetric), 3 calls, 2 settings | whole lines, colours that end |
| `format` | all strings of up to 6 of 6 characters; all specifiers of up to 4 characters, of eight alphabets, for an argument of each of 7 types; 9 arguments; an int of 8 bits | accepted if and only if in the grammar, with its meaning; parsing ends |
| `stores` | up to 4 arguments of 3 C++ types with 2 names, packed up to 2, `reserve` for up to 4 names, one `clear`; the 7 kinds of buffer with a block of 3 and limits 0 to 7, up to 9 characters | every argument is found, nothing written is lost |
| `calls` | integers of 11 bits at their limits with all specifiers and 4 locales; strings of the bytes at the decoder's limits; dates, counts and periods at the ends of years; printf directives alone and in pairs, with widths and precisions about the largest int; all small floats, and precisions up to the largest int | each text reads back |

The ring of three bytes already has every relation of head, tail and wrap: an
empty, full and partly full ring, a block that wraps and one that does not, a
pointer at the end, one drop that wraps; the proofs cover every size. In
`framing` three messages are one that may be given up, one behind it and one
that is being written meanwhile, and a flag can begin in one field and end in
the next. Three threads in `registry` are the fewest for a search that an
insertion of another spoils while a third is in the map; the proofs cover any
number. In `pipeline` two long lines do not fit the ring, so flushes are
refused and texts merge; three merged lines are longer than the ring, two
longer than can be read. In `files` the limits are 2 and 1 messages, so that
several rotations happen before and after `init_logging` stores its arguments
(four calls of it are the fewest that make the list longer than one run's count
and one more);
the list is kept within the numbers, since with more files than numbers
(`log_remain_counts` above 51) the code removes the file it has just filled;
and files named by seconds are opened in different seconds (`NameIsNew`), since
otherwise the second opening truncates the first file. One thread is enough in `frontend`:
threads share settings only, and these change between any two pieces. `format`
reaches fields with an id, a colon and specifiers in the strings, and in the
single fields every pair of neighbours in the order of specifiers; its numbers
are below, at and above 127, the largest int there, with two and three digits,
and its dynamic widths and precisions refer to arguments that are negative, too
large, of another type or missing. The three types of `stores` are one whose
copy is of another type, one that is not copied and one that is.

Deadlock is not checked where nobody must go on: the ring, the logger and the
files may rest for ever, a call of {fmt} returns. `ring_ops` checks it.

Fairness is that of the operating system's scheduler and no more. In
`pipeline`, `framing` and `registry` the background thread runs: it blocks on no
lock, its only waits are sleeps of 100 microseconds. In `framing` a thread
inside `LyMsg::write`, and in `registry` one that holds the lock, also goes on.
In `format` and `stores` the loops of {fmt} run on. Nothing is assumed about the
threads that log or about the application: `EveryMessageIsTaken` therefore says
what happens to a message once the thread runs, whatever others do, or that the
thread ended.

Two runs disagree with what the repository says. `ring_debug_drop`: in an
unoptimised build, resynchronisation (`dec_data_len(1)`, called at 333 and 397)
can make the writer overwrite bytes that were not read. `exit_drain`: the
README's programs return right after their last log call, and the destructor
ends the background thread before the rings are empty. In the counterexample
`main()` logs a line, which is in the ring, then returns; the destructor clears
`m_is_running`, the loop ends at its next test, and the line is lost.

## Proofs

`CircleBufferProofs` proves, for every buffer size, set of byte values, length
of blocks and count of drops, from `SizeAssumption` and under
`BuildAssumption` (`~DebugBuild \/ MaxDrop = 0`: without it the statement is
false, as `ring_debug_drop` shows):

| theorem | property |
|---|---|
| `TypeCorrect` | `TypeOK` |
| `Invariance` | `IInv` |
| `NoOverwrite` | `WriterStaysInFreeSpace` |
| `NoTornRead` | `ReaderSeesPublishedBytes` |
| `ReadNeverShort` | `ReadIsComplete` |
| `RingIsFifo` | `FifoSpec`, the refinement of `ByteFifo` |

The two safety properties are not inductive: they speak of a thread that is
copying and not of what it saw before. `IInv` adds, for each place in the two
calls, that what a thread is about to find is on the safe side of the truth:
the free space the writer computes from an old `m_head` (`WriterInv`), the used
length the reader computes from an old `m_tail` (`ReaderInv`), and that while
`m_head` rests beyond the end the writer is not going to wrap
(`HeadBeyondEndInv`). `DataInv` says that the bytes copied are in place. The
argument has three layers: lemmas about distances around the ring (`SlotStep`
to `UsedSlotsAreNotFree`), one lemma per part of the invariant with a step per
action, and the theorems. `RingIsFifo` maps each action to a step of `ByteFifo`
or to a stutter: `WritePublish` is `Accept`, `ReadPublish` is `Read`,
`DropAdvance` is `Drop`.

The same module proves of `CircleBufferOps`, for every set of byte values that
are numbers with 0 among them, every set of sizes and every length of blocks,
from `OpsAssumption`:

| theorem | property |
|---|---|
| `RingIsReadable` | `LookupsAreSound` |
| `RingIsAQueue` | `QueueStep` |

`TypeOK` is inductive as it stands: the code keeps nothing beside the two
pointers that could disagree with them. Everything rests on `Places` (where the
pointers lead, and that the used length leads from one to the other) and
`Around` (places along the ring add up). Each call is then a fact about places
(`WritePositions`, `ReadPositions`, `IncPositions`) and one about the sequence
(`WriteAppends`, `ReadDrops`, `IncAppends`). For `memcmp` the loop is shown to
end (`CompareEnds`) and its result to be zero only if no byte differs
(`CompareDecides`), by induction from the last byte; where the two pieces of a
part lie is a matter of `PartAt` alone. The proof found that `QueueStep` was
stated too narrowly: `inc_data_len` may append one byte more than the longest
block.

`RegistryProofs` proves, for every finite set of threads and every number of
lines, from `RegistryAssumption`:

| theorem | property |
|---|---|
| `Invariance` | `IInv` of that module |
| `SingleWriter` | `OneWriterPerRing` |
| `LinesInOrder` | `SavedAndLocked` |

Order in the file is not inductive: it rests on the order of what is still in
the ring and in `m_current_log`. `OrderInv` says that these are in order, each
before the next, and none younger than the last line added. It holds although
searches miss because a thread with a buffer in the map keeps that one
(`OwnerInv`: the map is injective, and a buffer has the lines of one thread),
and the lines that go astray only leave gaps. `Changes` states once what `add`
and `flush` do to the sequence of buffers; `FoundEffect` and `InsertEffect`
show that the two ends of a search do it, and the steps of the invariant use
nothing else of them.

`OrphansAreFew` counts buffers. `OrphanInv` pays for them in advance: with k
threads in the map, twice the buffers lost so far together with the threads
that may still lose one (`Missing`: a search that an insertion overlapped, or
that missed) are at most k(k-1). Entering one more buffer spoils at most the k
searches of the others, and that is what the bound grows by.

`ULogProofs` proves, for every set of threads, every length of their
lines and every size of the rings, from `ULogAssumption`:

| theorem | property |
|---|---|
| `Invariance` | `IInv` of that module |
| `InOrderThroughout` | `Consistent` |
| `NoneDisappears` | `AllAccounted` |
| `LossExplained` | `LossHasCause` |
| `OneNotice` | `NoticesAreApart` |
| `LogsAreKept` | `LogsSpec`, the refinement of `ThreadLogs` |

The order in the file rests on that of four other places. `Way` collects, for a
thread, what is saved, in the background thread's hand, in the ring (message by
message), in `m_current_log`, lost, and logged; one lemma per action says which
of eight moves (`Collected`, `Flushed`, `Taken`, `GivenUp`, `Abandoned`,
`Saved`, `Missed`, `Ended`) it makes with the way of each thread. Order and
accounting (`WayInv`) are then shown for the moves alone, without variables.
`StateInv` says what is in the hand at each place of the loop and that what is
left of a given-up message holds no line; `CauseInv` that as long as no flush of
a thread failed, nothing waits in its `m_current_log` and each of its messages
is short enough; `MarkInv` that the screen does not end with a notice unless the
mark is set. The refinement maps a move to appending a line, moving the front to
the file, losing it, or to a stutter.

`LogFilesProofs` proves, for every set of setups, from `FilesAssumption`:

| theorem | property |
|---|---|
| `Invariance` | `IInv` of that module |
| `FileIsKept` | `LiveFileIsKept` |
| `FilesAreBounded` | `SizeBound` |
| `DirectoryIsBounded` | `DiskBound` |
| `EverythingFits` | `FitInv`, under `UsualSetups` |
| `NewestAreKept` | `KeepsNewestFiles`, under `UsualSetups` |
| `OldestAreLostFirst` | `OnlyOldestDestroyed`, under `UsualSetups` |

`IInv` has the sizes: a file that will still be written is below its limit, the
list is no longer than a count and the openings since (`ListInv`), the files
outside it no more than the clean-up left (`OthersInv`). `FitInv` has the order:
names opened in this run, list and directory are three views of one history.
The list is the end of what was opened (`Fits`), the files opened last were
modified last, messages are in the order of the files, none is missing between
one on the disk and the last, and numbers of `AutoIncSn` count on by one
(`HistoryInv`), so that the oldest of the list never has the name about to be
opened. That needs `UsualSetups`: names do not come round within one list, whose
length is the larger of the count asked for and the default, and one more for
every call of `init_logging`; with the program's default of 5 and numbers to 50
this allows 47 such calls in a run of the process, or 42 if 10 files are asked
for. A setup in which
the type of names changes while files are open is outside these two properties,
which say nothing of it, and inside the others.

The proof of `DiskBound` failed at first where it should: the bound was wrong
for four or more calls of `init_logging` after a restart, and so was the second
part of `OnlyOldestDestroyed`; TLC confirmed both with the setup `Reopening`,
and the properties now say what holds.

`LyMsgProofs` proves, for every size of the ring, of messages, of the flag and
of what one call gives up, from `LyMsgAssumption` and under
`LongTextsArePlain`:

| theorem | property |
|---|---|
| `Invariance` | `IInv` of that module |
| `FramesStaySound` | `FramesAreSound` |
| `FramingIsAChannel` | `ChannelSpec`, the refinement of `MessageChannel` |

`LongTextsArePlain`: a text that is too long to be read back does not have a
whole flag in it; texts that are short enough may have any bytes. The flag
is four bytes 0xFF, which UTF-8 never contains. Without it the statement is
false: inside a long text that is being skipped a well-formed frame would be
taken for a message. (`framing` has a long text with a flag and a length in it,
but without the tail.) The invariant is `StreamInv`: what is in the ring
followed by what the writer has still to add (`Missing`) is some bytes to be
skipped followed by the frames of the texts in `sent`. In the bytes to be
skipped no message starts, and from each of them on, fewer than `FlagLen` bytes
follow until one that is not of a flag (`Skipped`), so a flag in front tells that
nothing is left to skip (`FlagTells`). `FirstFrame` gives the frame in front,
`SkipOne` and `SkipFrame` what giving up a byte does, and lemmas on `Starts`
count the messages. `ReadWrongTail` is shown never to happen.

`FrontEndProofs` proves, for every set of threads, levels and
translation units, from `FrontEndAssumption`:

| theorem | property |
|---|---|
| `Invariance` | `IInv` of that module |
| `ColourEnds` | `ColourDoesNotLeak` |
| `LinesStayWhole` | `TextIsWhole` |

`TextInv` says how the text of a thread ends at each place of a call; a line is
whole because each step adds the piece that may follow. `ColourInv`: unless
colours were turned off under a call, no flushed frame is open, and a colour is
open in `m_current_log` only while `g_color` is set, so that the next
`reset_color` will end it, and not where the line ends.

`FmtStoresProofs` proves what a call of {fmt} reads its arguments from and what
it writes to, for every list of arguments, every size of a buffer, every limit
and every order of calls:

| theorem | property |
|---|---|
| `NoCharacterIsLost` | `NothingIsLost` |
| `StoreRefersToWhatLives` | `StoreIsSound` |
| `StoreFindsAll` | `StoreFindsArguments` |
| `CallFindsAll` | `CallFindsArguments` |

`BufferAssumption` says that the number that stands for no limit is above what
is written; `ArgsAssumption` that the mapped types are those of the code and
that the count of arguments stays below the flags of the word;
`TypesFitTheirBits` that the sixteen types fit the bits of one. A buffer's
`Buffer!Inv` speaks of the text as a whole; `BufferInv` says for each place
in a call which of the characters given are in the block, which have gone to the
destination, and what the capacity is then (`Holds`, `HasRoom`), so that a flush
of a block that is full or not, before or past the limit, moves what is
missing (`FlushMoves`, `LimitedChars`). For an array it matters that the block
is the caller's until the limit and a scratch block from then on. `ArgsInv` says
that each argument has its slot, behind the hidden one if there is one
(`HasSlots`), and that the entries of `named_info_` are the named arguments in
their order (`HasNames`): `StoreFindsArguments` is not inductive, since it says
nothing of the entries that no lookup finds. That a name is found through the
hidden slot is one more fact, `NamesAreSeen`: while the slot is fresh, what a
lookup may see is `named_info_` itself. A call with few arguments
packs their types: `WordOfTypes` shows that each field of the word is the number
of its type, the fields past the last are zero and the two flags above are
untouched, by induction over the word from its last field (`Fields`,
`EncodingIsSmall`), on lemmas about quotients and powers of two.

`FrontEndProofs` also proves of the parser of format strings, for all strings of
any length over any characters, all arguments and every size of `int`, with
`FmtGrammar` as the instance `Parse`, whose state is its own:

| theorem | states |
|---|---|
| `ParserIsSound` | `AcceptedAsSentence`: a string that is accepted is spelled by a sentence of `FmtGrammar` whose references are right (`SentenceOk`), and what is written is what the sentence means |

This is one direction of what the run `format` checks within its bounds, where
the sentences are those TLC enumerates; `AcceptedAsSentence` ranges over all of
them, with numbers of any length and names of any letters, so TLC cannot
evaluate it (`TokensAreWords` checks that the tokens of the run are tokens of the
grammar). `ParseAssumption` says that the words for the end of the string and
for a fill are not characters, that `IntBits` is the size of an int, that
`digits10` digits fit in one, and states the powers of ten up to there; an
instance takes it as the theorem's hypothesis, and TLC evaluates it in the run
`format`.

The parser decides on a field before it has seen its end, and on a number before
it knows whether it fits; what it keeps is not a parse tree. The invariant
supplies the tree: while text is read (`TextInv`), what has been read is spelled
by a sentence that means what is in `out`, followed by text that is still to be
copied; inside a field (`SpecsInv`), it is a sentence and a field whose
specifiers up to the place that `state` gives are complete and whose later ones
are empty (`Stage`), and `specs` is what these specifiers mean, dynamic ones as
references not resolved yet. Each step extends the sentence (`SentenceGrows`) or
the field (`PieceTaken`, `RefTaken`). That `next_arg_id_` gives the numbers that
the grammar counts is `RefsGrow` and `SameField`: later references change nothing
of what an earlier field means. A width or a precision whose argument does not
exist or cannot be one is not refused where it is read but where the field ends;
`Lost` stands for such a field until it fails (`LostFails`). Numbers are
induction over digits: the unsigned arithmetic of `parse_nonnegative_int` gives
the value whenever it accepts (`UnsignedIsValue`), and an index is spelled by its
digits alone (`NumberOfValue`).

The converse, that no sentence is refused, stays with TLC and its bounds. It is
not true of the code in full: `parse_nonnegative_int` counts leading zeros, so
that a precision of more than `digits10` + 1 digits is refused even if its value
is small; the digits of the run `format` are fewer.

`SequenceInduction` has the induction these need: over the natural numbers,
stated with sets (`Induction`, `Recursion`), from the library's theorem on
well-founded relations, which takes a relation and no operator. From it follow
the facts about `FlattenSeq` (`FlattenAppend`, `FlattenTail`) on which frames,
texts and messages rest.

Only model-checked:

- All liveness, since these proofs do not reach `ENABLED` and fairness:
  `EveryMessageIsTaken` and `ExitTerminates` (`pipeline`),
  `EveryMessageIsReached` (`framing`), `EveryBufferIsRead` (`registry`),
  `ParsingEnds` (`format`), `AppendEnds` (`stores`).
- {fmt}, apart from its arguments, its buffers and the soundness of its parser.
  The writers and parsers of dates, of printf, of strings and of numbers are
  recursive operators, which the provers do not take (`calls`). `ReadAsWritten`
  (`format`) compares the parser with the sentences that TLC enumerates, in both
  directions, so it speaks of the bounds it is checked with.
- The two disagreements, which are counterexamples and need no proof.

## What the code does that no property claims

Found while modelling, and described here because no document of the repository
says otherwise, or because a property is stated so as to leave it out.

Logger:

- Text merged beyond the ring's size waits until the exit; rings are not
  drained then.
- `init_logging(..., 10, ...)` after a restart leaves only 5 files of the earlier
  run, since its count is stored after the clean-up.
- `stop` followed by `init_logging` does not start the thread again.
- `set_log_formate` after `init_logging` does not change the name of the file
  that is open, although the example of README.md:93-102 has that order.
- `set_print_file_line` (README.md:58,67) sets `g_print_line`, which nothing reads.
- `set_log_level("...")` before `init_logging` is ignored, in each translation
  unit that has its own `kLevelMap`.
- A colour turned off in the middle of a call stays on.

Integers, characters and strings of {fmt}:

- With a locale, zeros for padding go before the sign, and the prefix of an
  octal number takes the place of a digit in the groups.
- `write_char` pads an escaped character as one column. Escaped strings ignore
  the precision and count bytes as columns, and "\x85" stands for a byte and for
  U+0085.
- A name between an automatic and a manual index hides that the two are mixed
  (`base.h:919`).
- `size()` of a dynamic store counts the hidden slot (`args.h:135`), so that
  with names the index one past the last argument is read past the end.
- `reserve()` for more names than there is room for, after a name was pushed,
  leaves the hidden slot with the address of memory that was freed, until the
  next name is pushed (`args.h:207-212`).

Times:

- `%r` and `%p` of a negative duration lose the sign. ISO weeks are wrong before
  the year 1.
- The formatter of local times lacks the correction for fractions before the
  epoch that the one of system times has (`chrono.h:2308-2323`, `2262-2285`).
- `%-j` and `%_j` of day 105 write "15" and "1 5" (`chrono.h:1480`).
- `%Z` of a system time is "UTC" for whole seconds and "GMT" for fractions.

printf, against C:

- A sign for an unsigned conversion; "0" for zero with precision zero; a
  negative precision taken as zero, and so is one in the format that no int
  holds (one from an argument is refused); zeros in front of a width count as
  digits of it, so that a small width with many of them is refused; "%.3p" refused
  for a C string; a precision that counts code points; "0x0" for "%#hhx" of 256;
  a null C string with a precision is read.

Floating-point numbers:

- Hexadecimal ones round half up, put zeros before the "0x", write zero with
  the exponent -1022, and give a subnormal long double a wrong exponent
  (`format.h:2910-2922`).
- A long double of x87 never has a closer predecessor, since it has no hidden bit.
- Infinity and NaN are aligned to the left by default.
- At most 767 digits are written, with fewer decimals than a larger precision
  asks for: `{:.1000f}` of 0.5 has 767 of them. What is left out are zeros
  (`FewerZeros`), except perhaps of a long double.

## Not modelled

Of the logger: a data race that crashes; a rotation between two statements of
an opening; an overlong first message with what looks like a message inside.
Of {fmt}: a failure to allocate memory; `ranges.h`, `color.h`, `std.h`, `compile.h`, `os.h`, `ostream.h`,
`xchar.h` and `core.h`, which Lolog does not reach: templates that repeat the
formatter of an element, adapters to the C++ library and to files, the same
functions for wide characters; the tables of powers of ten and of
`is_printable`; locales other than the classic one for times; floating-point
durations; checks of formats at compile time, since Lolog passes a
`const char*`. The tests, the benchmark and the build files are callers.

## Plan

What is left is composition. `LyMsg` takes the ring for a sequence of bytes, with
writes and reads as single steps; `CircleBufferProofs` shows the ring of two
threads to be such a queue, and the lookups to see its contents while no other
thread moves. Left is the lookup of one thread during the write of the other:
`memcmp` in `LyMsg::read` step by step over the ring of `CircleBuffer`.

Of {fmt}, the writers of integers can be stated with recursive functions instead
of operators, and `IntegersReadBack` proved for every width of the word.
