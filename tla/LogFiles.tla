------------------------------ MODULE LogFiles ------------------------------
(***************************************************************************)
(* The log files of class ULog: how they are named, when the background    *)
(* thread closes one and opens the next, which old ones are removed, and   *)
(* what a restart of the process does to them.  The application's calls    *)
(* (init_logging, set_log_formate) interleave with the messages the        *)
(* background thread writes; a message is one unit of size.                *)
(*                                                                         *)
(* Opening a file succeeds here: ULog models what a failure does.          *)
(***************************************************************************)
EXTENDS Integers, Sequences, SequencesExt

CONSTANT Setups  \* the ways in which applications set the logger up

(* What a setup gives: the file types asked for, whether set_log_formate   *)
(* is also called after init_logging, the arguments log_remain_counts and  *)
(* log_file_size, the values these have before init_logging sets them (5   *)
(* files, 100 MB), the last number of AutoIncSn (50) and the seconds of a  *)
(* day.  The rest are bounds: seconds, messages, calls of init_logging in  *)
(* one run of the process, and runs.                                       *)
SetupType == [Formats : SUBSET {"DateTime", "Date", "AutoIncSn"}, MaySwitch : BOOLEAN,
              Remain : Nat, IncSize : Nat, DefaultRemain : Nat \ {0}, DefaultInc : Nat,
              LastSn : Nat, DayLength : Nat \ {0},
              MaxTime : Nat, MaxMessages : Nat, MaxInits : Nat, MaxRuns : Nat \ {0}]

ASSUME FilesAssumption == Setups \subseteq SetupType

LesserOf(a, b) == IF a <= b THEN a ELSE b
LargerOf(a, b) == IF a <= b THEN b ELSE a

(* There are enough numbers for names: even the list that every call of    *)
(* init_logging in a run has made longer does not use one twice.           *)
UsualSetups ==
  \A s \in Setups : ~s.MaySwitch => LargerOf(s.DefaultRemain, s.Remain) + s.MaxInits <= s.LastSn + 2

VARIABLES
  setup,            \* the setup of this behaviour, which never changes
  now,              \* time(nullptr)
  disk,             \* the files *.log of the directory, oldest modified first
  live,             \* name of the file m_file_log has open, NoFile if none
  m_log_list, m_log_file_type, log_sequence_no, m_log_remain_counts, m_inc_log_size,
  ipc,              \* init_logging: "idle", "clean", "open", "set"
  inits, runs,      \* calls in this run, runs of the process
  written,          \* messages written to a file so far
  before,           \* how many of them before this run of the process
  opened,           \* names of the files opened so far
  later             \* how many of them since this run has stored its arguments

statics == <<m_log_list, m_log_file_type, log_sequence_no, m_log_remain_counts, m_inc_log_size>>
vars == <<setup, now, disk, live, statics, ipc, inits, runs, written, before, opened, later>>

Remain == setup.Remain
IncSize == setup.IncSize
DefaultRemain == setup.DefaultRemain
DefaultInc == setup.DefaultInc
LastSn == setup.LastSn

NoFile == <<"none", 0>>

Names(d) == {d[i].name : i \in DOMAIN d}
Without(d, name) == IF name \in Names(d)
                    THEN RemoveAt(d, CHOOSE i \in DOMAIN d : d[i].name = name) ELSE d
Messages(d, name) == IF name \in Names(d)
                     THEN (CHOOSE f \in ToSet(d) : f.name = name).messages ELSE <<>>

(* Opening for writing from the start, and for appending.                  *)
Truncated(d, name) == Append(Without(d, name), [name |-> name, messages |-> <<>>])

(* Mutant: ios::trunc where ios::app is meant.                             *)
AppendedTruncating(d, name) == Truncated(d, name)

Appended(d, name) == IF name \in Names(d) THEN d ELSE Truncated(d, name)

(* rm -f `ls -t *.log | awk 'NR>n'` keeps the n files modified last.       *)
Newest(d, n) == SubSeq(d, Len(d) - LesserOf(n, Len(d)) + 1, Len(d))

-----------------------------------------------------------------------------
(* get_log_file_name(), and the sequence number it leaves behind.          *)
LogFileName == CASE m_log_file_type = "DateTime"  -> <<"DateTime", now>>
                 [] m_log_file_type = "Date"      -> <<"Date", now \div setup.DayLength>>
                 [] m_log_file_type = "AutoIncSn" -> <<"AutoIncSn", log_sequence_no>>

NextSn == IF m_log_file_type # "AutoIncSn" THEN log_sequence_no
          ELSE IF log_sequence_no + 1 > LastSn THEN 0 ELSE log_sequence_no + 1

(* The static data of a process that has just started, whose application   *)
(* may already have called set_log_formate.                                *)
Init ==
  /\ setup \in Setups
  /\ now = 0 /\ disk = <<>> /\ live = NoFile
  /\ m_log_list = <<>> /\ log_sequence_no = 0
  /\ m_log_file_type \in setup.Formats
  /\ m_log_remain_counts = DefaultRemain /\ m_inc_log_size = DefaultInc
  /\ ipc = "idle" /\ inits = 0 /\ runs = 1
  /\ written = 0 /\ before = 0 /\ opened = <<>> /\ later = 0

Tick ==
  /\ now < setup.MaxTime
  /\ now' = now + 1
  /\ UNCHANGED <<disk, live, statics, ipc, inits, runs, written, before, opened, later>>

(* The environment assumption on names that tell files apart by seconds:   *)
(* no two files start in one second.                                       *)
NameIsNew == m_log_file_type = "DateTime" => LogFileName \notin ToSet(opened)

(* init_logging() has stored its arguments in this run of the process.     *)
ArgumentsStored == inits > 1 \/ (inits = 1 /\ ipc = "idle")
LaterOpened == IF ArgumentsStored THEN later + 1 ELSE 0

(* What m_file_log.open() and the bookkeeping around it do.                *)
OpenNext(d, list) ==
  /\ NameIsNew
  /\ disk' = IF m_log_file_type = "Date" THEN Appended(d, LogFileName) ELSE Truncated(d, LogFileName)
  /\ live' = LogFileName
  /\ m_log_list' = Append(list, LogFileName)
  /\ log_sequence_no' = NextSn
  /\ opened' = Append(opened, LogFileName) /\ later' = LaterOpened

-----------------------------------------------------------------------------
(* init_logging(): open_log_file() closes the file ...                     *)
InitBegin ==
  /\ ipc = "idle" /\ inits < setup.MaxInits
  /\ live' = NoFile
  /\ ipc' = "clean" /\ inits' = inits + 1
  /\ UNCHANGED <<now, disk, statics, runs, written, before, opened, later>>

(* ... removes old files, as many as the static says at that time ...      *)
InitClean ==
  /\ ipc = "clean"
  /\ disk' = Newest(disk, m_log_remain_counts)
  /\ ipc' = "open"
  /\ UNCHANGED <<now, live, statics, inits, runs, written, before, opened, later>>

(* ... and opens the next file.  Opening it and entering it in m_log_list  *)
(* are one step: that it fills up and is rotated between the two           *)
(* statements is left out.                                                 *)
InitOpen ==
  /\ ipc = "open"
  /\ OpenNext(disk, m_log_list)
  /\ ipc' = "set"
  /\ UNCHANGED <<now, m_log_file_type, m_log_remain_counts, m_inc_log_size, inits, runs, written, before>>

(* Only then init_logging() stores its arguments.                          *)
InitEnd ==
  /\ ipc = "set"
  /\ m_inc_log_size' = IncSize /\ m_log_remain_counts' = Remain
  /\ ipc' = "idle"
  /\ UNCHANGED <<now, disk, live, m_log_list, m_log_file_type, log_sequence_no, inits, runs, written, before, opened, later>>

SetLogFormate ==
  /\ setup.MaySwitch /\ ipc = "idle"
  /\ m_log_file_type' \in setup.Formats
  /\ UNCHANGED <<now, disk, live, m_log_list, log_sequence_no, m_log_remain_counts, m_inc_log_size,
                 ipc, inits, runs, written, before, opened, later>>

-----------------------------------------------------------------------------
(* save_log_file(): a message is written, and its file is then the one     *)
(* modified last.                                                          *)
AfterWrite ==
  Append(Without(disk, live), [name |-> live, messages |-> Append(Messages(disk, live), written + 1)])

(* Mutant: files named by time are not rotated either.                     *)
FullBySn == /\ m_log_file_type \in {"AutoIncSn"}
            /\ Len(Messages(disk, live)) + 1 > m_inc_log_size

(* m_file_log.tellp() > m_inc_log_size, for the types that are rotated.    *)
Full == /\ m_log_file_type \in {"AutoIncSn", "DateTime"}
        /\ Len(Messages(disk, live)) + 1 > m_inc_log_size

WriteMessage ==
  /\ live # NoFile /\ written < setup.MaxMessages
  /\ written' = written + 1
  /\ ~Full
  /\ disk' = AfterWrite
  /\ UNCHANGED <<now, live, statics, ipc, inits, runs, before, opened, later>>

(* Mutant: off by one.                                                     *)
EnoughFilesByOne == Len(m_log_list) + 1 >= m_log_remain_counts

(* The oldest file of the list goes when there are enough of them.         *)
EnoughFiles == Len(m_log_list) >= m_log_remain_counts

(* Mutant: the next file is opened before the oldest is removed.           *)
WriteAndRotateOpenFirst ==
  /\ live # NoFile /\ written < setup.MaxMessages
  /\ written' = written + 1
  /\ Full
  /\ NameIsNew
  /\ live' = LogFileName /\ log_sequence_no' = NextSn
  /\ opened' = Append(opened, LogFileName) /\ later' = LaterOpened
  /\ LET opening == Truncated(AfterWrite, LogFileName)
     IN  IF EnoughFiles
         THEN /\ disk' = Without(opening, Head(m_log_list))
              /\ m_log_list' = Append(Tail(m_log_list), LogFileName)
         ELSE /\ disk' = opening
              /\ m_log_list' = Append(m_log_list, LogFileName)
  /\ UNCHANGED <<now, m_log_file_type, m_log_remain_counts, m_inc_log_size, ipc, inits, runs, before>>

(* Mutant: the name leaves the list, the file stays.                       *)
WriteAndRotateNoRemove ==
  /\ live # NoFile /\ written < setup.MaxMessages
  /\ written' = written + 1
  /\ Full
  /\ IF EnoughFiles
     THEN OpenNext(AfterWrite, Tail(m_log_list))
     ELSE OpenNext(AfterWrite, m_log_list)
  /\ UNCHANGED <<now, m_log_file_type, m_log_remain_counts, m_inc_log_size, ipc, inits, runs, before>>

(* A full file is closed, the oldest of the list removed, the next opened. *)
WriteAndRotate ==
  /\ live # NoFile /\ written < setup.MaxMessages
  /\ written' = written + 1
  /\ Full
  /\ IF EnoughFiles
     THEN OpenNext(Without(AfterWrite, Head(m_log_list)), Tail(m_log_list))
     ELSE OpenNext(AfterWrite, m_log_list)
  /\ UNCHANGED <<now, m_log_file_type, m_log_remain_counts, m_inc_log_size, ipc, inits, runs, before>>

-----------------------------------------------------------------------------
(* The process ends, in whatever state, and is started again: the files    *)
(* stay, the static data are as at the start.                              *)
Restart ==
  /\ runs < setup.MaxRuns
  /\ runs' = runs + 1
  /\ live' = NoFile
  /\ m_log_list' = <<>> /\ log_sequence_no' = 0
  /\ m_log_remain_counts' = DefaultRemain /\ m_inc_log_size' = DefaultInc
  /\ ipc' = "idle" /\ inits' = 0
  /\ before' = written /\ later' = 0
  /\ UNCHANGED <<now, disk, m_log_file_type, written, opened>>

Next == /\ \/ Tick
           \/ InitBegin \/ InitClean \/ InitOpen \/ InitEnd \/ SetLogFormate
           \/ WriteMessage \/ WriteAndRotate
           \/ Restart
        /\ UNCHANGED setup

Spec == Init /\ [][Next]_vars

-----------------------------------------------------------------------------
FileName == {"DateTime", "Date", "AutoIncSn"} \X Nat
File == [name : FileName, messages : Seq(1..setup.MaxMessages)]

(* Types, and no name is on the disk twice.                                *)
TypeOK ==
  /\ setup \in Setups
  /\ now \in 0..setup.MaxTime
  /\ disk \in Seq(File)
  /\ \A i, j \in DOMAIN disk : i # j => disk[i].name # disk[j].name
  /\ live \in FileName \cup {NoFile}
  /\ m_log_list \in Seq(FileName)
  /\ m_log_file_type \in setup.Formats
  /\ log_sequence_no \in 0..LastSn
  /\ m_log_remain_counts \in {DefaultRemain, Remain}
  /\ m_inc_log_size \in {DefaultInc, IncSize}
  /\ ipc \in {"idle", "clean", "open", "set"}
  /\ inits \in 0..setup.MaxInits /\ runs \in 1..setup.MaxRuns
  /\ written \in 0..setup.MaxMessages /\ before \in 0..written
  /\ opened \in Seq(FileName) /\ later \in Nat

(* Removal never takes the file that is being written, where what is       *)
(* logged would be out of reach, although a file name comes round again    *)
(* with AutoIncSn and may be in the list twice.                            *)
LiveFileOnDisk == live # NoFile => live \in Names(disk)

(* The state and the directory fit each other at all times.                *)
LiveFileIsKept == TypeOK /\ LiveFileOnDisk

(* Rotation, removal and opening destroy the oldest messages of a run      *)
(* first: what the disk has of this run is always its latest part, and not *)
(* less than the last message if two files or more may remain, by the      *)
(* default count too, and as many as there were calls of init_logging:     *)
(* each of them opens a file, and the next one may remove a file with      *)
(* messages while it keeps empty ones.                                     *)
(* (Files of earlier runs are not in m_log_list: rotation may remove newer *)
(* ones than those.  When the type of the names changes in between, a name *)
(* can be in the list twice and be removed while it is one of the newest.) *)
OnlyOldestDestroyed ==
  ~setup.MaySwitch =>
  LET kept == UNION {ToSet(disk[i].messages) : i \in DOMAIN disk}
  IN  /\ \A m \in kept : m > before => m..written \subseteq kept
      /\ written > before /\ LesserOf(Remain, DefaultRemain) > 1 /\ Remain >= inits => written \in kept

(* How many of the files opened last are promised to be there: as many as  *)
(* the application asks for.  But its count is stored only after the       *)
(* clean-up at the start of a run, which keeps the default number of       *)
(* files; a larger count is reached with the files opened from then on.    *)
Promised == LesserOf(Remain, DefaultRemain + later)

(* The files opened last are there, as many as promised, across rotation,  *)
(* further init_logging and restarts, if the type of the names stays.      *)
KeepsNewestFiles ==
  ~setup.MaySwitch => \A i \in 1..LesserOf(Promised, Len(opened)) :
    opened[Len(opened) + 1 - i] \in Names(disk)

(* The first clean-up of this run of the process has been done.            *)
CleanedUp == inits > 1 \/ (inits = 1 /\ ipc # "clean")

(* The directory does not fill up: beside the files left by the clean-up   *)
(* at the start there are those of the list, and a rotation lets the list  *)
(* grow only below m_log_remain_counts.  That is still the default when    *)
(* the background thread rotates before init_logging has stored its        *)
(* argument, and a list that is too long stays so; every further           *)
(* init_logging makes it longer by one.  Before the first clean-up of a    *)
(* run the directory is as the run before left it.                         *)
DiskBound ==
  LET most  == LargerOf(DefaultRemain, Remain)
      calls == IF CleanedUp THEN inits ELSE setup.MaxInits
  IN  Len(disk) <= most + LargerOf(most, 1) + LargerOf(calls - 1, 0)

(* A file is closed with the first message that takes it past the limit,   *)
(* unless it has been of the type Date, which is not rotated.              *)
SizeBound ==
  ~setup.MaySwitch /\ m_log_file_type # "Date" =>
    \A i \in DOMAIN disk : Len(disk[i].messages) <= LargerOf(DefaultInc, IncSize) + 1

=============================================================================
