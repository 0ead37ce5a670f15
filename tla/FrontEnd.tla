------------------------------ MODULE FrontEnd ------------------------------
(***************************************************************************)
(* The log calls debug() ... fatal() and debugex() ... fatalex(), and the  *)
(* settings they read while other threads change them.  A call adds its    *)
(* line to m_current_log of its thread piece by piece and flushes it; it   *)
(* reads g_log_level once and g_color twice, and what the caller's format  *)
(* makes fmt throw leaves the call in the middle.                          *)
(*                                                                         *)
(* Other modules model what becomes of a line after flush(): here the ring *)
(* takes it or is full.  A piece is its kind and the level of its call.    *)
(***************************************************************************)
EXTENDS Integers, Sequences, SequencesExt

CONSTANTS
  Thread,      \* the threads that log
  LogLevel,    \* the levels, 0 (Fatal) to 4 (Debug)
  Unit,        \* the translation units that include the header
  OneLevelMap, \* whether the functions of all units share one kLevelMap
  MaxCalls,    \* bound: log calls
  MaxSettings  \* bound: changes of settings

ASSUME FrontEndAssumption ==
  /\ LogLevel \subseteq 0..4 /\ LogLevel # {}
  /\ OneLevelMap \in BOOLEAN
  /\ MaxCalls \in Nat /\ MaxSettings \in Nat

VARIABLES
  g_log_level, g_color, g_print_line,
  kLevelMap,    \* the units whose map holds the names of the levels
  initPc,       \* init_logging(): "idle", "colour", "levels"
  initUnit,     \* its unit
  pc,           \* a thread in its call: "idle", "colour", "body", "reset", "end"
  call,         \* level, and whether it is a call of debugex() ...
  m_current_log,
  frames,       \* what the thread flushed into its ring
  calls,        \* number of log calls
  settings,     \* number of changes of settings
  \* history, for the properties only:
  thrown,       \* whether a call of the thread threw
  turnedOff    \* whether g_color was turned off when the thread had a colour open

setvars == <<g_log_level, g_color, g_print_line, kLevelMap, initPc, initUnit, settings>>
logvars == <<pc, call, m_current_log, frames, calls, thrown>>
vars == <<setvars, logvars, turnedOff>>

Piece(kind, t) == [kind |-> kind, level |-> call[t].level]
Add(t, pieces) == m_current_log' = [m_current_log EXCEPT ![t] = @ \o pieces]

(* The colour the terminal is left in by these pieces.                     *)
IsOpen(pieces) ==
  \E i \in DOMAIN pieces : /\ pieces[i].kind = "color"
                           /\ \A j \in i..Len(pieces) : pieces[j].kind # "reset"

Stream(t) == FlattenSeq(frames[t]) \o m_current_log[t]

-----------------------------------------------------------------------------
Init ==
  /\ g_log_level = 1 /\ g_color = FALSE /\ g_print_line = FALSE
  /\ kLevelMap = {} /\ initPc = "idle" /\ initUnit \in Unit
  /\ pc = [t \in Thread |-> "idle"]
  /\ call = [t \in Thread |-> [level |-> CHOOSE l \in LogLevel : TRUE, ex |-> FALSE]]
  /\ m_current_log = [t \in Thread |-> <<>>]
  /\ frames = [t \in Thread |-> <<>>]
  /\ calls = 0 /\ settings = 0
  /\ thrown = [t \in Thread |-> FALSE]
  /\ turnedOff = [t \in Thread |-> FALSE]

(* A call: the level is tested, once.                                      *)
Call(t, level, ex) ==
  /\ pc[t] = "idle" /\ calls < MaxCalls
  /\ calls' = calls + 1
  /\ g_log_level >= level
  /\ pc' = [pc EXCEPT ![t] = "colour"]
  /\ call' = [call EXCEPT ![t] = [level |-> level, ex |-> ex]]
  /\ UNCHANGED <<setvars, m_current_log, frames, thrown, turnedOff>>

CallFiltered(t, level) ==
  /\ pc[t] = "idle" /\ calls < MaxCalls
  /\ calls' = calls + 1
  /\ g_log_level < level
  /\ UNCHANGED <<setvars, pc, call, m_current_log, frames, thrown, turnedOff>>

(* if (g_color) kULog.set_color(...)                                       *)
SetColor(t) ==
  /\ pc[t] = "colour"
  /\ Add(t, IF g_color THEN <<Piece("color", t)>> ELSE <<>>)
  /\ pc' = [pc EXCEPT ![t] = "body"]
  /\ UNCHANGED <<setvars, call, frames, calls, thrown, turnedOff>>

(* Date, level and, for debugex() ..., the place; then the message ...     *)
Stamp(t) == <<Piece("date", t), Piece("name", t)>>
            \o (IF call[t].ex THEN <<Piece("place", t)>> ELSE <<>>)

(* Mutant: the message is formatted into its own place first.              *)
BodyTextFirst(t) ==
  /\ pc[t] = "body"
  /\ Add(t, <<Piece("text", t)>> \o Stamp(t))
  /\ pc' = [pc EXCEPT ![t] = "reset"]
  /\ UNCHANGED <<setvars, call, frames, calls, thrown, turnedOff>>

Body(t) ==
  /\ pc[t] = "body"
  /\ Add(t, Append(Stamp(t), Piece("text", t)))
  /\ pc' = [pc EXCEPT ![t] = "reset"]
  /\ UNCHANGED <<setvars, call, frames, calls, thrown, turnedOff>>

(* ... or what fmt throws instead: the call ends here.                     *)
BodyThrows(t) ==
  /\ pc[t] = "body"
  /\ Add(t, Stamp(t))
  /\ pc' = [pc EXCEPT ![t] = "idle"]
  /\ thrown' = [thrown EXCEPT ![t] = TRUE]
  /\ UNCHANGED <<setvars, call, frames, calls, turnedOff>>

(* Mutant: the test is the wrong way round.                                *)
ResetColorInverted(t) ==
  /\ pc[t] = "reset"
  /\ Add(t, IF g_color THEN <<>> ELSE <<Piece("reset", t)>>)
  /\ pc' = [pc EXCEPT ![t] = "end"]
  /\ UNCHANGED <<setvars, call, frames, calls, thrown, turnedOff>>

(* if (g_color) kULog.reset_color()                                        *)
ResetColor(t) ==
  /\ pc[t] = "reset"
  /\ Add(t, IF g_color THEN <<Piece("reset", t)>> ELSE <<>>)
  /\ pc' = [pc EXCEPT ![t] = "end"]
  /\ UNCHANGED <<setvars, call, frames, calls, thrown, turnedOff>>

(* kULog << endl: the line ends and is flushed, with what earlier calls    *)
(* left ...                                                                *)
Endl(t) ==
  /\ pc[t] = "end"
  /\ frames' = [frames EXCEPT ![t] = Append(@, Append(m_current_log[t], Piece("endl", t)))]
  /\ m_current_log' = [m_current_log EXCEPT ![t] = <<>>]
  /\ pc' = [pc EXCEPT ![t] = "idle"]
  /\ UNCHANGED <<setvars, call, calls, thrown, turnedOff>>

(* ... or stays, the ring being full.                                      *)
EndlRefused(t) ==
  /\ pc[t] = "end"
  /\ Add(t, <<Piece("endl", t)>>)
  /\ pc' = [pc EXCEPT ![t] = "idle"]
  /\ UNCHANGED <<setvars, call, frames, calls, thrown, turnedOff>>

-----------------------------------------------------------------------------
(* The settings, by any thread at any time.                                *)
Setting == settings < MaxSettings /\ settings' = settings + 1

ColorBecomes(set) ==
  /\ g_color' = set
  /\ turnedOff' = [t \in Thread |-> turnedOff[t] \/ (g_color /\ ~set /\ IsOpen(Stream(t)))]

set_color(set) ==
  /\ Setting /\ ColorBecomes(set)
  /\ UNCHANGED <<g_log_level, g_print_line, kLevelMap, initPc, initUnit, logvars>>

set_print_file_line(set) ==
  /\ Setting
  /\ g_print_line' = set
  /\ UNCHANGED <<g_log_level, g_color, kLevelMap, initPc, initUnit, logvars, turnedOff>>

(* Any int becomes a level; below Fatal nothing is logged.                 *)
set_log_level(set) ==
  /\ Setting
  /\ g_log_level' = set
  /\ UNCHANGED <<g_color, g_print_line, kLevelMap, initPc, initUnit, logvars, turnedOff>>

(* A unit's kLevelMap is static, the functions are inline: whether they    *)
(* share one map depends on which of their copies the linker keeps.        *)
Sharing(u) == IF OneLevelMap THEN Unit ELSE {u}

(* A name is looked up in the map; before init_logging() it is empty.      *)
set_log_level_by_name(u, level) ==
  /\ Setting
  /\ g_log_level' = IF u \in kLevelMap THEN level ELSE g_log_level
  /\ UNCHANGED <<g_color, g_print_line, kLevelMap, initPc, initUnit, logvars, turnedOff>>

(* init_logging(): after the file is opened (module ULog) the colour is    *)
(* turned off ...                                                          *)
InitBegin(u) ==
  /\ initPc = "idle" /\ Setting
  /\ initPc' = "colour" /\ initUnit' = u
  /\ UNCHANGED <<g_log_level, g_color, g_print_line, kLevelMap, logvars, turnedOff>>

InitColor ==
  /\ initPc = "colour"
  /\ ColorBecomes(FALSE)
  /\ initPc' = "levels"
  /\ UNCHANGED <<g_log_level, g_print_line, kLevelMap, initUnit, settings, logvars>>

(* ... and the names of the levels are entered.                            *)
InitLevels ==
  /\ initPc = "levels"
  /\ kLevelMap' = kLevelMap \cup Sharing(initUnit)
  /\ initPc' = "idle"
  /\ UNCHANGED <<g_log_level, g_color, g_print_line, initUnit, settings, logvars, turnedOff>>

-----------------------------------------------------------------------------
Log(t) ==
  \/ \E level \in LogLevel : CallFiltered(t, level) \/ \E ex \in BOOLEAN : Call(t, level, ex)
  \/ SetColor(t) \/ Body(t) \/ BodyThrows(t) \/ ResetColor(t) \/ Endl(t) \/ EndlRefused(t)

Set == \/ \E set \in BOOLEAN : set_color(set) \/ set_print_file_line(set)
       \/ \E level \in LogLevel \cup {-1} : set_log_level(level)
       \/ \E u \in Unit : InitBegin(u) \/ \E level \in LogLevel : set_log_level_by_name(u, level)
       \/ InitColor \/ InitLevels

Next == (\E t \in Thread : Log(t)) \/ Set

Spec == Init /\ [][Next]_vars

-----------------------------------------------------------------------------
(* Types; and between calls a thread holds whole lines, unless one threw.  *)
Pieces == Seq([kind : {"color", "date", "name", "place", "text", "reset", "endl"},
               level : LogLevel])

TypeOK ==
  /\ g_log_level \in LogLevel \cup {-1, 1} /\ g_color \in BOOLEAN /\ g_print_line \in BOOLEAN
  /\ kLevelMap \subseteq Unit /\ initUnit \in Unit
  /\ initPc \in {"idle", "colour", "levels"}
  /\ pc \in [Thread -> {"idle", "colour", "body", "reset", "end"}]
  /\ call \in [Thread -> [level : LogLevel, ex : BOOLEAN]]
  /\ m_current_log \in [Thread -> Pieces]
  /\ \A t \in Thread : (pc[t] = "idle" /\ ~thrown[t] /\ m_current_log[t] # <<>>) =>
       Last(m_current_log[t]).kind = "endl"
  /\ frames \in [Thread -> Seq(Pieces)]
  /\ calls \in 0..MaxCalls /\ settings \in 0..MaxSettings
  /\ thrown \in [Thread -> BOOLEAN]
  /\ turnedOff \in [Thread -> BOOLEAN]

(* What one frame leaves behind does not colour the next: each ends with   *)
(* the terminal as it was, unless the colour was turned off while a call   *)
(* of the thread had one open - even if calls threw with a colour open,    *)
(* or were merged because the ring was full.                               *)
ColourDoesNotLeak ==
  \A t \in Thread : ~turnedOff[t] =>
    \A k \in DOMAIN frames[t] : ~IsOpen(frames[t][k])

(* What may follow a piece in the text of a thread.                        *)
Follows(kind) ==
  CASE kind = "color" -> {"date"}
    [] kind = "date"  -> {"name"}
    [] kind = "name"  -> {"place", "text"}
    [] kind = "place" -> {"text"}
    [] kind = "text"  -> {"reset", "endl"}
    [] kind = "reset" -> {"endl"}
    [] kind = "endl"  -> {"color", "date"}

(* The text of a thread is a sequence of whole lines, all pieces of a line *)
(* of one call.  Only a call that threw ends early, before its message,    *)
(* and then the next call continues on its line.  And a frame ends where a *)
(* line ends, so that lines of other threads never come into one.          *)
LinesAreWhole ==
  \A t \in Thread :
    LET s == Stream(t)
    IN  /\ \A i \in 1..(Len(s) - 1) :
             \/ /\ s[i + 1].kind \in Follows(s[i].kind)
                /\ s[i].kind # "endl" => s[i + 1].level = s[i].level
             \/ thrown[t] /\ s[i].kind \in {"name", "place"} /\ s[i + 1].kind \in {"color", "date"}
        /\ \A k \in DOMAIN frames[t] : Last(frames[t][k]).kind = "endl"

(* Settings and the text of the threads fit each other at all times.       *)
TextIsWhole == TypeOK /\ LinesAreWhole

=============================================================================
