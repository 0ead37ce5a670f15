-------------------------------- MODULE ULog --------------------------------
(***************************************************************************)
(* class ULog: the way of a log line from the thread that logs it to the   *)
(* log file.  A thread collects text in its own m_current_log; flush()     *)
(* frames that text (LyMsg) and writes it to the thread's ring; one        *)
(* background thread, save_log_file(), takes a frame at a time from each   *)
(* ring in turn and writes it to the file.  The application opens the      *)
(* file, stops the background thread and destroys the logger at exit.      *)
(*                                                                         *)
(* A ring is the FIFO that module CircleBuffer shows it to be.  A line is  *)
(* its number among the lines of its thread, and sizes are counted in      *)
(* units: only their comparisons with the limits of the code matter.       *)
(***************************************************************************)
EXTENDS Integers, Sequences, SequencesExt, FiniteSetsExt

CONSTANTS
  Thread,       \* a set of numbers: thread ids, the keys of a std::map
  Main,         \* the thread that runs main(), 0 if that thread logs nothing
  LineLen,      \* the lengths the log lines of each thread can have
  HeadLen,      \* sizeof(MsgDef)
  TailLen,      \* sizeof(int), the tail of a frame
  RingSize,     \* 5 MB, the size of a thread's ring
  MaxExpected,  \* 400 KB, max_expected_len of LyMsg::read
  AbandonMax,   \* what one abandon_error_data() discards at most
  LargeBacklog, \* 100 KB, above which lines are not printed on screen
  MaxLines,     \* bound: how many lines each thread logs
  MaxOpens,     \* bound: calls of open_log_file
  OpenMayFail,  \* the file system may refuse to open a log file
  MayPrint      \* the application calls set_std_out

ASSUME ULogAssumption ==
  /\ Thread \subseteq Nat \ {0}
  /\ Main \in Nat
  /\ LineLen \in [Thread -> SUBSET (Nat \ {0})]
  /\ MaxLines \in [Thread -> Nat]
  /\ {HeadLen, TailLen, RingSize, MaxExpected, LargeBacklog, MaxOpens} \subseteq Nat
  /\ AbandonMax \in Nat \ {0}
  /\ {OpenMayFail, MayPrint} \subseteq BOOLEAN

VARIABLES
  current,       \* m_current_log of each thread: its lines and its size
  registered,    \* keys of m_thread_log_buffer
  ring,          \* m_circle_buffer of each thread: a sequence of frames
  m_is_running,
  bpc,           \* the background thread: "none", "test", "pass", "read", "save", "exit"
  bat,           \* key of the buffer it is at, 0 before the first
  hand,          \* lines of the message it has read, pMsg
  fileOpen,      \* m_file_log.is_open()
  m_std_out, large_log_mark,
  mpc,           \* the application: "idle", "opening", "exiting", "gone"
  opens,         \* calls of open_log_file so far
  logged,        \* number of lines logged so far
  saved,         \* lines in the log files
  lost,          \* lines given up
  refused,       \* a flush() of the thread has failed
  missed,        \* a message came when no file was open
  screen         \* what was printed for each thread

avars == <<mpc, opens>>
bvars == <<bpc, bat, hand>>
svars == <<m_std_out, large_log_mark, screen>>
hvars == <<logged, saved, lost, refused, missed>>
vars  == <<current, registered, ring, m_is_running, fileOpen, avars, bvars, svars, hvars>>

Empty == [lines |-> <<>>, size |-> 0]

(* A frame occupies bytes of the ring; ok says that it is whole: what is   *)
(* left of a frame given up is discarded as error data.                    *)
Frame(text) == [lines |-> text.lines, bytes |-> HeadLen + text.size + TailLen, ok |-> TRUE]
Remains(n)  == [lines |-> <<>>, bytes |-> n, ok |-> FALSE]

UsedLen(frames) ==
  LET used[n \in 0..Len(frames)] == IF n = 0 THEN 0 ELSE used[n - 1] + frames[n].bytes
  IN  used[Len(frames)]

-----------------------------------------------------------------------------
Init ==
  /\ current = [t \in Thread |-> Empty]
  /\ registered = {}
  /\ ring = [t \in Thread |-> <<>>]
  /\ m_is_running = FALSE
  /\ bpc = "none" /\ bat = 0 /\ hand = <<>>
  /\ fileOpen = FALSE
  /\ m_std_out = FALSE /\ large_log_mark = [t \in Thread |-> FALSE]
  /\ mpc = "idle" /\ opens = 0
  /\ logged = [t \in Thread |-> 0]
  /\ saved = [t \in Thread |-> <<>>]
  /\ lost = [t \in Thread |-> {}]
  /\ refused = [t \in Thread |-> FALSE]
  /\ missed = FALSE
  /\ screen = [t \in Thread |-> <<>>]

(* A line is added to m_current_log, which holds more than the line when   *)
(* an earlier flush() failed.                                              *)
WithLine(t, len) ==
  [lines |-> Append(current[t].lines, logged[t] + 1), size |-> current[t].size + len]

Fits(t, text) == Frame(text).bytes <= RingSize - UsedLen(ring[t])

(* info(), error() and the others: add the line, << endl flushes it.  The  *)
(* thread of main() cannot log while it is in open_log_file() or in        *)
(* ~ULog(); the others can.                                                *)
Log(t) ==
  /\ mpc # "gone"
  /\ t = Main => mpc = "idle"
  /\ logged[t] < MaxLines[t]
  /\ registered' = registered \cup {t}
  /\ logged' = [logged EXCEPT ![t] = @ + 1]

(* Mutant: m_current_log is not erased.                                    *)
LogFlushedNotErased(t, len) ==
  /\ Log(t)
  /\ Fits(t, WithLine(t, len))
  /\ ring' = [ring EXCEPT ![t] = Append(@, Frame(WithLine(t, len)))]
  /\ current' = [current EXCEPT ![t] = WithLine(t, len)]
  /\ UNCHANGED <<m_is_running, fileOpen, avars, bvars, svars, saved, lost, refused, missed>>

(* Mutant: a new line overtakes the text that waits.                       *)
LogFlushedOvertaking(t, len) ==
  /\ Log(t)
  /\ Fits(t, [lines |-> <<logged[t] + 1>>, size |-> len])
  /\ ring' = [ring EXCEPT ![t] = Append(@, Frame([lines |-> <<logged[t] + 1>>, size |-> len]))]
  /\ UNCHANGED <<current, m_is_running, fileOpen, avars, bvars, svars, saved, lost, refused, missed>>

LogFlushed(t, len) ==
  /\ Log(t)
  /\ Fits(t, WithLine(t, len))
  /\ ring' = [ring EXCEPT ![t] = Append(@, Frame(WithLine(t, len)))]
  /\ current' = [current EXCEPT ![t] = Empty]
  /\ UNCHANGED <<m_is_running, fileOpen, avars, bvars, svars, saved, lost, refused, missed>>

(* Mutant: m_current_log is erased although nothing was written.           *)
LogKeptErased(t, len) ==
  /\ Log(t)
  /\ ~Fits(t, WithLine(t, len))
  /\ current' = [current EXCEPT ![t] = Empty]
  /\ refused' = [refused EXCEPT ![t] = TRUE]
  /\ UNCHANGED <<ring, m_is_running, fileOpen, avars, bvars, svars, saved, lost, missed>>

(* LyMsg::write() finds no room: the text waits for the next flush().      *)
LogKept(t, len) ==
  /\ Log(t)
  /\ ~Fits(t, WithLine(t, len))
  /\ current' = [current EXCEPT ![t] = WithLine(t, len)]
  /\ refused' = [refused EXCEPT ![t] = TRUE]
  /\ UNCHANGED <<ring, m_is_running, fileOpen, avars, bvars, svars, saved, lost, missed>>

-----------------------------------------------------------------------------
(* save_log_file().                                                        *)

(* Mutant: m_is_running is not looked at while no buffer exists.           *)
BgTestBuffersFirst ==
  /\ bpc = "test"
  /\ bpc' = IF registered = {} THEN "test" ELSE IF ~m_is_running THEN "exit" ELSE "pass"
  /\ bat' = 0
  /\ UNCHANGED <<current, registered, ring, m_is_running, fileOpen, avars, hand, svars, hvars>>

(* while (m_is_running), and the buffers are visited in the map's order.   *)
BgTest ==
  /\ bpc = "test"
  /\ bpc' = IF ~m_is_running THEN "exit" ELSE IF registered = {} THEN "test" ELSE "pass"
  /\ bat' = 0
  /\ UNCHANGED <<current, registered, ring, m_is_running, fileOpen, avars, hand, svars, hvars>>

(* Mutant: stays with a buffer instead of going on to the next.            *)
BgNextStaying ==
  LET ahead == {t \in registered : t >= bat}
  IN  /\ bpc = "pass"
      /\ bpc' = IF ahead = {} THEN "test" ELSE "read"
      /\ bat' = IF ahead = {} THEN 0 ELSE Min(ahead)
      /\ UNCHANGED <<current, registered, ring, m_is_running, fileOpen, avars, hand, svars, hvars>>

BgNext ==
  LET ahead == {t \in registered : t > bat}
  IN  /\ bpc = "pass"
      /\ bpc' = IF ahead = {} THEN "test" ELSE "read"
      /\ bat' = IF ahead = {} THEN 0 ELSE Min(ahead)
      /\ UNCHANGED <<current, registered, ring, m_is_running, fileOpen, avars, hand, svars, hvars>>

(* Mutant: off by one.                                                     *)
OverlongByOne(f) == f.bytes >= MaxExpected

Overlong(f) == f.bytes > MaxExpected

(* LyMsg::read() returns false: there is no header to look at.             *)
BgReadNothing ==
  /\ bpc = "read"
  /\ UsedLen(ring[bat]) <= HeadLen
  /\ bpc' = "pass"
  /\ UNCHANGED <<current, registered, ring, m_is_running, fileOpen, avars, bat, hand, svars, hvars>>

BgReadMessage ==
  /\ bpc = "read"
  /\ UsedLen(ring[bat]) > HeadLen
  /\ LET f == Head(ring[bat])
     IN  /\ f.ok /\ ~Overlong(f)
         /\ hand' = f.lines
         /\ ring' = [ring EXCEPT ![bat] = Tail(@)]
  /\ bpc' = "save"
  /\ UNCHANGED <<current, registered, m_is_running, fileOpen, avars, bat, svars, hvars>>

(* A message longer than expected: dec_data_len(1) takes its first byte,   *)
(* and with it the header.                                                 *)
BgReadOverlong ==
  /\ bpc = "read"
  /\ UsedLen(ring[bat]) > HeadLen
  /\ LET f == Head(ring[bat])
     IN  /\ f.ok /\ Overlong(f)
         /\ lost' = [lost EXCEPT ![bat] = @ \cup ToSet(f.lines)]
         /\ ring' = [ring EXCEPT ![bat][1] = Remains(f.bytes - 1)]
  /\ bpc' = "pass"
  /\ UNCHANGED <<current, registered, m_is_running, fileOpen, avars, bat, hand, svars,
                 logged, saved, refused, missed>>

(* abandon_error_data(): up to the next header, AbandonMax at most.        *)
BgAbandon ==
  /\ bpc = "read"
  /\ UsedLen(ring[bat]) > HeadLen
  /\ LET f == Head(ring[bat])
     IN  /\ ~f.ok
         /\ ring' = [ring EXCEPT ![bat] =
                       IF f.bytes <= AbandonMax THEN Tail(@)
                       ELSE [@ EXCEPT ![1] = Remains(f.bytes - AbandonMax)]]
  /\ bpc' = "pass"
  /\ UNCHANGED <<current, registered, m_is_running, fileOpen, avars, bat, hand, svars, hvars>>

(* Mutant: a notice with every message.                                    *)
EchoUnmarked ==
  LET large == UsedLen(ring[bat]) > LargeBacklog
  IN  IF ~m_std_out
      THEN UNCHANGED <<screen, large_log_mark>>
      ELSE /\ large_log_mark' = [large_log_mark EXCEPT ![bat] = large]
           /\ screen' = [screen EXCEPT ![bat] = Append(@, IF large THEN "notice" ELSE "text")]

(* With m_std_out, the message is printed too, unless the backlog is large: *)
(* then one notice is printed until the next message that is.              *)
Echo ==
  LET large == UsedLen(ring[bat]) > LargeBacklog
  IN  IF ~m_std_out
      THEN UNCHANGED <<screen, large_log_mark>>
      ELSE /\ large_log_mark' = [large_log_mark EXCEPT ![bat] = large]
           /\ screen' = [screen EXCEPT ![bat] =
                           IF ~large THEN Append(@, "text")
                           ELSE IF large_log_mark[bat] THEN @ ELSE Append(@, "notice")]

(* The message is written if the file is open, and given up otherwise.     *)
(* Once the file is full it is closed and the next one opened, which may   *)
(* fail; how files fill is left open here.                                 *)
BgSave ==
  /\ bpc = "save"
  /\ hand' = <<>>
  /\ Echo
  /\ bpc' = "pass"
  /\ \/ /\ fileOpen
        /\ saved' = [saved EXCEPT ![bat] = @ \o hand]
        /\ fileOpen' \in {TRUE, ~OpenMayFail}
        /\ UNCHANGED <<lost, missed>>
     \/ /\ ~fileOpen
        /\ lost' = [lost EXCEPT ![bat] = @ \cup ToSet(hand)]
        /\ missed' = TRUE
        /\ UNCHANGED <<saved, fileOpen>>
  /\ UNCHANGED <<current, registered, ring, m_is_running, avars, bat, m_std_out, logged, refused>>

-----------------------------------------------------------------------------
(* The application.                                                        *)

(* open_log_file() up to the opening of the file: the first call starts    *)
(* the background thread, every call closes the file.                      *)
OpenBegin ==
  /\ mpc = "idle" /\ opens < MaxOpens
  /\ m_is_running' = TRUE
  /\ fileOpen' = FALSE
  /\ bpc' = IF bpc = "none" THEN "test" ELSE bpc
  /\ mpc' = "opening" /\ opens' = opens + 1
  /\ UNCHANGED <<current, registered, ring, bat, hand, svars, hvars>>

(* A path of less than four characters: compare() throws, and init_logging *)
(* with it, when m_is_running is set and nothing else done.                *)
OpenThrows ==
  /\ mpc = "idle" /\ opens < MaxOpens
  /\ m_is_running' = TRUE
  /\ opens' = opens + 1
  /\ UNCHANGED <<current, registered, ring, fileOpen, mpc, bvars, svars, hvars>>

OpenEnd ==
  /\ mpc = "opening"
  /\ fileOpen' \in {TRUE, ~OpenMayFail}
  /\ m_std_out' = FALSE
  /\ mpc' = "idle"
  /\ UNCHANGED <<current, registered, ring, m_is_running, opens, bvars, large_log_mark, screen, hvars>>

SetStdOut ==
  /\ MayPrint /\ mpc = "idle"
  /\ m_std_out' \in BOOLEAN
  /\ UNCHANGED <<current, registered, ring, m_is_running, fileOpen, avars, bvars, large_log_mark, screen, hvars>>

Stop ==
  /\ mpc = "idle"
  /\ m_is_running' = FALSE
  /\ UNCHANGED <<current, registered, ring, fileOpen, avars, bvars, svars, hvars>>

(* ~ULog(): m_is_running = false, then join, then the buffers are deleted. *)
ExitBegin ==
  /\ mpc = "idle"
  /\ m_is_running' = FALSE
  /\ mpc' = "exiting"
  /\ UNCHANGED <<current, registered, ring, fileOpen, opens, bvars, svars, hvars>>

Join ==
  /\ mpc = "exiting"
  /\ bpc \in {"none", "exit"}
  /\ mpc' = "gone"
  /\ ring' = [t \in Thread |-> <<>>]
  /\ current' = [t \in Thread |-> Empty]
  /\ lost' = [t \in Thread |-> (1..logged[t]) \ ToSet(saved[t])]
  /\ UNCHANGED <<registered, m_is_running, fileOpen, opens, bvars, svars, logged, saved, refused, missed>>

-----------------------------------------------------------------------------
Producer == \E t \in Thread : \E len \in LineLen[t] : LogFlushed(t, len) \/ LogKept(t, len)

Background == \/ BgTest \/ BgNext \/ BgReadNothing \/ BgReadMessage
              \/ BgReadOverlong \/ BgAbandon \/ BgSave

Application == OpenBegin \/ OpenThrows \/ OpenEnd \/ SetStdOut \/ Stop \/ ExitBegin \/ Join

Next == Producer \/ Background \/ Application

Spec == Init /\ [][Next]_vars

(* The operating system runs the background thread; nothing obliges the    *)
(* application to log, to stop or to exit.                                 *)
FairSpec == Spec /\ WF_vars(Background)

-----------------------------------------------------------------------------
(* The places where lines of a thread are, in the order in which they pass *)
(* them: the last place first.                                             *)
InHand(t) == IF bat = t THEN hand ELSE <<>>
Places(t) == <<saved[t], InHand(t)>> \o [i \in DOMAIN ring[t] |-> ring[t][i].lines]
             \o <<current[t].lines>>
OnTheWay(t) == FlattenSeq(Tail(Places(t)))

LineNumbers == UNION {1..MaxLines[t] : t \in Thread}
FrameType == [lines : Seq(LineNumbers), bytes : Nat, ok : BOOLEAN]

(* Types, and the ring is never asked to hold more than it can: what       *)
(* flush() finds no room for stays in m_current_log.                       *)
TypeOK ==
  /\ current \in [Thread -> [lines : Seq(LineNumbers), size : Nat]]
  /\ registered \subseteq Thread
  /\ ring \in [Thread -> Seq(FrameType)]
  /\ m_is_running \in BOOLEAN
  /\ bpc \in {"none", "test", "pass", "read", "save", "exit"}
  /\ bat \in Thread \cup {0}
  /\ hand \in Seq(LineNumbers)
  /\ fileOpen \in BOOLEAN
  /\ m_std_out \in BOOLEAN /\ large_log_mark \in [Thread -> BOOLEAN]
  /\ mpc \in {"idle", "opening", "exiting", "gone"}
  /\ opens \in 0..MaxOpens
  /\ logged \in [Thread -> LineNumbers \cup {0}]
  /\ saved \in [Thread -> Seq(LineNumbers)]
  /\ lost \in [Thread -> SUBSET LineNumbers]
  /\ refused \in [Thread -> BOOLEAN]
  /\ missed \in BOOLEAN
  /\ screen \in [Thread -> Seq({"text", "notice"})]
  /\ \A t \in Thread : UsedLen(ring[t]) <= RingSize

(* From m_current_log through the ring and the message in hand to the file *)
(* the lines of a thread stay in the order in which it logged them, and    *)
(* none is there twice, whatever was refused, merged or given up.          *)
InOrder ==
  \A t \in Thread : LET p == Places(t) IN
    \A i, j \in DOMAIN p : \A a \in DOMAIN p[i], b \in DOMAIN p[j] :
      (i < j \/ (i = j /\ a < b)) => p[i][a] < p[j][b]

(* No line disappears without a trace: each one logged is either in one of *)
(* the places or was given up, and one given up never turns up again.      *)
AllAccounted ==
  \A t \in Thread :
    LET kept == UNION {ToSet(Places(t)[i]) : i \in DOMAIN Places(t)}
    IN  /\ kept \cup lost[t] = 1..logged[t]
        /\ kept \cap lost[t] = {}

(* As long as each line by itself is short enough to be read back, lines   *)
(* are given up only because no file was open, because the process ended,  *)
(* or because a full ring made flush() merge lines into a longer message.  *)
LossHasCause ==
  (\A len \in UNION Range(LineLen) : HeadLen + len + TailLen <= MaxExpected) =>
    \A t \in Thread : lost[t] # {} => missed \/ mpc = "gone" \/ refused[t]

(* The buffers are deleted when the background thread has ended, and it    *)
(* ends with nothing in its hand: the message it had read is in the file,  *)
(* unless that was not open.                                               *)
ExitIsClean ==
  mpc = "gone" => bpc \in {"none", "exit"} /\ hand = <<>>

(* Types, order and the end in one: what the background thread, the        *)
(* producers and the application together never do to each other's state.  *)
Consistent == TypeOK /\ InOrder /\ ExitIsClean

(* "Basic usage": main() opens the log, logs lines and returns, and finds  *)
(* them in the file, if that could be opened and the ring was never full.  *)
(* The lines of the thread Main are all logged before ~ULog() begins.      *)
LoggedBeforeReturnIsSaved ==
  mpc = "gone" /\ fileOpen /\ ~missed =>
    \A t \in Thread \cap {Main} : ~refused[t] => lost[t] = {}

(* A thread whose backlog stays large is reported on screen once, not with *)
(* every message of it.                                                    *)
NoticesAreApart ==
  \A t \in Thread : \A i \in 1..(Len(screen[t]) - 1) :
    screen[t][i] = "notice" => screen[t][i + 1] = "text"

Logs == INSTANCE ThreadLogs WITH pending <- [t \in Thread |-> OnTheWay(t)]

(* Each thread gets what ThreadLogs promises: the file receives its lines  *)
(* in order and at most once, and only the front of what is on the way is  *)
(* ever lost.                                                              *)
LogsSpec == Logs!Spec

(* A line that reached the ring gets to the file or is given up, however   *)
(* the threads log, once the background thread runs and unless it ends.    *)
EveryMessageIsTaken ==
  \A t \in Thread : \A n \in 1..MaxLines[t] :
    (bpc # "none" /\ \E i \in DOMAIN ring[t] : n \in ToSet(ring[t][i].lines))
      ~> (n \in ToSet(saved[t]) \cup lost[t] \/ bpc = "exit")

(* ~ULog() does not wait for ever in join.                                 *)
ExitTerminates == mpc = "exiting" ~> bpc \in {"none", "exit"}

=============================================================================
