----------------------------- MODULE MCLogFiles -----------------------------
(***************************************************************************)
(* Setups of LogFiles for TLC.  As in the README and in the tests the size *)
(* given to init_logging is not below the default; the count is below it   *)
(* in most setups and above it in one.                                     *)
(***************************************************************************)
EXTENDS LogFiles

AllFormats == {"DateTime", "Date", "AutoIncSn"}

(* Each kind of name by itself, with time for every file to have its own.  *)
OneFormat == [Formats |-> AllFormats, MaySwitch |-> FALSE, Remain |-> 2, IncSize |-> 2,
              DefaultRemain |-> 3, DefaultInc |-> 1, LastSn |-> 20, DayLength |-> 4,
              MaxTime |-> 7, MaxMessages |-> 7, MaxInits |-> 2, MaxRuns |-> 2]

(* Numbers that wrap several times, while the list holds as many files as  *)
(* there are numbers.                                                      *)
Wrapping == [OneFormat EXCEPT !.Formats = {"AutoIncSn"}, !.LastSn = 3, !.MaxTime = 0, !.MaxMessages = 16]

(* The kind of name changes at any time.                                   *)
Switching == [OneFormat EXCEPT !.MaySwitch = TRUE, !.Remain = 1, !.IncSize = 1, !.DefaultRemain = 2,
                               !.LastSn = 1, !.MaxTime = 3, !.MaxMessages = 5]

(* An application that calls init_logging again and again.                 *)
Reopening == [OneFormat EXCEPT !.Formats = {"AutoIncSn"}, !.IncSize = 1, !.DefaultRemain = 2,
                               !.MaxTime = 0, !.MaxMessages = 7, !.MaxInits = 4]

(* More files are to remain than the default: the clean-up after a restart *)
(* still goes by the default.                                              *)
MoreThanDefault == [OneFormat EXCEPT !.Formats = {"AutoIncSn", "Date"}, !.Remain = 4, !.IncSize = 1, !.DefaultRemain = 2,
                                     !.LastSn = 6, !.MaxTime = 3, !.DayLength = 1, !.MaxMessages = 9]

SomeSetups == {OneFormat, Wrapping, Switching, Reopening, MoreThanDefault}

ASSUME ArgumentsAsInTheReadme ==
  UsualSetups /\ \A s \in Setups : s.IncSize >= s.DefaultInc
=============================================================================
