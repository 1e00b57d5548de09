--------------------------- MODULE DailyDirectory ----------------------------
(***************************************************************************)
(* tlog_appender_daily_directory.c: a log file that is moved to a          *)
(* directory named for its day when a message of another day arrives.      *)
(***************************************************************************)
EXTENDS Integers, Sequences

CONSTANT MaxDay     \* bound: the last day

VARIABLES
  daily_fout,       \* fout is open
  day,              \* year, month and day: of the message that opened it
  day_file,         \* the file in config->directory
  directory         \* the files in config->directory/year-month-day

daily == <<daily_fout, day, day_file, directory>>

Days == 1 .. MaxDay

DailyInit ==
  /\ daily_fout = FALSE /\ day = 0
  /\ day_file = <<>> /\ directory = [d \in Days |-> <<>>]

(* The message is of another day than the file.                            *)
Changes(m) == daily_fout /\ m.day # day

(* Mutant: the day of the file is set only once.                           *)
DailyLogKeepsDay(m, renamed, opened, written) ==
  LET change == Changes(m)
      moved  == change /\ renamed
      fout   == (daily_fout /\ ~change) \/ opened
      f      == IF moved THEN <<>> ELSE day_file
  IN  /\ daily_fout' = fout
      /\ day' = IF fout /\ day = 0 THEN m.day ELSE day
      /\ directory' = IF moved THEN [directory EXCEPT ![day] = day_file]
                               ELSE directory
      /\ day_file' = IF fout /\ written THEN Append(f, m) ELSE f

(* tlog_appender_daily_directory_log.  mkdir(), rename() and the writes,   *)
(* whose results are not looked at, and fopen() may fail.                  *)
DailyLog(m, renamed, opened, written) ==
  LET change == Changes(m)
      moved  == change /\ renamed
      fout   == (daily_fout /\ ~change) \/ opened
      f      == IF moved THEN <<>> ELSE day_file
  IN  /\ daily_fout' = fout
      /\ day' = IF fout /\ (change \/ ~daily_fout) THEN m.day ELSE day
      /\ directory' = IF moved THEN [directory EXCEPT ![day] = day_file]
                               ELSE directory
      /\ day_file' = IF fout /\ written THEN Append(f, m) ELSE f

(* A new process: tlog_appender_daily_directory_init.                      *)
DailyStart ==
  /\ daily_fout' = FALSE /\ day' = 0
  /\ UNCHANGED <<day_file, directory>>
=============================================================================
