----------------------------- MODULE RollingFile -----------------------------
(***************************************************************************)
(* tlog_appender_rolling_file.c: a log file that is renamed to a numbered  *)
(* backup when it is full, the numbers going round.  The file and the      *)
(* backups are on disk and outlive the process; fout and index do not.     *)
(***************************************************************************)
EXTENDS Integers, Sequences

CONSTANTS
  MaxFileSize,     \* config->max_file_size
  MaxBackupIndex   \* config->max_backup_index

ASSUME RollingAssumption ==
  MaxFileSize \in Nat \ {0} /\ MaxBackupIndex \in Nat

VARIABLES
  rolling_fout,    \* fout is open
  index,           \* the number of the next backup
  file,            \* the file called file_name
  backup           \* the files called file_name.0, file_name.1, ...

rolling == <<rolling_fout, index, file, backup>>

Backups == 0 .. MaxBackupIndex

(* A file is the records in it and its size.                               *)
NoFile == [records |-> <<>>, size |-> 0]

(* A record takes its message and a newline.                               *)
Written(f, m) == [records |-> Append(f.records, m),
                  size    |-> f.size + m.len + 1]

RollingInit ==
  /\ rolling_fout = FALSE /\ index = 0
  /\ file = NoFile /\ backup = [b \in Backups |-> NoFile]

(* fout stands at the end of the file.                                     *)
Full(m) == rolling_fout /\ file.size + m.len > MaxFileSize

(* Mutant: one backup too few goes round.                                  *)
NextIndexShort(n) == IF n + 1 >= MaxBackupIndex THEN 0 ELSE n + 1

NextIndex(n) == IF n + 1 > MaxBackupIndex THEN 0 ELSE n + 1

(* tlog_appender_rolling_file_log.  Whether rename(), fopen() and the      *)
(* writes succeed is up to the disk, and only the result of fopen() is     *)
(* looked at.  Without it the message is thrown away; and writes that fail *)
(* lose it, for the buffer of fout is empty after them.                    *)
RollingLog(m, renamed, opened, written) ==
  LET roll  == Full(m)
      moved == roll /\ renamed
      fout  == (rolling_fout /\ ~roll) \/ opened
      f     == IF moved THEN NoFile ELSE file
  IN  /\ rolling_fout' = fout
      /\ index' = IF roll THEN NextIndex(index) ELSE index
      /\ backup' = IF moved THEN [backup EXCEPT ![index] = file] ELSE backup
      /\ file' = IF fout /\ written THEN Written(f, m) ELSE f

(* ftell() fails: the message is dropped.                                  *)
RollingDrops == rolling_fout /\ UNCHANGED rolling

(* A new process: tlog_appender_rolling_file_init.                         *)
RollingStart ==
  /\ rolling_fout' = FALSE /\ index' = 0
  /\ UNCHANGED <<file, backup>>

(* The contents of the backups from the one that will be overwritten next  *)
(* to the latest one, and of the file.                                     *)
ByAge ==
  LET n == MaxBackupIndex + 1
      Age[k \in 0 .. n] ==
        IF k = 0 THEN <<>>
        ELSE Age[k - 1] \o backup[(index + k - 1) % n].records
  IN  Age[n] \o file.records
=============================================================================
