-------------------------------- MODULE Tlogd --------------------------------
(***************************************************************************)
(* The way of a log record: a thread of an application (tlog_log) makes it *)
(* and writes it to shared memory, the log daemon (tlogd.c) reads it there *)
(* and hands it to its appenders, a rolling file and a daily directory, as *)
(* in tlogd/etc/tlogd.xml.                                                 *)
(*                                                                         *)
(* The shared memory is a Channel, which Tbus implements.  The daemon may  *)
(* be stopped, or killed at any point, and be started again; calls of the  *)
(* file system may fail; days go by at any time.                           *)
(***************************************************************************)
EXTENDS RollingFile, DailyDirectory, FiniteSets, SequencesExt

CONSTANTS
  Writers,      \* threads of the application
  Kinds,        \* what a record may be: its length and level
  DaemonLevel,  \* level in the configuration of tlogd
  RingSize,     \* records that fit into the shared memory
  MaxSent,      \* bound on the records written to it
  MaxTroubles   \* bound on the times the daemon is stopped or killed and a
                \* call of the file system fails

(* A message is cut to TLOG_MESSAGE_LENGTH: there is a longest kind.        *)
ASSUME TlogdAssumption ==
  /\ \A k \in Kinds : k.len \in Nat /\ k.level \in Nat
  /\ \E k \in Kinds : \A j \in Kinds : j.len <= k.len
  /\ {RingSize, MaxSent, MaxTroubles} \subseteq Nat
  /\ MaxDay \in Nat \ {0}

VARIABLES
  today,        \* the date
  pending,      \* each thread: the record it has made and not yet written
  (* the shared memory, see Channel, and what has been written to it       *)
  sent, released, delivering, last, records,
  pc,           \* where the daemon is
  batch,        \* number of packets tbus_read_begin has found
  (* history: the numbers of the records each appender has written, and of *)
  (* those it has thrown away; how often the daemon has been stopped, and  *)
  (* killed; failed calls; the latest day the daily directory has met, and *)
  (* whether it has met the days in their order                            *)
  logged, thrown, stops, kills, faults, latest, in_order

Ring == INSTANCE Channel

ring    == <<sent, released, delivering, last, records>>
daemon  == <<pc, batch>>
history == <<logged, thrown, stops, kills, faults, latest, in_order>>
vars    == <<today, pending, ring, daemon, rolling, daily, history>>

Appenders == {"rolling", "daily"}

Nothing == [len |-> 0, level |-> 0, day |-> 0]

Init ==
  /\ today = 1
  /\ pending = [w \in Writers |-> Nothing]
  /\ Ring!Init /\ records = <<>>
  /\ pc = "down" /\ batch = 0
  /\ RollingInit /\ DailyInit
  /\ logged = [a \in Appenders |-> <<>>]
  /\ thrown = [a \in Appenders |-> {}]
  /\ stops = 0 /\ kills = 0 /\ faults = 0
  /\ latest = 0 /\ in_order = TRUE

Tomorrow ==
  /\ today < MaxDay /\ today' = today + 1
  /\ UNCHANGED <<pending, ring, daemon, rolling, daily, history>>

-----------------------------------------------------------------------------
(***************************************************************************)
(* A thread of the application.  The record is dated before the mutex of   *)
(* tlog_write is taken.                                                    *)
(***************************************************************************)
Underway == {w \in Writers : pending[w] # Nothing}

MakeMessage(w) ==
  /\ pending[w] = Nothing /\ sent + Cardinality(Underway) < MaxSent
  /\ \E k \in Kinds :
       pending' = [pending EXCEPT
                     ![w] = [len |-> k.len, level |-> k.level, day |-> today]]
  /\ UNCHANGED <<today, ring, daemon, rolling, daily, history>>

(* tlog_appender_shm_log: the record is thrown away when it does not fit.  *)
WriteThrows(w) ==
  /\ pending[w] # Nothing /\ sent - released >= RingSize
  /\ pending' = [pending EXCEPT ![w] = Nothing]
  /\ UNCHANGED <<today, ring, daemon, rolling, daily, history>>

Write(w) ==
  /\ pending[w] # Nothing /\ sent - released < RingSize
  /\ Ring!Send
  /\ records' = Append(records, pending[w])
  /\ pending' = [pending EXCEPT ![w] = Nothing]
  /\ UNCHANGED <<today, daemon, rolling, daily, history>>

Application == \E w \in Writers : MakeMessage(w) \/ WriteThrows(w) \/ Write(w)

-----------------------------------------------------------------------------
(***************************************************************************)
(* The daemon: tbusapi_process called by tapp_loop.                        *)
(***************************************************************************)
Troubles == stops + faults

FilesUnchanged ==
  UNCHANGED <<rolling, daily, logged, thrown, faults, latest, in_order>>

(* main: init.  The appenders begin from nothing.                          *)
Start ==
  /\ pc = "down" /\ pc' = "loop"
  /\ RollingStart /\ DailyStart
  /\ UNCHANGED <<today, pending, ring, batch, history>>

(* Nothing to read: tapp_loop goes on.                                     *)
WouldBlock ==
  /\ pc = "loop" /\ batch = 0 /\ sent = released
  /\ UNCHANGED vars

(* Packets at the end of the ring, or beyond the 10000 of g_tbusapi, are   *)
(* left for the next call.                                                 *)
ReadBegin ==
  /\ pc = "loop" /\ batch = 0
  /\ batch' \in 1 .. (sent - released)
  /\ FilesUnchanged
  /\ UNCHANGED <<today, pending, ring, pc, stops, kills>>

Enabled(m) == m.level <= DaemonLevel

(* Mutant: a packet of a level that is not enabled is refused.             *)
OnRecvRefuses ==
  /\ pc = "loop" /\ delivering < batch
  /\ Enabled(records[released + delivering + 1])
  /\ Ring!Deliver /\ pc' = "rolling"
  /\ FilesUnchanged
  /\ UNCHANGED <<today, pending, records, batch, stops, kills>>

(* on_recv, and tlog_write up to the appenders.                            *)
OnRecv ==
  /\ pc = "loop" /\ delivering < batch
  /\ Ring!Deliver
  /\ pc' = IF Enabled(records[last' + 1]) THEN "rolling" ELSE "loop"
  /\ FilesUnchanged
  /\ UNCHANGED <<today, pending, records, batch, stops, kills>>

Current == records[last + 1]

(* What an appender leaves in the histories.                               *)
Note(appender, kept) ==
  /\ logged' = IF kept THEN [logged EXCEPT ![appender] = Append(@, last + 1)]
                       ELSE logged
  /\ thrown' = IF kept THEN thrown
                       ELSE [thrown EXCEPT ![appender] = @ \union {last + 1}]

Fault == Troubles < MaxTroubles /\ faults' = faults + 1

(* The outcomes of rename() and of fopen(), where they are called, and of  *)
(* fwrite(), fputc() and fflush(), where the file is open.                 *)
Outcome(fout, move, renamed, opened, written) ==
  /\ renamed \/ move
  /\ opened \/ move \/ ~fout
  /\ written \/ opened
  /\ IF renamed /\ opened /\ written THEN UNCHANGED faults ELSE Fault

(* The daily directory meets the day of the record in hand.                *)
Meets ==
  /\ latest' = IF Current.day > latest THEN Current.day ELSE latest
  /\ in_order' = (in_order /\ Current.day >= latest)

AppendRolling ==
  /\ pc = "rolling" /\ pc' = "daily"
  /\ \/ \E renamed, opened, written \in BOOLEAN :
          /\ Outcome(rolling_fout, Full(Current), renamed, opened, written)
          /\ RollingLog(Current, renamed, opened, written)
          /\ Note("rolling", rolling_fout' /\ written)
     \/ RollingDrops /\ Fault /\ Note("rolling", FALSE)
  /\ UNCHANGED <<today, pending, ring, batch, daily, stops, kills>>
  /\ UNCHANGED <<latest, in_order>>

AppendDaily ==
  /\ pc = "daily" /\ pc' = "loop"
  /\ \E renamed, opened, written \in BOOLEAN :
       /\ Outcome(daily_fout, Changes(Current), renamed, opened, written)
       /\ DailyLog(Current, renamed, opened, written)
       /\ Note("daily", daily_fout' /\ written)
  /\ Meets
  /\ UNCHANGED <<today, pending, ring, batch, rolling, stops, kills>>

(* Mutant: the packets are given back before they have been handled.       *)
ReadEndEarly ==
  /\ pc # "down" /\ batch > 0 /\ delivering = batch
  /\ Ring!Release /\ batch' = 0
  /\ FilesUnchanged
  /\ UNCHANGED <<today, pending, records, pc, stops, kills>>

(* Mutant: tbus_read_end is not called.                                    *)
ReadEndForgets ==
  /\ pc = "loop" /\ batch > 0 /\ delivering = batch
  /\ Ring!ReceiverCrash /\ batch' = 0
  /\ FilesUnchanged
  /\ UNCHANGED <<today, pending, records, pc, stops, kills>>

ReadEnd ==
  /\ pc = "loop" /\ batch > 0 /\ delivering = batch
  /\ Ring!Release /\ batch' = 0
  /\ FilesUnchanged
  /\ UNCHANGED <<today, pending, records, pc, stops, kills>>

Daemon == \/ WouldBlock \/ ReadBegin \/ OnRecv
          \/ AppendRolling \/ AppendDaily \/ ReadEnd

(* A signal: tapp_loop returns between two calls, then fini.               *)
Stop ==
  /\ pc = "loop" /\ batch = 0 /\ Troubles < MaxTroubles
  /\ pc' = "down" /\ stops' = stops + 1
  /\ FilesUnchanged
  /\ UNCHANGED <<today, pending, ring, batch, kills>>

Dies ==
  /\ Troubles < MaxTroubles
  /\ pc' = "down" /\ stops' = stops + 1 /\ kills' = kills + 1
  /\ batch' = 0
  /\ \/ Ring!ReceiverCrash
     \/ delivering = 0 /\ UNCHANGED <<sent, released, delivering, last>>
  /\ UNCHANGED <<today, pending, records, logged, thrown, faults>>

Kill ==
  /\ pc # "down" /\ Dies
  /\ UNCHANGED <<rolling, daily, latest, in_order>>

(* The daemon is killed between rename() and fopen().                      *)
KillInAppender ==
  /\ Dies
  /\ \/ /\ pc = "rolling" /\ Full(Current)
        /\ RollingLog(Current, TRUE, FALSE, FALSE)
        /\ UNCHANGED <<daily, latest, in_order>>
     \/ /\ pc = "daily" /\ Changes(Current)
        /\ DailyLog(Current, TRUE, FALSE, FALSE) /\ Meets
        /\ UNCHANGED rolling

Next == Application \/ Tomorrow \/ Start \/ Daemon \/ Stop \/ Kill
          \/ KillInAppender

Spec == Init /\ [][Next]_vars

(* tapp_loop calls tbusapi_process again and again; nothing is said of who *)
(* starts the daemon.                                                      *)
FairSpec == Spec /\ WF_vars(Daemon)

-----------------------------------------------------------------------------
(* Type invariant.                                                         *)
Messages == [len : {k.len : k \in Kinds}, level : {k.level : k \in Kinds},
             day : Days]

TypeOK ==
  /\ today \in Days
  /\ \A w \in Writers : pending[w] \in Messages \union {Nothing}
  /\ sent \in 0 .. MaxSent /\ released \in 0 .. sent
  /\ sent - released <= RingSize
  /\ batch \in 0 .. (sent - released) /\ delivering \in 0 .. batch
  /\ Len(records) = sent /\ \A n \in 1 .. sent : records[n] \in Messages
  /\ pc \in {"down", "loop", "rolling", "daily"}
  /\ pc \in {"rolling", "daily"} => last + 1 = released + delivering
  /\ rolling_fout \in BOOLEAN /\ index \in Backups
  /\ daily_fout \in BOOLEAN /\ day \in Days \union {0}
  /\ stops \in 0 .. MaxTroubles /\ kills \in 0 .. stops
  /\ faults \in 0 .. MaxTroubles
  /\ latest \in Days \union {0} /\ in_order \in BOOLEAN

(* Safety: what the daemon gives back to the ring has been written by both *)
(* appenders, however often it was killed: nothing but what the level      *)
(* excludes or a failing call of the file system throws away is lost       *)
(* (tlog.h: a write is executed at once, none is buffered).                *)
NothingSkipped ==
  \A n \in 1 .. released, a \in Appenders :
    Enabled(records[n]) =>
      n \in ToSet(logged[a]) \union thrown[a]

(* Safety: records are written in the order in which the threads wrote     *)
(* them, and written again only after the daemon was killed.               *)
RepeatsOnlyAfterKills ==
  \A a \in Appenders :
    Cardinality({j \in 2 .. Len(logged[a]) :
                   logged[a][j] <= logged[a][j - 1]}) <= kills

(* Safety: the rolling file and its backups hold the latest records, in    *)
(* their order and without a gap, nothing is dropped while a backup is     *)
(* unused, and a file that holds more than one record exceeds              *)
(* max_file_size by no more than a newline.  Trouble adds a record for     *)
(* each time the file was opened when it was full already.  (After a       *)
(* restart, index is 0 and the backup overwritten next need not be the     *)
(* oldest.)                                                                *)
Contents(log) == [j \in 1 .. Len(log) |-> records[log[j]]]

Longest == Max({k.len : k \in Kinds})

Bounded(f) ==
  /\ f.size <= Max({MaxFileSize, Longest}) + 1 + Troubles * (Longest + 1)
  /\ Troubles = 0 => f.size <= MaxFileSize + 1 \/ Len(f.records) = 1

RollingKeeps ==
  LET log == Contents(logged.rolling)
  IN  /\ IsSuffix(file.records, log)
      /\ Troubles = 0 =>
           /\ IsSuffix(ByAge, log)
           /\ ByAge = log \/ \A b \in Backups : backup[b] # NoFile
      /\ Bounded(file) /\ \A b \in Backups : Bounded(backup[b])

(* Safety: as long as records arrive in the order of their days, no        *)
(* directory is overwritten, every record written is in a directory or in  *)
(* the file, and the directory of a day holds records of that day; one     *)
(* that came before the daemon was started, or before a failed call, may   *)
(* be in the directory of a later day.  (Two threads at midnight, or a     *)
(* kill, may bring them out of order; the directory of a day is then       *)
(* replaced by what came later.)                                           *)
DailyKeeps ==
  in_order =>
    /\ Contents(logged.daily) = FlattenSeq(directory) \o day_file
    /\ \A d \in Days : \A m \in ToSet(directory[d]) :
         m.day <= d /\ (Troubles = 0 => m.day = d)

(* Liveness: a daemon that is not stopped any more handles all that has    *)
(* been written.                                                           *)
Drained == <>[](pc # "down") => (sent > released ~> sent = released)
=============================================================================
