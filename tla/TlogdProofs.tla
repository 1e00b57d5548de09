---------------------------- MODULE TlogdProofs ----------------------------
(***************************************************************************)
(* Proofs about the log daemon, for any number of threads, records, kills  *)
(* and failures of the file system, any size of the shared memory and of a *)
(* file, and any number of backups and days.                               *)
(*                                                                         *)
(* No record is lost on its way from the shared memory to an appender, and *)
(* one is written again only if the daemon was killed: this follows from   *)
(* how far the daemon is in the shared memory (Place) and what it has in   *)
(* hand.  The files hold what was logged, the latest records of it in      *)
(* their order, each day in its directory (Kept).                          *)
(***************************************************************************)
EXTENDS Tlogd, FiniteSetTheorems, SequenceTheorems, WellFoundedInduction, TLAPS

Record == [len : Nat, level : Nat, day : Nat]

CountersOK ==
  /\ sent \in Nat /\ released \in Nat /\ delivering \in Nat /\ batch \in Nat
  /\ delivering <= batch /\ released + batch <= sent
  /\ last \in Int /\ kills \in Nat

RecordsOK ==
  /\ today \in Nat
  /\ pending \in [Writers -> Record]
  /\ records \in Seq(Record) /\ Len(records) = sent

HistoryOK ==
  /\ logged \in [Appenders -> Seq(Int)]
  /\ thrown \in [Appenders -> SUBSET Int]

(* In an appender the daemon has the latest packet of its batch in hand.   *)
InHand ==
  /\ pc \in {"down", "loop", "rolling", "daily"}
  /\ pc \in {"rolling", "daily"} =>
       delivering > 0 /\ last + 1 = released + delivering

(* The record in hand is still to come to appender a.                      *)
Awaits(a) == pc = "rolling" \/ (pc = "daily" /\ a = "daily")

(* Up to which record appender a has been given what there was.            *)
Place(a) == IF Awaits(a) THEN released + delivering - 1
                         ELSE released + delivering

Given ==
  \A a \in Appenders : \A n \in 1 .. Place(a) :
    Enabled(records[n]) => n \in ToSet(logged[a]) \union thrown[a]

(* Where the order of a log goes back, and whether it will at its next     *)
(* record.                                                                 *)
Repeats(log) == {j \in 2 .. Len(log) : log[j] <= log[j - 1]}

WillRepeat(a) == logged[a] # <<>> /\ logged[a][Len(logged[a])] > Place(a)

Counted ==
  \A a \in Appenders :
    Cardinality(Repeats(logged[a])) + (IF WillRepeat(a) THEN 1 ELSE 0) <= kills

IInv == CountersOK /\ RecordsOK /\ HistoryOK /\ InHand /\ Given /\ Counted

-----------------------------------------------------------------------------
(* Records.                                                                *)
LEMMA Constants ==
  /\ Nothing \in Record
  /\ \A k \in Kinds : \A d \in Nat :
       [len |-> k.len, level |-> k.level, day |-> d] \in Record
BY TlogdAssumption DEF Nothing, Record

(* What a log gains by an entry.                                           *)
LEMMA ToSetAppend ==
  ASSUME NEW S, NEW log \in Seq(S), NEW n \in S
  PROVE  ToSet(Append(log, n)) = ToSet(log) \union {n}
<1>1. /\ DOMAIN log = 1 .. Len(log) /\ Len(log) \in Nat
      /\ DOMAIN Append(log, n) = 1 .. Len(log) + 1
      /\ Append(log, n)[Len(log) + 1] = n
      /\ \A j \in 1 .. Len(log) : Append(log, n)[j] = log[j]
  OBVIOUS
<1>2. \A j \in 1 .. Len(log) + 1 : j \in 1 .. Len(log) \/ j = Len(log) + 1
  BY <1>1
<1>3. \A j \in 1 .. Len(log) : j \in 1 .. Len(log) + 1
  BY <1>1
<1>4. Len(log) + 1 \in 1 .. Len(log) + 1
  BY <1>1
<1> QED
  BY <1>1, <1>2, <1>3, <1>4 DEF ToSet

LEMMA RepeatsFinite ==
  ASSUME NEW log \in Seq(Int)
  PROVE  IsFiniteSet(Repeats(log)) /\ Cardinality(Repeats(log)) \in Nat
<1>1. IsFiniteSet(2 .. Len(log)) /\ Repeats(log) \in SUBSET (2 .. Len(log))
  BY FS_Interval DEF Repeats
<1>2. IsFiniteSet(Repeats(log))
  BY <1>1, FS_Subset
<1> QED
  BY <1>2, FS_CardinalityType

LEMMA RepeatsAppend ==
  ASSUME NEW log \in Seq(Int), NEW n \in Int
  PROVE  Cardinality(Repeats(Append(log, n))) <=
           Cardinality(Repeats(log)) +
             (IF log # <<>> /\ log[Len(log)] >= n THEN 1 ELSE 0)
<1> DEFINE new == Append(log, n)
<1>1. /\ Len(log) \in Nat /\ Len(new) = Len(log) + 1
      /\ new[Len(log) + 1] = n
      /\ \A j \in 1 .. Len(log) : new[j] = log[j] /\ log[j] \in Int
  OBVIOUS
<1>2. IsFiniteSet(Repeats(log)) /\ Cardinality(Repeats(log)) \in Nat
  BY RepeatsFinite
<1>3. CASE log # <<>> /\ log[Len(log)] >= n
  <2>1. Repeats(new) = Repeats(log) \union {Len(log) + 1}
    <3>1. Len(log) >= 1
      BY <1>1, <1>3
    <3>2. Len(log) + 1 \in 2 .. Len(new) /\ Len(log) + 1 - 1 = Len(log)
      BY <1>1, <3>1
    <3>3. \A j \in 2 .. Len(new) : j = Len(log) + 1 \/
            (j \in 2 .. Len(log) /\ new[j] = log[j] /\ new[j - 1] = log[j - 1])
      BY <1>1
    <3>4. \A j \in 2 .. Len(log) :
            j \in 2 .. Len(new) /\ new[j] = log[j] /\ new[j - 1] = log[j - 1]
      BY <1>1
    <3>5. new[Len(log) + 1] <= new[Len(log)]
      BY <1>1, <1>3, <3>1
    <3> HIDE DEF new
    <3>6. ASSUME NEW j \in Repeats(new)
          PROVE  j \in Repeats(log) \union {Len(log) + 1}
      <4>1. j \in 2 .. Len(new) /\ new[j] <= new[j - 1]
        BY DEF Repeats
      <4>2. CASE j \in 2 .. Len(log) /\ new[j] = log[j] /\ new[j - 1] = log[j - 1]
        <5>1. j \in 2 .. Len(log) /\ log[j] <= log[j - 1]
          BY <4>1, <4>2
        <5> QED BY <5>1 DEF Repeats
      <4> QED BY <3>3, <4>1, <4>2
    <3>7. Len(log) + 1 \in Repeats(new)
      BY <3>2, <3>5 DEF Repeats
    <3>8. ASSUME NEW j \in Repeats(log)
          PROVE  j \in Repeats(new)
      <4>1. j \in 2 .. Len(log) /\ log[j] <= log[j - 1]
        BY DEF Repeats
      <4>2. j \in 2 .. Len(new) /\ new[j] <= new[j - 1]
        BY <3>4, <4>1
      <4> QED BY <4>2 DEF Repeats
    <3> QED
      BY <3>6, <3>7, <3>8
  <2>2. Len(log) + 1 \notin Repeats(log)
    BY <1>1 DEF Repeats
  <2>3. Cardinality(Repeats(new)) = Cardinality(Repeats(log)) + 1
    BY <1>2, <2>1, <2>2, FS_AddElement
  <2> QED
    BY <1>2, <1>3, <2>3
<1>4. CASE ~(log # <<>> /\ log[Len(log)] >= n)
  <2>1. Repeats(new) = Repeats(log)
    <3>1. \A j \in 2 .. Len(log) :
            j \in 2 .. Len(new) /\ new[j] = log[j] /\ new[j - 1] = log[j - 1]
      BY <1>1
    <3>2. \A j \in 2 .. Len(new) : j \in 2 .. Len(log) \/
            (j = Len(log) + 1 /\ j - 1 = Len(log) /\ log # <<>>)
      BY <1>1
    <3>3. \A j \in 2 .. Len(new) : new[j] <= new[j - 1] => j \in 2 .. Len(log)
      <4>1. log # <<>> => new[Len(log)] = log[Len(log)] /\ log[Len(log)] \in Int
        BY <1>1
      <4> HIDE DEF new
      <4> QED
        BY <1>1, <1>4, <3>2, <4>1
    <3> HIDE DEF new
    <3> QED
      BY <3>1, <3>3 DEF Repeats
  <2> QED
    BY <1>2, <1>4, <2>1
<1> QED
  BY <1>3, <1>4

-----------------------------------------------------------------------------
(* The initial states.                                                     *)
LEMMA InitHolds == Init => IInv
<1> SUFFICES ASSUME Init
             PROVE  IInv
  OBVIOUS
<1>1. CountersOK /\ RecordsOK /\ InHand
  BY Constants DEF Init, Ring!Init, CountersOK, RecordsOK, InHand
<1>2. \A a \in Appenders : logged[a] = <<>> /\ thrown[a] = {}
  BY DEF Init
<1>3. HistoryOK
  BY DEF Init, HistoryOK
<1>4. Given
  BY <1>2 DEF Init, Ring!Init, Given, Place, Awaits
<1>5. Counted
  <2>1. Repeats(<<>>) = {}
    BY DEF Repeats
  <2> QED
    BY <1>2, <2>1, FS_EmptySet DEF Init, Counted, WillRepeat
<1> QED
  BY <1>1, <1>3, <1>4, <1>5 DEF IInv

-----------------------------------------------------------------------------
(* Steps that leave the place of the daemon and the logs alone: those of   *)
(* the application, of the calendar and of the start and stop.             *)
LEMMA PlaceKept ==
  ASSUME IInv, CountersOK', RecordsOK', InHand',
         UNCHANGED <<logged, thrown, kills>>,
         \A a \in Appenders : Place(a)' = Place(a),
         \A n \in 1 .. sent : records'[n] = records[n]
  PROVE  IInv'
<1>1. HistoryOK'
  BY DEF IInv, HistoryOK
<1>2. \A a \in Appenders : Place(a) \in Int /\ Place(a) <= sent
  BY DEF IInv, CountersOK, Place
<1>3. sent \in Nat
  BY DEF IInv, CountersOK
<1>4. Given'
  <2> SUFFICES ASSUME NEW a \in Appenders, NEW n \in 1 .. Place(a),
                      Enabled(records[n])
               PROVE  n \in ToSet(logged[a]) \union thrown[a]
    <3>1. \A a \in Appenders : \A n \in 1 .. Place(a) : n \in 1 .. sent
      BY <1>2, <1>3
    <3> QED
      BY <3>1 DEF Given, Enabled
  <2> QED
    BY DEF IInv, Given
<1>5. Counted'
  BY DEF IInv, Counted, WillRepeat
<1> QED
  BY <1>1, <1>4, <1>5 DEF IInv

LEMMA OthersKeep ==
  ASSUME IInv, \/ Application \/ Tomorrow \/ Start \/ WouldBlock
               \/ ReadBegin \/ ReadEnd \/ Stop \/ UNCHANGED vars
  PROVE  IInv'
<1>1. CountersOK /\ RecordsOK /\ InHand
  BY DEF IInv
<1>2. CASE Application
  <2> PICK w \in Writers : MakeMessage(w) \/ WriteThrows(w) \/ Write(w)
    BY <1>2 DEF Application
  <2>1. UNCHANGED <<pc, released, delivering, last, batch, logged, thrown,
                    kills, today>>
    BY DEF MakeMessage, WriteThrows, Write, Ring!Send, ring, daemon, history
  <2>2. CASE Write(w)
    <3>1. sent' = sent + 1 /\ records' = Append(records, pending[w])
      BY <2>2 DEF Write, Ring!Send
    <3>2. pending' \in [Writers -> Record]
      <4>1. pending' = [pending EXCEPT ![w] = Nothing]
        BY <2>2 DEF Write
      <4> QED
        BY <1>1, <4>1, Constants DEF RecordsOK
    <3>3. pending[w] \in Record
      BY <1>1 DEF RecordsOK
    <3> QED
      BY <1>1, <2>1, <3>1, <3>2, <3>3, PlaceKept
         DEF CountersOK, RecordsOK, InHand, Place, Awaits
  <2>3. CASE MakeMessage(w) \/ WriteThrows(w)
    <3>1. UNCHANGED <<sent, records>>
      BY <2>3 DEF MakeMessage, WriteThrows, ring
    <3>2. pending' \in [Writers -> Record]
      <4>1. \E m \in Record : pending' = [pending EXCEPT ![w] = m]
        BY <1>1, <2>3, Constants DEF MakeMessage, WriteThrows, RecordsOK
      <4> QED
        BY <1>1, <4>1 DEF RecordsOK
    <3> QED
      BY <1>1, <2>1, <3>1, <3>2, PlaceKept
         DEF CountersOK, RecordsOK, InHand, Place, Awaits
  <2> QED
    BY <2>2, <2>3
<1>3. CASE Tomorrow
  BY <1>1, <1>3, PlaceKept DEF Tomorrow, ring, daemon, history, CountersOK,
     RecordsOK, InHand, Place, Awaits
<1>4. CASE Start
  BY <1>1, <1>4, PlaceKept DEF Start, ring, history, CountersOK, RecordsOK,
     InHand, Place, Awaits
<1>5. CASE ReadBegin
  <2>1. UNCHANGED <<today, pending, sent, released, delivering, last, records,
                    pc, kills, logged, thrown>>
    BY <1>5 DEF ReadBegin, FilesUnchanged, ring
  <2>2. batch = 0 /\ \E n \in 1 .. (sent - released) : batch' = n
    BY <1>5 DEF ReadBegin
  <2>3. CountersOK'
    <3>1. sent \in Nat /\ released \in Nat /\ delivering = 0
      BY <1>1, <2>2 DEF CountersOK
    <3>2. \A n \in 1 .. (sent - released) : n \in Nat /\ released + n <= sent
      BY <3>1
    <3> QED
      BY <1>1, <2>1, <2>2, <3>1, <3>2 DEF CountersOK
  <2> QED
    BY <1>1, <2>1, <2>3, PlaceKept DEF RecordsOK, InHand, Place, Awaits
<1>6. CASE ReadEnd
  BY <1>1, <1>6, PlaceKept DEF ReadEnd, Ring!Release, FilesUnchanged,
     CountersOK, RecordsOK, InHand, Place, Awaits
<1>7. CASE Stop
  BY <1>1, <1>7, PlaceKept DEF Stop, FilesUnchanged, ring, CountersOK,
     RecordsOK, InHand, Place, Awaits
<1>8. CASE WouldBlock \/ UNCHANGED vars
  BY <1>1, <1>8, PlaceKept DEF WouldBlock, vars, ring, daemon, history,
     CountersOK, RecordsOK, InHand, Place, Awaits
<1> QED
  BY <1>2, <1>3, <1>4, <1>5, <1>6, <1>7, <1>8

-----------------------------------------------------------------------------
(* The next packet.  One whose level is not enabled leaves nothing in hand.*)
LEMMA OnRecvKeeps ==
  ASSUME IInv, OnRecv
  PROVE  IInv'
<1>1. CountersOK /\ RecordsOK /\ HistoryOK /\ InHand /\ Given /\ Counted
  BY DEF IInv
<1>2. /\ UNCHANGED <<today, pending, sent, released, records, batch, kills,
                     logged, thrown>>
      /\ pc = "loop" /\ delivering < batch
      /\ delivering' = delivering + 1 /\ last' = released + delivering
      /\ pc' = IF Enabled(records[last' + 1]) THEN "rolling" ELSE "loop"
  BY DEF OnRecv, Ring!Deliver, FilesUnchanged
<1>3. CountersOK' /\ RecordsOK' /\ HistoryOK' /\ InHand'
  BY <1>1, <1>2 DEF CountersOK, RecordsOK, HistoryOK, InHand
<1>4. \A a \in Appenders :
        /\ Place(a) \in Nat /\ Place(a) = released + delivering
        /\ \/ Place(a)' = Place(a)
           \/ /\ Place(a)' = Place(a) + 1
              /\ ~Enabled(records[Place(a) + 1])
  BY <1>1, <1>2 DEF Place, Awaits, CountersOK
<1>5. Given'
  <2> SUFFICES ASSUME NEW a \in Appenders, NEW n \in 1 .. Place(a)',
                      Enabled(records[n])
               PROVE  n \in ToSet(logged[a]) \union thrown[a]
    BY <1>2 DEF Given, Enabled
  <2>1. n \in 1 .. Place(a)
    BY <1>4
  <2> QED
    BY <1>1, <2>1 DEF Given
<1>6. Counted'
  <2>1. \A a \in Appenders : WillRepeat(a)' => WillRepeat(a)
    <3> SUFFICES ASSUME NEW a \in Appenders, WillRepeat(a)'
                 PROVE  WillRepeat(a)
      OBVIOUS
    <3>1. logged[a] # <<>> /\ logged[a] \in Seq(Int)
      BY <1>1, <1>2 DEF WillRepeat, HistoryOK
    <3>2. logged[a][Len(logged[a])] \in Int
      BY <3>1
    <3> QED
      BY <1>2, <1>4, <3>1, <3>2 DEF WillRepeat
  <2>2. \A a \in Appenders : Cardinality(Repeats(logged[a])) \in Nat
    BY <1>1, RepeatsFinite DEF HistoryOK
  <2>3. kills \in Nat
    BY <1>1 DEF CountersOK
  <2> QED
    BY <1>1, <1>2, <2>1, <2>2, <2>3 DEF Counted
<1> QED
  BY <1>3, <1>5, <1>6 DEF IInv

(* An appender that has the record in hand writes it or throws it away.    *)
LEMMA NoteKeeps ==
  ASSUME IInv, NEW a \in Appenders, NEW kept, Note(a, kept), Awaits(a),
         Place(a) = last, Place(a)' = last + 1,
         \A b \in Appenders \ {a} : Place(b)' = Place(b),
         UNCHANGED <<records, kills>>
  PROVE  HistoryOK' /\ Given' /\ Counted'
<1>1. CountersOK /\ HistoryOK /\ Given /\ Counted
  BY DEF IInv
<1>2. last \in Int /\ last + 1 \in Int /\ kills \in Nat
  BY <1>1 DEF CountersOK
<1>3. \/ /\ logged' = [logged EXCEPT ![a] = Append(@, last + 1)]
         /\ thrown' = thrown
      \/ /\ logged' = logged
         /\ thrown' = [thrown EXCEPT ![a] = @ \union {last + 1}]
  BY DEF Note
<1>4. HistoryOK'
  <2>1. logged[a] \in Seq(Int) /\ Append(logged[a], last + 1) \in Seq(Int)
    BY <1>1, <1>2 DEF HistoryOK
  <2>2. thrown[a] \union {last + 1} \in SUBSET Int
    BY <1>1, <1>2 DEF HistoryOK
  <2>3. logged' \in [Appenders -> Seq(Int)]
    BY <1>1, <1>3, <2>1 DEF HistoryOK
  <2>4. thrown' \in [Appenders -> SUBSET Int]
    BY <1>1, <1>3, <2>2 DEF HistoryOK
  <2> QED
    BY <2>3, <2>4 DEF HistoryOK
<1>5. /\ \A b \in Appenders \ {a} :
           logged'[b] = logged[b] /\ thrown'[b] = thrown[b]
      /\ logged[a] \in Seq(Int)
      /\ \/ logged'[a] = Append(logged[a], last + 1) /\ thrown'[a] = thrown[a]
         \/ /\ logged'[a] = logged[a]
            /\ thrown'[a] = thrown[a] \union {last + 1}
  BY <1>1, <1>3 DEF HistoryOK
<1>6. ToSet(logged'[a]) \union thrown'[a]
        = ToSet(logged[a]) \union thrown[a] \union {last + 1}
  <2>1. ToSet(Append(logged[a], last + 1)) = ToSet(logged[a]) \union {last + 1}
    BY <1>2, <1>5, ToSetAppend
  <2>2. CASE logged'[a] = Append(logged[a], last + 1) /\ thrown'[a] = thrown[a]
    <3>1. ToSet(logged'[a]) = ToSet(logged[a]) \union {last + 1}
      BY <2>1, <2>2
    <3> QED
      BY <2>2, <3>1
  <2>3. CASE /\ logged'[a] = logged[a]
             /\ thrown'[a] = thrown[a] \union {last + 1}
    BY <2>3
  <2> QED
    BY <1>5, <2>2, <2>3
<1>7. Given'
  <2> SUFFICES ASSUME NEW b \in Appenders, NEW n \in 1 .. Place(b)',
                      Enabled(records[n])
               PROVE  n \in ToSet(logged'[b]) \union thrown'[b]
    BY DEF Given, Enabled
  <2>1. CASE b = a
    <3>1. n \in 1 .. Place(a) \/ n = last + 1
      BY <1>2, <2>1
    <3> QED
      BY <1>1, <1>6, <2>1, <3>1 DEF Given
  <2>2. CASE b # a
    BY <1>1, <1>5, <2>2 DEF Given
  <2> QED
    BY <2>1, <2>2
<1>8. Counted'
  <2> SUFFICES ASSUME NEW b \in Appenders
               PROVE  Cardinality(Repeats(logged'[b]))
                        + (IF WillRepeat(b)' THEN 1 ELSE 0) <= kills
    BY DEF Counted
  <2>1. Cardinality(Repeats(logged[b])) + (IF WillRepeat(b) THEN 1 ELSE 0)
          <= kills /\ Cardinality(Repeats(logged[b])) \in Nat
    BY <1>1, RepeatsFinite DEF Counted, HistoryOK
  <2>2. CASE b # a
    BY <1>5, <2>1, <2>2 DEF WillRepeat
  <2>3. CASE b = a /\ logged'[a] = logged[a]
    <3>1. WillRepeat(a)' => WillRepeat(a)
      <4>1. logged[a] # <<>> => logged[a][Len(logged[a])] \in Int
        BY <1>5
      <4> QED
        BY <1>2, <2>3, <4>1 DEF WillRepeat
    <3> QED
      BY <1>2, <2>1, <2>3, <3>1
  <2>4. CASE b = a /\ logged'[a] = Append(logged[a], last + 1)
    <3>1. ~WillRepeat(a)'
      <4>1. logged'[a][Len(logged'[a])] = last + 1
        BY <1>2, <1>5, <2>4
      <4> QED
        BY <1>2, <4>1 DEF WillRepeat
    <3>2. Cardinality(Repeats(logged'[a])) <=
            Cardinality(Repeats(logged[a])) +
              (IF /\ logged[a] # <<>>
                  /\ logged[a][Len(logged[a])] >= last + 1 THEN 1 ELSE 0)
      BY <1>2, <1>5, <2>4, RepeatsAppend
    <3>3. (logged[a] # <<>> /\ logged[a][Len(logged[a])] >= last + 1)
            => WillRepeat(a)
      <4>1. logged[a] # <<>> => logged[a][Len(logged[a])] \in Int
        BY <1>5
      <4> QED
        BY <1>2, <4>1 DEF WillRepeat
    <3>4. Cardinality(Repeats(logged'[a])) \in Nat
      BY <1>4, RepeatsFinite DEF HistoryOK
    <3> QED
      BY <1>2, <2>1, <2>4, <3>1, <3>2, <3>3, <3>4
  <2> QED
    BY <1>5, <2>2, <2>3, <2>4
<1> QED
  BY <1>4, <1>7, <1>8

LEMMA AppendKeeps ==
  ASSUME IInv, AppendRolling \/ AppendDaily
  PROVE  IInv'
<1>1. CountersOK /\ RecordsOK /\ InHand
  BY DEF IInv
<1>2. UNCHANGED <<today, pending, sent, released, delivering, last, records,
                  batch, kills>>
  BY DEF AppendRolling, AppendDaily, ring
<1>3. CountersOK' /\ RecordsOK' /\ InHand'
  BY <1>1, <1>2 DEF CountersOK, RecordsOK, InHand, AppendRolling, AppendDaily
<1>4. CASE AppendRolling
  <2>1. /\ \E kept : Note("rolling", kept)
        /\ pc = "rolling" /\ pc' = "daily"
    BY <1>4 DEF AppendRolling
  <2>2. /\ Awaits("rolling") /\ Place("rolling") = last
        /\ Place("rolling")' = last + 1 /\ Place("daily")' = Place("daily")
    BY <1>1, <1>2, <2>1 DEF Awaits, Place, InHand, CountersOK
  <2> QED
    BY <1>2, <1>3, <2>1, <2>2, NoteKeeps DEF Appenders, IInv
<1>5. CASE AppendDaily
  <2>1. /\ \E kept : Note("daily", kept)
        /\ pc = "daily" /\ pc' = "loop"
    BY <1>5 DEF AppendDaily
  <2>2. /\ Awaits("daily") /\ Place("daily") = last
        /\ Place("daily")' = last + 1 /\ Place("rolling")' = Place("rolling")
    BY <1>1, <1>2, <2>1 DEF Awaits, Place, InHand, CountersOK
  <2> QED
    BY <1>2, <1>3, <2>1, <2>2, NoteKeeps DEF Appenders, IInv
<1> QED
  BY <1>4, <1>5

(* A kill takes the daemon back to what it has not given back, and one     *)
(* repeat in each log is forgiven for it.                                  *)
LEMMA KillKeeps ==
  ASSUME IInv, Kill \/ KillInAppender
  PROVE  IInv'
<1>1. CountersOK /\ RecordsOK /\ HistoryOK /\ InHand /\ Given /\ Counted
  BY DEF IInv
<1>2. /\ UNCHANGED <<today, pending, sent, released, last, records, logged,
                     thrown>>
      /\ pc' = "down" /\ kills' = kills + 1 /\ batch' = 0 /\ delivering' = 0
  BY DEF Kill, KillInAppender, Dies, Ring!ReceiverCrash
<1>3. CountersOK' /\ RecordsOK' /\ HistoryOK' /\ InHand'
  BY <1>1, <1>2 DEF CountersOK, RecordsOK, HistoryOK, InHand
<1>4. \A a \in Appenders : Place(a) \in Nat /\ Place(a)' \in Nat
                           /\ Place(a)' <= Place(a)
  BY <1>1, <1>2 DEF Place, Awaits, CountersOK, InHand
<1>5. Given'
  <2> SUFFICES ASSUME NEW a \in Appenders, NEW n \in 1 .. Place(a)',
                      Enabled(records[n])
               PROVE  n \in ToSet(logged[a]) \union thrown[a]
    BY <1>2 DEF Given, Enabled
  <2>1. n \in 1 .. Place(a)
    BY <1>4
  <2> QED
    BY <1>1, <2>1 DEF Given
<1>6. Counted'
  <2>1. \A a \in Appenders : Cardinality(Repeats(logged[a])) \in Nat
    BY <1>1, RepeatsFinite DEF HistoryOK
  <2>2. kills \in Nat
    BY <1>1 DEF CountersOK
  <2> QED
    BY <1>1, <1>2, <2>1, <2>2 DEF Counted
<1> QED
  BY <1>3, <1>5, <1>6 DEF IInv

-----------------------------------------------------------------------------
(* How far the daemon is, what it has in hand and what the logs hold agree *)
(* at every point, also where it is killed.                                *)
THEOREM Invariance == Spec => []IInv
<1>1. IInv /\ [Next]_vars => IInv'
  BY OthersKeep, OnRecvKeeps, AppendKeeps, KillKeeps DEF Next, Daemon
<1> QED
  BY InitHolds, <1>1, PTL DEF Spec

(* Nothing that tlogd gives back to the shared memory is missing from an   *)
(* appender, unless its level or a failed fopen() kept it out.             *)
THEOREM NothingIsSkipped == Spec => []NothingSkipped
<1>1. IInv => NothingSkipped
  <2> SUFFICES ASSUME IInv, NEW n \in 1 .. released, NEW a \in Appenders,
                      Enabled(records[n])
               PROVE  n \in ToSet(logged[a]) \union thrown[a]
    BY DEF NothingSkipped
  <2>1. n \in 1 .. Place(a)
    BY DEF IInv, CountersOK, InHand, Place, Awaits
  <2> QED
    BY <2>1 DEF IInv, Given
<1> QED
  BY Invariance, <1>1, PTL

(* A log goes back in the order of the records once for each kill at most. *)
THEOREM RepeatsAreCounted == Spec => []RepeatsOnlyAfterKills
<1>1. IInv => RepeatsOnlyAfterKills
  <2> SUFFICES ASSUME IInv, NEW a \in Appenders
               PROVE  Cardinality(Repeats(logged[a])) <= kills
    BY DEF RepeatsOnlyAfterKills, Repeats
  <2>1. Cardinality(Repeats(logged[a])) \in Nat /\ kills \in Nat
    BY RepeatsFinite DEF IInv, HistoryOK, CountersOK
  <2> QED
    BY <2>1 DEF IInv, Counted
<1> QED
  BY Invariance, <1>1, PTL

-----------------------------------------------------------------------------
(***************************************************************************)
(* Sequences that are put together from others, one after the other: both  *)
(* ByAge and FlattenSeq are the last value of a recursive function.        *)
(***************************************************************************)
LEMMA LeastNatural ==
  ASSUME NEW T \in SUBSET Nat, T # {}
  PROVE  \E m \in T : \A n \in T : m <= n
<1> DEFINE R == OpToRel(<, Nat)
<1>1. IsWellFoundedOn(R, Nat)
  BY NatLessThanWellFounded
<1>2. PICK m \in T : \A n \in T : <<n, m>> \notin R
  <2> HIDE DEF R
  <2> QED BY <1>1, WFMin
<1>3. \A n \in T : ~(n < m)
  BY <1>2 DEF OpToRel
<1> QED
  BY <1>3

LEMMA Upwards ==
  ASSUME NEW n \in Nat, NEW T \in SUBSET (0 .. n), 0 \in T,
         \A k \in 1 .. n : k - 1 \in T => k \in T
  PROVE  T = 0 .. n
<1> DEFINE Left == (0 .. n) \ T
<1> SUFFICES ASSUME Left # {}
             PROVE  FALSE
  OBVIOUS
<1>1. PICK k \in Left : \A l \in Left : k <= l
  <2>1. Left \in SUBSET Nat
    OBVIOUS
  <2> HIDE DEF Left
  <2> QED BY <2>1, LeastNatural
<1>2. k \in 1 .. n
  BY <1>1
<1>3. k - 1 \in 0 .. n /\ ~(k <= k - 1)
  BY <1>2
<1>4. k - 1 \in T
  BY <1>1, <1>3
<1> QED
  BY <1>1, <1>2, <1>4

(* Concatenation under a name of its own: the solver has trouble with \o    *)
(* where an operand is the value of a function.                            *)
Join(s, t) == s \o t

LEMMA JoinTyped ==
  ASSUME NEW S, NEW s \in Seq(S), NEW t \in Seq(S)
  PROVE  Join(s, t) \in Seq(S)
BY DEF Join

LEMMA JoinEmpty ==
  ASSUME NEW S, NEW s \in Seq(S)
  PROVE  Join(s, <<>>) = s /\ Join(<<>>, s) = s
BY ConcatEmptySeq DEF Join

LEMMA JoinAssociative ==
  ASSUME NEW S, NEW s \in Seq(S), NEW t \in Seq(S), NEW u \in Seq(S)
  PROVE  Join(Join(s, t), u) = Join(s, Join(t, u))
BY ConcatAssociative DEF Join

(* g[k] is made of the first k of P.                                       *)
Chain(g, P, n) ==
  /\ g[0] = <<>>
  /\ \A k \in 1 .. n : g[k] = Join(g[k - 1], P[k])

ChainUpTo(g, P, n) ==
  g = [k \in 0 .. n |-> IF k = 0 THEN <<>> ELSE Join(g[k - 1], P[k])]

LEMMA ChainExists ==
  ASSUME NEW P, NEW n \in Nat
  PROVE  \E g : ChainUpTo(g, P, n)
<1> DEFINE T == {m \in 0 .. n : \E g : ChainUpTo(g, P, m)}
<1>1. 0 \in T
  <2> DEFINE g == [k \in 0 .. 0 |-> <<>>]
  <2>1. g = [k \in 0 .. 0 |-> IF k = 0 THEN <<>> ELSE Join(g[k - 1], P[k])]
    OBVIOUS
  <2>2. ChainUpTo(g, P, 0)
    BY <2>1 DEF ChainUpTo
  <2> QED BY <2>2
<1>2. ASSUME NEW m \in 1 .. n, m - 1 \in T
      PROVE  m \in T
  <2>1. PICK g : ChainUpTo(g, P, m - 1)
    BY <1>2
  <2>2. \A k \in 0 .. m - 1 : g[k] = IF k = 0 THEN <<>> ELSE Join(g[k - 1], P[k])
    BY <2>1 DEF ChainUpTo
  <2> DEFINE h == [k \in 0 .. m |-> IF k = m THEN Join(g[m - 1], P[m]) ELSE g[k]]
  <2>3. ASSUME NEW k \in 0 .. m
        PROVE  h[k] = IF k = 0 THEN <<>> ELSE Join(h[k - 1], P[k])
    <3>1. CASE k = m
      <4>1. h[k - 1] = g[m - 1]
        BY <3>1
      <4> QED BY <3>1, <4>1
    <3>2. CASE k # m
      <4>1. k \in 0 .. m - 1 /\ (k # 0 => k - 1 \in 0 .. m - 1 /\ k - 1 # m)
        BY <3>2
      <4>2. h[k] = g[k] /\ (k # 0 => h[k - 1] = g[k - 1])
        BY <4>1
      <4> QED BY <2>2, <4>1, <4>2
    <3> QED BY <3>1, <3>2
  <2>4. h = [k \in 0 .. m |-> IF k = 0 THEN <<>> ELSE Join(h[k - 1], P[k])]
    BY <2>3
  <2>5. ChainUpTo(h, P, m)
    BY <2>4 DEF ChainUpTo
  <2> QED BY <2>5
<1>3. T = 0 .. n
  <2> HIDE DEF T
  <2>1. T \in SUBSET (0 .. n)
    BY DEF T
  <2> QED BY <1>1, <1>2, <2>1, Upwards
<1>4. n \in T
  BY <1>3
<1> QED
  BY <1>4

LEMMA ChainUpToIs ==
  ASSUME NEW P, NEW n \in Nat, NEW g, ChainUpTo(g, P, n)
  PROVE  Chain(g, P, n)
<1>1. \A k \in 0 .. n : g[k] = IF k = 0 THEN <<>> ELSE Join(g[k - 1], P[k])
  BY DEF ChainUpTo
<1>2. g[0] = <<>>
  <2>1. 0 \in 0 .. n
    OBVIOUS
  <2> QED BY <1>1, <2>1
<1>3. ASSUME NEW k \in 1 .. n
      PROVE  g[k] = Join(g[k - 1], P[k])
  <2>1. k \in 0 .. n /\ k # 0
    OBVIOUS
  <2> QED BY <1>1, <2>1
<1> QED
  BY <1>2, <1>3 DEF Chain

LEMMA ChainStep ==
  ASSUME NEW n \in Nat, NEW P, NEW g, Chain(g, P, n), NEW k \in 1 .. n
  PROVE  g[k] = Join(g[k - 1], P[k])
BY DEF Chain

LEMMA ChainTyped ==
  ASSUME NEW S, NEW n \in Nat, NEW P, \A k \in 1 .. n : P[k] \in Seq(S),
         NEW g, Chain(g, P, n), NEW k \in 0 .. n
  PROVE  g[k] \in Seq(S)
<1> DEFINE T == {m \in 0 .. n : g[m] \in Seq(S)}
<1>1. 0 \in T
  <2>1. g[0] \in Seq(S) /\ 0 \in 0 .. n
    BY DEF Chain
  <2> QED BY <2>1
<1>2. ASSUME NEW m \in 1 .. n, m - 1 \in T
      PROVE  m \in T
  <2>1. g[m] = Join(g[m - 1], P[m])
    BY ChainStep
  <2>2. g[m - 1] \in Seq(S) /\ P[m] \in Seq(S)
    BY <1>2
  <2>3. Join(g[m - 1], P[m]) \in Seq(S)
    BY <2>2, JoinTyped
  <2>4. g[m] \in Seq(S) /\ m \in 0 .. n
    BY <2>1, <2>3
  <2> QED BY <2>4
<1>3. T = 0 .. n
  <2> HIDE DEF T
  <2>1. T \in SUBSET (0 .. n)
    BY DEF T
  <2> QED BY <1>1, <1>2, <2>1, Upwards
<1> QED
  BY <1>3

(* When the first is taken away and another comes last.                    *)
Shifted(P, Q, n) == \A k \in 1 .. n - 1 : Q[k] = P[k + 1]

MadeOf(P, S, n) == \A k \in 1 .. n : P[k] \in Seq(S)

LEMMA ChainShifts ==
  ASSUME NEW S, NEW n \in Nat, n > 0, NEW P, NEW Q,
         MadeOf(P, S, n), MadeOf(Q, S, n), Shifted(P, Q, n),
         NEW g, Chain(g, P, n), NEW h, Chain(h, Q, n)
  PROVE  Join(P[1], h[n]) = Join(g[n], Q[n])
<1> DEFINE T == {k \in 0 .. n - 1 : Join(P[1], h[k]) = g[k + 1]}
<1>0. /\ \A k \in 1 .. n : P[k] \in Seq(S) /\ Q[k] \in Seq(S)
      /\ \A k \in 1 .. n - 1 : Q[k] = P[k + 1]
  BY DEF MadeOf, Shifted
<1>1. P[1] \in Seq(S) /\ Q[n] \in Seq(S) /\ \A k \in 0 .. n : h[k] \in Seq(S)
  <2>1. \A k \in 1 .. n : Q[k] \in Seq(S)
    BY <1>0
  <2>2. \A k \in 0 .. n : h[k] \in Seq(S)
    BY <2>1, ChainTyped
  <2>3. 1 \in 1 .. n /\ n \in 1 .. n
    OBVIOUS
  <2> QED BY <1>0, <2>2, <2>3
<1>2. 0 \in T
  <2>1. g[1] = Join(<<>>, P[1]) /\ h[0] = <<>>
    <3>1. g[1] = Join(g[1 - 1], P[1]) /\ g[0] = <<>> /\ h[0] = <<>>
      <4>1. 1 \in 1 .. n
        OBVIOUS
      <4> QED BY <4>1, ChainStep DEF Chain
    <3>2. 1 - 1 = 0
      OBVIOUS
    <3> QED BY <3>1, <3>2
  <2>2. Join(P[1], <<>>) = P[1] /\ Join(<<>>, P[1]) = P[1]
    BY <1>1, JoinEmpty
  <2>3. Join(P[1], h[0]) = g[0 + 1] /\ 0 \in 0 .. n - 1
    BY <2>1, <2>2
  <2> QED BY <2>3
<1>3. ASSUME NEW k \in 1 .. n - 1, k - 1 \in T
      PROVE  k \in T
  <2>1. Join(P[1], h[k - 1]) = g[k]
    BY <1>3
  <2>2. h[k] = Join(h[k - 1], Q[k]) /\ g[k + 1] = Join(g[k], P[k + 1])
    <3>1. k \in 1 .. n /\ k + 1 \in 1 .. n /\ (k + 1) - 1 = k
      OBVIOUS
    <3>2. h[k] = Join(h[k - 1], Q[k]) /\ g[k + 1] = Join(g[(k + 1) - 1], P[k + 1])
      BY <3>1, ChainStep
    <3> QED BY <3>1, <3>2
  <2>3. h[k - 1] \in Seq(S) /\ Q[k] \in Seq(S) /\ Q[k] = P[k + 1]
    <3>1. k \in 1 .. n /\ k - 1 \in 0 .. n
      OBVIOUS
    <3> QED BY <1>0, <1>1, <3>1
  <2>4. Join(Join(P[1], h[k - 1]), Q[k]) = Join(P[1], Join(h[k - 1], Q[k]))
    BY <1>1, <2>3, JoinAssociative
  <2>5. Join(P[1], h[k]) = g[k + 1]
    BY <2>1, <2>2, <2>3, <2>4, Zenon
  <2>6. k \in 0 .. n - 1
    OBVIOUS
  <2> QED BY <2>5, <2>6
<1>4. n - 1 \in T
  <2> HIDE DEF T
  <2>1. T \in SUBSET (0 .. n - 1) /\ n - 1 \in Nat
    BY DEF T
  <2>2. T = 0 .. n - 1
    BY <1>2, <1>3, <2>1, Upwards
  <2> QED BY <2>2
<1>5. Join(P[1], h[n - 1]) = g[n] /\ h[n] = Join(h[n - 1], Q[n])
  <2>1. Join(P[1], h[n - 1]) = g[(n - 1) + 1] /\ (n - 1) + 1 = n /\ n \in 1 .. n
    BY <1>4
  <2> QED BY <2>1, ChainStep
<1>6. Join(Join(P[1], h[n - 1]), Q[n]) = Join(P[1], Join(h[n - 1], Q[n]))
  <2>1. h[n - 1] \in Seq(S)
    <3>1. n - 1 \in 0 .. n
      OBVIOUS
    <3> QED BY <1>1, <3>1
  <2> QED BY <1>1, <2>1, JoinAssociative
<1> QED
  BY <1>5, <1>6, Zenon

(* When one is put where all that follows is empty.                        *)
Void(P, d, n) == \A k \in d .. n : P[k] = <<>>

Put(P, Q, d, F, n) == \A k \in 1 .. n : Q[k] = IF k = d THEN F ELSE P[k]

LEMMA ChainGains ==
  ASSUME NEW S, NEW n \in Nat, NEW P, NEW Q, NEW d \in Nat, d \in 1 .. n,
         NEW F \in Seq(S),
         MadeOf(P, S, n), Void(P, d, n), Put(P, Q, d, F, n),
         NEW g, Chain(g, P, n), NEW h, Chain(h, Q, n)
  PROVE  h[n] = Join(g[n], F)
<1> DEFINE T == {k \in 0 .. n : h[k] = IF k < d THEN g[k] ELSE Join(g[k], F)}
<1>0. /\ \A k \in 1 .. n : P[k] \in Seq(S)
      /\ \A k \in d .. n : P[k] = <<>>
      /\ \A k \in 1 .. n : Q[k] = IF k = d THEN F ELSE P[k]
  BY DEF MadeOf, Void, Put
<1>1. \A k \in 0 .. n : g[k] \in Seq(S)
  BY <1>0, ChainTyped
<1>2. 0 \in T
  <2>1. h[0] = g[0] /\ 0 < d /\ 0 \in 0 .. n
    BY DEF Chain
  <2> QED BY <2>1
<1>3. ASSUME NEW k \in 1 .. n, k - 1 \in T
      PROVE  k \in T
  <2>1. h[k] = Join(h[k - 1], Q[k]) /\ g[k] = Join(g[k - 1], P[k])
    BY ChainStep
  <2>2. g[k - 1] \in Seq(S) /\ k \in 0 .. n
    <3>1. k - 1 \in 0 .. n
      OBVIOUS
    <3> QED BY <1>1, <3>1
  <2>3. CASE k < d
    <3>1. h[k - 1] = g[k - 1] /\ Q[k] = P[k]
      BY <1>0, <1>3, <2>3
    <3>2. h[k] = g[k]
      BY <2>1, <3>1, Zenon
    <3> QED BY <2>2, <2>3, <3>2
  <2>4. CASE k = d
    <3>1. h[k - 1] = g[k - 1] /\ Q[k] = F /\ P[k] = <<>>
      BY <1>0, <1>3, <2>4
    <3>2. Join(g[k - 1], <<>>) = g[k - 1]
      BY <2>2, JoinEmpty
    <3>3. h[k] = Join(g[k], F)
      BY <2>1, <3>1, <3>2, Zenon
    <3> QED BY <2>2, <2>4, <3>3
  <2>5. CASE k > d
    <3>1. h[k - 1] = Join(g[k - 1], F) /\ Q[k] = <<>> /\ P[k] = <<>>
      BY <1>0, <1>3, <2>5
    <3>2. Join(g[k - 1], <<>>) = g[k - 1]
      BY <2>2, JoinEmpty
    <3>3. Join(Join(g[k - 1], F), <<>>) = Join(g[k - 1], F)
      <4>1. Join(g[k - 1], F) \in Seq(S)
        BY <2>2, JoinTyped
      <4> QED BY <4>1, JoinEmpty
    <3>4. h[k] = Join(g[k], F)
      BY <2>1, <3>1, <3>2, <3>3, Zenon
    <3> QED BY <2>2, <2>5, <3>4
  <2> QED BY <2>3, <2>4, <2>5
<1>4. n \in T
  <2> HIDE DEF T
  <2>1. T \in SUBSET (0 .. n)
    BY DEF T
  <2>2. T = 0 .. n
    BY <1>2, <1>3, <2>1, Upwards
  <2> QED BY <2>2
<1> QED
  BY <1>4

LEMMA FlattenIs ==
  ASSUME NEW S, NEW N \in Nat, N > 0, NEW seqs \in [1 .. N -> Seq(S)]
  PROVE  \E g : Chain(g, seqs, N) /\ FlattenSeq(seqs) = g[N]
<1> DEFINE Flat(f) == f = [i \in 1 .. N |->
                             IF i = 1 THEN seqs[i] ELSE Join(f[i - 1], seqs[i])]
<1>1. Len(seqs) = N
  <2>1. seqs \in Seq(Seq(S)) /\ DOMAIN seqs = 1 .. N
    OBVIOUS
  <2> QED BY <2>1
<1>2. FlattenSeq(seqs) = (CHOOSE f : Flat(f))[N]
  <2>1. ~(Len(seqs) = 0)
    BY <1>1
  <2>2. FlattenSeq(seqs)
          = (CHOOSE f : f = [i \in 1 .. Len(seqs) |->
                               IF i = 1 THEN seqs[i]
                                        ELSE f[i - 1] \o seqs[i]])[Len(seqs)]
    BY <2>1, Zenon DEF FlattenSeq
  <2> QED BY <1>1, <2>2, Zenon DEF Join
<1>3. \E f : Flat(f)
  <2>1. PICK g : ChainUpTo(g, seqs, N)
    BY ChainExists
  <2>2. Chain(g, seqs, N)
    BY <2>1, ChainUpToIs
  <2> DEFINE f == [i \in 1 .. N |-> g[i]]
  <2>3. ASSUME NEW i \in 1 .. N
        PROVE  f[i] = IF i = 1 THEN seqs[i] ELSE Join(f[i - 1], seqs[i])
    <3>1. g[i] = Join(g[i - 1], seqs[i]) /\ seqs[i] \in Seq(S)
      BY <2>2 DEF Chain
    <3>2. CASE i = 1
      <4>1. g[i] = Join(<<>>, seqs[i])
        BY <2>2, <3>1, <3>2 DEF Chain
      <4>2. Join(<<>>, seqs[i]) = seqs[i]
        BY <3>1, JoinEmpty
      <4> QED BY <3>2, <4>1, <4>2
    <3>3. CASE i # 1
      <4>1. i - 1 \in 1 .. N
        BY <3>3
      <4> QED BY <3>1, <3>3, <4>1
    <3> QED BY <3>2, <3>3
  <2>4. f = [i \in 1 .. N |-> IF i = 1 THEN seqs[i] ELSE Join(f[i - 1], seqs[i])]
    BY <2>3
  <2> QED BY <2>4
<1> HIDE DEF Flat
<1>4. PICK f : Flat(f) /\ FlattenSeq(seqs) = f[N]
  BY <1>2, <1>3
<1> DEFINE h == [k \in 0 .. N |-> IF k = 0 THEN <<>> ELSE f[k]]
<1>5. \A i \in 1 .. N : f[i] = IF i = 1 THEN seqs[i] ELSE Join(f[i - 1], seqs[i])
  BY <1>4 DEF Flat
<1>6. ASSUME NEW k \in 1 .. N
      PROVE  h[k] = Join(h[k - 1], seqs[k])
  <2>1. CASE k = 1
    <3>1. h[k - 1] = <<>> /\ h[k] = seqs[k] /\ seqs[k] \in Seq(S)
      BY <1>5, <2>1
    <3> QED BY <3>1, JoinEmpty
  <2>2. CASE k # 1
    <3>1. h[k - 1] = f[k - 1] /\ h[k] = f[k]
      BY <2>2
    <3> QED BY <1>5, <2>2, <3>1
  <2> QED BY <2>1, <2>2
<1>7. h[0] = <<>> /\ h[N] = f[N]
  OBVIOUS
<1> HIDE DEF h
<1>8. Chain(h, seqs, N)
  BY <1>6, <1>7 DEF Chain
<1> QED
  BY <1>4, <1>7, <1>8

-----------------------------------------------------------------------------
(***************************************************************************)
(* Sequences that end alike.                                               *)
(***************************************************************************)
Ends(s, t) == \E u \in Seq(Record) : t = Join(u, s)

LEMMA EndsItself ==
  ASSUME NEW s \in Seq(Record)
  PROVE  Ends(s, s) /\ Ends(<<>>, s)
<1>1. <<>> \in Seq(Record) /\ Join(<<>>, s) = s /\ Join(s, <<>>) = s
  BY JoinEmpty
<1> QED
  BY <1>1 DEF Ends

LEMMA AppendJoins ==
  ASSUME NEW s \in Seq(Record), NEW m \in Record
  PROVE  Append(s, m) = Join(s, <<m>>) /\ <<m>> \in Seq(Record)
<1>1. <<m>> \in Seq(Record)
  OBVIOUS
<1>2. Append(s, m) = s \o <<m>>
  BY AppendIsConcat
<1> QED
  BY <1>1, <1>2 DEF Join

LEMMA JoinAppend ==
  ASSUME NEW s \in Seq(Record), NEW t \in Seq(Record), NEW m \in Record
  PROVE  Append(Join(s, t), m) = Join(s, Append(t, m))
<1>1. /\ Append(Join(s, t), m) = Join(Join(s, t), <<m>>)
      /\ Append(t, m) = Join(t, <<m>>) /\ <<m>> \in Seq(Record)
  BY JoinTyped, AppendJoins
<1>2. Join(Join(s, t), <<m>>) = Join(s, Join(t, <<m>>))
  <2>1. \A u \in Seq(Record) : Join(Join(s, t), u) = Join(s, Join(t, u))
    BY JoinAssociative
  <2> QED BY <1>1, <2>1, Zenon
<1> QED
  BY <1>1, <1>2, Zenon

LEMMA EndsAppend ==
  ASSUME NEW s \in Seq(Record), NEW t \in Seq(Record), NEW m \in Record,
         Ends(s, t)
  PROVE  Ends(Append(s, m), Append(t, m))
<1>1. PICK u \in Seq(Record) : t = Join(u, s)
  BY DEF Ends
<1>2. Append(t, m) = Join(u, Append(s, m))
  BY <1>1, JoinAppend
<1> QED
  BY <1>2 DEF Ends

LEMMA EndsOne ==
  ASSUME NEW t \in Seq(Record), NEW m \in Record
  PROVE  Ends(Append(<<>>, m), Append(t, m))
<1>1. <<>> \in Seq(Record) /\ Ends(<<>>, t)
  BY EndsItself
<1> QED
  BY <1>1, EndsAppend

LEMMA EndsLess ==
  ASSUME NEW s \in Seq(Record), NEW t \in Seq(Record), NEW x \in Seq(Record),
         Ends(Join(x, s), t)
  PROVE  Ends(s, t)
<1>1. PICK u \in Seq(Record) : t = Join(u, Join(x, s))
  BY DEF Ends
<1>2. t = Join(Join(u, x), s) /\ Join(u, x) \in Seq(Record)
  BY <1>1, JoinAssociative, JoinTyped
<1> QED
  BY <1>2 DEF Ends

LEMMA EndsIsSuffix ==
  ASSUME NEW s \in Seq(Record), NEW t \in Seq(Record), Ends(s, t)
  PROVE  IsSuffix(s, t)
<1>1. PICK u \in Seq(Record) : t = u \o s
  BY DEF Ends, Join
<1>2. /\ Len(s) \in Nat /\ Len(u) \in Nat /\ Len(t) = Len(u) + Len(s)
      /\ \A i \in 1 .. Len(s) : t[Len(u) + i] = s[i]
  BY <1>1
<1>3. /\ Len(Reverse(s)) = Len(s) /\ Len(Reverse(t)) = Len(t)
      /\ Reverse(s) \in Seq(Record) /\ Reverse(t) \in Seq(Record)
      /\ \A i \in 1 .. Len(s) : Reverse(s)[i] = s[Len(s) - i + 1]
      /\ \A i \in 1 .. Len(t) : Reverse(t)[i] = t[Len(t) - i + 1]
  <2>1. ASSUME NEW r \in Seq(Record)
        PROVE  /\ Len(Reverse(r)) = Len(r) /\ Reverse(r) \in Seq(Record)
               /\ \A i \in 1 .. Len(r) : Reverse(r)[i] = r[Len(r) - i + 1]
    BY DEF Reverse
  <2> QED BY <2>1
<1>4. \A i \in 1 .. Len(s) : Reverse(s)[i] = Reverse(t)[i]
  <2> SUFFICES ASSUME NEW i \in 1 .. Len(s)
               PROVE  Reverse(s)[i] = Reverse(t)[i]
    OBVIOUS
  <2>1. /\ Len(s) - i + 1 \in 1 .. Len(s) /\ i \in 1 .. Len(t)
        /\ Len(t) - i + 1 = Len(u) + (Len(s) - i + 1)
    BY <1>2
  <2> QED BY <1>2, <1>3, <2>1
<1>5. SubSeq(Reverse(s), 1, Len(s)) = SubSeq(Reverse(t), 1, Len(s))
  BY <1>2, <1>3, <1>4
<1> QED
  BY <1>2, <1>3, <1>5 DEF IsSuffix, IsPrefix

-----------------------------------------------------------------------------
(***************************************************************************)
(* The backups, from the oldest to the latest.                             *)
(***************************************************************************)
Around == MaxBackupIndex + 1

AgesOf(i, b) == [k \in 1 .. Around |-> b[(i + k - 1) % Around].records]

Age(i, b) ==
  CHOOSE g : g = [k \in 0 .. Around |->
                    IF k = 0 THEN <<>>
                    ELSE g[k - 1] \o b[(i + k - 1) % Around].records]

FilesOK(b) == \A c \in Backups : b[c].records \in Seq(Record)

LEMMA AroundIs == Around \in Nat /\ Around > 0 /\ Backups = 0 .. Around - 1
BY RollingAssumption DEF Around, Backups

LEMMA Small ==
  ASSUME NEW x \in 0 .. Around - 1
  PROVE  x % Around = x
BY AroundIs

LEMMA Once ==
  ASSUME NEW x \in Around .. 2 * Around - 1
  PROVE  x % Around = x - Around
BY AroundIs

LEMMA InBackups ==
  ASSUME NEW i \in Backups, NEW k \in 1 .. Around
  PROVE  (i + k - 1) % Around \in Backups
<1>1. i + k - 1 \in 0 .. Around - 1 \/ i + k - 1 \in Around .. 2 * Around - 1
  BY AroundIs
<1> QED
  BY <1>1, AroundIs, Small, Once

(* The index goes on by one: what was next comes last.                     *)
LEMMA GoesRound ==
  ASSUME NEW i \in Backups
  PROVE  /\ NextIndex(i) \in Backups
         /\ (i + 1 - 1) % Around = i
         /\ (NextIndex(i) + Around - 1) % Around = i
         /\ \A k \in 1 .. Around - 1 :
              /\ (NextIndex(i) + k - 1) % Around = (i + (k + 1) - 1) % Around
              /\ (i + (k + 1) - 1) % Around # i
<1>1. i \in Int /\ i >= 0 /\ i <= Around - 1 /\ Around \in Nat /\ Around > 0
  BY AroundIs
<1>2. NextIndex(i) = IF i = Around - 1 THEN 0 ELSE i + 1
  BY <1>1, RollingAssumption DEF NextIndex, Around
<1>3. NextIndex(i) \in Backups
  BY <1>1, <1>2, AroundIs
<1>4. (i + 1 - 1) % Around = i
  <2>1. i + 1 - 1 = i /\ i \in 0 .. Around - 1
    BY <1>1
  <2> QED BY <2>1, Small
<1>5. (NextIndex(i) + Around - 1) % Around = i
  <2>1. CASE i = Around - 1
    <3>1. NextIndex(i) + Around - 1 = i /\ i \in 0 .. Around - 1
      BY <1>1, <1>2, <2>1
    <3> QED BY <3>1, Small
  <2>2. CASE i # Around - 1
    <3>1. /\ NextIndex(i) + Around - 1 = i + Around
          /\ i + Around \in Around .. 2 * Around - 1
      BY <1>1, <1>2, <2>2
    <3> QED BY <1>1, <3>1, Once
  <2> QED BY <2>1, <2>2
<1>6. ASSUME NEW k \in 1 .. Around - 1
      PROVE  /\ (NextIndex(i) + k - 1) % Around = (i + (k + 1) - 1) % Around
             /\ (i + (k + 1) - 1) % Around # i
  <2>1. i + (k + 1) - 1 = i + k
    BY <1>1
  <2>2. CASE i = Around - 1
    <3>1. /\ NextIndex(i) + k - 1 = k - 1 /\ k - 1 \in 0 .. Around - 1
          /\ i + k \in Around .. 2 * Around - 1 /\ i + k - Around = k - 1
          /\ k - 1 # i
      BY <1>1, <1>2, <2>2
    <3>2. (k - 1) % Around = k - 1
      BY <3>1, Small
    <3>3. (i + k) % Around = k - 1
      BY <1>1, <3>1, Once
    <3> QED BY <2>1, <3>1, <3>2, <3>3
  <2>3. CASE i # Around - 1
    <3>1. NextIndex(i) + k - 1 = i + k
      BY <1>1, <1>2, <2>3
    <3>2. (i + k) % Around # i
      <4>1. CASE i + k < Around
        <5>1. i + k \in 0 .. Around - 1 /\ i + k # i
          BY <1>1, <4>1
        <5>2. (i + k) % Around = i + k
          BY <5>1, Small
        <5> QED BY <5>1, <5>2
      <4>2. CASE i + k >= Around
        <5>1. i + k \in Around .. 2 * Around - 1 /\ i + k - Around # i
          BY <1>1, <4>2
        <5>2. (i + k) % Around = i + k - Around
          BY <1>1, <5>1, Once
        <5> QED BY <5>1, <5>2
      <4> QED BY <1>1, <4>1, <4>2
    <3> QED BY <2>1, <3>1, <3>2
  <2> QED BY <2>2, <2>3
<1> QED
  BY <1>3, <1>4, <1>5, <1>6

LEMMA AgesTyped ==
  ASSUME NEW i \in Backups, NEW b, FilesOK(b)
  PROVE  \A k \in 1 .. Around : AgesOf(i, b)[k] \in Seq(Record)
BY InBackups DEF AgesOf, FilesOK

LEMMA AgeIs ==
  ASSUME NEW i \in Backups, NEW b, FilesOK(b)
  PROVE  /\ Chain(Age(i, b), AgesOf(i, b), Around)
         /\ Age(i, b)[Around] \in Seq(Record)
<1> DEFINE P == AgesOf(i, b)
           Fits(g) == g = [k \in 0 .. Around |->
                             IF k = 0 THEN <<>>
                             ELSE g[k - 1] \o b[(i + k - 1) % Around].records]
<1>1. Around \in Nat /\ Around \in 0 .. Around
  BY AroundIs
<1>2. PICK g : ChainUpTo(g, P, Around)
  BY <1>1, ChainExists
<1>3. \A h : [k \in 0 .. Around |-> IF k = 0 THEN <<>> ELSE Join(h[k - 1], P[k])]
             = [k \in 0 .. Around |->
                  IF k = 0 THEN <<>>
                  ELSE h[k - 1] \o b[(i + k - 1) % Around].records]
  <2> SUFFICES ASSUME NEW h, NEW k \in 0 .. Around, k # 0
               PROVE  Join(h[k - 1], P[k])
                        = h[k - 1] \o b[(i + k - 1) % Around].records
    BY Zenon
  <2>1. k \in 1 .. Around
    BY <1>1
  <2>2. P[k] = b[(i + k - 1) % Around].records
    BY <2>1 DEF AgesOf
  <2> QED BY <2>2, Zenon DEF Join
<1>4. \A h : Fits(h) <=> ChainUpTo(h, P, Around)
  BY <1>3, Zenon DEF ChainUpTo
<1>5. Fits(CHOOSE h : Fits(h))
  <2>1. \E h : Fits(h)
    BY <1>2, <1>4, Zenon
  <2> HIDE DEF Fits
  <2> QED BY <2>1, Zenon
<1>6. Fits(Age(i, b))
  <2>1. Age(i, b) = CHOOSE h : Fits(h)
    BY Zenon DEF Age
  <2> HIDE DEF Fits
  <2> QED BY <1>5, <2>1, Zenon
<1>7. Chain(Age(i, b), P, Around)
  <2>1. ChainUpTo(Age(i, b), P, Around)
    BY <1>4, <1>6, Zenon
  <2> QED BY <1>1, <2>1, ChainUpToIs
<1>8. Age(i, b)[Around] \in Seq(Record)
  BY <1>1, <1>7, AgesTyped, ChainTyped
<1> QED
  BY <1>7, <1>8

File == [records : Seq(Record), size : Nat]

LEMMA ByAgeIs ==
  /\ ByAge = Join(Age(index, backup)[Around], file.records)
  /\ ByAge' = Join(Age(index', backup')[Around], file'.records)
<1>1. ByAge = Join(Age(index, backup)[Around], file.records)
  BY Zenon DEF ByAge, Age, Around, Join
<1>2. ByAge' = Join(Age(index', backup')[Around], file'.records)
  BY Zenon DEF ByAge, Age, Around, Join
<1> QED
  BY <1>1, <1>2

LEMMA FilesTyped ==
  ASSUME NEW b \in [Backups -> File]
  PROVE  FilesOK(b)
BY DEF FilesOK, File

LEMMA ByAgeTyped ==
  ASSUME NEW i \in Backups, NEW b \in [Backups -> File], NEW f \in File
  PROVE  /\ Age(i, b)[Around] \in Seq(Record) /\ f.records \in Seq(Record)
         /\ Join(Age(i, b)[Around], f.records) \in Seq(Record)
<1>1. Age(i, b)[Around] \in Seq(Record) /\ f.records \in Seq(Record)
  BY FilesTyped, AgeIs DEF File
<1> QED
  BY <1>1, JoinTyped

(* A full file takes the place of the oldest backup.                       *)
LEMMA Rolled ==
  ASSUME NEW i \in Backups, NEW b \in [Backups -> File], NEW f \in File
  PROVE  Join(b[i].records,
              Age(NextIndex(i), [b EXCEPT ![i] = f])[Around])
           = Join(Age(i, b)[Around], f.records)
<1> DEFINE c == [b EXCEPT ![i] = f]
           P == AgesOf(i, b)
           Q == AgesOf(NextIndex(i), c)
<1>1. c \in [Backups -> File] /\ Around \in Nat /\ Around > 0
  BY AroundIs
<1>2. NextIndex(i) \in Backups /\ FilesOK(b) /\ FilesOK(c)
  BY <1>1, GoesRound, FilesTyped
<1>3. Chain(Age(i, b), P, Around) /\ Chain(Age(NextIndex(i), c), Q, Around)
  BY <1>2, AgeIs
<1>4. \A k \in 1 .. Around : P[k] \in Seq(Record) /\ Q[k] \in Seq(Record)
  BY <1>2, AgesTyped
<1>5. 1 \in 1 .. Around /\ Around \in 1 .. Around
  BY <1>1
<1>6. P[1] = b[i].records
  <2>1. P[1] = b[(i + 1 - 1) % Around].records
    BY <1>5 DEF AgesOf
  <2>2. (i + 1 - 1) % Around = i
    BY GoesRound
  <2> QED BY <2>1, <2>2, Zenon
<1>7. Q[Around] = f.records
  <2>1. Q[Around] = c[(NextIndex(i) + Around - 1) % Around].records
    BY <1>5 DEF AgesOf
  <2>2. (NextIndex(i) + Around - 1) % Around = i /\ c[i] = f
    BY GoesRound
  <2> HIDE DEF c
  <2> QED BY <2>1, <2>2, Zenon
<1>8. ASSUME NEW k \in 1 .. Around - 1
      PROVE  Q[k] = P[k + 1]
  <2>1. k \in 1 .. Around /\ k + 1 \in 1 .. Around
    BY <1>1
  <2>2. /\ Q[k] = c[(NextIndex(i) + k - 1) % Around].records
        /\ P[k + 1] = b[(i + (k + 1) - 1) % Around].records
    BY <2>1 DEF AgesOf
  <2>3. /\ (NextIndex(i) + k - 1) % Around = (i + (k + 1) - 1) % Around
        /\ (i + (k + 1) - 1) % Around # i
    BY GoesRound
  <2>4. (i + (k + 1) - 1) % Around \in Backups
    BY <2>1, InBackups
  <2>5. \A j \in Backups : j # i => c[j] = b[j]
    OBVIOUS
  <2> HIDE DEF c
  <2> QED BY <2>2, <2>3, <2>4, <2>5, Zenon
<1> HIDE DEF c, P, Q
<1>9. Join(P[1], Age(NextIndex(i), c)[Around]) = Join(Age(i, b)[Around], Q[Around])
  <2> DEFINE n == Around
             g == Age(i, b)
             h == Age(NextIndex(i), c)
  <2>1. /\ n \in Nat /\ n > 0 /\ Chain(g, P, n) /\ Chain(h, Q, n)
        /\ MadeOf(P, Record, n) /\ MadeOf(Q, Record, n) /\ Shifted(P, Q, n)
    BY <1>1, <1>3, <1>4, <1>8 DEF MadeOf, Shifted
  <2> HIDE DEF n, g, h
  <2>2. Join(P[1], h[n]) = Join(g[n], Q[n])
    BY <2>1, ChainShifts
  <2> QED BY <2>2 DEF n, g, h
<1> QED
  BY <1>6, <1>7, <1>9, Zenon DEF c

-----------------------------------------------------------------------------
(***************************************************************************)
(* The directories, one after the other.                                   *)
(***************************************************************************)
LEMMA MaxDayIs == MaxDay \in Nat /\ MaxDay > 0
BY TlogdAssumption

LEMMA FlattenTyped ==
  ASSUME NEW t \in [Days -> Seq(Record)]
  PROVE  FlattenSeq(t) \in Seq(Record)
<1>1. t \in [1 .. MaxDay -> Seq(Record)] /\ \A k \in 1 .. MaxDay : t[k] \in Seq(Record)
  BY DEF Days
<1>2. PICK g : Chain(g, t, MaxDay) /\ FlattenSeq(t) = g[MaxDay]
  BY <1>1, MaxDayIs, FlattenIs
<1>3. MaxDay \in 0 .. MaxDay
  BY MaxDayIs
<1>4. g[MaxDay] \in Seq(Record)
  BY <1>1, <1>2, <1>3, MaxDayIs, ChainTyped
<1> QED
  BY <1>2, <1>4

(* The file goes to the directory of a day none later than which is used.  *)
LEMMA Moved ==
  ASSUME NEW t \in [Days -> Seq(Record)], NEW d \in Days, NEW f \in Seq(Record),
         \A k \in Days : t[k] # <<>> => k < d
  PROVE  FlattenSeq([t EXCEPT ![d] = f]) = Join(FlattenSeq(t), f)
<1> DEFINE v == [t EXCEPT ![d] = f]
<1>1. /\ t \in [1 .. MaxDay -> Seq(Record)] /\ v \in [1 .. MaxDay -> Seq(Record)]
      /\ d \in Nat /\ d \in 1 .. MaxDay
  BY MaxDayIs DEF Days
<1>2. MadeOf(t, Record, MaxDay)
  BY <1>1 DEF MadeOf
<1>3. Void(t, d, MaxDay)
  <2> SUFFICES ASSUME NEW k \in d .. MaxDay
               PROVE  t[k] = <<>>
    BY DEF Void
  <2>1. k \in Days /\ ~(k < d)
    BY <1>1, MaxDayIs DEF Days
  <2> QED BY <2>1
<1>4. Put(t, v, d, f, MaxDay)
  BY <1>1 DEF Put
<1> HIDE DEF v
<1>5. PICK g : Chain(g, t, MaxDay) /\ FlattenSeq(t) = g[MaxDay]
  BY <1>1, MaxDayIs, FlattenIs
<1>6. PICK h : Chain(h, v, MaxDay) /\ FlattenSeq(v) = h[MaxDay]
  BY <1>1, MaxDayIs, FlattenIs
<1>7. h[MaxDay] = Join(g[MaxDay], f)
  BY <1>1, <1>2, <1>3, <1>4, <1>5, <1>6, MaxDayIs, ChainGains
<1> QED
  BY <1>5, <1>6, <1>7 DEF v

-----------------------------------------------------------------------------
(***************************************************************************)
(* The sizes of files.                                                     *)
(***************************************************************************)
Base == Max({MaxFileSize, Longest}) + 1

Cap(troubles) == Base + troubles * (Longest + 1)

LEMMA LongestIs == Longest \in Nat /\ \A k \in Kinds : k.len <= Longest
<1> DEFINE Lens == {k.len : k \in Kinds}
<1>1. \E x \in Lens : \A y \in Lens : x >= y
  BY TlogdAssumption
<1>2. Longest \in Lens /\ \A y \in Lens : Longest >= y
  BY <1>1 DEF Longest, Max
<1>3. \A y \in Lens : y \in Nat
  BY TlogdAssumption
<1> QED
  BY <1>2, <1>3

LEMMA BaseIs ==
  Base \in Nat /\ MaxFileSize \in Nat /\ MaxFileSize + 1 <= Base
    /\ Longest + 1 <= Base
<1> DEFINE Sizes == {MaxFileSize, Longest}
<1>1. MaxFileSize \in Nat /\ Longest \in Nat
  BY RollingAssumption, LongestIs
<1>2. \E x \in Sizes : \A y \in Sizes : x >= y
  BY <1>1
<1>3. Max(Sizes) \in Sizes /\ \A y \in Sizes : Max(Sizes) >= y
  BY <1>2 DEF Max
<1> QED
  BY <1>1, <1>3 DEF Base

LEMMA CapGrows ==
  ASSUME NEW t \in Int
  PROVE  /\ Cap(t) \in Int /\ Cap(t + 1) = Cap(t) + Longest + 1
         /\ t >= 0 => Cap(t) >= Base
         /\ \A u \in Int : t <= u => Cap(t) <= Cap(u)
<1>1. Longest \in Nat /\ Base \in Nat
  BY LongestIs, BaseIs
<1>2. \A u \in Int : t <= u => t * (Longest + 1) <= u * (Longest + 1)
  BY <1>1
<1>3. (t + 1) * (Longest + 1) = t * (Longest + 1) + (Longest + 1)
  BY <1>1
<1>4. t >= 0 => t * (Longest + 1) >= 0
  BY <1>1
<1> QED
  BY <1>1, <1>2, <1>3, <1>4 DEF Cap

-----------------------------------------------------------------------------
(***************************************************************************)
(* What the files hold.                                                    *)
(***************************************************************************)
Genuine(m) == m.len <= Longest /\ m.day \in Days

(* Every record is of a kind and of a day; what is logged was sent.        *)
Known ==
  /\ today \in Days
  /\ \A w \in Writers : pending[w] # Nothing => Genuine(pending[w])
  /\ \A n \in 1 .. sent : Genuine(records[n])
  /\ \A a \in Appenders : \A j \in 1 .. Len(logged[a]) :
       logged[a][j] \in 1 .. sent

FilesTypeOK ==
  /\ rolling_fout \in BOOLEAN /\ index \in Backups
  /\ file \in File /\ backup \in [Backups -> File]
  /\ daily_fout \in BOOLEAN /\ day \in Nat /\ latest \in Nat
  /\ day_file \in Seq(Record) /\ directory \in [Days -> Seq(Record)]
  /\ stops \in Nat /\ faults \in Nat

(* A daemon that never had trouble is down only before its first start.    *)
Fresh == pc = "down" /\ Troubles = 0 => RollingInit /\ DailyInit

Log(a) == Contents(logged[a])

(* Without trouble the backups are used one after the other, and nothing   *)
(* is dropped before the last one is.                                      *)
Rolling ==
  /\ Ends(file.records, Log("rolling"))
  /\ Troubles = 0 =>
       /\ rolling_fout => file.records # <<>>
       /\ Ends(ByAge, Log("rolling"))
       /\ \/ \A b \in Backups : backup[b] # NoFile
          \/ /\ ByAge = Log("rolling")
             /\ \A b \in Backups : IF b < index THEN backup[b] # NoFile
                                                ELSE backup[b] = NoFile

InUse == rolling_fout /\ pc # "down"

(* A file that is not in use has its next record still to come.            *)
Sized ==
  /\ \/ file = NoFile
     \/ file.size <= Cap(IF InUse THEN Troubles ELSE Troubles - 1)
  /\ Troubles = 0 =>
       IF InUse THEN file.size <= MaxFileSize + 1 \/ Len(file.records) = 1
                ELSE file = NoFile
  /\ \A b \in Backups : Bounded(backup[b])

(* Only the latest day can be in the file, and no directory of it, or of a *)
(* later one, is used yet.                                                 *)
Filed ==
  in_order =>
    /\ Log("daily") = Join(FlattenSeq(directory), day_file)
    /\ \A d \in Days : directory[d] # <<>> => d < latest
    /\ daily_fout => day = latest /\ day \in Days
    /\ \A m \in ToSet(day_file) : m.day <= latest
    /\ Troubles = 0 =>
         IF daily_fout THEN \A m \in ToSet(day_file) : m.day = day
                       ELSE day_file = <<>>
    /\ \A d \in Days : \A m \in ToSet(directory[d]) :
         m.day <= d /\ (Troubles = 0 => m.day = d)

Kept == Known /\ FilesTypeOK /\ Fresh /\ Rolling /\ Sized /\ Filed

-----------------------------------------------------------------------------
(* What is logged.                                                         *)
ContentsOf(recs, log) == [j \in 1 .. Len(log) |-> recs[log[j]]]

LEMMA LogIs ==
  ASSUME NEW a \in Appenders
  PROVE  /\ Log(a) = ContentsOf(records, logged[a])
         /\ Log(a)' = ContentsOf(records', logged'[a])
BY DEF Log, Contents, ContentsOf

LEMMA ContentsTyped ==
  ASSUME NEW recs \in Seq(Record), NEW log \in Seq(Int),
         \A j \in 1 .. Len(log) : log[j] \in 1 .. Len(recs)
  PROVE  ContentsOf(recs, log) \in Seq(Record)
<1>1. \A j \in 1 .. Len(log) : recs[log[j]] \in Record
  OBVIOUS
<1>2. Len(log) \in Nat
  OBVIOUS
<1> QED
  BY <1>1, <1>2 DEF ContentsOf

LEMMA ContentsGain ==
  ASSUME NEW recs \in Seq(Record), NEW log \in Seq(Int), NEW n \in 1 .. Len(recs),
         \A j \in 1 .. Len(log) : log[j] \in 1 .. Len(recs)
  PROVE  ContentsOf(recs, Append(log, n)) = Append(ContentsOf(recs, log), recs[n])
<1> DEFINE c == ContentsOf(recs, log)
           d == ContentsOf(recs, Append(log, n))
           L == Len(log)
<1>1. /\ L \in Nat /\ Len(Append(log, n)) = L + 1 /\ Append(log, n)[L + 1] = n
      /\ \A j \in 1 .. L : Append(log, n)[j] = log[j]
      /\ Append(log, n) \in Seq(Int)
  OBVIOUS
<1>2. c \in Seq(Record) /\ Len(c) = L /\ \A j \in 1 .. L : c[j] = recs[log[j]]
  <2>1. c \in Seq(Record)
    BY ContentsTyped
  <2>2. DOMAIN c = 1 .. L /\ \A j \in 1 .. L : c[j] = recs[log[j]]
    BY DEF ContentsOf
  <2> QED BY <1>1, <2>1, <2>2
<1>3. d \in Seq(Record) /\ Len(d) = L + 1
      /\ \A j \in 1 .. L + 1 : d[j] = recs[Append(log, n)[j]]
  <2>1. \A j \in 1 .. L + 1 : Append(log, n)[j] \in 1 .. Len(recs)
    BY <1>1
  <2>2. d \in Seq(Record)
    BY <1>1, <2>1, ContentsTyped
  <2>3. DOMAIN d = 1 .. L + 1 /\ \A j \in 1 .. L + 1 : d[j] = recs[Append(log, n)[j]]
    BY <1>1 DEF ContentsOf
  <2> QED BY <1>1, <2>2, <2>3
<1>4. recs[n] \in Record
  OBVIOUS
<1> HIDE DEF c, d
<1>5. /\ Append(c, recs[n]) \in Seq(Record) /\ Len(Append(c, recs[n])) = L + 1
      /\ Append(c, recs[n])[L + 1] = recs[n]
      /\ \A j \in 1 .. L : Append(c, recs[n])[j] = c[j]
  BY <1>2, <1>4
<1>6. \A j \in 1 .. L + 1 : d[j] = Append(c, recs[n])[j]
  <2> SUFFICES ASSUME NEW j \in 1 .. L + 1
               PROVE  d[j] = Append(c, recs[n])[j]
    OBVIOUS
  <2>1. CASE j = L + 1
    BY <1>1, <1>3, <1>5, <2>1
  <2>2. CASE j # L + 1
    <3>1. j \in 1 .. L
      BY <1>1, <2>2
    <3> QED BY <1>1, <1>2, <1>3, <1>5, <3>1
  <2> QED BY <2>1, <2>2
<1> HIDE DEF L
<1>7. L + 1 \in Nat
  BY <1>1 DEF L
<1>8. d = Append(c, recs[n])
  BY <1>3, <1>5, <1>6, <1>7, SeqEqual
<1> QED
  BY <1>8 DEF c, d

LEMMA LogTyped ==
  ASSUME IInv, Known, NEW a \in Appenders
  PROVE  /\ logged[a] \in Seq(Int) /\ records \in Seq(Record)
         /\ \A j \in 1 .. Len(logged[a]) : logged[a][j] \in 1 .. Len(records)
         /\ Log(a) \in Seq(Record)
<1>1. /\ logged[a] \in Seq(Int) /\ records \in Seq(Record)
      /\ \A j \in 1 .. Len(logged[a]) : logged[a][j] \in 1 .. Len(records)
  BY DEF IInv, HistoryOK, RecordsOK, Known
<1> QED
  BY <1>1, LogIs, ContentsTyped

LEMMA LogStays ==
  ASSUME IInv, Known, NEW a \in Appenders, logged'[a] = logged[a],
         \/ records' = records
         \/ \E m \in Record : records' = Append(records, m)
  PROVE  Log(a)' = Log(a)
<1>1. /\ logged[a] \in Seq(Int) /\ records \in Seq(Record)
      /\ \A j \in 1 .. Len(logged[a]) : logged[a][j] \in 1 .. Len(records)
  BY LogTyped
<1>2. \A n \in 1 .. Len(records) : records'[n] = records[n]
  BY <1>1
<1>3. \A j \in 1 .. Len(logged[a]) : records'[logged[a][j]] = records[logged[a][j]]
  BY <1>1, <1>2
<1>4. ContentsOf(records', logged[a]) = ContentsOf(records, logged[a])
  BY <1>3 DEF ContentsOf
<1> QED
  BY <1>4, LogIs

LEMMA LogGains ==
  ASSUME IInv, Known, NEW a \in Appenders, records' = records,
         last + 1 \in 1 .. sent, logged'[a] = Append(logged[a], last + 1)
  PROVE  Log(a)' = Append(Log(a), Current)
<1>1. /\ logged[a] \in Seq(Int) /\ records \in Seq(Record)
      /\ \A j \in 1 .. Len(logged[a]) : logged[a][j] \in 1 .. Len(records)
  BY LogTyped
<1>2. last + 1 \in 1 .. Len(records)
  BY DEF IInv, RecordsOK
<1>3. ContentsOf(records, Append(logged[a], last + 1))
        = Append(ContentsOf(records, logged[a]), records[last + 1])
  BY <1>1, <1>2, ContentsGain
<1> QED
  BY <1>3, LogIs DEF Current

-----------------------------------------------------------------------------
(* What a step of the rolling file leaves in it.                           *)
LEMMA NoFileIs == NoFile \in File /\ NoFile.records = <<>> /\ NoFile.size = 0
BY DEF NoFile, File

LEMMA WrittenIs ==
  ASSUME NEW f \in File, NEW m \in Record
  PROVE  /\ Written(f, m) \in File
         /\ Written(f, m).records = Append(f.records, m)
         /\ Written(f, m).records # <<>>
         /\ Written(f, m).size = f.size + m.len + 1
<1>1. f.records \in Seq(Record) /\ f.size \in Nat /\ m.len \in Nat
  BY DEF File, Record
<1>2. Append(f.records, m) \in Seq(Record) /\ Append(f.records, m) # <<>>
  BY <1>1
<1>3. /\ Written(f, m).records = Append(f.records, m)
      /\ Written(f, m).size = f.size + m.len + 1
  BY DEF Written
<1>4. Written(f, m) \in File
  <2>1. f.size + m.len + 1 \in Nat
    BY <1>1
  <2> QED BY <1>2, <2>1 DEF Written, File
<1> QED
  BY <1>2, <1>3, <1>4

LEMMA RollingTyped ==
  ASSUME FilesTypeOK, NEW m \in Record, NEW renamed \in BOOLEAN,
         NEW opened \in BOOLEAN, NEW written \in BOOLEAN,
         RollingLog(m, renamed, opened, written)
  PROVE  /\ rolling_fout' \in BOOLEAN /\ index' \in Backups
         /\ file' \in File /\ backup' \in [Backups -> File]
<1>1. /\ rolling_fout \in BOOLEAN /\ index \in Backups
      /\ file \in File /\ backup \in [Backups -> File]
  BY DEF FilesTypeOK
<1>2. Full(m) \in BOOLEAN
  BY DEF Full
<1>3. rolling_fout' \in BOOLEAN
  BY <1>1, <1>2 DEF RollingLog
<1>4. index' \in Backups
  BY <1>1, GoesRound DEF RollingLog
<1>5. backup' \in [Backups -> File]
  BY <1>1 DEF RollingLog
<1>6. file' \in File
  BY <1>1, NoFileIs, WrittenIs DEF RollingLog
<1> QED
  BY <1>3, <1>4, <1>5, <1>6

(* The file, whatever came of rename(), fopen() and the writes.            *)
LEMMA RollingFileIs ==
  ASSUME FilesTypeOK, NEW m \in Record, NEW renamed \in BOOLEAN,
         NEW opened \in BOOLEAN, NEW written \in BOOLEAN,
         RollingLog(m, renamed, opened, written)
  PROVE  \E f \in {file, NoFile} :
           /\ file' = IF rolling_fout' /\ written THEN Written(f, m) ELSE f
           /\ f = IF Full(m) /\ renamed THEN NoFile ELSE file
BY DEF RollingLog

LEMMA EndsKept ==
  ASSUME IInv, Known, FilesTypeOK, Ends(file.records, Log("rolling")),
         NEW m \in Record, NEW renamed \in BOOLEAN, NEW opened \in BOOLEAN,
         NEW written \in BOOLEAN, RollingLog(m, renamed, opened, written),
         Log("rolling")' = IF rolling_fout' /\ written
                           THEN Append(Log("rolling"), m) ELSE Log("rolling")
  PROVE  Ends(file'.records, Log("rolling")')
<1>1. file.records \in Seq(Record) /\ Log("rolling") \in Seq(Record)
  BY LogTyped DEF FilesTypeOK, File, Appenders
<1>2. PICK f \in {file, NoFile} :
        file' = IF rolling_fout' /\ written THEN Written(f, m) ELSE f
  BY RollingFileIs
<1>3. f \in File /\ f.records \in Seq(Record) /\ Ends(f.records, Log("rolling"))
  BY <1>1, NoFileIs, EndsItself DEF FilesTypeOK, File
<1>4. CASE rolling_fout' /\ written
  <2>1. file'.records = Append(f.records, m)
    BY <1>2, <1>3, <1>4, WrittenIs
  <2> QED BY <1>1, <1>3, <1>4, <2>1, EndsAppend
<1>5. CASE ~(rolling_fout' /\ written)
  BY <1>2, <1>3, <1>5
<1> QED
  BY <1>4, <1>5

(* Without trouble, nothing is dropped but the oldest backup.              *)
LEMMA NothingDropped ==
  ASSUME IInv, Known, FilesTypeOK, Rolling, Troubles = 0,
         NEW m \in Record, RollingLog(m, TRUE, TRUE, TRUE),
         Log("rolling")' = Append(Log("rolling"), m)
  PROVE  /\ Ends(ByAge', Log("rolling")')
         /\ \/ \A b \in Backups : backup'[b] # NoFile
            \/ /\ ByAge' = Log("rolling")'
               /\ \A b \in Backups : IF b < index' THEN backup'[b] # NoFile
                                                   ELSE backup'[b] = NoFile
<1> DEFINE L == Log("rolling")
           g == Age(index, backup)[Around]
           h == Age(index', backup')[Around]
<1>1. /\ index \in Backups /\ file \in File /\ backup \in [Backups -> File]
      /\ index' \in Backups /\ file' \in File /\ backup' \in [Backups -> File]
  BY RollingTyped DEF FilesTypeOK
<1>2. /\ g \in Seq(Record) /\ h \in Seq(Record) /\ file.records \in Seq(Record)
      /\ ByAge = Join(g, file.records) /\ ByAge' = Join(h, file'.records)
      /\ ByAge \in Seq(Record) /\ ByAge' \in Seq(Record) /\ L \in Seq(Record)
  <2>1. /\ g \in Seq(Record) /\ file.records \in Seq(Record)
        /\ Join(g, file.records) \in Seq(Record)
    BY <1>1, ByAgeTyped
  <2>2. h \in Seq(Record) /\ Join(h, file'.records) \in Seq(Record)
    BY <1>1, ByAgeTyped
  <2>3. L \in Seq(Record)
    BY LogTyped DEF Appenders
  <2> QED BY <2>1, <2>2, <2>3, ByAgeIs
<1>3. /\ Ends(ByAge, L)
      /\ \/ \A b \in Backups : backup[b] # NoFile
         \/ /\ ByAge = L
            /\ \A b \in Backups : IF b < index THEN backup[b] # NoFile
                                               ELSE backup[b] = NoFile
  BY DEF Rolling
<1>4. Ends(Append(ByAge, m), L')
  BY <1>2, <1>3, EndsAppend
<1> HIDE DEF L, g, h
<1>5. CASE ~Full(m)
  <2>1. UNCHANGED <<index, backup>> /\ file' = Written(file, m)
    BY <1>5 DEF RollingLog
  <2>2. h = g /\ file'.records = Append(file.records, m)
    BY <1>1, <2>1, WrittenIs DEF g, h
  <2>3. ByAge' = Append(ByAge, m)
    <3>1. Append(Join(g, file.records), m) = Join(g, Append(file.records, m))
      BY <1>2, JoinAppend
    <3> QED BY <1>2, <2>2, <3>1
  <2> QED BY <1>3, <1>4, <2>1, <2>3 DEF L
<1>6. CASE Full(m)
  <2>1. /\ index' = NextIndex(index) /\ backup' = [backup EXCEPT ![index] = file]
        /\ file' = Written(NoFile, m)
    BY <1>6 DEF RollingLog
  <2> DEFINE X == backup[index].records
  <2>2. X \in Seq(Record) /\ Join(X, h) = Join(g, file.records)
    <3>1. backup[index] \in File
      BY <1>1
    <3>2. Join(X, Age(NextIndex(index), [backup EXCEPT ![index] = file])[Around])
            = Join(Age(index, backup)[Around], file.records)
      BY <1>1, Rolled
    <3> QED BY <2>1, <3>1, <3>2 DEF File, g, h
  <2>3. file'.records = Append(<<>>, m) /\ <<>> \in Seq(Record)
    BY <2>1, NoFileIs, WrittenIs
  <2>4. ByAge' = Append(h, m)
    <3>1. Append(Join(h, <<>>), m) = Join(h, Append(<<>>, m)) /\ Join(h, <<>>) = h
      BY <1>2, <2>3, JoinAppend, JoinEmpty
    <3> QED BY <1>2, <2>3, <3>1
  <2>5. Join(X, ByAge') = Append(ByAge, m)
    <3>1. Join(X, Append(h, m)) = Append(Join(X, h), m)
      BY <1>2, <2>2, JoinAppend
    <3> QED BY <1>2, <2>2, <2>4, <3>1
  <2>6. Ends(ByAge', L')
    <3>1. L' \in Seq(Record)
      <4>1. L' = Append(L, m)
        BY DEF L
      <4> QED BY <1>2, <4>1
    <3>2. Ends(Join(X, ByAge'), L')
      BY <1>4, <2>5
    <3> QED BY <1>2, <2>2, <3>1, <3>2, EndsLess
  <2>7. file # NoFile
    BY <1>6, NoFileIs DEF Full, Rolling
  <2>8. backup'[index] = file /\ \A b \in Backups : b # index => backup'[b] = backup[b]
    BY <1>1, <2>1
  <2>9. CASE \A b \in Backups : backup[b] # NoFile
    BY <2>6, <2>7, <2>8, <2>9 DEF L
  <2>10. CASE /\ ByAge = L
              /\ \A b \in Backups : IF b < index THEN backup[b] # NoFile
                                                 ELSE backup[b] = NoFile
    <3>1. X = <<>>
      BY <1>1, <2>10, NoFileIs DEF Backups
    <3>2. ByAge' = L'
      <4>1. Join(X, ByAge') = ByAge'
        BY <1>2, <3>1, JoinEmpty
      <4> QED BY <2>5, <2>10, <4>1 DEF L
    <3>3. index \in Int /\ Backups \subseteq Int
      BY <1>1 DEF Backups
    <3>4. CASE index + 1 > MaxBackupIndex
      <4>1. \A b \in Backups : b # index => b < index
        BY <1>1, <3>4, RollingAssumption DEF Backups
      <4> QED BY <2>6, <2>7, <2>8, <2>10, <4>1 DEF L
    <3>5. CASE ~(index + 1 > MaxBackupIndex)
      <4>1. index' = index + 1
        BY <2>1, <3>5 DEF NextIndex
      <4>2. \A b \in Backups : IF b < index' THEN backup'[b] # NoFile
                                             ELSE backup'[b] = NoFile
        BY <2>7, <2>8, <2>10, <3>3, <4>1
      <4> QED BY <2>6, <3>2, <4>2 DEF L
    <3> QED BY <3>4, <3>5
  <2> QED BY <1>3, <2>9, <2>10
<1> QED
  BY <1>5, <1>6

LEMMA RollingStep ==
  ASSUME IInv, Known, FilesTypeOK, Rolling,
         NEW m \in Record, NEW renamed \in BOOLEAN, NEW opened \in BOOLEAN,
         NEW written \in BOOLEAN, RollingLog(m, renamed, opened, written),
         Log("rolling")' = IF rolling_fout' /\ written
                           THEN Append(Log("rolling"), m) ELSE Log("rolling"),
         Troubles' = 0 => Troubles = 0 /\ renamed /\ opened /\ written
  PROVE  Rolling'
<1>1. Ends(file.records, Log("rolling"))'
  BY EndsKept DEF Rolling
<1>2. Troubles' = 0 => (rolling_fout => file.records # <<>>)'
  <2>1. PICK f \in {file, NoFile} :
          file' = IF rolling_fout' /\ written THEN Written(f, m) ELSE f
    BY RollingFileIs
  <2>2. f \in File
    BY NoFileIs DEF FilesTypeOK
  <2> QED BY <2>1, <2>2, WrittenIs
<1>3. ASSUME Troubles' = 0
      PROVE  (/\ Ends(ByAge, Log("rolling"))
              /\ \/ \A b \in Backups : backup[b] # NoFile
                 \/ /\ ByAge = Log("rolling")
                    /\ \A b \in Backups : IF b < index THEN backup[b] # NoFile
                                                       ELSE backup[b] = NoFile)'
  <2>1. Troubles = 0 /\ renamed = TRUE /\ opened = TRUE /\ written = TRUE
    BY <1>3
  <2>2. RollingLog(m, TRUE, TRUE, TRUE)
    BY <2>1
  <2>3. Log("rolling")' = Append(Log("rolling"), m)
    <3>1. rolling_fout'
      BY <2>2 DEF RollingLog
    <3> QED BY <2>1, <3>1
  <2>4. /\ Ends(ByAge', Log("rolling")')
        /\ \/ \A b \in Backups : backup'[b] # NoFile
           \/ /\ ByAge' = Log("rolling")'
              /\ \A b \in Backups : IF b < index' THEN backup'[b] # NoFile
                                                  ELSE backup'[b] = NoFile
    BY <2>1, <2>2, <2>3, NothingDropped
  <2> QED BY <2>4 DEF Ends
<1> QED
  BY <1>1, <1>2, <1>3 DEF Rolling

-----------------------------------------------------------------------------
(* How large the files are.                                                *)
BoundedBy(f, troubles) ==
  /\ f.size <= Cap(troubles)
  /\ troubles = 0 => f.size <= MaxFileSize + 1 \/ Len(f.records) = 1

LEMMA BoundedIs == \A f : Bounded(f) <=> BoundedBy(f, Troubles)
BY DEF Bounded, BoundedBy, Cap, Base

LEMMA BackupsBounded ==
  ASSUME \A b \in Backups : BoundedBy(backup'[b], Troubles')
  PROVE  (\A b \in Backups : Bounded(backup[b]))'
BY DEF Bounded, BoundedBy, Cap, Base

LEMMA BoundedStays ==
  ASSUME NEW f \in File, NEW t \in Nat, NEW u \in Nat, BoundedBy(f, t), t <= u
  PROVE  BoundedBy(f, u)
<1>1. f.size \in Nat
  BY DEF File
<1>2. Cap(t) <= Cap(u) /\ Cap(t) \in Int /\ Cap(u) \in Int
  BY CapGrows
<1> QED
  BY <1>1, <1>2 DEF BoundedBy

(* Of a file that takes a record, and that is set aside.                   *)
LEMMA SizesAre ==
  ASSUME FilesTypeOK, Sized, Troubles \in Nat
  PROVE  /\ file.size \in Nat /\ file.size <= Cap(Troubles) /\ BoundedBy(file, Troubles)
         /\ Cap(Troubles) \in Int /\ Base <= Cap(Troubles)
         /\ Cap(Troubles + 1) = Cap(Troubles) + Longest + 1
         /\ ~InUse => file = NoFile \/ file.size + Longest + 1 <= Cap(Troubles)
<1>1. file.size \in Nat
  BY DEF FilesTypeOK, File
<1>2. /\ Cap(Troubles) \in Int /\ Cap(Troubles) >= Base
      /\ Cap(Troubles + 1) = Cap(Troubles) + Longest + 1
      /\ Cap(Troubles - 1) \in Int
      /\ Cap(Troubles) = Cap(Troubles - 1) + Longest + 1
  <2>1. Cap((Troubles - 1) + 1) = Cap(Troubles - 1) + Longest + 1
    BY CapGrows
  <2>2. (Troubles - 1) + 1 = Troubles /\ Troubles - 1 \in Int
    OBVIOUS
  <2>3. Cap(Troubles) = Cap(Troubles - 1) + Longest + 1 /\ Cap(Troubles - 1) \in Int
    BY <2>1, <2>2, CapGrows
  <2> QED BY <2>3, CapGrows
<1>3. Base \in Nat /\ Longest \in Nat /\ MaxFileSize \in Nat
  BY BaseIs, LongestIs
<1>4. file.size <= Cap(Troubles)
  <2>1. file = NoFile => file.size = 0
    BY NoFileIs
  <2> QED BY <1>1, <1>2, <1>3, <2>1 DEF Sized
<1>5. ~InUse => file = NoFile \/ file.size + Longest + 1 <= Cap(Troubles)
  BY <1>1, <1>2, <1>3 DEF Sized
<1>6. Troubles = 0 => file.size <= MaxFileSize + 1 \/ Len(file.records) = 1
  BY <1>3, NoFileIs DEF Sized
<1> QED
  BY <1>1, <1>2, <1>4, <1>5, <1>6 DEF BoundedBy

LEMMA SizedStep ==
  ASSUME FilesTypeOK, Sized, NEW m \in Record, m.len <= Longest,
         NEW renamed \in BOOLEAN, NEW opened \in BOOLEAN,
         NEW written \in BOOLEAN, RollingLog(m, renamed, opened, written),
         renamed \/ Full(m), pc # "down",
         Troubles \in Nat,
         Troubles' = IF renamed /\ opened /\ written THEN Troubles ELSE Troubles + 1,
         pc' = "down" => ~rolling_fout'
  PROVE  Sized'
<1>1. /\ file.size \in Nat /\ file.size <= Cap(Troubles) /\ BoundedBy(file, Troubles)
      /\ Cap(Troubles) \in Int /\ Base <= Cap(Troubles)
      /\ Cap(Troubles + 1) = Cap(Troubles) + Longest + 1
      /\ ~InUse => file = NoFile \/ file.size + Longest + 1 <= Cap(Troubles)
  BY SizesAre
<1>2. /\ Base \in Nat /\ Longest \in Nat /\ MaxFileSize \in Nat
      /\ MaxFileSize + 1 <= Base /\ Longest + 1 <= Base
  BY BaseIs, LongestIs
<1>3. InUse = rolling_fout /\ InUse' = rolling_fout' /\ rolling_fout \in BOOLEAN
  <2>1. rolling_fout \in BOOLEAN /\ rolling_fout' \in BOOLEAN
    BY RollingTyped DEF FilesTypeOK
  <2> QED BY <2>1 DEF InUse
<1>4. m.len \in Nat /\ file \in File
  BY DEF Record, FilesTypeOK
<1>5. PICK f \in {file, NoFile} :
        /\ file' = IF rolling_fout' /\ written THEN Written(f, m) ELSE f
        /\ f = IF Full(m) /\ renamed THEN NoFile ELSE file
  BY RollingFileIs
<1>6. f \in File /\ f.size \in Nat /\ NoFile.size = 0 /\ NoFile.records = <<>>
  BY <1>4, <1>5, NoFileIs DEF File
<1>7. /\ Written(f, m).size = f.size + m.len + 1
      /\ Written(f, m).records = Append(f.records, m)
  BY <1>6, WrittenIs
<1>8. \/ file' = NoFile
      \/ file'.size <= Cap(IF rolling_fout' THEN Troubles' ELSE Troubles' - 1)
  <2>1. CASE rolling_fout' /\ written
    <3>1. file'.size = f.size + m.len + 1
      BY <1>5, <1>7, <2>1
    <3>2. CASE f = NoFile
      <4>1. Troubles' = Troubles \/ Troubles' = Troubles + 1
        OBVIOUS
      <4> QED BY <1>1, <1>2, <1>4, <1>6, <2>1, <3>1, <3>2, <4>1
    <3>3. CASE f = file /\ Full(m) /\ ~renamed
      <4>1. Troubles' = Troubles + 1
        BY <3>3
      <4> QED BY <1>1, <1>2, <1>4, <2>1, <3>1, <3>3, <4>1
    <3>4. CASE f = file /\ ~Full(m) /\ rolling_fout
      <4>1. file.size + m.len <= MaxFileSize
        BY <1>1, <1>2, <1>4, <3>4 DEF Full
      <4>2. Troubles' = Troubles \/ Troubles' = Troubles + 1
        OBVIOUS
      <4> QED BY <1>1, <1>2, <1>4, <2>1, <3>1, <3>4, <4>1, <4>2
    <3>5. CASE f = file /\ ~rolling_fout /\ f # NoFile
      <4>1. file.size + Longest + 1 <= Cap(Troubles)
        BY <1>1, <1>3, <3>5
      <4>2. Troubles' = Troubles \/ Troubles' = Troubles + 1
        OBVIOUS
      <4> QED BY <1>1, <1>2, <1>4, <2>1, <3>1, <3>5, <4>1, <4>2
    <3> QED BY <1>3, <1>5, <3>2, <3>3, <3>4, <3>5
  <2>2. CASE ~rolling_fout'
    <3>1. ~opened
      BY <2>2 DEF RollingLog
    <3>2. Troubles' - 1 = Troubles
      BY <3>1
    <3> QED BY <1>1, <1>5, <2>2, <3>2
  <2>3. CASE rolling_fout' /\ ~written
    <3>1. Troubles' = Troubles + 1 /\ file' = f
      BY <1>5, <2>3
    <3> QED BY <1>1, <1>2, <1>5, <2>3, <3>1
  <2> QED BY <2>1, <2>2, <2>3
<1>9. ASSUME Troubles' = 0
      PROVE  IF rolling_fout'
             THEN file'.size <= MaxFileSize + 1 \/ Len(file'.records) = 1
             ELSE file' = NoFile
  <2>1. Troubles = 0 /\ renamed /\ opened /\ written
    BY <1>9
  <2>2. rolling_fout' /\ file' = Written(f, m)
    BY <1>5, <2>1 DEF RollingLog
  <2>3. CASE f = NoFile
    <3>1. file'.records = Append(<<>>, m)
      BY <1>6, <1>7, <2>2, <2>3
    <3>2. Len(file'.records) = 1
      BY <3>1
    <3> QED BY <2>2, <3>2
  <2>4. CASE f # NoFile
    <3>1. f = file /\ ~Full(m) /\ rolling_fout
      BY <1>3, <1>5, <2>1, <2>4 DEF Sized
    <3>2. file.size + m.len <= MaxFileSize
      BY <1>1, <1>2, <1>4, <3>1 DEF Full
    <3> QED BY <1>1, <1>2, <1>4, <1>7, <2>2, <3>1, <3>2
  <2> QED BY <2>3, <2>4
<1>10. ASSUME NEW b \in Backups
       PROVE  BoundedBy(backup'[b], Troubles')
  <2>1. backup \in [Backups -> File] /\ index \in Backups
    BY DEF FilesTypeOK
  <2>2. backup'[b] = backup[b] \/ backup'[b] = file
    BY <2>1 DEF RollingLog
  <2>3. BoundedBy(backup[b], Troubles) /\ backup[b] \in File
    BY <2>1, BoundedIs DEF Sized
  <2>4. Troubles' \in Nat /\ Troubles <= Troubles'
    OBVIOUS
  <2>5. BoundedBy(backup'[b], Troubles) /\ backup'[b] \in File
    BY <1>1, <1>4, <2>2, <2>3
  <2> QED BY <2>4, <2>5, BoundedStays
<1>11. (\A b \in Backups : Bounded(backup[b]))'
  BY <1>10, BackupsBounded
<1> QED
  BY <1>3, <1>8, <1>9, <1>11 DEF Sized

-----------------------------------------------------------------------------
(* What a step of the daily directory leaves in it.                        *)
LEMMA DailyTyped ==
  ASSUME FilesTypeOK, NEW m \in Record, NEW renamed \in BOOLEAN,
         NEW opened \in BOOLEAN, NEW written \in BOOLEAN,
         DailyLog(m, renamed, opened, written)
  PROVE  /\ daily_fout' \in BOOLEAN /\ day' \in Nat
         /\ day_file' \in Seq(Record) /\ directory' \in [Days -> Seq(Record)]
<1>1. /\ daily_fout \in BOOLEAN /\ day \in Nat /\ m.day \in Nat
      /\ day_file \in Seq(Record) /\ directory \in [Days -> Seq(Record)]
  BY DEF FilesTypeOK, Record
<1>2. day' \in Nat
  BY <1>1 DEF DailyLog
<1>3. daily_fout' \in BOOLEAN
  BY <1>1 DEF DailyLog, Changes
<1>4. day_file' \in Seq(Record)
  <2>1. <<>> \in Seq(Record)
    OBVIOUS
  <2>2. \A f \in Seq(Record) : Append(f, m) \in Seq(Record)
    OBVIOUS
  <2> QED BY <1>1, <2>1, <2>2 DEF DailyLog
<1>5. directory' \in [Days -> Seq(Record)]
  BY <1>1 DEF DailyLog
<1> QED
  BY <1>2, <1>3, <1>4, <1>5

(* A file that is moved goes to the latest day, behind all that is there.  *)
LEMMA DirectoriesKept ==
  ASSUME FilesTypeOK, Filed, in_order, NEW m \in Record, m.day \in Days,
         m.day >= latest, NEW renamed \in BOOLEAN, NEW opened \in BOOLEAN,
         NEW written \in BOOLEAN, DailyLog(m, renamed, opened, written)
  PROVE  \E f \in Seq(Record) :
           /\ day_file' = IF daily_fout' /\ written THEN Append(f, m) ELSE f
           /\ \/ /\ f = day_file /\ directory' = directory
                 /\ ~(Changes(m) /\ renamed)
              \/ f = <<>> /\ daily_fout /\ m.day # day /\ renamed
                   /\ directory' = [directory EXCEPT ![day] = day_file]
           /\ Join(FlattenSeq(directory'), f)
                = Join(FlattenSeq(directory), day_file)
<1>1. day_file \in Seq(Record) /\ directory \in [Days -> Seq(Record)]
  BY DEF FilesTypeOK
<1>2. CASE ~(Changes(m) /\ renamed)
  <2>1. /\ day_file' = IF daily_fout' /\ written THEN Append(day_file, m)
                                                ELSE day_file
        /\ directory' = directory
    BY <1>2 DEF DailyLog
  <2> QED BY <1>1, <1>2, <2>1
<1>3. CASE Changes(m) /\ renamed
  <2>1. /\ day_file' = IF daily_fout' /\ written THEN Append(<<>>, m) ELSE <<>>
        /\ directory' = [directory EXCEPT ![day] = day_file]
        /\ daily_fout /\ m.day # day /\ renamed
    BY <1>3 DEF DailyLog, Changes
  <2>2. day = latest /\ day \in Days /\ \A d \in Days : directory[d] # <<>> => d < day
    BY <2>1 DEF Filed
  <2>3. FlattenSeq(directory') = Join(FlattenSeq(directory), day_file)
    BY <1>1, <2>1, <2>2, Moved
  <2>4. Join(FlattenSeq(directory), day_file) \in Seq(Record)
    BY <1>1, FlattenTyped, JoinTyped
  <2>5. Join(FlattenSeq(directory'), <<>>) = Join(FlattenSeq(directory), day_file)
    BY <2>3, <2>4, JoinEmpty
  <2>6. <<>> \in Seq(Record)
    OBVIOUS
  <2> QED BY <2>1, <2>5, <2>6
<1> QED
  BY <1>2, <1>3

LEMMA ToSetGains ==
  ASSUME NEW f \in Seq(Record), NEW m \in Record, NEW x \in ToSet(Append(f, m))
  PROVE  x \in ToSet(f) \/ x = m
BY ToSetAppend

LEMMA FiledStep ==
  ASSUME IInv, Known, FilesTypeOK, Filed, NEW m \in Record, m.day \in Days,
         NEW renamed \in BOOLEAN, NEW opened \in BOOLEAN,
         NEW written \in BOOLEAN, DailyLog(m, renamed, opened, written),
         latest' = IF m.day > latest THEN m.day ELSE latest,
         in_order' = (in_order /\ m.day >= latest),
         Log("daily")' = IF daily_fout' /\ written
                         THEN Append(Log("daily"), m) ELSE Log("daily"),
         Troubles' = 0 => Troubles = 0 /\ renamed /\ opened /\ written
  PROVE  Filed'
<1> SUFFICES ASSUME in_order'
             PROVE  Filed'
  BY DEF Filed
<1>1. /\ day_file \in Seq(Record) /\ directory \in [Days -> Seq(Record)]
      /\ day \in Nat /\ latest \in Nat /\ daily_fout \in BOOLEAN /\ m.day \in Nat
      /\ daily_fout' \in BOOLEAN
  BY DailyTyped DEF FilesTypeOK, Record
<1>2. in_order /\ m.day >= latest /\ latest' = m.day
  <2>1. in_order /\ m.day >= latest
    BY Zenon
  <2> QED BY <1>1, <2>1
<1>3. /\ Log("daily") = Join(FlattenSeq(directory), day_file)
      /\ \A d \in Days : directory[d] # <<>> => d < latest
      /\ daily_fout => day = latest /\ day \in Days
      /\ \A x \in ToSet(day_file) : x.day <= latest
      /\ Troubles = 0 =>
           IF daily_fout THEN \A x \in ToSet(day_file) : x.day = day
                         ELSE day_file = <<>>
      /\ \A d \in Days : \A x \in ToSet(directory[d]) :
           x.day <= d /\ (Troubles = 0 => x.day = d)
  BY <1>2 DEF Filed
<1>4. PICK f \in Seq(Record) :
        /\ day_file' = IF daily_fout' /\ written THEN Append(f, m) ELSE f
        /\ \/ /\ f = day_file /\ directory' = directory
              /\ ~(Changes(m) /\ renamed)
           \/ f = <<>> /\ daily_fout /\ m.day # day /\ renamed
                /\ directory' = [directory EXCEPT ![day] = day_file]
        /\ Join(FlattenSeq(directory'), f) = Join(FlattenSeq(directory), day_file)
  BY <1>2, DirectoriesKept
<1>5. Log("daily")' = Join(FlattenSeq(directory'), day_file')
  <2>1. FlattenSeq(directory') \in Seq(Record)
    <3>1. directory' \in [Days -> Seq(Record)]
      BY DailyTyped
    <3> QED BY <3>1, FlattenTyped
  <2>2. CASE daily_fout' /\ written
    <3>1. Append(Join(FlattenSeq(directory'), f), m)
            = Join(FlattenSeq(directory'), Append(f, m))
      BY <2>1, JoinAppend
    <3> QED BY <1>3, <1>4, <2>2, <3>1
  <2>3. CASE ~(daily_fout' /\ written)
    BY <1>3, <1>4, <2>3
  <2> QED BY <2>2, <2>3
<1>6. ASSUME NEW d \in Days, directory'[d] # <<>>
      PROVE  d < latest'
  <2>1. d \in Nat
    BY MaxDayIs DEF Days
  <2>2. CASE directory' = directory
    BY <1>1, <1>2, <1>3, <1>6, <2>1, <2>2
  <2>3. CASE /\ daily_fout /\ m.day # day
             /\ directory' = [directory EXCEPT ![day] = day_file]
    <3>1. d = day \/ directory'[d] = directory[d]
      BY <1>1, <2>3
    <3> QED BY <1>1, <1>2, <1>3, <1>6, <2>1, <2>3, <3>1
  <2> QED BY <1>4, <2>2, <2>3
<1>7. daily_fout' => day' = latest' /\ day' \in Days
  BY <1>1, <1>2, <1>3 DEF DailyLog, Changes
<1>8. ASSUME NEW x \in ToSet(day_file')
      PROVE  x.day <= latest'
  <2>1. x \in ToSet(f) \/ x = m
    BY <1>4, ToSetGains
  <2>2. x \in ToSet(day_file) \/ x = m
    <3>1. ToSet(<<>>) = {}
      BY DEF ToSet
    <3> QED BY <1>4, <2>1, <3>1
  <2>3. x \in ToSet(day_file) => x.day \in Nat
    <3>1. \A i \in DOMAIN day_file : day_file[i] \in Record
      BY <1>1
    <3>2. x \in ToSet(day_file) => x \in Record
      BY <3>1, Zenon DEF ToSet
    <3> QED BY <3>2 DEF Record
  <2> QED BY <1>1, <1>2, <1>3, <2>2, <2>3
<1>9. ASSUME Troubles' = 0
      PROVE  IF daily_fout' THEN \A x \in ToSet(day_file') : x.day = day'
                            ELSE day_file' = <<>>
  <2>1. Troubles = 0 /\ renamed = TRUE /\ opened = TRUE /\ written = TRUE
    BY <1>9
  <2>2. daily_fout' /\ day_file' = Append(f, m)
    BY <1>4, <2>1 DEF DailyLog
  <2>3. day' = m.day
    BY <1>2, <1>7, <2>2
  <2>4. \A x \in ToSet(f) : x.day = m.day
    <3>1. ToSet(<<>>) = {}
      BY DEF ToSet
    <3>2. CASE daily_fout /\ m.day = day
      BY <1>3, <1>4, <2>1, <3>1, <3>2
    <3>3. CASE daily_fout /\ m.day # day
      <4>1. f = <<>>
        BY <1>4, <2>1, <3>3 DEF Changes
      <4> QED BY <3>1, <4>1
    <3>4. CASE ~daily_fout
      BY <1>3, <1>4, <2>1, <3>1, <3>4
    <3> QED BY <1>1, <3>2, <3>3, <3>4
  <2>5. \A x \in ToSet(day_file') : x \in ToSet(f) \/ x = m
    BY <2>2, ToSetGains
  <2> QED BY <2>2, <2>3, <2>4, <2>5
<1>10. ASSUME NEW d \in Days, NEW x \in ToSet(directory'[d])
       PROVE  x.day <= d /\ (Troubles' = 0 => x.day = d)
  <2>1. CASE directory'[d] = directory[d]
    BY <1>3, <1>10, <2>1
  <2>2. CASE daily_fout /\ d = day /\ directory'[d] = day_file
    <3>1. x \in ToSet(day_file)
      BY <1>10, <2>2
    <3> QED BY <1>3, <2>2, <3>1
  <2>3. \/ directory'[d] = directory[d]
        \/ daily_fout /\ d = day /\ directory'[d] = day_file
    BY <1>1, <1>4
  <2> QED BY <2>1, <2>2, <2>3
<1> QED
  <2>1. (Log("daily") = Join(FlattenSeq(directory), day_file))'
    BY <1>5
  <2>2. (\A d \in Days : directory[d] # <<>> => d < latest)'
    BY <1>6
  <2>3. (daily_fout => day = latest /\ day \in Days)'
    BY <1>7
  <2>4. (\A x \in ToSet(day_file) : x.day <= latest)'
    BY <1>8
  <2>5. (Troubles = 0 => IF daily_fout THEN \A x \in ToSet(day_file) : x.day = day
                                       ELSE day_file = <<>>)'
    BY <1>9
  <2>6. (\A d \in Days : \A x \in ToSet(directory[d]) :
           x.day <= d /\ (Troubles = 0 => x.day = d))'
    BY <1>10
  <2> QED BY <2>1, <2>2, <2>3, <2>4, <2>5, <2>6 DEF Filed

-----------------------------------------------------------------------------
(***************************************************************************)
(* The steps that write no file.                                           *)
(***************************************************************************)
Quiet ==
  /\ UNCHANGED <<rolling, daily, logged, stops, faults, latest, in_order>>
  /\ pc' = "down" <=> pc = "down"

Halts ==
  /\ UNCHANGED <<rolling, daily, logged, faults, latest, in_order>>
  /\ pc' = "down" /\ stops' = stops + 1

LEMMA StepsAre ==
  ASSUME IInv, [Next]_vars
  PROVE  \/ Quiet \/ Halts \/ Start
         \/ AppendRolling \/ AppendDaily \/ KillInAppender
<1>1. ASSUME NEW w \in Writers, MakeMessage(w) \/ WriteThrows(w) \/ Write(w)
      PROVE  Quiet
  BY <1>1 DEF MakeMessage, WriteThrows, Write, Quiet, daemon, history
<1>2. CASE Tomorrow
  BY <1>2 DEF Tomorrow, Quiet, daemon, history
<1>3. CASE WouldBlock \/ UNCHANGED vars
  BY <1>3 DEF WouldBlock, Quiet, vars, daemon, history
<1>4. CASE ReadBegin \/ OnRecv \/ ReadEnd
  BY <1>4 DEF ReadBegin, OnRecv, ReadEnd, Quiet, FilesUnchanged
<1>5. CASE Stop
  BY <1>5 DEF Stop, Halts, FilesUnchanged
<1>6. CASE Kill
  BY <1>6 DEF Kill, Dies, Halts
<1> QED
  BY <1>1, <1>2, <1>3, <1>4, <1>5, <1>6 DEF Next, Application, Daemon

(* The record the daemon has in hand.                                      *)
LEMMA CurrentIs ==
  ASSUME IInv, Known, pc \in {"rolling", "daily"}
  PROVE  /\ last + 1 \in 1 .. sent /\ Current \in Record
         /\ Current.len <= Longest /\ Current.day \in Days
<1>1. last + 1 \in 1 .. sent
  BY DEF IInv, CountersOK, InHand
<1>2. Current \in Record
  BY <1>1 DEF IInv, RecordsOK, Current
<1> QED
  BY <1>1, <1>2 DEF Known, Genuine, Current

LEMMA KnownKept ==
  ASSUME IInv, Known, [Next]_vars
  PROVE  /\ Known'
         /\ \/ records' = records
            \/ \E m \in Record : records' = Append(records, m)
<1>1. CASE Application
  <2> PICK w \in Writers : MakeMessage(w) \/ WriteThrows(w) \/ Write(w)
    BY <1>1 DEF Application
  <2>0. pending \in [Writers -> Record]
    BY DEF IInv, RecordsOK
  <2>1. UNCHANGED <<today, logged>>
    BY DEF MakeMessage, WriteThrows, Write, history
  <2>2. CASE MakeMessage(w)
    <3>1. UNCHANGED <<sent, records>>
      BY <2>2 DEF MakeMessage, ring
    <3>2. PICK k \in Kinds :
            pending' = [pending EXCEPT
                          ![w] = [len |-> k.len, level |-> k.level, day |-> today]]
      BY <2>2 DEF MakeMessage
    <3>3. Genuine([len |-> k.len, level |-> k.level, day |-> today])
      BY LongestIs DEF Known, Genuine
    <3>4. \A v \in Writers : pending'[v] # Nothing => Genuine(pending'[v])
      BY <2>0, <3>2, <3>3 DEF Known
    <3> QED BY <2>1, <3>1, <3>4 DEF Known, Genuine
  <2>3. CASE WriteThrows(w)
    <3>1. UNCHANGED <<sent, records>> /\ pending' = [pending EXCEPT ![w] = Nothing]
      BY <2>3 DEF WriteThrows, ring
    <3>2. \A v \in Writers : pending'[v] # Nothing => Genuine(pending'[v])
      BY <2>0, <3>1 DEF Known
    <3> QED BY <2>1, <3>1, <3>2 DEF Known, Genuine
  <2>4. CASE Write(w)
    <3>1. /\ sent' = sent + 1 /\ records' = Append(records, pending[w])
          /\ pending' = [pending EXCEPT ![w] = Nothing] /\ pending[w] # Nothing
      BY <2>4 DEF Write, Ring!Send
    <3>2. /\ pending[w] \in Record /\ records \in Seq(Record)
          /\ Len(records) = sent /\ sent \in Nat
      BY DEF IInv, RecordsOK, CountersOK
    <3>3. \A v \in Writers : pending'[v] # Nothing => Genuine(pending'[v])
      BY <2>0, <3>1 DEF Known
    <3>4. Genuine(pending[w])
      BY <3>1 DEF Known
    <3>5. \A n \in 1 .. sent + 1 : Genuine(records'[n])
      <4> SUFFICES ASSUME NEW n \in 1 .. sent + 1
                   PROVE  Genuine(records'[n])
        OBVIOUS
      <4>1. CASE n = sent + 1
        <5>1. records'[n] = pending[w]
          BY <3>1, <3>2, <4>1
        <5> QED BY <3>4, <5>1
      <4>2. CASE n # sent + 1
        <5>1. n \in 1 .. sent /\ records'[n] = records[n]
          BY <3>1, <3>2, <4>2
        <5> QED BY <5>1 DEF Known
      <4> QED BY <4>1, <4>2
    <3>6. \A a \in Appenders : \A j \in 1 .. Len(logged[a]) :
            logged[a][j] \in 1 .. sent + 1
      BY <3>2 DEF Known
    <3> QED BY <2>1, <3>1, <3>2, <3>3, <3>5, <3>6 DEF Known, Genuine
  <2> QED BY <2>2, <2>3, <2>4
<1>2. CASE Tomorrow
  <2>1. UNCHANGED <<pending, sent, records, logged>>
    BY <1>2 DEF Tomorrow, ring, history
  <2>2. today' \in Days
    BY <1>2, MaxDayIs DEF Tomorrow, Known, Days
  <2> QED BY <2>1, <2>2 DEF Known, Genuine
<1>3. ASSUME NEW a \in Appenders, NEW kept, Note(a, kept),
             pc \in {"rolling", "daily"},
             UNCHANGED <<today, pending, sent, records>>
      PROVE  Known'
  <2>1. last + 1 \in 1 .. sent
    BY <1>3, CurrentIs
  <2>2. logged \in [Appenders -> Seq(Int)]
    BY DEF IInv, HistoryOK
  <2>3. logged' = logged \/ logged' = [logged EXCEPT ![a] = Append(@, last + 1)]
    BY <1>3 DEF Note
  <2>4. ASSUME NEW b \in Appenders, NEW j \in 1 .. Len(logged'[b])
        PROVE  logged'[b][j] \in 1 .. sent
    <3>1. CASE logged'[b] = logged[b]
      BY <2>4, <3>1 DEF Known
    <3>2. CASE logged'[b] = Append(logged[b], last + 1)
      <4>1. logged[b] \in Seq(Int) /\ last + 1 \in Int
        BY <2>1, <2>2
      <4>2. \/ j \in 1 .. Len(logged[b]) /\ logged'[b][j] = logged[b][j]
            \/ logged'[b][j] = last + 1
        BY <2>4, <3>2, <4>1
      <4> QED BY <2>1, <4>2 DEF Known
    <3> QED BY <2>2, <2>3, <3>1, <3>2
  <2> QED BY <1>3, <2>4 DEF Known, Genuine
<1>4. CASE AppendRolling \/ AppendDaily
  <2>1. /\ UNCHANGED <<today, pending, sent, records>> /\ pc \in {"rolling", "daily"}
    BY <1>4 DEF AppendRolling, AppendDaily, ring
  <2>2. \E a \in Appenders : \E kept : Note(a, kept)
    BY <1>4 DEF AppendRolling, AppendDaily, Appenders
  <2> QED BY <1>3, <2>1, <2>2
<1>5. CASE \/ Start \/ WouldBlock \/ ReadBegin \/ OnRecv \/ ReadEnd \/ Stop
           \/ Kill \/ KillInAppender \/ UNCHANGED vars
  <2>1. UNCHANGED <<today, pending, sent, records, logged>>
    BY <1>5 DEF Start, WouldBlock, ReadBegin, OnRecv, ReadEnd, Stop, Kill,
       KillInAppender, Dies, FilesUnchanged, Ring!Deliver, Ring!Release,
       Ring!ReceiverCrash, vars, ring, history
  <2> QED BY <2>1 DEF Known, Genuine
<1> QED
  BY <1>1, <1>2, <1>4, <1>5 DEF Next, Daemon, AppendRolling, AppendDaily, ring

LEMMA RollingStays ==
  ASSUME Rolling, UNCHANGED <<file, backup>>, Log("rolling")' = Log("rolling"),
         rolling_fout' => rolling_fout,
         Troubles' = 0 => Troubles = 0 /\ index' = index
  PROVE  Rolling'
<1>1. Troubles' = 0 => ByAge' = ByAge /\ Troubles = 0 /\ index' = index
  BY ByAgeIs
<1> QED
  BY <1>1 DEF Rolling, Ends

LEMMA SizedStays ==
  ASSUME FilesTypeOK, Sized, UNCHANGED <<file, backup>>,
         Troubles \in Nat, Troubles' \in Nat, Troubles <= Troubles',
         (InUse' <=> InUse) \/ (Troubles < Troubles' /\ ~InUse')
  PROVE  Sized'
<1>1. file.size \in Nat
  BY DEF FilesTypeOK, File
<1>2. \A t, u \in Int : t <= u => /\ Cap(t) <= Cap(u)
                                  /\ Cap(t) \in Int /\ Cap(u) \in Int
  BY CapGrows
<1>3. \/ file' = NoFile
      \/ file'.size <= Cap(IF InUse' THEN Troubles' ELSE Troubles' - 1)
  <2>1. CASE InUse' <=> InUse
    <3>1. /\ Cap(Troubles) <= Cap(Troubles') /\ Cap(Troubles - 1) <= Cap(Troubles' - 1)
          /\ Cap(Troubles) \in Int /\ Cap(Troubles') \in Int
          /\ Cap(Troubles - 1) \in Int /\ Cap(Troubles' - 1) \in Int
      <4> DEFINE t == Troubles
                 u == Troubles'
      <4>1. t \in Nat /\ u \in Nat /\ t <= u
        OBVIOUS
      <4> HIDE DEF t, u
      <4>2. /\ t - 1 \in Int /\ u - 1 \in Int /\ t - 1 <= u - 1
            /\ t \in Int /\ u \in Int
        BY <4>1
      <4>3. /\ Cap(t) <= Cap(u) /\ Cap(t - 1) <= Cap(u - 1)
            /\ Cap(t) \in Int /\ Cap(u) \in Int
            /\ Cap(t - 1) \in Int /\ Cap(u - 1) \in Int
        BY <1>2, <4>1, <4>2
      <4> QED BY <4>3 DEF t, u
    <3> QED BY <1>1, <2>1, <3>1 DEF Sized
  <2>2. CASE Troubles < Troubles' /\ ~InUse'
    <3>1. file.size <= Cap(Troubles)
      BY SizesAre
    <3>2. Cap(Troubles) <= Cap(Troubles' - 1)
          /\ Cap(Troubles) \in Int /\ Cap(Troubles' - 1) \in Int
      BY <1>2, <2>2
    <3> QED BY <1>1, <2>2, <3>1, <3>2
  <2> QED BY <2>1, <2>2
<1>4. Troubles' = 0 =>
        IF InUse' THEN file'.size <= MaxFileSize + 1 \/ Len(file'.records) = 1
                  ELSE file' = NoFile
  BY DEF Sized
<1>5. (\A b \in Backups : Bounded(backup[b]))'
  <2>1. \A b \in Backups : BoundedBy(backup[b], Troubles) /\ backup[b] \in File
    BY BoundedIs DEF Sized, FilesTypeOK
  <2>2. \A b \in Backups : BoundedBy(backup[b], Troubles')
    BY <2>1, BoundedStays
  <2> QED BY <2>2, BackupsBounded
<1> QED
  BY <1>3, <1>4, <1>5 DEF Sized

LEMMA FiledStays ==
  ASSUME Filed, UNCHANGED <<day_file, directory, latest, in_order>>,
         Log("daily")' = Log("daily"),
         daily_fout' => daily_fout /\ day' = day,
         Troubles' = 0 => Troubles = 0 /\ daily_fout' = daily_fout
  PROVE  Filed'
<1> SUFFICES ASSUME in_order'
             PROVE  Filed'
  BY DEF Filed
<1> QED
  BY DEF Filed

LEMMA KeptFirst == Init => Kept
<1> SUFFICES ASSUME Init
             PROVE  Kept
  OBVIOUS
<1>0. <<>> \in Seq(Record)
  OBVIOUS
<1>1. /\ rolling_fout = FALSE /\ index = 0 /\ file = NoFile
      /\ backup = [b \in Backups |-> NoFile]
      /\ daily_fout = FALSE /\ day = 0 /\ day_file = <<>>
      /\ directory = [d \in Days |-> <<>>] /\ latest = 0
      /\ stops = 0 /\ faults = 0 /\ today = 1 /\ sent = 0
      /\ pending = [w \in Writers |-> Nothing] /\ records = <<>>
      /\ \A a \in Appenders : logged[a] = <<>>
  BY DEF Init, Ring!Init, RollingInit, DailyInit
<1>2. Known
  BY <1>1, MaxDayIs DEF Known, Days
<1>3. FilesTypeOK
  <2>1. <<>> \in Seq(Record)
    OBVIOUS
  <2>2. backup \in [Backups -> File] /\ file \in File
    BY <1>1, NoFileIs
  <2>3. directory \in [Days -> Seq(Record)] /\ day_file \in Seq(Record)
    BY <1>1, <2>1
  <2>4. index \in Backups
    BY <1>1, AroundIs
  <2> QED BY <1>1, <2>2, <2>3, <2>4 DEF FilesTypeOK
<1>4. Fresh
  BY DEF Init, Fresh
<1>5. IInv /\ Log("rolling") \in Seq(Record) /\ Log("daily") \in Seq(Record)
  BY <1>2, InitHolds, LogTyped DEF Appenders
<1>6. \A a \in Appenders : Log(a) = <<>>
  <2>1. \A a \in Appenders : Log(a) = ContentsOf(<<>>, <<>>)
    BY <1>1, LogIs
  <2>2. ContentsOf(<<>>, <<>>) = <<>>
    BY DEF ContentsOf
  <2> QED BY <2>1, <2>2
<1>7. Troubles = 0
  BY <1>1 DEF Troubles
<1>8. Rolling
  <2>1. file.records = <<>> /\ Ends(<<>>, <<>>)
    <3>1. <<>> \in Seq(Record)
      OBVIOUS
    <3> QED BY <1>1, <3>1, NoFileIs, EndsItself
  <2>2. ByAge = <<>>
    <3> DEFINE P == AgesOf(index, backup)
               g == Age(index, backup)
               T == {k \in 0 .. Around : g[k] = <<>>}
    <3>1. Chain(g, P, Around) /\ Around \in Nat
      BY <1>3, AgeIs, FilesTyped, AroundIs DEF FilesTypeOK
    <3>2. \A k \in 1 .. Around : P[k] = <<>>
      BY <1>1, <1>3, NoFileIs, InBackups DEF AgesOf, FilesTypeOK
    <3> HIDE DEF P, g
    <3>3. 0 \in T
      <4>1. g[0] = <<>> /\ 0 \in 0 .. Around
        BY <3>1 DEF Chain
      <4> QED BY <4>1
    <3>4. ASSUME NEW k \in 1 .. Around, k - 1 \in T
          PROVE  k \in T
      <4>1. g[k] = Join(g[k - 1], P[k])
        BY <3>1, ChainStep
      <4>2. Join(<<>>, <<>>) = <<>>
        BY <1>0, JoinEmpty
      <4>3. g[k] = <<>>
        BY <3>2, <3>4, <4>1, <4>2
      <4> QED BY <3>1, <4>3
    <3>5. g[Around] = <<>>
      <4> HIDE DEF T
      <4>1. T \in SUBSET (0 .. Around)
        BY DEF T
      <4>2. T = 0 .. Around
        BY <3>1, <3>3, <3>4, <4>1, Upwards
      <4> QED BY <3>1, <4>2 DEF T
    <3>6. ByAge = Join(<<>>, <<>>)
      BY <2>1, <3>5, ByAgeIs DEF g
    <3> QED BY <1>0, <3>6, JoinEmpty
  <2>3. \A b \in Backups : b \in Nat /\ backup[b] = NoFile
    BY <1>1 DEF Backups
  <2> QED BY <1>1, <1>6, <2>1, <2>2, <2>3 DEF Rolling, Appenders
<1>9. Sized
  <2>1. Cap(0) \in Int /\ Cap(0) >= Base /\ Base \in Nat /\ MaxFileSize \in Nat
    BY CapGrows, BaseIs
  <2>2. \A b \in Backups : BoundedBy(backup[b], Troubles)
    BY <1>1, <1>7, <2>1, NoFileIs DEF BoundedBy
  <2>3. \A b \in Backups : Bounded(backup[b])
    BY <2>2, BoundedIs
  <2> QED BY <1>1, <2>3 DEF Sized, InUse
<1>10. Filed
  <2>1. \A d \in Days : directory[d] = <<>>
    BY <1>1
  <2>2. ToSet(<<>>) = {}
    BY DEF ToSet
  <2>3. FlattenSeq(directory) = <<>>
    <3>1. directory \in [1 .. MaxDay -> Seq(Record)]
      BY <1>3 DEF FilesTypeOK, Days
    <3>2. PICK g : Chain(g, directory, MaxDay) /\ FlattenSeq(directory) = g[MaxDay]
      BY <3>1, MaxDayIs, FlattenIs
    <3> DEFINE T == {k \in 0 .. MaxDay : g[k] = <<>>}
    <3>3. 0 \in T
      <4>1. g[0] = <<>> /\ 0 \in 0 .. MaxDay
        BY <3>2, MaxDayIs DEF Chain
      <4> QED BY <4>1
    <3>4. ASSUME NEW k \in 1 .. MaxDay, k - 1 \in T
          PROVE  k \in T
      <4>1. g[k] = Join(g[k - 1], directory[k])
        BY <3>2, MaxDayIs, ChainStep
      <4>2. Join(<<>>, <<>>) = <<>>
        BY <1>0, JoinEmpty
      <4>3. g[k] = <<>>
        BY <2>1, <3>4, <4>1, <4>2 DEF Days
      <4> QED BY <4>3, MaxDayIs
    <3>5. g[MaxDay] = <<>>
      <4> HIDE DEF T
      <4>1. T \in SUBSET (0 .. MaxDay)
        BY DEF T
      <4>2. T = 0 .. MaxDay
        BY <3>3, <3>4, <4>1, MaxDayIs, Upwards
      <4> QED BY <4>2, MaxDayIs DEF T
    <3> QED BY <3>2, <3>5
  <2>4. Join(<<>>, <<>>) = <<>>
    BY <1>0, JoinEmpty
  <2> QED BY <1>1, <1>6, <2>1, <2>2, <2>3, <2>4 DEF Filed, Appenders
<1> QED
  BY <1>2, <1>3, <1>4, <1>8, <1>9, <1>10 DEF Kept

-----------------------------------------------------------------------------
(***************************************************************************)
(* What the files hold is kept by every step.                              *)
(***************************************************************************)
LEMMA TroublesAre ==
  ASSUME FilesTypeOK
  PROVE  Troubles \in Nat /\ (Troubles = 0 <=> stops = 0 /\ faults = 0)
BY DEF FilesTypeOK, Troubles

(* What an outcome leaves of the count of failed calls.                    *)
LEMMA OutcomeIs ==
  ASSUME FilesTypeOK, UNCHANGED stops, NEW fout, NEW move, NEW renamed,
         NEW opened, NEW written,
         Outcome(fout, move, renamed, opened, written)
  PROVE  /\ Troubles' = IF renamed /\ opened /\ written
                        THEN Troubles ELSE Troubles + 1
         /\ renamed \/ move
         /\ Troubles' = 0 => Troubles = 0 /\ renamed /\ opened /\ written
         /\ Troubles' \in Nat /\ Troubles <= Troubles'
         /\ faults' \in Nat
<1>1. /\ renamed \/ move
      /\ faults' = IF renamed /\ opened /\ written THEN faults ELSE faults + 1
  BY DEF Outcome, Fault
<1>2. stops \in Nat /\ faults \in Nat /\ stops' = stops
  BY DEF FilesTypeOK
<1> QED
  BY <1>1, <1>2 DEF Troubles

LEMMA QuietKeeps ==
  ASSUME IInv, Kept, [Next]_vars, Quiet
  PROVE  FilesTypeOK' /\ Fresh' /\ Rolling' /\ Sized' /\ Filed'
<1>1. Troubles' = Troubles /\ Troubles \in Nat /\ (pc' = "down" <=> pc = "down")
  BY TroublesAre DEF Quiet, Troubles, Kept
<1>2. UNCHANGED <<rolling_fout, index, file, backup, daily_fout, day, day_file,
                  directory, logged, stops, faults, latest, in_order>>
  BY DEF Quiet, rolling, daily
<1>3. \A a \in Appenders : Log(a)' = Log(a)
  BY <1>2, KnownKept, LogStays DEF Kept
<1>4. FilesTypeOK'
  BY <1>2 DEF FilesTypeOK, Kept
<1>5. Fresh'
  BY <1>1, <1>2 DEF Fresh, Kept, RollingInit, DailyInit
<1>6. Rolling'
  BY <1>1, <1>2, <1>3, RollingStays DEF Kept, Appenders
<1>7. InUse' <=> InUse
  BY <1>1, <1>2 DEF InUse
<1>8. Sized'
  <2>1. Troubles <= Troubles'
    BY <1>1
  <2> QED BY <1>1, <1>2, <1>7, <2>1, SizedStays DEF Kept
<1>9. Filed'
  BY <1>1, <1>2, <1>3, FiledStays DEF Kept, Appenders
<1> QED
  BY <1>4, <1>5, <1>6, <1>8, <1>9

(* A daemon that halts leaves the files as they are.                       *)
LEMMA HaltsKeeps ==
  ASSUME IInv, Kept, [Next]_vars, Halts
  PROVE  FilesTypeOK' /\ Fresh' /\ Rolling' /\ Sized' /\ Filed'
<1>1. UNCHANGED <<rolling_fout, index, file, backup, daily_fout, day, day_file,
                  directory, logged, faults, latest, in_order>>
      /\ pc' = "down" /\ stops' = stops + 1
  BY DEF Halts, rolling, daily
<1>2. stops \in Nat /\ faults \in Nat
  BY DEF Kept, FilesTypeOK
<1>3. /\ Troubles \in Nat /\ Troubles' \in Nat /\ Troubles < Troubles'
      /\ Troubles <= Troubles' /\ Troubles' # 0 /\ stops' \in Nat
  BY <1>1, <1>2 DEF Troubles
<1>4. \A a \in Appenders : Log(a)' = Log(a)
  BY <1>1, KnownKept, LogStays DEF Kept
<1>5. FilesTypeOK'
  BY <1>1, <1>3 DEF FilesTypeOK, Kept
<1>6. Fresh'
  BY <1>3 DEF Fresh
<1>7. Rolling'
  BY <1>1, <1>3, <1>4, RollingStays DEF Kept, Appenders
<1>8. Sized'
  <2>1. ~InUse'
    BY <1>1 DEF InUse
  <2> QED BY <1>1, <1>3, <2>1, SizedStays DEF Kept
<1>9. Filed'
  BY <1>1, <1>3, <1>4, FiledStays DEF Kept, Appenders
<1> QED
  BY <1>5, <1>6, <1>7, <1>8, <1>9

(* A daemon that starts without trouble starts for the first time.         *)
LEMMA StartKeeps ==
  ASSUME IInv, Kept, [Next]_vars, Start
  PROVE  FilesTypeOK' /\ Fresh' /\ Rolling' /\ Sized' /\ Filed'
<1>1. /\ UNCHANGED <<file, backup, day_file, directory, logged, stops, faults,
                     latest, in_order>>
      /\ rolling_fout' = FALSE /\ index' = 0 /\ daily_fout' = FALSE /\ day' = 0
      /\ pc = "down" /\ pc' = "loop"
  BY DEF Start, RollingStart, DailyStart, history
<1>2. Troubles' = Troubles /\ Troubles \in Nat
  BY <1>1, TroublesAre DEF Troubles, Kept
<1>3. \A a \in Appenders : Log(a)' = Log(a)
  BY <1>1, KnownKept, LogStays DEF Kept
<1>4. Troubles = 0 => index = 0 /\ daily_fout = FALSE
  BY <1>1 DEF Kept, Fresh, RollingInit, DailyInit
<1>5. FilesTypeOK'
  <2>1. 0 \in Backups
    BY AroundIs
  <2> QED BY <1>1, <2>1 DEF FilesTypeOK, Kept
<1>6. Fresh'
  BY <1>1 DEF Fresh
<1>7. Rolling'
  BY <1>1, <1>2, <1>3, <1>4, RollingStays DEF Kept, Appenders
<1>8. Sized'
  <2>1. ~InUse /\ ~InUse' /\ Troubles <= Troubles'
    BY <1>1, <1>2 DEF InUse
  <2> QED BY <1>1, <1>2, <2>1, SizedStays DEF Kept
<1>9. Filed'
  BY <1>1, <1>2, <1>3, <1>4, FiledStays DEF Kept, Appenders
<1> QED
  BY <1>5, <1>6, <1>7, <1>8, <1>9

RollingDropped == RollingDrops /\ Fault /\ Note("rolling", FALSE)

(* A record that is dropped changes no file.                               *)
LEMMA DroppedKeeps ==
  ASSUME IInv, Kept, AppendRolling, RollingDropped
  PROVE  FilesTypeOK' /\ Fresh' /\ Rolling' /\ Sized' /\ Filed'
<1>1. /\ UNCHANGED <<records, rolling_fout, index, file, backup>>
      /\ UNCHANGED <<daily_fout, day, day_file, directory, latest, in_order>>
      /\ UNCHANGED <<logged, stops>> /\ faults' = faults + 1
      /\ pc = "rolling" /\ pc' = "daily"
  BY DEF AppendRolling, RollingDropped, RollingDrops, Fault, Note, rolling,
     daily, ring
<1>2. stops \in Nat /\ faults \in Nat
  BY DEF Kept, FilesTypeOK
<1>3. /\ Troubles \in Nat /\ Troubles' \in Nat /\ Troubles' # 0
      /\ Troubles <= Troubles' /\ faults' \in Nat
  BY <1>1, <1>2 DEF Troubles
<1>4. \A a \in Appenders : Log(a)' = Log(a)
  BY <1>1, LogStays DEF Kept
<1>5. FilesTypeOK'
  BY <1>1, <1>3 DEF FilesTypeOK, Kept
<1>6. Fresh'
  BY <1>1 DEF Fresh
<1>7. Rolling'
  BY <1>1, <1>3, <1>4, RollingStays DEF Kept, Appenders
<1>8. Sized'
  <2>1. InUse' <=> InUse
    BY <1>1 DEF InUse
  <2> QED BY <1>1, <1>3, <2>1, SizedStays DEF Kept
<1>9. Filed'
  BY <1>1, <1>3, <1>4, FiledStays DEF Kept, Appenders
<1> QED
  BY <1>5, <1>6, <1>7, <1>8, <1>9

LEMMA AppendRollingKeeps ==
  ASSUME IInv, Kept, [Next]_vars, AppendRolling
  PROVE  FilesTypeOK' /\ Fresh' /\ Rolling' /\ Sized' /\ Filed'
<1> SUFFICES ASSUME ~RollingDropped
             PROVE  FilesTypeOK' /\ Fresh' /\ Rolling' /\ Sized' /\ Filed'
  BY DroppedKeeps
<1>1. PICK renamed \in BOOLEAN, opened \in BOOLEAN, written \in BOOLEAN :
        /\ Outcome(rolling_fout, Full(Current), renamed, opened, written)
        /\ RollingLog(Current, renamed, opened, written)
        /\ Note("rolling", rolling_fout' /\ written)
  BY DEF AppendRolling, RollingDropped
<1>2. /\ UNCHANGED <<records, daily_fout, day, day_file, directory, stops, latest,
                     in_order>>
      /\ pc = "rolling" /\ pc' = "daily"
  BY DEF AppendRolling, ring, daily
<1>3. /\ last + 1 \in 1 .. sent /\ Current \in Record
      /\ Current.len <= Longest
  BY <1>2, CurrentIs DEF Kept
<1>4. /\ Troubles' = IF renamed /\ opened /\ written
                     THEN Troubles ELSE Troubles + 1
      /\ renamed \/ Full(Current)
      /\ Troubles' = 0 => Troubles = 0 /\ renamed /\ opened /\ written
      /\ Troubles' \in Nat /\ Troubles \in Nat /\ faults' \in Nat
  BY <1>1, <1>2, OutcomeIs, TroublesAre DEF Kept
<1>5. logged \in [Appenders -> Seq(Int)]
  BY DEF IInv, HistoryOK
<1>6. /\ Log("rolling")' = IF rolling_fout' /\ written
                           THEN Append(Log("rolling"), Current)
                           ELSE Log("rolling")
      /\ Log("daily")' = Log("daily")
  <2>1. logged'["daily"] = logged["daily"]
    BY <1>1, <1>5 DEF Note, Appenders
  <2>2. logged'["rolling"] = IF rolling_fout' /\ written
                               THEN Append(logged["rolling"], last + 1)
                               ELSE logged["rolling"]
    BY <1>1, <1>5 DEF Note, Appenders
  <2>3. Log("daily")' = Log("daily")
    BY <1>2, <2>1, LogStays DEF Kept, Appenders
  <2>4. CASE rolling_fout' /\ written
    BY <1>2, <1>3, <2>2, <2>3, <2>4, LogGains DEF Kept, Appenders
  <2>5. CASE ~(rolling_fout' /\ written)
    BY <1>2, <2>2, <2>3, <2>5, LogStays DEF Kept, Appenders
  <2> QED BY <2>4, <2>5
<1>7. FilesTypeOK'
  <2>1. /\ rolling_fout' \in BOOLEAN /\ index' \in Backups
        /\ file' \in File /\ backup' \in [Backups -> File]
    BY <1>1, <1>3, RollingTyped DEF Kept
  <2> QED BY <1>2, <1>4, <2>1 DEF FilesTypeOK, Kept
<1>8. Fresh'
  BY <1>2 DEF Fresh
<1>9. Rolling'
  BY <1>1, <1>3, <1>4, <1>6, RollingStep DEF Kept
<1>10. Sized'
  BY <1>1, <1>2, <1>3, <1>4, SizedStep DEF Kept
<1>11. Filed'
  BY <1>2, <1>4, <1>6, FiledStays DEF Kept
<1> QED
  BY <1>7, <1>8, <1>9, <1>10, <1>11

LEMMA AppendDailyKeeps ==
  ASSUME IInv, Kept, [Next]_vars, AppendDaily
  PROVE  FilesTypeOK' /\ Fresh' /\ Rolling' /\ Sized' /\ Filed'
<1>1. PICK renamed \in BOOLEAN, opened \in BOOLEAN, written \in BOOLEAN :
        /\ Outcome(daily_fout, Changes(Current), renamed, opened, written)
        /\ DailyLog(Current, renamed, opened, written)
        /\ Note("daily", daily_fout' /\ written)
  BY DEF AppendDaily
<1>2. /\ UNCHANGED <<records, rolling_fout, index, file, backup, stops>>
      /\ pc = "daily" /\ pc' = "loop"
      /\ latest' = IF Current.day > latest THEN Current.day ELSE latest
      /\ in_order' = (in_order /\ Current.day >= latest)
  BY DEF AppendDaily, ring, rolling, Meets
<1>3. /\ last + 1 \in 1 .. sent /\ Current \in Record /\ Current.day \in Days
  BY <1>2, CurrentIs DEF Kept
<1>4. /\ Troubles' = 0 => Troubles = 0 /\ renamed /\ opened /\ written
      /\ Troubles' \in Nat /\ Troubles \in Nat /\ Troubles <= Troubles'
      /\ faults' \in Nat
  BY <1>1, <1>2, OutcomeIs, TroublesAre DEF Kept
<1>5. logged \in [Appenders -> Seq(Int)]
  BY DEF IInv, HistoryOK
<1>6. /\ Log("daily")' = IF daily_fout' /\ written
                         THEN Append(Log("daily"), Current) ELSE Log("daily")
      /\ Log("rolling")' = Log("rolling")
  <2>1. logged'["rolling"] = logged["rolling"]
    BY <1>1, <1>5 DEF Note, Appenders
  <2>2. logged'["daily"] = IF daily_fout' /\ written
                             THEN Append(logged["daily"], last + 1)
                             ELSE logged["daily"]
    BY <1>1, <1>5 DEF Note, Appenders
  <2>3. Log("rolling")' = Log("rolling")
    BY <1>2, <2>1, LogStays DEF Kept, Appenders
  <2>4. CASE daily_fout' /\ written
    BY <1>2, <1>3, <2>2, <2>3, <2>4, LogGains DEF Kept, Appenders
  <2>5. CASE ~(daily_fout' /\ written)
    BY <1>2, <2>2, <2>3, <2>5, LogStays DEF Kept, Appenders
  <2> QED BY <2>4, <2>5
<1>7. FilesTypeOK'
  <2>1. /\ daily_fout' \in BOOLEAN /\ day' \in Nat
        /\ day_file' \in Seq(Record) /\ directory' \in [Days -> Seq(Record)]
    BY <1>1, <1>3, DailyTyped DEF Kept
  <2>2. latest' \in Nat
    BY <1>2, <1>3, MaxDayIs DEF Kept, FilesTypeOK, Days
  <2> QED BY <1>2, <1>4, <2>1, <2>2 DEF FilesTypeOK, Kept
<1>8. Fresh'
  BY <1>2 DEF Fresh
<1>9. Rolling'
  BY <1>2, <1>4, <1>6, RollingStays DEF Kept
<1>10. Sized'
  <2>1. InUse' <=> InUse
    BY <1>2 DEF InUse
  <2> QED BY <1>2, <1>4, <2>1, SizedStays DEF Kept
<1>11. Filed'
  BY <1>1, <1>2, <1>3, <1>4, <1>6, FiledStep DEF Kept
<1> QED
  BY <1>7, <1>8, <1>9, <1>10, <1>11

(* Killed between rename() and fopen(), it has moved a file and written    *)
(* none.                                                                   *)
LEMMA KillInAppenderKeeps ==
  ASSUME IInv, Kept, [Next]_vars, KillInAppender
  PROVE  FilesTypeOK' /\ Fresh' /\ Rolling' /\ Sized' /\ Filed'
<1>1. /\ UNCHANGED <<records, logged, faults>>
      /\ pc' = "down" /\ stops' = stops + 1
      /\ \/ /\ pc = "rolling" /\ Full(Current)
            /\ RollingLog(Current, TRUE, FALSE, FALSE)
            /\ UNCHANGED <<daily_fout, day, day_file, directory, latest, in_order>>
         \/ /\ pc = "daily" /\ Changes(Current)
            /\ DailyLog(Current, TRUE, FALSE, FALSE) /\ Meets
            /\ UNCHANGED <<rolling_fout, index, file, backup>>
  BY DEF KillInAppender, Dies, rolling, daily
<1>2. /\ last + 1 \in 1 .. sent /\ Current \in Record /\ Current.len <= Longest
      /\ Current.day \in Days
  BY <1>1, CurrentIs DEF Kept
<1>3. stops \in Nat /\ faults \in Nat
  BY DEF Kept, FilesTypeOK
<1>4. /\ Troubles \in Nat /\ Troubles' \in Nat /\ Troubles' = Troubles + 1
      /\ Troubles < Troubles' /\ Troubles <= Troubles' /\ Troubles' # 0
      /\ stops' \in Nat
  BY <1>1, <1>3 DEF Troubles
<1>5. \A a \in Appenders : Log(a)' = Log(a)
  BY <1>1, LogStays DEF Kept
<1>6. Fresh' /\ ~InUse'
  BY <1>1, <1>4 DEF Fresh, InUse
<1>7. CASE /\ pc = "rolling" /\ Full(Current) /\ RollingLog(Current, TRUE, FALSE, FALSE)
           /\ UNCHANGED <<daily_fout, day, day_file, directory, latest, in_order>>
  <2>1. rolling_fout' = FALSE
    BY <1>7 DEF RollingLog
  <2>2. /\ rolling_fout' \in BOOLEAN /\ index' \in Backups
        /\ file' \in File /\ backup' \in [Backups -> File]
    BY <1>2, <1>7, RollingTyped DEF Kept
  <2>3. FilesTypeOK'
    BY <1>1, <1>4, <1>7, <2>2 DEF FilesTypeOK, Kept
  <2>4. Rolling'
    BY <1>2, <1>4, <1>5, <1>7, <2>1, RollingStep DEF Kept, Appenders
  <2>5. Sized'
    BY <1>2, <1>4, <1>7, <2>1, SizedStep DEF Kept
  <2>6. Filed'
    BY <1>4, <1>5, <1>7, FiledStays DEF Kept, Appenders
  <2> QED BY <1>6, <2>3, <2>4, <2>5, <2>6
<1>8. CASE /\ pc = "daily" /\ Changes(Current)
           /\ DailyLog(Current, TRUE, FALSE, FALSE) /\ Meets
           /\ UNCHANGED <<rolling_fout, index, file, backup>>
  <2>1. daily_fout' = FALSE
    BY <1>8 DEF DailyLog
  <2>2. /\ daily_fout' \in BOOLEAN /\ day' \in Nat
        /\ day_file' \in Seq(Record) /\ directory' \in [Days -> Seq(Record)]
    BY <1>2, <1>8, DailyTyped DEF Kept
  <2>3. /\ latest' = IF Current.day > latest THEN Current.day ELSE latest
        /\ in_order' = (in_order /\ Current.day >= latest)
        /\ latest' \in Nat
    BY <1>2, <1>8, MaxDayIs DEF Meets, Kept, FilesTypeOK, Days
  <2>4. FilesTypeOK'
    BY <1>1, <1>4, <1>8, <2>2, <2>3 DEF FilesTypeOK, Kept
  <2>5. Rolling'
    BY <1>4, <1>5, <1>8, RollingStays DEF Kept, Appenders
  <2>6. Sized'
    BY <1>4, <1>6, <1>8, SizedStays DEF Kept
  <2>7. Filed'
    BY <1>2, <1>4, <1>5, <1>8, <2>1, <2>3, FiledStep DEF Kept, Appenders
  <2> QED BY <1>6, <2>4, <2>5, <2>6, <2>7
<1> QED
  BY <1>1, <1>7, <1>8

LEMMA KeptStep ==
  ASSUME IInv, Kept, [Next]_vars
  PROVE  Kept'
<1>1. Known'
  BY KnownKept DEF Kept
<1>2. FilesTypeOK' /\ Fresh' /\ Rolling' /\ Sized' /\ Filed'
  BY StepsAre, QuietKeeps, HaltsKeeps, StartKeeps, AppendRollingKeeps,
     AppendDailyKeeps, KillInAppenderKeeps
<1> QED
  BY <1>1, <1>2 DEF Kept

(* What the files hold, for every size of a file, every number of backups  *)
(* and of days, every length of a record: the invariant of the proof.      *)
THEOREM FilesKept == Spec => [](IInv /\ Kept)
<1>1. IInv /\ Kept /\ [Next]_vars => Kept'
  BY KeptStep
<1> QED
  BY KeptFirst, <1>1, Invariance, PTL DEF Spec

(* The rolling file and its backups hold the latest records, in their      *)
(* order and without a gap, and no file grows beyond its size.             *)
THEOREM Retention == Spec => []RollingKeeps
<1>1. ASSUME IInv, Kept
      PROVE  RollingKeeps
  <2>1. Log("rolling") \in Seq(Record)
    BY <1>1, LogTyped DEF Kept, Appenders
  <2>2. /\ file \in File /\ backup \in [Backups -> File] /\ index \in Backups
        /\ Troubles \in Nat
    BY <1>1, TroublesAre DEF Kept, FilesTypeOK
  <2>3. IsSuffix(file.records, Log("rolling"))
    <3>1. file.records \in Seq(Record)
      BY <2>2, ByAgeTyped
    <3> QED BY <1>1, <2>1, <3>1, EndsIsSuffix DEF Kept, Rolling
  <2>4. Troubles = 0 => IsSuffix(ByAge, Log("rolling"))
    <3>1. ByAge \in Seq(Record)
      BY <2>2, ByAgeIs, ByAgeTyped
    <3> QED BY <1>1, <2>1, <3>1, EndsIsSuffix DEF Kept, Rolling
  <2>5. Troubles = 0 =>
          ByAge = Log("rolling") \/ \A b \in Backups : backup[b] # NoFile
    BY <1>1 DEF Kept, Rolling
  <2>6. Bounded(file) /\ \A b \in Backups : Bounded(backup[b])
    BY <1>1, <2>2, SizesAre, BoundedIs DEF Kept, Sized
  <2>7. Log("rolling") = Contents(logged.rolling)
    BY DEF Log
  <2> QED BY <2>3, <2>4, <2>5, <2>6, <2>7 DEF RollingKeeps
<1> QED
  BY <1>1, FilesKept, PTL

(* While the days come in their order, nothing written is lost and each    *)
(* record is filed under its day.                                          *)
THEOREM Filing == Spec => []DailyKeeps
<1>1. ASSUME IInv, Kept
      PROVE  DailyKeeps
  <2> SUFFICES ASSUME in_order
               PROVE  /\ Contents(logged.daily) = FlattenSeq(directory) \o day_file
                      /\ \A d \in Days : \A m \in ToSet(directory[d]) :
                           m.day <= d /\ (Troubles = 0 => m.day = d)
    BY DEF DailyKeeps
  <2>1. /\ Log("daily") = Join(FlattenSeq(directory), day_file)
        /\ \A d \in Days : \A m \in ToSet(directory[d]) :
             m.day <= d /\ (Troubles = 0 => m.day = d)
    BY <1>1 DEF Kept, Filed
  <2>2. Log("daily") = Contents(logged.daily)
    BY DEF Log
  <2> QED BY <2>1, <2>2 DEF Join
<1> QED
  BY <1>1, FilesKept, PTL

-----------------------------------------------------------------------------
(***************************************************************************)
(* Type correctness: what TypeOK says beyond IInv and Kept.                *)
(***************************************************************************)
(* The bound never keeps a thread from writing the record it has.          *)
RoomOK ==
  /\ IsFiniteSet(Underway) /\ sent + Cardinality(Underway) <= MaxSent
  /\ sent - released <= RingSize

MessagesOK ==
  /\ \A w \in Writers : pending[w] \in Messages \union {Nothing}
  /\ \A n \in 1 .. sent : records[n] \in Messages

TroublesOK == Troubles <= MaxTroubles /\ kills \in 0 .. stops

DaysOK == {day, latest} \subseteq Days \union {0} /\ in_order \in BOOLEAN

Typed == RoomOK /\ MessagesOK /\ TroublesOK /\ DaysOK

LEMMA TypedFirst == Init => Typed
<1> SUFFICES ASSUME Init
             PROVE  Typed
  OBVIOUS
<1>1. /\ pending = [w \in Writers |-> Nothing] /\ sent = 0 /\ released = 0
      /\ stops = 0 /\ faults = 0 /\ kills = 0
      /\ day = 0 /\ latest = 0 /\ in_order = TRUE
  BY DEF Init, Ring!Init, DailyInit
<1>2. Underway = {}
  BY <1>1 DEF Underway
<1>3. RoomOK
  BY <1>1, <1>2, FS_EmptySet, TlogdAssumption DEF RoomOK
<1>4. MessagesOK
  BY <1>1 DEF MessagesOK
<1>5. TroublesOK
  BY <1>1, TlogdAssumption DEF TroublesOK, Troubles
<1> QED
  BY <1>1, <1>3, <1>4, <1>5 DEF Typed, DaysOK

(* A thread that makes a record is one more underway, one that writes it   *)
(* or throws it away one less.                                             *)
LEMMA UnderwayGrows ==
  ASSUME NEW w \in Writers, NEW m, pending \in [Writers -> Record],
         IsFiniteSet(Underway), pending' = [pending EXCEPT ![w] = m]
  PROVE  /\ IsFiniteSet(Underway')
         /\ Cardinality(Underway') <= Cardinality(Underway) + 1
<1>1. Underway' \in SUBSET (Underway \union {w})
  BY DEF Underway
<1>2. /\ IsFiniteSet(Underway \union {w})
      /\ Cardinality(Underway \union {w}) <= Cardinality(Underway) + 1
  <2>1. Cardinality(Underway) \in Nat
    BY FS_CardinalityType
  <2>2. /\ IsFiniteSet(Underway \union {w})
        /\ Cardinality(Underway \union {w}) =
             IF w \in Underway THEN Cardinality(Underway)
                               ELSE Cardinality(Underway) + 1
    BY FS_AddElement
  <2> QED BY <2>1, <2>2
<1>3. /\ IsFiniteSet(Underway')
      /\ Cardinality(Underway') <= Cardinality(Underway \union {w})
  BY <1>1, <1>2, FS_Subset
<1>4. /\ Cardinality(Underway') \in Nat /\ Cardinality(Underway) \in Nat
      /\ Cardinality(Underway \union {w}) \in Nat
  BY <1>2, <1>3, FS_CardinalityType
<1> QED
  BY <1>2, <1>3, <1>4

LEMMA UnderwayShrinks ==
  ASSUME NEW w \in Writers, pending \in [Writers -> Record], pending[w] # Nothing,
         IsFiniteSet(Underway), pending' = [pending EXCEPT ![w] = Nothing]
  PROVE  /\ IsFiniteSet(Underway')
         /\ Cardinality(Underway') = Cardinality(Underway) - 1
<1>1. Underway' = Underway \ {w} /\ w \in Underway
  BY DEF Underway
<1> QED
  BY <1>1, FS_RemoveElement

(* The steps of a thread.                                                  *)
LEMMA ApplicationTyped ==
  ASSUME IInv, Kept, RoomOK, MessagesOK, Application
  PROVE  RoomOK' /\ MessagesOK'
<1> PICK w \in Writers : MakeMessage(w) \/ WriteThrows(w) \/ Write(w)
  BY DEF Application
<1>1. /\ pending \in [Writers -> Record] /\ records \in Seq(Record)
      /\ Len(records) = sent /\ sent \in Nat /\ released \in Nat
      /\ Cardinality(Underway) \in Nat /\ {MaxSent, RingSize} \subseteq Nat
      /\ IsFiniteSet(Underway) /\ sent + Cardinality(Underway) <= MaxSent
      /\ sent - released <= RingSize
  BY TlogdAssumption, FS_CardinalityType DEF IInv, RecordsOK, CountersOK, RoomOK
<1>2. \A n \in 1 .. sent : records[n] \in Messages
  BY DEF MessagesOK
<1>3. CASE MakeMessage(w)
  <2>1. PICK k \in Kinds :
          pending' = [pending EXCEPT
                        ![w] = [len |-> k.len, level |-> k.level, day |-> today]]
    BY <1>3 DEF MakeMessage
  <2>2. /\ UNCHANGED <<sent, released, records>>
        /\ sent + Cardinality(Underway) < MaxSent
    BY <1>3 DEF MakeMessage, ring
  <2>3. [len |-> k.len, level |-> k.level, day |-> today] \in Messages
    BY DEF Messages, Kept, Known
  <2>4. MessagesOK'
    BY <1>1, <2>1, <2>2, <2>3 DEF MessagesOK
  <2>5. /\ IsFiniteSet(Underway')
        /\ Cardinality(Underway') <= Cardinality(Underway) + 1
        /\ Cardinality(Underway') \in Nat
    BY <1>1, <2>1, UnderwayGrows, FS_CardinalityType
  <2> QED BY <1>1, <2>2, <2>4, <2>5 DEF RoomOK
<1>4. CASE WriteThrows(w)
  <2>1. /\ UNCHANGED <<sent, released, records>> /\ pending[w] # Nothing
        /\ pending' = [pending EXCEPT ![w] = Nothing]
    BY <1>4 DEF WriteThrows, ring
  <2>2. /\ IsFiniteSet(Underway')
        /\ Cardinality(Underway') = Cardinality(Underway) - 1
    BY <1>1, <2>1, UnderwayShrinks
  <2>3. MessagesOK'
    BY <1>1, <2>1 DEF MessagesOK
  <2> QED BY <1>1, <2>1, <2>2, <2>3 DEF RoomOK
<1>5. CASE Write(w)
  <2>1. /\ sent' = sent + 1 /\ released' = released /\ sent - released < RingSize
        /\ pending[w] # Nothing /\ records' = Append(records, pending[w])
        /\ pending' = [pending EXCEPT ![w] = Nothing]
    BY <1>5 DEF Write, Ring!Send
  <2>2. /\ IsFiniteSet(Underway')
        /\ Cardinality(Underway') = Cardinality(Underway) - 1
    BY <1>1, <2>1, UnderwayShrinks
  <2>3. RoomOK'
    BY <1>1, <2>1, <2>2 DEF RoomOK
  <2>4. \A n \in 1 .. sent + 1 : records'[n] \in Messages
    <3> SUFFICES ASSUME NEW n \in 1 .. sent + 1
                 PROVE  records'[n] \in Messages
      OBVIOUS
    <3>1. pending[w] \in Messages /\ pending[w] \in Record
      BY <1>1, <2>1 DEF MessagesOK
    <3>2. CASE n = sent + 1
      <4>1. records'[n] = pending[w]
        BY <1>1, <2>1, <3>1, <3>2
      <4> QED BY <3>1, <4>1
    <3>3. CASE n # sent + 1
      <4>1. n \in 1 .. sent /\ records'[n] = records[n]
        BY <1>1, <2>1, <3>1, <3>3
      <4> QED BY <1>2, <4>1
    <3> QED BY <3>2, <3>3
  <2>5. \A v \in Writers : pending'[v] \in Messages \union {Nothing}
    BY <1>1, <2>1 DEF MessagesOK
  <2> QED BY <2>1, <2>3, <2>4, <2>5 DEF MessagesOK
<1> QED
  BY <1>3, <1>4, <1>5

(* The other steps give back packets and write none.                       *)
LEMMA OthersTyped ==
  ASSUME IInv, RoomOK, MessagesOK, [Next]_vars, ~Application
  PROVE  RoomOK' /\ MessagesOK'
<1>1. UNCHANGED <<pending, sent, records>>
  BY DEF Next, Daemon, Tomorrow, Start, WouldBlock, ReadBegin, OnRecv, ReadEnd,
     AppendRolling, AppendDaily, Stop, Kill, KillInAppender, Dies, Ring!Deliver,
     Ring!Release, Ring!ReceiverCrash, vars, ring
<1>2. released' = released \/ released' = released + delivering
  BY DEF Next, Daemon, Tomorrow, Start, WouldBlock, ReadBegin, OnRecv, ReadEnd,
     AppendRolling, AppendDaily, Stop, Kill, KillInAppender, Dies, Ring!Deliver,
     Ring!Release, Ring!ReceiverCrash, vars, ring
<1>3. /\ sent \in Nat /\ released \in Nat /\ delivering \in Nat /\ RingSize \in Nat
  BY TlogdAssumption DEF IInv, CountersOK
<1>4. Underway' = Underway
  BY <1>1 DEF Underway
<1> QED
  BY <1>1, <1>2, <1>3, <1>4 DEF RoomOK, MessagesOK

(* A trouble more is possible only below the bound.                        *)
LEMMA TroublesTyped ==
  ASSUME IInv, Kept, TroublesOK, [Next]_vars
  PROVE  TroublesOK'
<1>1. stops \in Nat /\ faults \in Nat /\ kills \in Nat /\ MaxTroubles \in Nat
  BY TlogdAssumption DEF IInv, CountersOK, Kept, FilesTypeOK
<1>2. \/ UNCHANGED <<stops, kills, faults>>
      \/ /\ Troubles < MaxTroubles
         /\ \/ stops' = stops + 1 /\ faults' = faults
                 /\ (kills' = kills \/ kills' = kills + 1)
            \/ faults' = faults + 1 /\ UNCHANGED <<stops, kills>>
  <2>1. CASE Application \/ Tomorrow \/ Start \/ UNCHANGED vars
    BY <2>1 DEF Application, MakeMessage, WriteThrows, Write, Tomorrow, Start,
       vars, history
  <2>2. CASE WouldBlock \/ ReadBegin \/ OnRecv \/ ReadEnd
    BY <2>2 DEF WouldBlock, ReadBegin, OnRecv, ReadEnd, FilesUnchanged, vars,
       history
  <2>3. CASE AppendRolling \/ AppendDaily
    BY <2>3 DEF AppendRolling, AppendDaily, Outcome, Fault
  <2>4. CASE Stop \/ Kill \/ KillInAppender
    BY <2>4 DEF Stop, Kill, KillInAppender, Dies, FilesUnchanged
  <2> QED BY <2>1, <2>2, <2>3, <2>4 DEF Next, Daemon
<1> QED
  BY <1>1, <1>2 DEF TroublesOK, Troubles

(* A day comes from a record.                                              *)
LEMMA DaysTyped ==
  ASSUME IInv, Kept, DaysOK, [Next]_vars
  PROVE  DaysOK'
<1>1. CASE Quiet \/ Halts
  BY <1>1 DEF Quiet, Halts, daily, DaysOK
<1>2. CASE Start
  BY <1>2 DEF Start, DailyStart, history, DaysOK
<1>3. CASE AppendRolling
  BY <1>3 DEF AppendRolling, daily, DaysOK
<1>4. ASSUME pc = "daily", Meets,
             NEW renamed, NEW opened, NEW written,
             DailyLog(Current, renamed, opened, written)
      PROVE  DaysOK'
  <2>1. Current.day \in Days
    BY <1>4, CurrentIs DEF Kept
  <2>2. day' = day \/ day' = Current.day
    BY <1>4 DEF DailyLog
  <2>3. /\ latest' = latest \/ latest' = Current.day
        /\ in_order' \in BOOLEAN
    BY <1>4 DEF Meets
  <2> QED BY <2>1, <2>2, <2>3 DEF DaysOK
<1>5. CASE AppendDaily
  BY <1>4, <1>5 DEF AppendDaily
<1>6. CASE KillInAppender
  <2>1. CASE UNCHANGED <<daily, latest, in_order>>
    BY <2>1 DEF daily, DaysOK
  <2> QED BY <1>4, <1>6, <2>1 DEF KillInAppender
<1> QED
  BY <1>1, <1>2, <1>3, <1>5, <1>6, StepsAre

(* The values of all variables, within the bounds of the run.              *)
THEOREM TypeCorrect == Spec => []TypeOK
<1>1. ASSUME IInv, Kept, Typed, [Next]_vars
      PROVE  Typed'
  BY <1>1, ApplicationTyped, OthersTyped, TroublesTyped, DaysTyped DEF Typed
<1>2. ASSUME IInv, Kept, Typed
      PROVE  TypeOK
  <2>1. /\ sent \in Nat /\ released \in Nat /\ delivering \in Nat /\ batch \in Nat
        /\ delivering <= batch /\ released + batch <= sent /\ kills \in Nat
        /\ Len(records) = sent
    BY <1>2 DEF IInv, CountersOK, RecordsOK
  <2>2. Cardinality(Underway) \in Nat /\ MaxSent \in Nat /\ MaxTroubles \in Nat
    BY <1>2, TlogdAssumption, FS_CardinalityType DEF Typed, RoomOK
  <2>3. /\ sent \in 0 .. MaxSent /\ released \in 0 .. sent
        /\ sent - released <= RingSize
        /\ batch \in 0 .. (sent - released) /\ delivering \in 0 .. batch
    BY <1>2, <2>1, <2>2 DEF Typed, RoomOK
  <2>4. /\ pc \in {"down", "loop", "rolling", "daily"}
        /\ pc \in {"rolling", "daily"} => last + 1 = released + delivering
    BY <1>2 DEF IInv, InHand
  <2>5. /\ today \in Days /\ rolling_fout \in BOOLEAN /\ index \in Backups
        /\ daily_fout \in BOOLEAN /\ stops \in Nat /\ faults \in Nat
    BY <1>2 DEF Kept, Known, FilesTypeOK
  <2>6. /\ stops \in 0 .. MaxTroubles /\ kills \in 0 .. stops
        /\ faults \in 0 .. MaxTroubles
    BY <1>2, <2>2, <2>5 DEF Typed, TroublesOK, Troubles
  <2>7. /\ day \in Days \union {0} /\ latest \in Days \union {0}
        /\ in_order \in BOOLEAN
    BY <1>2 DEF Typed, DaysOK
  <2>8. /\ \A w \in Writers : pending[w] \in Messages \union {Nothing}
        /\ \A n \in 1 .. sent : records[n] \in Messages
    BY <1>2 DEF Typed, MessagesOK
  <2> QED BY <2>1, <2>3, <2>4, <2>5, <2>6, <2>7, <2>8 DEF TypeOK
<1> QED
  BY TypedFirst, <1>1, <1>2, FilesKept, PTL DEF Spec
=============================================================================
