------------------------ MODULE CameraAnalyzer_proofs ------------------------
(***************************************************************************)
(* The invariant of the camera analyzer, and that it implements Alarm,     *)
(* for every number of days and files and every duration of the block.     *)
(***************************************************************************)
EXTENDS CameraAnalyzer, Lists_proofs, FiniteSetTheorems, TLAPS

\* The initial states satisfy the invariant.
LEMMA InitCameraInv == Init => CameraInv
<1> SUFFICES ASSUME Init PROVE CameraInv
  OBVIOUS
<1>1. TypeOK
  <2>1. None.kind = "none" /\ None.level = 0
    BY DEF None
  <2>2. up \in BOOLEAN /\ built \in BOOLEAN /\ window \in {Off} \cup 0..BlockDuration
    BY Zenon DEF Init, Dead
  <2>3. theNewestDir \in 0..LastDay /\ countFiles \in Nat /\ alarmLevel \in Nat
    BY CameraAssumption DEF Init, Dead
  <2>4. /\ oldest \in 1..LastDay + 1 /\ today \in 0..LastDay
        /\ files \in [1..LastDay -> Nat]
    BY CameraAssumption DEF Init
  <2> QED
    BY <2>1, <2>2, <2>3, <2>4 DEF Init, TypeOK
<1>2. CounterBehindDisk /\ LevelOnlyWhileBlocked
  BY DEF Init, Dead, CounterBehindDisk, LevelOnlyWhileBlocked
<1>3. DiskInv
  <2>1. ~up => Dead
    BY DEF Init
  <2> QED
    BY <2>1, CameraAssumption DEF Init, DiskInv, Dead
<1> QED
  BY <1>1, <1>2, <1>3 DEF CameraInv

\* What a poll finds that can see the disk: the day it counts, and for a built
\* analyzer how many files came.
LEMMA Found ==
  ASSUME CameraInv, DiskFound
  PROVE  /\ today \in 1..LastDay /\ FilesIn(today) = files[today]
         /\ FilesIn(today) \in Nat
         /\ up /\ built => AddedFiles \in Nat
         /\ AddedFiles \in Int
BY CameraAssumption
   DEF CameraInv, TypeOK, CounterBehindDisk, DiskInv, DiskFound, FilesIn, AddedFiles,
       AtLeastZero, Dead

\* Whatever ends the process leaves it as it was before a start.
LEMMA DiesStep ==
  ASSUME CameraInv, NEW last, Dies(last),
         last.kind \in {"none", "alarm", "disk", "raised"}, last.level \in Nat
  PROVE  CameraInv'
<1>1. TypeOK'
  <2>1. up' \in BOOLEAN /\ built' \in BOOLEAN /\ window' \in {Off} \cup 0..BlockDuration
    BY Zenon DEF Dies
  <2>2. theNewestDir' \in 0..LastDay /\ countFiles' \in Nat /\ alarmLevel' \in Nat
    BY CameraAssumption DEF Dies
  <2>3. UNCHANGED <<mounted, oldest, today, files, minute>> /\ result' = last
    BY DEF Dies, disk
  <2> QED
    BY <2>1, <2>2, <2>3 DEF CameraInv, TypeOK
<1>2. CounterBehindDisk' /\ LevelOnlyWhileBlocked'
  BY DEF Dies, CounterBehindDisk, LevelOnlyWhileBlocked
<1>3. Dead' /\ window' = Off
  BY DEF Dies, Dead, Off
<1>4. DiskInv'
  BY <1>3 DEF CameraInv, DiskInv, Dies, disk, Dead
<1> QED
  BY <1>1, <1>2, <1>4 DEF CameraInv

\* Results have their types.
LEMMA Results ==
  /\ None.kind = "none" /\ None.level = 0
  /\ DiskFailed.kind = "disk" /\ DiskFailed.level = 0
  /\ \A n \in Nat : AlarmOf(n).kind = "alarm" /\ AlarmOf(n).level = n
  /\ Raised.kind = "raised" /\ Raised.level = 0
BY DEF None, DiskFailed, AlarmOf, Raised

\* A poll keeps the invariant.
LEMMA PollStep ==
  ASSUME CameraInv, NEW d \in 1..MaxLate, Poll(d)
  PROVE  CameraInv'
<1> USE CameraAssumption
<1>1. CASE DiskError(d)
  BY <1>1, Results
     DEF DiskError, Elapsed, Off, disk, CameraInv, TypeOK, CounterBehindDisk,
         LevelOnlyWhileBlocked, DiskInv, Dead
<1>2. CASE Quiet(d)
  <2>1. DiskFound /\ FilesIn(today) = files[today] /\ today \in 1..LastDay
    BY <1>2, Found DEF Quiet, Counted
  <2> QED
    BY <1>2, <2>1, Results
       DEF Quiet, Counted, disk, DiskFound, CameraInv, TypeOK, CounterBehindDisk,
           LevelOnlyWhileBlocked, DiskInv, Dead
<1>3. CASE Accumulate(d)
  <2>1. DiskFound /\ FilesIn(today) = files[today] /\ today \in 1..LastDay
    BY <1>3, Found DEF Accumulate, Counted
  <2>2. AtLeastZero(AddedFiles) \in Nat
    BY <2>1, Found DEF AtLeastZero
  <2>3. window # Off /\ window' # Off /\ window' \in 0..BlockDuration
    BY <1>3 DEF Accumulate, Blocked, Over, Elapsed, Off, CameraInv, TypeOK
  <2>4. /\ UNCHANGED <<mounted, oldest, today, files, minute, up, built>>
        /\ theNewestDir' = today /\ countFiles' = files[today]
        /\ alarmLevel' \in Nat
        /\ result'.kind = "none" /\ result'.level = 0
    BY <1>3, <2>1, <2>2, Results DEF Accumulate, Counted, disk, CameraInv, TypeOK
  <2>5. TypeOK'
    BY <2>1, <2>3, <2>4 DEF CameraInv, TypeOK
  <2>6. CounterBehindDisk' /\ LevelOnlyWhileBlocked'
    BY <2>1, <2>3, <2>4
       DEF CameraInv, TypeOK, CounterBehindDisk, LevelOnlyWhileBlocked, DiskFound, Off
  <2>7. up /\ built
    BY <1>3, <2>3 DEF Accumulate, Counted, CameraInv, DiskInv
  <2>8. DiskInv'
    BY <2>1, <2>4, <2>7 DEF CameraInv, DiskInv
  <2> QED
    BY <2>5, <2>6, <2>8 DEF CameraInv
<1>4. CASE Clear(d)
  <2>1. DiskFound /\ FilesIn(today) = files[today] /\ today \in 1..LastDay
    BY <1>4, Found DEF Clear, Counted
  <2> QED
    BY <1>4, <2>1, Results
       DEF Clear, Counted, disk, DiskFound, CameraInv, TypeOK, CounterBehindDisk,
           LevelOnlyWhileBlocked, DiskInv, Dead
<1>5. CASE Notify(d)
  <2>1. DiskFound /\ FilesIn(today) = files[today] /\ today \in 1..LastDay
    BY <1>5, Found DEF Notify, Counted
  <2>2. alarmLevel + AddedFiles \in Nat
    BY <1>5, <2>1, Found DEF Notify, Counted, CameraInv, TypeOK
  <2> QED
    BY <1>5, <2>1, <2>2, Results
       DEF Notify, Counted, disk, DiskFound, CameraInv, TypeOK, CounterBehindDisk,
           LevelOnlyWhileBlocked, DiskInv, Dead, Off
<1>6. CASE NotifyRaises(d)
  BY <1>6, DiesStep, Results DEF NotifyRaises
<1>7. CASE HalfBuiltRaises(d)
  BY <1>7, DiesStep, Results DEF HalfBuiltRaises
<1> QED
  BY <1>1, <1>2, <1>3, <1>4, <1>5, <1>6, <1>7 DEF Poll

\* What the camera and autoRemove.sh do to the disk keeps the invariant.
LEMMA EnvironmentStep ==
  ASSUME CameraInv, Environment
  PROVE  CameraInv'
<1> USE CameraAssumption
    DEF process, CameraInv, TypeOK, CounterBehindDisk, LevelOnlyWhileBlocked, DiskInv, Dead
<1>1. CASE NewDay
  BY <1>1 DEF NewDay
<1>2. CASE NewMinute
  BY <1>2 DEF NewMinute
<1>3. ASSUME NEW picture \in Pictures, Record(picture)
      PROVE  CameraInv'
  <2>1. /\ today \in 1..LastDay
        /\ files' = [files EXCEPT ![today] = @ + 1]
        /\ UNCHANGED <<mounted, oldest, today, process>>
    BY <1>3 DEF Record, DiskFound
  <2>2. /\ files' \in [1..LastDay -> Nat]
        /\ \A d \in 1..LastDay : files[d] <= files'[d]
        /\ \A d \in 1..LastDay : d # today => files'[d] = files[d]
    BY <2>1
  <2>3. TypeOK' /\ LevelOnlyWhileBlocked'
    <3>1. minute \in Seq(Pictures)
      BY <1>3 DEF Record
    <3>2. PICK i \in 1..Len(minute) + 1 : minute' = InsertAt(minute, i, picture)
      BY <1>3 DEF Record
    <3>3. /\ SubSeq(minute, 1, i - 1) \in Seq(Pictures)
          /\ SubSeq(minute, i, Len(minute)) \in Seq(Pictures)
          /\ <<picture>> \in Seq(Pictures)
      BY <3>1, LenProperties
    <3>4. minute' \in Seq(Pictures)
      BY <3>2, <3>3, ConcatProperties DEF InsertAt
    <3> QED
      BY <2>1, <2>2, <3>4
  <2>4. CounterBehindDisk'
    <3>1. CASE up /\ built
      <4>1. theNewestDir \in 1..LastDay
        BY <2>1, <3>1
      <4> QED
        BY <2>1, <2>2, <3>1, <4>1
    <3>2. CASE ~(up /\ built)
      BY <2>1, <3>2
    <3> QED
      BY <3>1, <3>2
  <2>5. DiskInv'
    BY <2>1, <2>2
  <2> QED
    BY <2>3, <2>4, <2>5
<1>4. CASE autoRemove
  BY <1>4 DEF autoRemove
<1>5. CASE Mount
  BY <1>5 DEF Mount
<1> QED
  BY <1>1, <1>2, <1>3, <1>4, <1>5 DEF Environment

\* The analyzer's counter stays behind the disk and its level is kept only
\* while notifications are blocked, over restarts, removals and midnight.
THEOREM CameraInvariance == Spec => []CameraInv
<1>1. CameraInv /\ [Next]_vars => CameraInv'
  <2> SUFFICES ASSUME CameraInv, [Next]_vars
               PROVE  CameraInv'
    OBVIOUS
  <2>1. CASE Start
    <3>1. CASE DiskFound
      BY <2>1, <3>1, Found, Results, CameraAssumption
         DEF Start, disk, DiskFound, CameraInv, TypeOK, CounterBehindDisk,
             LevelOnlyWhileBlocked, DiskInv, Off
    <3>2. CASE ~DiskFound
      <4>1. /\ UNCHANGED <<mounted, oldest, today, files, minute>>
            /\ up' = TRUE /\ built' = FALSE /\ theNewestDir' = 0 /\ countFiles' = 0
            /\ alarmLevel' = 0 /\ window' = Off
            /\ result'.kind = "none" /\ result'.level = 0
        BY <2>1, <3>2, Results DEF Start, disk
      <4>2. TypeOK'
        <5>1. /\ up' \in BOOLEAN /\ built' \in BOOLEAN
              /\ window' \in {Off} \cup 0..BlockDuration
          BY <4>1, Zenon
        <5>2. theNewestDir' \in 0..LastDay /\ countFiles' \in Nat /\ alarmLevel' \in Nat
          BY <4>1, CameraAssumption
        <5> QED
          BY <4>1, <5>1, <5>2 DEF CameraInv, TypeOK
      <4>3. CounterBehindDisk' /\ LevelOnlyWhileBlocked'
        BY <4>1 DEF CounterBehindDisk, LevelOnlyWhileBlocked
      <4>4. DiskInv'
        BY <4>1 DEF CameraInv, DiskInv, Off
      <4> QED
        BY <4>2, <4>3, <4>4 DEF CameraInv
    <3> QED
      BY <3>1, <3>2
  <2>2. CASE Killed
    BY <2>2, DiesStep, Results DEF Killed
  <2>3. CASE Polls
    BY <2>3, PollStep DEF Polls
  <2>4. CASE Environment
    BY <2>4, EnvironmentStep
  <2>5. CASE UNCHANGED vars
    BY <2>5 DEF vars, disk, process, CameraInv, TypeOK, CounterBehindDisk,
                LevelOnlyWhileBlocked, DiskInv, Dead
  <2> QED
    BY <2>1, <2>2, <2>3, <2>4, <2>5 DEF Next
<1> QED
  BY InitCameraInv, <1>1, PTL DEF Spec
-----------------------------------------------------------------------------
(* The analyzer implements Alarm.                                          *)

On == up /\ built
Fresh == IF up /\ built THEN AddedFiles ELSE 0
Left == IF window = Off THEN 0 ELSE BlockDuration - window
Told == IF up /\ built THEN result.level ELSE 0

\* An analyzer that is not on has nothing pending and blocks nothing.
LEMMA Idle ==
  ASSUME CameraInv, ~On
  PROVE  Fresh = 0 /\ alarmLevel = 0 /\ Left = 0 /\ Told = 0
BY DEF CameraInv, DiskInv, Dead, LevelOnlyWhileBlocked, On, Fresh, Left, Told

\* The files of the two days that a built analyzer counts.
LEMMA Measured ==
  ASSUME CameraInv, On
  PROVE  /\ today \in 1..LastDay /\ theNewestDir \in 1..LastDay
         /\ theNewestDir \in oldest..today /\ today \in oldest..today
         /\ theNewestDir # today => theNewestDir = today - 1
         /\ FilesIn(today) = files[today] /\ FilesIn(theNewestDir) = files[theNewestDir]
         /\ files[today] \in Nat /\ files[theNewestDir] \in Nat /\ countFiles \in Nat
         /\ countFiles <= files[theNewestDir]
         /\ Fresh = IF today = theNewestDir THEN files[today] - countFiles
                    ELSE files[theNewestDir] - countFiles + files[today]
BY CameraAssumption
   DEF CameraInv, TypeOK, CounterBehindDisk, FilesIn, AddedFiles, AtLeastZero, On, Fresh

\* What is left of the block at a poll.
LEMMA Elapses ==
  ASSUME CameraInv, NEW d \in 1..MaxLate
  PROVE  /\ (IF Elapsed(d) = Off THEN 0 ELSE BlockDuration - Elapsed(d)) = A!Rest(d)
         /\ Blocked(d) <=> A!Rest(d) > 0
BY CameraAssumption
   DEF CameraInv, TypeOK, Elapsed, Blocked, Over, Off, A!Rest

\* An analyzer that comes up is Alarm's Start if it finds its disk.
LEMMA StartRefines ==
  ASSUME CameraInv, Start
  PROVE  [A!Next]_A!vars
<1>1. ~On /\ Fresh = 0 /\ alarmLevel = 0 /\ Left = 0 /\ Told = 0
  BY Idle DEF Start, On
<1>2. up' = TRUE /\ built' = DiskFound /\ alarmLevel' = 0 /\ window' = Off /\ result'.level = 0
  BY Results DEF Start
<1>3. CASE DiskFound
  <2>1. /\ today' = today /\ oldest' = oldest /\ files' = files
        /\ theNewestDir' = today /\ countFiles' = FilesIn(today)
    BY <1>3 DEF Start, disk
  <2>2. AddedFiles' = 0
    BY <2>1, <1>3, Found DEF AddedFiles, FilesIn
  <2>3. A!Start
    BY <1>1, <1>2, <1>3, <2>2 DEF A!Start, A!Reset, On
  <2> QED
    BY <2>3 DEF A!Next
<1>4. CASE ~DiskFound
  BY <1>1, <1>2, <1>4 DEF A!vars, On, Fresh, Left, Told
<1> QED
  BY <1>3, <1>4

\* The end of an analyzer that was on is Alarm's Stop.
LEMMA DiesRefines ==
  ASSUME CameraInv, NEW last, Dies(last)
  PROVE  [A!Next]_A!vars
<1>1. ~up' /\ alarmLevel' = 0 /\ window' = Off
  BY DEF Dies
<1>2. CASE On
  <2>1. A!Stop
    BY <1>1, <1>2 DEF A!Stop, A!Reset, On
  <2> QED
    BY <2>1 DEF A!Next
<1>3. CASE ~On
  BY <1>1, <1>3, Idle DEF A!vars, On, Fresh, Left, Told
<1> QED
  BY <1>2, <1>3

\* The three outcomes of Alarm's Poll, in the terms of the analyzer.
LEMMA PollAdded ==
  ASSUME NEW d \in 1..MaxLate, On, On', Fresh' = 0, A!Rest(d) > 0, Left' = A!Rest(d),
         alarmLevel' = alarmLevel + Fresh, Told' = 0
  PROVE  [A!Next]_A!vars
<1>1. A!Poll(d)
  BY DEF A!Poll, On, Fresh, Left, Told
<1> QED
  BY <1>1 DEF A!Next

LEMMA PollTold ==
  ASSUME NEW d \in 1..MaxLate, On, On', Fresh' = 0, A!Rest(d) = 0, Left' = BlockDuration,
         alarmLevel + Fresh >= MinNewFiles, alarmLevel' = 0, Told' = alarmLevel + Fresh
  PROVE  [A!Next]_A!vars
<1>1. A!Poll(d)
  BY DEF A!Poll, On, Fresh, Left, Told
<1> QED
  BY <1>1 DEF A!Next

LEMMA PollDropped ==
  ASSUME NEW d \in 1..MaxLate, On, On', Fresh' = 0, A!Rest(d) = 0, Left' = 0,
         alarmLevel + Fresh < MinNewFiles, alarmLevel' = 0, Told' = 0
  PROVE  [A!Next]_A!vars
<1>1. A!Poll(d)
  BY DEF A!Poll, On, Fresh, Left, Told
<1> QED
  BY <1>1 DEF A!Next

\* A poll is Alarm's Poll, or Blind when the disk is gone.
LEMMA PollRefines ==
  ASSUME CameraInv, NEW d \in 1..MaxLate, Poll(d)
  PROVE  [A!Next]_A!vars
<1>1. CASE DiskError(d)
  <2>1. /\ UNCHANGED <<disk, up, built, theNewestDir, countFiles, alarmLevel>>
        /\ window' = Elapsed(d) /\ result'.level = 0
    BY <1>1, Results DEF DiskError
  <2>2. CASE On
    <3>1. AddedFiles' = AddedFiles
      BY <2>1 DEF disk, AddedFiles, FilesIn
    <3>2. A!Blind(d)
      BY <2>1, <2>2, <3>1, Elapses DEF A!Blind, On
    <3> QED
      BY <3>2 DEF A!Next
  <2>3. CASE ~On
    <3>1. window = Off /\ window' = Off
      BY <2>1, <2>3 DEF CameraInv, DiskInv, Dead, Elapsed, On
    <3> QED
      BY <2>1, <2>3, <3>1 DEF A!vars, On
  <2> QED
    BY <2>2, <2>3
<1>2. ASSUME DiskFound, Counted
      PROVE  up' = up /\ built' = built /\ AddedFiles' = 0
  BY <1>2, Found DEF Counted, disk, AddedFiles, FilesIn
<1>3. CASE Quiet(d)
  <2>1. /\ up' = up /\ built' = built /\ AddedFiles' = 0
        /\ UNCHANGED <<alarmLevel, window>> /\ result'.level = 0
    BY <1>3, <1>2, Results DEF Quiet, Counted
  <2>2. window = Off /\ ~Reaches(AddedFiles)
    BY <1>3, CameraAssumption
       DEF Quiet, Calculates, Blocked, Over, Elapsed, Off, CameraInv, TypeOK
  <2>3. CASE On
    <3>1. alarmLevel = 0 /\ alarmLevel' = 0 /\ window' = Off
      BY <2>1, <2>2 DEF CameraInv, LevelOnlyWhileBlocked
    <3>2. AddedFiles \in Nat /\ AddedFiles < MinNewFiles
      BY <1>3, <2>2, <2>3, Found, CameraAssumption DEF Quiet, Counted, On, Reaches
    <3>3. A!Rest(d) = 0
      BY <2>2, CameraAssumption DEF A!Rest
    <3>4. On' /\ Fresh' = 0 /\ Left' = 0 /\ Told' = 0 /\ Fresh = AddedFiles
      BY <2>1, <2>3, <3>1 DEF Left, On, Fresh, Told
    <3> QED
      BY <2>3, <3>1, <3>2, <3>3, <3>4, PollDropped, CameraAssumption
  <2>4. CASE ~On
    BY <2>1, <2>4, Idle DEF A!vars, On, Fresh, Left, Told
  <2> QED
    BY <2>3, <2>4
<1>4. CASE Accumulate(d)
  <2>1. /\ up' = up /\ built' = built /\ AddedFiles' = 0 /\ result'.level = 0
        /\ window' = Elapsed(d)
    BY <1>4, <1>2, Results DEF Accumulate, Counted
  <2>2. On
    BY <1>4 DEF Accumulate, Blocked, Elapsed, Counted, CameraInv, DiskInv, On
  <2>3. alarmLevel' = alarmLevel + Fresh
    BY <1>4, <2>2, Found DEF Accumulate, Counted, AtLeastZero, On, Fresh
  <2>4. Left' = A!Rest(d) /\ A!Rest(d) > 0
    BY <1>4, <2>1, Elapses DEF Accumulate, Left
  <2> QED
    BY <2>1, <2>2, <2>3, <2>4, PollAdded DEF Left, On, Fresh, Told
<1>5. ASSUME Calculates(d)
      PROVE  A!Rest(d) = 0
  BY <1>5, Elapses, CameraAssumption DEF Calculates, A!Rest, CameraInv, TypeOK, Off
<1>6. CASE Clear(d)
  <2>1. /\ up' = up /\ built' = built /\ AddedFiles' = 0 /\ result'.level = 0
        /\ window' = Off /\ alarmLevel' = 0
    BY <1>6, <1>2, Results DEF Clear, Counted
  <2>2. On /\ A!Rest(d) = 0
    BY <1>6, <1>5 DEF Clear, Counted, On
  <2>3. alarmLevel + Fresh < MinNewFiles
    BY <1>6, <2>2, Found, CameraAssumption
       DEF Clear, Counted, On, Fresh, Reaches, CameraInv, TypeOK
  <2> QED
    BY <2>1, <2>2, <2>3, PollDropped DEF Left, On, Fresh, Told
<1>7. CASE Notify(d)
  <2>1. On /\ A!Rest(d) = 0
    BY <1>7, <1>5 DEF Notify, Counted, On
  <2>2. alarmLevel + AddedFiles \in Nat /\ Fresh = AddedFiles
    BY <1>7, <2>1, Found DEF Notify, Counted, On, Fresh, CameraInv, TypeOK
  <2>3. /\ up' = up /\ built' = built /\ AddedFiles' = 0 /\ result'.level = alarmLevel + Fresh
        /\ window' = 0 /\ alarmLevel' = 0
    BY <1>7, <1>2, <2>2, Results DEF Notify, Counted
  <2>4. alarmLevel + Fresh >= MinNewFiles
    BY <1>7, <2>2 DEF Notify, Reaches
  <2>5. Left' = BlockDuration
    BY <2>3, CameraAssumption DEF Left, Off
  <2> QED
    BY <2>1, <2>3, <2>4, <2>5, PollTold DEF Left, On, Fresh, Told
<1>8. CASE NotifyRaises(d)
  BY <1>8, DiesRefines DEF NotifyRaises
<1>9. CASE HalfBuiltRaises(d)
  BY <1>9, DiesRefines DEF HalfBuiltRaises
<1> QED
  BY <1>1, <1>3, <1>4, <1>6, <1>7, <1>8, <1>9 DEF Poll

\* A picture is Alarm's Record for an analyzer that is on; nothing else that
\* happens to the disk changes what came since the last poll.
LEMMA EnvironmentRefines ==
  ASSUME CameraInv, Environment
  PROVE  [A!Next]_A!vars
<1>1. UNCHANGED process
  BY DEF Environment, NewDay, NewMinute, Record, autoRemove, Mount
<1>2. On' = On /\ Left' = Left /\ Told' = Told /\ alarmLevel' = alarmLevel
  BY <1>1 DEF process, On, Left, Told
<1>3. CASE ~On
  BY <1>2, <1>3 DEF A!vars, On, Left, Fresh, Told
<1>4. ASSUME On, Fresh' = Fresh
      PROVE  [A!Next]_A!vars
  BY <1>2, <1>4 DEF A!vars, On, Left, Fresh, Told
<1>5. ASSUME On, today' = today, FilesIn(today)' = FilesIn(today),
             FilesIn(theNewestDir)' = FilesIn(theNewestDir)
      PROVE  [A!Next]_A!vars
  BY <1>1, <1>4, <1>5 DEF process, On, Fresh, AddedFiles
<1>6. CASE On /\ NewDay
  <2>1. /\ theNewestDir = today /\ today' = today + 1 /\ today' \in 1..LastDay
        /\ UNCHANGED <<oldest, files>>
    BY <1>6, Measured, CameraAssumption DEF NewDay, On
  <2>2. files[today + 1] = 0
    BY <1>6, <2>1, Measured DEF CameraInv, DiskInv
  <2>3. /\ FilesIn(today)' = 0 /\ FilesIn(theNewestDir)' = files[theNewestDir]
    BY <1>1, <1>6, <2>1, <2>2, Measured, CameraAssumption
       DEF FilesIn, process, CameraInv, TypeOK
  <2>4. Fresh' = Fresh
    BY <1>1, <1>6, <2>1, <2>3, Measured DEF process, On, Fresh, AddedFiles, AtLeastZero
  <2> QED
    BY <1>4, <1>6, <2>4
<1>7. CASE On /\ NewMinute
  BY <1>1, <1>5, <1>7 DEF NewMinute, process, FilesIn
<1>8. CASE On /\ \E picture \in Pictures : Record(picture)
  <2>1. /\ UNCHANGED <<oldest, today>>
        /\ files' = [files EXCEPT ![today] = @ + 1]
    BY <1>8 DEF Record
  <2>2. /\ FilesIn(today)' = FilesIn(today) + 1
        /\ theNewestDir # today => FilesIn(theNewestDir)' = FilesIn(theNewestDir)
    BY <1>1, <1>8, <2>1, Measured DEF process, FilesIn, CameraInv, TypeOK
  <2>3. Fresh' = Fresh + 1
    BY <1>1, <1>8, <2>1, <2>2, Measured DEF process, On, Fresh, AddedFiles, AtLeastZero
  <2>4. A!Record
    BY <1>2, <1>8, <2>3 DEF A!Record, On, Left, Fresh, Told
  <2> QED
    BY <2>4 DEF A!Next
<1>9. CASE On /\ autoRemove
  <2>1. /\ today' = today /\ oldest' = today - KeptDays + 1
        /\ today' - 1 >= oldest'
    BY <1>9, Measured, CameraAssumption DEF autoRemove
  <2>2. /\ theNewestDir \in oldest'..today /\ today \in oldest'..today
        /\ files'[today] = files[today] /\ files'[theNewestDir] = files[theNewestDir]
    BY <1>9, <2>1, Measured, CameraAssumption DEF autoRemove
  <2> QED
    BY <1>1, <1>5, <1>9, <2>1, <2>2, Measured DEF process, FilesIn
<1>10. CASE On /\ Mount
  BY <1>1, <1>5, <1>10 DEF Mount, process, FilesIn
<1> QED
  BY <1>3, <1>6, <1>7, <1>8, <1>9, <1>10 DEF Environment

\* The analyzer implements Alarm: over midnights, removals, restarts and
\* errors of the disk no picture is told twice or forgotten, and what reaches
\* MinNewFiles is told as soon as no block is left.
THEOREM AlarmImplemented == Spec => AlarmPromised
<1>1. Init => A!Init
  BY DEF Init, Dead, A!Init
<1>2. CameraInv /\ [Next]_vars => [A!Next]_A!vars
  <2> SUFFICES ASSUME CameraInv, [Next]_vars
               PROVE  [A!Next]_A!vars
    OBVIOUS
  <2>1. CASE Start
    BY <2>1, StartRefines
  <2>2. CASE Killed
    BY <2>2, DiesRefines DEF Killed
  <2>3. CASE Polls
    BY <2>3, PollRefines DEF Polls
  <2>4. CASE Environment
    BY <2>4, EnvironmentRefines
  <2>5. CASE UNCHANGED vars
    BY <2>5 DEF vars, disk, process, A!vars, AddedFiles, FilesIn
  <2> QED
    BY <2>1, <2>2, <2>3, <2>4, <2>5 DEF Next
<1> QED
  BY CameraInvariance, <1>1, <1>2, PTL DEF Spec, AlarmPromised, A!Spec
-----------------------------------------------------------------------------
(* The events of a minute directory are bursts of its pictures.             *)

\* The pictures whose place is not after that of i.
NotAfter(items, i) ==
  {j \in DOMAIN items : \/ items[j].sec < items[i].sec
                        \/ items[j].sec = items[i].sec /\ j <= i}

\* q says which picture comes to which place: each once, in the order of the
\* seconds.
Sorts(q, items) ==
  /\ q \in [1..Len(items) -> 1..Len(items)]
  /\ \A k, l \in 1..Len(items) : q[k] = q[l] => k = l
  /\ \A i \in 1..Len(items) : \E k \in 1..Len(items) : q[k] = i
  /\ \A k, l \in 1..Len(items) : k <= l => items[q[k]].sec <= items[q[l]].sec
  /\ BySecond[items] = [k \in 1..Len(items) |-> items[q[k]]]

\* The seconds of pictures, and how many there are.
LEMMA PictureFacts ==
  ASSUME NEW items \in Seq(Pictures)
  PROVE  /\ Len(items) \in Nat /\ DOMAIN items = 1..Len(items)
         /\ IsFiniteSet(1..Len(items)) /\ Cardinality(1..Len(items)) = Len(items)
         /\ \A j \in 1..Len(items) : items[j] \in Pictures /\ items[j].sec \in Int
<1>1. Len(items) \in Nat /\ DOMAIN items = 1..Len(items)
  BY LenProperties
<1>2. IsFiniteSet(1..Len(items)) /\ Cardinality(1..Len(items)) = Len(items)
  <2> DEFINE n == Len(items)
  <2> HIDE DEF n
  <2>1. n \in Nat /\ 1 \in Int /\ n \in Int
    BY <1>1 DEF n
  <2>2. IsFiniteSet(1..n) /\ Cardinality(1..n) = IF 1 > n THEN 0 ELSE n - 1 + 1
    BY <2>1, FS_Interval
  <2>3. IsFiniteSet(1..n) /\ Cardinality(1..n) = n
    BY <2>1, <2>2
  <2> QED
    BY <2>3 DEF n
<1>3. ASSUME NEW j \in 1..Len(items)
      PROVE  items[j] \in Pictures /\ items[j].sec \in Int
  <2>1. items[j] \in Pictures
    BY <1>1
  <2> QED
    BY <2>1, DetectAssumption
<1> QED
  BY <1>1, <1>2, <1>3

\* Later pictures have more pictures that are not after them.
LEMMA PlacesDiffer ==
  ASSUME NEW items \in Seq(Pictures), NEW i \in 1..Len(items), NEW k \in 1..Len(items),
         i # k, k \notin NotAfter(items, i)
  PROVE  Cardinality(NotAfter(items, i)) < Cardinality(NotAfter(items, k))
<1>1. /\ IsFiniteSet(1..Len(items))
      /\ \A j \in 1..Len(items) : items[j] \in Pictures /\ items[j].sec \in Int
  BY PictureFacts
<1>2. NotAfter(items, i) \subseteq 1..Len(items) /\ NotAfter(items, k) \subseteq 1..Len(items)
  BY LenProperties DEF NotAfter
<1>3. NotAfter(items, i) \subseteq NotAfter(items, k)
  BY <1>1, LenProperties DEF NotAfter
<1>4. k \in NotAfter(items, k)
  BY <1>1, LenProperties DEF NotAfter
<1>5. IsFiniteSet(NotAfter(items, k))
  BY <1>1, <1>2, FS_Subset
<1>6. /\ IsFiniteSet(NotAfter(items, i))
      /\ Cardinality(NotAfter(items, i)) <= Cardinality(NotAfter(items, k))
      /\ Cardinality(NotAfter(items, i)) # Cardinality(NotAfter(items, k))
  BY <1>3, <1>4, <1>5, FS_Subset
<1>7. Cardinality(NotAfter(items, i)) \in Nat /\ Cardinality(NotAfter(items, k)) \in Nat
  BY <1>5, <1>6, FS_CardinalityType
<1> QED
  BY <1>6, <1>7

\* BySecond sorts.
LEMMA BySecondSorts ==
  ASSUME NEW items \in Seq(Pictures)
  PROVE  \E q : Sorts(q, items)
<1> DEFINE n == Len(items)
           Place(i) == Cardinality(NotAfter(items, i))
           place == [i \in 1..n |-> Place(i)]
<1>1. n \in Nat /\ DOMAIN items = 1..n /\ IsFiniteSet(1..n) /\ Cardinality(1..n) = n
      /\ \A j \in 1..n : items[j] \in Pictures /\ items[j].sec \in Int
  BY PictureFacts
<1>2. ASSUME NEW i \in 1..n
      PROVE  Place(i) \in 1..n
  <2>1. NotAfter(items, i) \subseteq 1..n /\ i \in NotAfter(items, i)
    BY <1>1 DEF NotAfter
  <2>2. IsFiniteSet(NotAfter(items, i)) /\ Place(i) <= n
    BY <1>1, <2>1, FS_Subset
  <2>3. Place(i) # 0 /\ Place(i) \in Nat
    BY <2>1, <2>2, FS_EmptySet, FS_CardinalityType
  <2> HIDE DEF Place
  <2> QED
    BY <1>1, <2>2, <2>3
<1>3. ASSUME NEW i \in 1..n, NEW k \in 1..n, Place(i) = Place(k)
      PROVE  i = k
  <2>1. i # k => k \notin NotAfter(items, i) \/ i \notin NotAfter(items, k)
    BY <1>1 DEF NotAfter
  <2>2. Place(i) \in 1..n /\ Place(k) \in 1..n
    BY <1>2
  <2>3. ~(Place(i) < Place(k)) /\ ~(Place(k) < Place(i))
    BY <1>3, <2>2
  <2> QED
    BY <2>1, <2>3, PlacesDiffer
<1>4. place \in Injection(1..n, 1..n)
  <2> HIDE DEF Place
  <2>1. place \in [1..n -> 1..n]
    BY <1>2
  <2>2. \A i, k \in 1..n : place[i] = place[k] => i = k
    BY <1>3
  <2> HIDE DEF place
  <2> QED
    BY <2>1, <2>2 DEF Injection, IsInjective
<1>5. place \in Surjection(1..n, 1..n)
  <2> HIDE DEF place
  <2> QED
    BY <1>1, <1>4, FS_Injection
<1>6. \A k \in 1..n : \E i \in 1..n : Place(i) = k
  <2>1. \A k \in 1..n : \E i \in 1..n : place[i] = k
    <3> HIDE DEF place
    <3> QED
      BY <1>5 DEF Surjection
  <2> QED
    BY <2>1
<1> DEFINE q == [k \in 1..n |-> CHOOSE i \in 1..n : Place(i) = k]
<1> HIDE DEF place
<1>7. ASSUME NEW k \in 1..n
      PROVE  q[k] \in 1..n /\ Place(q[k]) = k
  <2> HIDE DEF Place
  <2> QED
    BY <1>6
<1>8. BySecond[items] = [k \in 1..n |-> items[q[k]]]
  BY <1>1 DEF BySecond, NotAfter
<1>9. q \in [1..n -> 1..n]
  <2>1. \A k \in 1..n : (CHOOSE i \in 1..n : Place(i) = k) \in 1..n
    BY <1>7
  <2> HIDE DEF Place
  <2> QED
    BY <2>1
<1> HIDE DEF q
<1>10. ASSUME NEW k \in 1..n, NEW l \in 1..n, k <= l
       PROVE  items[q[k]].sec <= items[q[l]].sec
  <2>1. q[k] \in 1..n /\ q[l] \in 1..n /\ Place(q[k]) = k /\ Place(q[l]) = l
    BY <1>7
  <2>2. /\ items[q[k]].sec \in Int /\ items[q[l]].sec \in Int
    BY <1>1, <2>1
  <2>3. SUFFICES ASSUME items[q[l]].sec < items[q[k]].sec
                 PROVE  FALSE
    BY <2>2
  <2>4. q[k] \notin NotAfter(items, q[l]) /\ q[k] # q[l]
    BY <1>1, <2>1, <2>2, <2>3 DEF NotAfter
  <2>5. Place(q[l]) < Place(q[k])
    BY <2>1, <2>4, PlacesDiffer
  <2> HIDE DEF Place
  <2> QED
    BY <1>10, <2>1, <2>5
<1>11. \A k, l \in 1..n : q[k] = q[l] => k = l
  <2> HIDE DEF Place
  <2> QED
    BY <1>7
<1>12. \A i \in 1..n : \E k \in 1..n : q[k] = i
  <2> SUFFICES ASSUME NEW i \in 1..n
               PROVE  \E k \in 1..n : q[k] = i
    OBVIOUS
  <2>1. Place(i) \in 1..n
    BY <1>2
  <2>2. Place(q[Place(i)]) = Place(i) /\ q[Place(i)] \in 1..n
    BY <1>7, <2>1
  <2>3. q[Place(i)] = i
    BY <1>3, <2>2
  <2> HIDE DEF Place
  <2> QED
    BY <2>1, <2>3
<1>13. Sorts(q, items)
  BY <1>8, <1>9, <1>10, <1>11, <1>12 DEF Sorts
<1> QED
  BY <1>13

\* g[i] is what the loop has made of the first i pictures.
GroupedUpTo(g, items, V) ==
  /\ g \in [0..Len(items) -> V]
  /\ g[0] = [events |-> <<>>, current |-> <<>>]
  /\ \A i \in 1..Len(items) :
       g[i] = IF i # 1 /\ Starts(items, i)
              THEN [events |-> Append(g[i - 1].events, g[i - 1].current),
                    current |-> <<items[i]>>]
              ELSE [g[i - 1] EXCEPT !.current = Append(@, items[i])]
  /\ Grouped[items] = g[Len(items)]

Groups == [events : Seq(Seq(Pictures)), current : Seq(Pictures)]

\* The loop defines such a function.
LEMMA GroupedBuilt ==
  ASSUME NEW items \in Seq(Pictures)
  PROVE  \E g : GroupedUpTo(g, items, Groups)
<1> DEFINE n == Len(items)
           V == Groups
           base == [events |-> <<>>, current |-> <<>>]
           Ends(i, x) == [events |-> Append(x.events, x.current), current |-> <<items[i]>>]
           Goes(i, x) == [x EXCEPT !.current = Append(@, items[i])]
           Extend(i, x) == IF i # 1 /\ Starts(items, i) THEN Ends(i, x) ELSE Goes(i, x)
           Step(g, i) == IF i = 0 THEN base
                         ELSE IF i # 1 /\ Starts(items, i)
                              THEN [events |-> Append(g[i - 1].events, g[i - 1].current),
                                    current |-> <<items[i]>>]
                              ELSE [g[i - 1] EXCEPT !.current = Append(@, items[i])]
           F == CHOOSE f : f = [i \in 0..n |-> Step(f, i)]
<1>4. Grouped[items] = F[n]
  BY DEF Grouped
<1>1. n \in Nat /\ \A i \in 1..n : items[i] \in Pictures
  BY PictureFacts
<1>2. base \in V /\ 0 \in 0..n
  BY <1>1 DEF Groups
<1>3. ASSUME NEW i \in 1..n, NEW x \in V
      PROVE  Extend(i, x) \in V
  <2>1. x.events \in Seq(Seq(Pictures)) /\ x.current \in Seq(Pictures) /\ items[i] \in Pictures
    BY <1>1 DEF Groups
  <2>2. Ends(i, x) \in V
    BY <2>1 DEF Groups
  <2>3. Goes(i, x) \in V
    <3>1. Append(x.current, items[i]) \in Seq(Pictures)
      BY <2>1
    <3> QED
      BY <3>1 DEF Groups
  <2> HIDE DEF Ends, Goes
  <2> QED
    BY <2>2, <2>3
<1>5. \E g : g = [i \in 0..n |-> Step(g, i)]
  <2> DEFINE step == [p \in (1..n) \X V |-> Extend(p[1], p[2])]
  <2>1. step \in [(1..n) \X V -> V]
    <3> HIDE DEF Extend, V
    <3> QED
      BY <1>3
  <2>2. PICK g \in [0..n -> V] : g[0] = base /\ \A i \in 1..n : g[i] = step[<<i, g[i - 1]>>]
    <3> HIDE DEF step, V, n, base
    <3>1. \E g : Unrolls(g, n, V, base, step)
      BY <1>1, <1>2, <2>1, Recursion, Zenon
    <3> QED
      BY <3>1 DEF Unrolls
  <2>3. ASSUME NEW i \in 0..n
        PROVE  g[i] = Step(g, i)
    <3>1. CASE i = 0
      <4> HIDE DEF base
      <4> QED
        BY <2>2, <3>1
    <3>2. CASE i # 0
      <4>1. i \in 1..n /\ i - 1 \in 0..n
        BY <1>1, <3>2
      <4>2. g[i - 1] \in V
        BY <2>2, <4>1
      <4>3. step[<<i, g[i - 1]>>] = Extend(i, g[i - 1])
        <5> HIDE DEF Extend, V
        <5> QED
          BY <4>1, <4>2
      <4>4. g[i] = Extend(i, g[i - 1])
        <5> HIDE DEF step, Extend
        <5> QED
          BY <2>2, <4>1, <4>3
      <4>5. Extend(i, g[i - 1]) = Step(g, i)
        BY <3>2
      <4> QED
        BY <4>4, <4>5
    <3> QED
      BY <3>1, <3>2
  <2>4. g = [i \in 0..n |-> Step(g, i)]
    <3> HIDE DEF Step
    <3> QED
      BY <2>2, <2>3
  <2> QED
    BY <2>4
<1>6. F = [i \in 0..n |-> Step(F, i)]
  BY <1>5
<1> HIDE DEF F
<1>7. ASSUME NEW i \in 0..n
      PROVE  F[i] = Step(F, i)
  <2> HIDE DEF Step
  <2>1. [j \in 0..n |-> Step(F, j)][i] = Step(F, i)
    OBVIOUS
  <2> QED
    BY <1>6, <2>1
<1>8. F[0] = base
  BY <1>2, <1>7
<1>9. ASSUME NEW i \in 1..n
      PROVE  F[i] = Extend(i, F[i - 1])
  <2>1. i \in 0..n /\ i # 0
    BY <1>1
  <2>2. F[i] = Step(F, i)
    BY <1>7, <2>1
  <2> QED
    BY <2>1, <2>2
<1>10. 0..n \subseteq {i \in 0..n : F[i] \in V}
  <2> DEFINE Q == {i \in 0..n : F[i] \in V}
  <2>1. 0 \in Q
    BY <1>2, <1>8
  <2>2. ASSUME NEW i \in 1..n, i - 1 \in Q
        PROVE  i \in Q
    <3>1. F[i - 1] \in V /\ i \in 0..n
      BY <1>1, <2>2
    <3> HIDE DEF Extend, V
    <3> QED
      BY <1>3, <1>9, <3>1
  <2> HIDE DEF Q
  <2>3. 0..n \subseteq Q
    BY <1>1, <2>1, <2>2, UpTo
  <2> QED
    BY <2>3 DEF Q
<1>11. F \in [0..n -> V]
  <2> HIDE DEF Step, V
  <2> QED
    BY <1>6, <1>10
<1> QED
  BY <1>4, <1>8, <1>9, <1>11 DEF GroupedUpTo

\* A burst of pictures.
Burst(e) == /\ e # <<>>
            /\ \A j \in 2..Len(e) : e[j].sec - e[j - 1].sec \in 0..GapSeconds

\* Bursts with gaps between them.
Bursts(es) ==
  /\ \A k \in 1..Len(es) : Burst(es[k])
  /\ \A k \in 2..Len(es) : Head(es[k]).sec - Last(es[k - 1]).sec > GapSeconds

\* The last picture of an event.
LEMMA LastPicture ==
  ASSUME NEW e \in Seq(Pictures), e # <<>>
  PROVE  Last(e) = e[Len(e)] /\ Len(e) \in Nat \ {0} /\ Head(e) = e[1]
<1>1. Len(e) \in Nat /\ Len(e) # 0
  BY EmptySeq, LenProperties
<1> QED
  BY <1>1 DEF Last

\* One more picture of a burst.
LEMMA BurstMore ==
  ASSUME NEW e \in Seq(Pictures), Burst(e), NEW p \in Pictures,
         p.sec - Last(e).sec \in 0..GapSeconds
  PROVE  Burst(Append(e, p)) /\ Head(Append(e, p)) = Head(e) /\ Last(Append(e, p)) = p
<1> DEFINE n == Len(e)
           longer == Append(e, p)
<1>1. n \in Nat \ {0} /\ Last(e) = e[n] /\ Head(e) = e[1]
  BY LastPicture DEF Burst
<1>2. /\ longer \in Seq(Pictures) /\ Len(longer) = n + 1 /\ longer[n + 1] = p
      /\ \A i \in 1..n : longer[i] = e[i]
  BY AppendProperties
<1> HIDE DEF longer
<1>3. longer # <<>>
  BY <1>1, <1>2, EmptySeq
<1>4. ASSUME NEW j \in 2..n + 1
      PROVE  longer[j].sec - longer[j - 1].sec \in 0..GapSeconds
  <2>1. CASE j = n + 1
    <3>1. j - 1 \in 1..n /\ j - 1 = n
      BY <1>1, <2>1
    <3>2. longer[j - 1] = e[n] /\ longer[j] = p
      BY <1>2, <2>1, <3>1
    <3> QED
      BY <1>1, <3>2
  <2>2. CASE j # n + 1
    <3>1. j \in 2..n /\ j \in 1..n /\ j - 1 \in 1..n
      BY <1>1, <2>2
    <3>2. longer[j] = e[j] /\ longer[j - 1] = e[j - 1]
      BY <1>2, <3>1
    <3> QED
      BY <3>1, <3>2 DEF Burst
  <2> QED
    BY <2>1, <2>2
<1>5. Last(longer) = longer[n + 1] /\ Head(longer) = longer[1]
  BY <1>2, <1>3, LastPicture
<1>6. longer[1] = e[1]
  BY <1>1, <1>2
<1> QED
  BY <1>1, <1>2, <1>3, <1>4, <1>5, <1>6 DEF Burst, longer

\* One more burst after a gap, or after none.
LEMMA BurstsMore ==
  ASSUME NEW es \in Seq(Seq(Pictures)), Bursts(es), NEW e \in Seq(Pictures), Burst(e),
         es # <<>> => Head(e).sec - Last(es[Len(es)]).sec > GapSeconds
  PROVE  Bursts(Append(es, e))
<1> DEFINE n == Len(es)
           more == Append(es, e)
<1>1. n \in Nat /\ (n # 0 => es # <<>>)
  BY LenProperties
<1>2. /\ Len(more) = n + 1 /\ more[n + 1] = e
      /\ \A i \in 1..n : more[i] = es[i]
  BY AppendProperties
<1> HIDE DEF more
<1>3. ASSUME NEW k \in 1..n + 1
      PROVE  Burst(more[k])
  <2>1. CASE k = n + 1
    BY <1>2, <2>1
  <2>2. CASE k # n + 1
    <3>1. k \in 1..n
      BY <1>1, <2>2
    <3> QED
      BY <1>2, <3>1 DEF Bursts
  <2> QED
    BY <2>1, <2>2
<1>4. ASSUME NEW k \in 2..n + 1
      PROVE  Head(more[k]).sec - Last(more[k - 1]).sec > GapSeconds
  <2>1. CASE k = n + 1
    <3>1. k - 1 = n /\ n \in 1..n
      BY <1>1, <2>1
    <3>2. more[k] = e /\ more[k - 1] = es[n]
      BY <1>2, <2>1, <3>1
    <3> QED
      BY <1>1, <3>1, <3>2
  <2>2. CASE k # n + 1
    <3>1. k \in 2..n /\ k \in 1..n /\ k - 1 \in 1..n
      BY <1>1, <2>2
    <3>2. more[k] = es[k] /\ more[k - 1] = es[k - 1]
      BY <1>2, <3>1
    <3> QED
      BY <3>1, <3>2 DEF Bursts
  <2> QED
    BY <2>1, <2>2
<1> QED
  BY <1>2, <1>3, <1>4 DEF Bursts, more

\* All bursts but the last, and that the last keeps its distance from them.
LEMMA BurstsLess ==
  ASSUME NEW es \in Seq(Seq(Pictures)), NEW e \in Seq(Pictures), Bursts(Append(es, e))
  PROVE  /\ Bursts(es) /\ Burst(e)
         /\ es # <<>> => Head(e).sec - Last(es[Len(es)]).sec > GapSeconds
<1> DEFINE n == Len(es)
           more == Append(es, e)
<1>1. n \in Nat /\ (es # <<>> => n # 0)
  BY LenProperties, EmptySeq
<1>2. /\ Len(more) = n + 1 /\ more[n + 1] = e
      /\ \A i \in 1..n : more[i] = es[i]
  BY AppendProperties
<1>3. Bursts(more)
  OBVIOUS
<1> HIDE DEF more
<1>4. \A k \in 1..n : k \in 1..n + 1 /\ more[k] = es[k]
  BY <1>1, <1>2
<1>5. \A k \in 2..n : k \in 2..n + 1 /\ k \in 1..n /\ k - 1 \in 1..n
  BY <1>1
<1>6. Bursts(es)
  BY <1>2, <1>3, <1>4, <1>5 DEF Bursts
<1>7. Burst(e)
  <2>1. n + 1 \in 1..n + 1
    BY <1>1
  <2> QED
    BY <1>2, <1>3, <2>1 DEF Bursts
<1>8. es # <<>> => Head(e).sec - Last(es[n]).sec > GapSeconds
  <2> SUFFICES ASSUME es # <<>>
               PROVE  Head(e).sec - Last(es[n]).sec > GapSeconds
    OBVIOUS
  <2>1. n + 1 \in 2..n + 1 /\ n + 1 - 1 = n /\ n \in 1..n
    BY <1>1
  <2> QED
    BY <1>2, <1>3, <2>1 DEF Bursts
<1> QED
  BY <1>6, <1>7, <1>8

\* What the loop has made of the first i pictures: they are in its events and
\* the current one, which are bursts.
GroupedSoFar(x, items, i) ==
  /\ Joined(SubSeq(items, 1, i), FlattenSeq(x.events), x.current)
  /\ IF i = 0 THEN x.events = <<>> /\ x.current = <<>>
     ELSE /\ x.current # <<>> /\ Last(x.current) = items[i]
          /\ Bursts(Append(x.events, x.current))

\* A gap ends the current event.
LEMMA EventEnds ==
  ASSUME NEW items \in Seq(Pictures), NEW i \in 1..Len(items), i # 1, Starts(items, i),
         NEW x \in Groups, GroupedSoFar(x, items, i - 1)
  PROVE  GroupedSoFar([events |-> Append(x.events, x.current), current |-> <<items[i]>>],
                      items, i)
<1> DEFINE p == items[i]
           one == <<p>>
           all == Append(x.events, x.current)
           before == SubSeq(items, 1, i - 1)
           now == SubSeq(items, 1, i)
<1>1. i \in Nat /\ i - 1 # 0 /\ i # 0 /\ p \in Pictures /\ Len(items) \in Nat
  BY PictureFacts
<1>2. x.events \in Seq(Seq(Pictures)) /\ x.current \in Seq(Pictures)
  BY DEF Groups
<1>3. /\ Joined(before, FlattenSeq(x.events), x.current)
      /\ x.current # <<>> /\ Last(x.current) = items[i - 1]
      /\ Bursts(all)
  BY <1>1 DEF GroupedSoFar
<1>4. one \in Seq(Pictures) /\ one # <<>> /\ Last(one) = p /\ Head(one) = p /\ Len(one) = 1
  BY <1>1 DEF Last
<1>5. Burst(one)
  BY <1>4 DEF Burst
<1>6. all \in Seq(Seq(Pictures)) /\ Len(all) = Len(x.events) + 1
      /\ all[Len(x.events) + 1] = x.current
  BY <1>2, AppendProperties
<1>7. Joined(now, before, one)
  <2>1. i - 1 \in 0..Len(items) /\ i \in i - 1..Len(items) /\ 0 \in 0..Len(items) /\ i - 1 \in 0..Len(items)
    BY <1>1
  <2>2. before \in Seq(Pictures)
    <3>1. \A k \in 1..i - 1 : items[k] \in Pictures
      BY <1>1, PictureFacts
    <3> QED
      BY <1>1, <3>1
  <2>3. now = Append(before, p)
    BY <1>1
  <2> HIDE DEF before, now, p
  <2>4. Append(before, p) = before \o one
    BY <1>1, <2>2, AppendIsConcat
  <2> QED
    BY <2>3, <2>4 DEF Joined
<1>8. Joined(now, FlattenSeq(all), one)
  <2>1. FlattenSeq(all) = FlattenSeq(x.events) \o x.current
    BY <1>2, FlatAppend
  <2>2. FlattenSeq(all) = before
    BY <1>3, <2>1 DEF Joined
  <2> QED
    BY <1>7, <2>2
<1>9. Head(one).sec - Last(all[Len(all)]).sec > GapSeconds
  BY <1>3, <1>4, <1>6 DEF Starts
<1> HIDE DEF all, one, now
<1>10. Bursts(Append(all, one))
  BY <1>3, <1>4, <1>5, <1>6, <1>9, BurstsMore
<1> QED
  BY <1>1, <1>4, <1>8, <1>10 DEF GroupedSoFar, now, all, one, p

\* A picture that is no gap away goes on with the current event.
LEMMA EventGoesOn ==
  ASSUME NEW items \in Seq(Pictures), NEW i \in 1..Len(items),
         i # 1 => /\ items[i - 1].sec <= items[i].sec
                  /\ ~Starts(items, i),
         NEW x \in Groups, GroupedSoFar(x, items, i - 1)
  PROVE  GroupedSoFar([x EXCEPT !.current = Append(@, items[i])], items, i)
<1> DEFINE p == items[i]
           longer == Append(x.current, p)
           y == [x EXCEPT !.current = Append(@, p)]
           before == SubSeq(items, 1, i - 1)
           now == SubSeq(items, 1, i)
<1>1. /\ i \in Nat /\ i # 0 /\ p \in Pictures /\ Len(items) \in Nat
      /\ \A k \in 1..Len(items) : items[k] \in Pictures /\ items[k].sec \in Int
  BY PictureFacts
<1>2. /\ x.events \in Seq(Seq(Pictures)) /\ x.current \in Seq(Pictures)
      /\ y.events = x.events /\ y.current = longer
  BY DEF Groups
<1>3. /\ Joined(before, FlattenSeq(x.events), x.current)
      /\ i = 1 => x.events = <<>> /\ x.current = <<>>
      /\ i # 1 => /\ x.current # <<>> /\ Last(x.current) = items[i - 1]
                  /\ Bursts(Append(x.events, x.current))
  BY <1>1 DEF GroupedSoFar
<1>4. now = Append(before, p)
  BY <1>1
<1>5. Joined(now, FlattenSeq(x.events), longer)
  <2>1. FlattenSeq(x.events) \in Seq(Pictures)
    BY <1>2, FlatType
  <2>2. ComesLast(FlattenSeq(x.events), x.current, p)
    BY <1>1, <1>2, <2>1, AppendConcat
  <2> QED
    BY <1>3, <1>4, <2>2, Zenon DEF Joined, ComesLast
<1>6. longer \in Seq(Pictures) /\ longer # <<>> /\ Last(longer) = p
      /\ Bursts(Append(x.events, longer))
  <2>1. CASE i = 1
    <3>1. longer = <<p>>
      <4>1. x.current = <<>>
        BY <1>3, <2>1
      <4> HIDE DEF p
      <4>2. Append(<<>>, p) = <<p>>
        OBVIOUS
      <4> QED
        BY <4>1, <4>2
    <3>2. longer \in Seq(Pictures) /\ longer # <<>> /\ Last(longer) = p /\ Len(longer) = 1
      BY <1>1, <3>1 DEF Last
    <3>3. Burst(longer)
      BY <3>2 DEF Burst
    <3>4. Bursts(<<>>)
      BY DEF Bursts
    <3> HIDE DEF longer
    <3>5. <<>> \in Seq(Seq(Pictures))
      OBVIOUS
    <3>6. Bursts(Append(<<>>, longer))
      BY <3>2, <3>3, <3>4, <3>5, BurstsMore
    <3> QED
      BY <1>3, <2>1, <3>2, <3>6
  <2>2. CASE i # 1
    <3>1. /\ Bursts(x.events) /\ Burst(x.current)
          /\ x.events # <<>> => Head(x.current).sec - Last(x.events[Len(x.events)]).sec > GapSeconds
      BY <1>2, <1>3, <2>2, BurstsLess
    <3>2. p.sec - Last(x.current).sec \in 0..GapSeconds
      <4>1. i - 1 \in 1..Len(items)
        BY <1>1, <2>2
      <4>2. /\ items[i - 1].sec \in Int /\ p.sec \in Int /\ items[i - 1].sec <= p.sec
            /\ ~(p.sec - items[i - 1].sec > GapSeconds) /\ GapSeconds \in Nat
        BY <1>1, <2>2, <4>1, DetectAssumption DEF Starts
      <4>3. Last(x.current) = items[i - 1]
        BY <1>3, <2>2
      <4> HIDE DEF p
      <4> QED
        BY <4>2, <4>3
    <3>3. Burst(longer) /\ Head(longer) = Head(x.current) /\ Last(longer) = p
      BY <1>1, <1>2, <3>1, <3>2, BurstMore
    <3>4. longer \in Seq(Pictures) /\ longer # <<>>
      BY <1>1, <1>2, <3>3 DEF Burst
    <3>5. Bursts(Append(x.events, longer))
      BY <1>2, <3>1, <3>3, <3>4, BurstsMore
    <3> QED
      BY <3>3, <3>4, <3>5
  <2> QED
    BY <2>1, <2>2
<1> HIDE DEF longer, y, now
<1>7. GroupedSoFar(y, items, i)
  BY <1>1, <1>2, <1>5, <1>6 DEF GroupedSoFar, now, p
<1> QED
  BY <1>7 DEF y, p

\* The events of sorted pictures: bursts that are these pictures in their order.
LEMMA EventsOfSorted ==
  ASSUME NEW items \in Seq(Pictures),
         \A i \in 2..Len(items) : items[i - 1].sec <= items[i].sec
  PROVE  LET x == Grouped[items]
             events == IF x.current = <<>> THEN x.events ELSE Append(x.events, x.current)
         IN  /\ events \in Seq(Seq(Pictures)) /\ Bursts(events)
             /\ FlattenSeq(events) = items
<1> DEFINE n == Len(items)
<1>1. PICK g : GroupedUpTo(g, items, Groups)
  BY GroupedBuilt
<1>2. n \in Nat /\ 0 \in 0..n /\ n \in 0..n
  BY PictureFacts
<1> DEFINE Q == {i \in 0..n : GroupedSoFar(g[i], items, i)}
<1>3. 0 \in Q
  <2>1. g[0] = [events |-> <<>>, current |-> <<>>]
    BY <1>1 DEF GroupedUpTo
  <2>2. g[0].events = <<>> /\ g[0].current = <<>>
    BY <2>1
  <2>3. SubSeq(items, 1, 0) = <<>>
    BY <1>2
  <2>4. Joined(SubSeq(items, 1, 0), FlattenSeq(g[0].events), g[0].current)
    <3>1. <<>> \o <<>> = <<>>
      OBVIOUS
    <3> QED
      BY <2>2, <2>3, <3>1, FlatEmpty DEF Joined
  <2>5. GroupedSoFar(g[0], items, 0)
    BY <2>2, <2>4 DEF GroupedSoFar
  <2> QED
    BY <1>2, <2>5
<1>4. ASSUME NEW i \in 1..n, i - 1 \in Q
      PROVE  i \in Q
  <2>1. i \in 0..n /\ i - 1 \in 0..n /\ i \in Nat
    BY <1>2
  <2>2. g[i - 1] \in Groups
    BY <1>1, <2>1 DEF GroupedUpTo
  <2>3. GroupedSoFar(g[i - 1], items, i - 1)
    BY <1>4
  <2>4. g[i] = IF i # 1 /\ Starts(items, i)
               THEN [events |-> Append(g[i - 1].events, g[i - 1].current),
                     current |-> <<items[i]>>]
               ELSE [g[i - 1] EXCEPT !.current = Append(@, items[i])]
    BY <1>1 DEF GroupedUpTo
  <2>5. CASE i # 1 /\ Starts(items, i)
    BY <2>1, <2>2, <2>3, <2>4, <2>5, EventEnds
  <2>6. CASE ~(i # 1 /\ Starts(items, i))
    <3>1. i # 1 => items[i - 1].sec <= items[i].sec /\ ~Starts(items, i)
      BY <1>2, <2>6
    <3>2. GroupedSoFar([g[i - 1] EXCEPT !.current = Append(@, items[i])], items, i)
      BY <2>2, <2>3, <3>1, EventGoesOn
    <3> QED
      BY <2>1, <2>4, <2>6, <3>2
  <2> QED
    BY <2>5, <2>6
<1> HIDE DEF Q
<1>5. 0..n \subseteq Q
  BY <1>2, <1>3, <1>4, UpTo
<1>6. GroupedSoFar(g[n], items, n)
  BY <1>2, <1>5 DEF Q
<1>7. PICK x \in Groups : x = Grouped[items] /\ GroupedSoFar(x, items, n)
  BY <1>1, <1>2, <1>6 DEF GroupedUpTo
<1>8. x.events \in Seq(Seq(Pictures)) /\ x.current \in Seq(Pictures)
  BY DEF Groups
<1>9. SubSeq(items, 1, n) = items
  BY <1>2
<1>10. CASE n = 0
  <2>1. x.events = <<>> /\ x.current = <<>>
    BY <1>7, <1>10 DEF GroupedSoFar
  <2>2. items = <<>>
    BY <1>10, EmptySeq
  <2>3. Bursts(<<>>)
    BY DEF Bursts
  <2> QED
    BY <1>7, <1>8, <2>1, <2>2, <2>3, FlatEmpty
<1>11. CASE n # 0
  <2>1. x.current # <<>> /\ Bursts(Append(x.events, x.current))
    BY <1>7, <1>11 DEF GroupedSoFar
  <2>2. FlattenSeq(Append(x.events, x.current)) = FlattenSeq(x.events) \o x.current
    BY <1>8, FlatAppend
  <2>3. FlattenSeq(x.events) \o x.current = items
    BY <1>7, <1>9 DEF GroupedSoFar, Joined
  <2>4. Append(x.events, x.current) \in Seq(Seq(Pictures))
    BY <1>8
  <2> QED
    BY <1>7, <2>1, <2>2, <2>3, <2>4
<1> QED
  BY <1>10, <1>11
\* A map that is one to one and onto: its sets have as many elements.
LEMMA SameSize ==
  ASSUME NEW R, IsFiniteSet(R), NEW S, NEW f \in [R -> S],
         \A r, s \in R : f[r] = f[s] => r = s,
         \A x \in S : \E r \in R : f[r] = x
  PROVE  Cardinality(R) = Cardinality(S)
<1>1. f \in Bijection(R, S)
  BY DEF Bijection, Injection, Surjection, IsInjective
<1>2. ExistsBijection(R, S)
  BY <1>1 DEF ExistsBijection
<1> QED
  BY <1>2, FS_Bijection

\* Where each picture of the events comes from: the r-th of the sorted ones is
\* the from[r]-th of the directory.
Sources(from, items, listed) ==
  /\ from \in [1..Len(items) -> 1..Len(listed)]
  /\ \A r, s \in 1..Len(items) : from[r] = from[s] => r = s
  /\ \A r \in 1..Len(items) : items[r] = listed[from[r]] /\ items[r].sec # NoSecond
  /\ \A i \in 1..Len(listed) :
       listed[i].sec # NoSecond => \E r \in 1..Len(items) : from[r] = i

\* The pictures of a directory that have a second, sorted.
LEMMA SortedSources ==
  ASSUME NEW listed \in Seq(Pictures)
  PROVE  LET items == BySecond[Only(listed, HaveSecond)]
         IN  /\ items \in Seq(Pictures)
             /\ \A i \in 2..Len(items) : items[i - 1].sec <= items[i].sec
             /\ \E from : Sources(from, items, listed)
<1> DEFINE kept == Only(listed, HaveSecond)
           n == Len(kept)
           m == Len(listed)
<1>1. /\ kept \in Seq(Pictures \cap HaveSecond) /\ kept \in Seq(Pictures)
      /\ \E at : Picks(at, kept, listed, m, HaveSecond)
  BY OnlyPicks
<1> HIDE DEF kept
<1>2. PICK at : Picks(at, kept, listed, m, HaveSecond)
  BY <1>1
<1>3. PICK q : Sorts(q, kept)
  BY <1>1, BySecondSorts
<1>4. n \in Nat /\ m \in Nat
  BY <1>1, LenProperties
<1>5. \A k \in 1..n : kept[k] \in Pictures /\ kept[k].sec # NoSecond
  <2> SUFFICES ASSUME NEW k \in 1..n
               PROVE  kept[k] \in Pictures /\ kept[k].sec # NoSecond
    OBVIOUS
  <2>1. kept[k] \in Pictures \cap HaveSecond
    BY <1>1, <1>4
  <2> QED
    BY <2>1 DEF HaveSecond
<1>6. \A i \in 1..m : listed[i] \in Pictures
  BY PictureFacts
<1> DEFINE items == [k \in 1..n |-> kept[q[k]]]
<1>7. /\ q \in [1..n -> 1..n] /\ BySecond[kept] = items
      /\ \A k, l \in 1..n : q[k] = q[l] => k = l
      /\ \A i \in 1..n : \E k \in 1..n : q[k] = i
      /\ \A k, l \in 1..n : k <= l => kept[q[k]].sec <= kept[q[l]].sec
  BY <1>3 DEF Sorts
<1>8. /\ at \in [1..n -> 1..m]
      /\ \A k, l \in 1..n : k < l => at[k] < at[l]
      /\ \A k \in 1..n : kept[k] = listed[at[k]]
      /\ \A i \in 1..m : listed[i] \in HaveSecond => \E k \in 1..n : at[k] = i
  BY <1>2 DEF Picks
<1>9. \A k \in 1..n : items[k] = kept[q[k]] /\ q[k] \in 1..n
  BY <1>7
<1>10. items \in Seq(Pictures) /\ Len(items) = n
  <2>1. \A k \in 1..n : kept[q[k]] \in Pictures
    BY <1>5, <1>7
  <2> QED
    BY <1>4, <2>1
<1> HIDE DEF items, n, m
<1>11. \A i \in 2..n : items[i - 1].sec <= items[i].sec
  <2> SUFFICES ASSUME NEW i \in 2..n
               PROVE  items[i - 1].sec <= items[i].sec
    OBVIOUS
  <2>1. i \in 1..n /\ i - 1 \in 1..n /\ i - 1 <= i
    BY <1>4
  <2>2. kept[q[i - 1]].sec <= kept[q[i]].sec
    BY <1>7, <2>1
  <2> QED
    BY <1>9, <2>1, <2>2
<1> DEFINE from == [r \in 1..n |-> at[q[r]]]
<1>12. from \in [1..n -> 1..m] /\ \A r \in 1..n : from[r] = at[q[r]]
  BY <1>7, <1>8
<1> HIDE DEF from
<1>13. \A k, l \in 1..n : at[k] = at[l] => k = l
  <2> SUFFICES ASSUME NEW k \in 1..n, NEW l \in 1..n, at[k] = at[l], k # l
               PROVE  FALSE
    OBVIOUS
  <2>1. at[k] \in Int /\ at[l] \in Int
    BY <1>4, <1>8
  <2>2. k < l \/ l < k
    BY <1>4
  <2>3. at[k] < at[l] \/ at[l] < at[k]
    BY <1>8, <2>2
  <2> QED
    BY <2>1, <2>3
<1>14. \A r, s \in 1..n : from[r] = from[s] => r = s
  <2> SUFFICES ASSUME NEW r \in 1..n, NEW s \in 1..n, from[r] = from[s]
               PROVE  r = s
    OBVIOUS
  <2>1. at[q[r]] = at[q[s]] /\ q[r] \in 1..n /\ q[s] \in 1..n
    BY <1>9, <1>12
  <2>2. q[r] = q[s]
    BY <1>13, <2>1
  <2> QED
    BY <1>7, <2>2
<1>15. ASSUME NEW r \in 1..n
       PROVE  items[r] = listed[from[r]] /\ items[r].sec # NoSecond
  <2>1. q[r] \in 1..n /\ items[r] = kept[q[r]] /\ from[r] = at[q[r]]
    BY <1>9, <1>12
  <2>2. kept[q[r]] = listed[at[q[r]]] /\ kept[q[r]].sec # NoSecond
    BY <1>5, <1>8, <2>1
  <2> QED
    BY <2>1, <2>2
<1>16. \A i \in 1..m : listed[i].sec # NoSecond => \E r \in 1..n : from[r] = i
  <2> SUFFICES ASSUME NEW i \in 1..m, listed[i].sec # NoSecond
               PROVE  \E r \in 1..n : from[r] = i
    OBVIOUS
  <2>1. listed[i] \in HaveSecond
    BY <1>6 DEF HaveSecond
  <2>2. PICK k \in 1..n : at[k] = i
    BY <1>8, <2>1
  <2>3. PICK r \in 1..n : q[r] = k
    BY <1>7
  <2> QED
    BY <1>12, <2>2, <2>3
<1>17. Sources(from, items, listed)
  BY <1>10, <1>12, <1>14, <1>15, <1>16 DEF Sources, m
<1> QED
  BY <1>7, <1>10, <1>11, <1>17 DEF kept
\* The places of the pictures of events: an event, and a place in it.
PlacesOf(events) == UNION {{k} \X (1..Len(events[k])) : k \in 1..Len(events)}

\* A picture with a second is in the events as often as in the directory, one
\* without is in none.
EachOnce(events, listed) ==
  \A p \in Pictures :
    Cardinality({x \in PlacesOf(events) : events[x[1]][x[2]] = p})
      = IF p.sec = NoSecond THEN 0 ELSE Cardinality({i \in DOMAIN listed : listed[i] = p})

\* The events of the sorted pictures have each picture once.
LEMMA EventsCount ==
  ASSUME NEW listed \in Seq(Pictures), NEW items \in Seq(Pictures),
         NEW from, Sources(from, items, listed),
         NEW events \in Seq(Seq(Pictures)), FlattenSeq(events) = items
  PROVE  EachOnce(events, listed)
<1> DEFINE n == Len(items)
<1>1. PICK at : Pieces(at, items, events, Len(events))
  BY FlatPieces
<1>2. /\ \A r \in 1..n : /\ at[r][1] \in 1..Len(events) /\ at[r][2] \in 1..Len(events[at[r][1]])
                         /\ items[r] = events[at[r][1]][at[r][2]]
      /\ \A r, s \in 1..n : at[r][1] = at[s][1] /\ at[r][2] = at[s][2] => r = s
      /\ \A k \in 1..Len(events) : \A j \in 1..Len(events[k]) : \E r \in 1..n : at[r] = <<k, j>>
  BY <1>1 DEF Pieces
<1>3. /\ from \in [1..n -> 1..Len(listed)]
      /\ \A r, s \in 1..n : from[r] = from[s] => r = s
      /\ \A r \in 1..n : items[r] = listed[from[r]] /\ items[r].sec # NoSecond
      /\ \A i \in 1..Len(listed) : listed[i].sec # NoSecond => \E r \in 1..n : from[r] = i
  BY DEF Sources
<1>4. IsFiniteSet(1..n) /\ DOMAIN listed = 1..Len(listed)
  BY PictureFacts
<1> HIDE DEF n
<1> SUFFICES ASSUME NEW p \in Pictures
             PROVE  Cardinality({x \in PlacesOf(events) : events[x[1]][x[2]] = p})
                      = IF p.sec = NoSecond THEN 0
                        ELSE Cardinality({i \in DOMAIN listed : listed[i] = p})
  BY DEF EachOnce
<1> DEFINE R == {r \in 1..n : items[r] = p}
           S == {x \in PlacesOf(events) : events[x[1]][x[2]] = p}
           T == {i \in 1..Len(listed) : listed[i] = p}
           place == [r \in R |-> <<at[r][1], at[r][2]>>]
           source == [r \in R |-> from[r]]
<1>5. IsFiniteSet(R)
  BY <1>4, FS_Subset
<1>6. ASSUME NEW k \in 1..Len(events), NEW j \in 1..Len(events[k])
      PROVE  <<k, j>> \in PlacesOf(events)
  BY DEF PlacesOf
<1>7. ASSUME NEW x \in PlacesOf(events)
      PROVE  x[1] \in 1..Len(events) /\ x[2] \in 1..Len(events[x[1]]) /\ x = <<x[1], x[2]>>
  <2>1. PICK k \in 1..Len(events) : x \in {k} \X (1..Len(events[k]))
    BY DEF PlacesOf
  <2>2. x[1] = k /\ x[2] \in 1..Len(events[k]) /\ x = <<x[1], x[2]>>
    BY <2>1
  <2> QED
    BY <2>2
<1>8. Cardinality(R) = Cardinality(S)
  <2>1. \A r \in R : place[r] = <<at[r][1], at[r][2]>> /\ r \in 1..n
    OBVIOUS
  <2>2. place \in [R -> S]
    <3>1. ASSUME NEW r \in R
          PROVE  <<at[r][1], at[r][2]>> \in S
      <4>1. /\ at[r][1] \in 1..Len(events) /\ at[r][2] \in 1..Len(events[at[r][1]])
            /\ p = events[at[r][1]][at[r][2]]
        BY <1>2
      <4>2. <<at[r][1], at[r][2]>> \in PlacesOf(events)
        BY <1>6, <4>1
      <4> QED
        BY <4>1, <4>2
    <3> HIDE DEF R, S
    <3> QED
      BY <3>1
  <2> HIDE DEF place
  <2>3. \A r, s \in R : place[r] = place[s] => r = s
    <3> SUFFICES ASSUME NEW r \in R, NEW s \in R, place[r] = place[s]
                 PROVE  r = s
      OBVIOUS
    <3>1. <<at[r][1], at[r][2]>> = <<at[s][1], at[s][2]>>
      BY <2>1
    <3>2. at[r][1] = at[s][1] /\ at[r][2] = at[s][2]
      BY <3>1
    <3> QED
      BY <1>2, <2>1, <3>2
  <2>4. \A x \in S : \E r \in R : place[r] = x
    <3> SUFFICES ASSUME NEW x \in S
                 PROVE  \E r \in R : place[r] = x
      OBVIOUS
    <3>1. /\ x[1] \in 1..Len(events) /\ x[2] \in 1..Len(events[x[1]])
          /\ x = <<x[1], x[2]>> /\ events[x[1]][x[2]] = p
      BY <1>7
    <3>2. PICK r \in 1..n : at[r] = <<x[1], x[2]>>
      BY <1>2, <3>1
    <3>3. at[r][1] = x[1] /\ at[r][2] = x[2]
      BY <3>2
    <3>4. r \in R
      BY <1>2, <3>1, <3>3
    <3> QED
      BY <2>1, <3>1, <3>3, <3>4
  <2> HIDE DEF R, S
  <2> QED
    BY <1>5, <2>2, <2>3, <2>4, SameSize
<1>9. CASE p.sec = NoSecond
  <2>1. R = {}
    BY <1>3, <1>9
  <2> HIDE DEF S
  <2>2. Cardinality(S) = 0
    BY <1>8, <2>1, FS_EmptySet
  <2> QED
    BY <1>9, <2>2 DEF S
<1>10. CASE p.sec # NoSecond
  <2>1. \A r \in R : source[r] = from[r] /\ r \in 1..n /\ items[r] = p
    OBVIOUS
  <2>2. source \in [R -> T]
    <3>1. ASSUME NEW r \in R
          PROVE  from[r] \in T
      BY <1>3
    <3> HIDE DEF R, T
    <3> QED
      BY <3>1
  <2> HIDE DEF source
  <2>3. \A r, s \in R : source[r] = source[s] => r = s
    BY <1>3, <2>1
  <2>4. \A x \in T : \E r \in R : source[r] = x
    <3> SUFFICES ASSUME NEW x \in T
                 PROVE  \E r \in R : source[r] = x
      OBVIOUS
    <3>1. PICK r \in 1..n : from[r] = x
      BY <1>3, <1>10
    <3>2. r \in R
      BY <1>3, <3>1
    <3> QED
      BY <2>1, <3>1, <3>2
  <2> HIDE DEF R, T
  <2>5. Cardinality(R) = Cardinality(T)
    BY <1>5, <2>2, <2>3, <2>4, SameSize
  <2> HIDE DEF S
  <2> QED
    BY <1>4, <1>8, <1>10, <2>5 DEF S, T
<1> QED
  BY <1>9, <1>10

\* groupImagesIntoEvents: bursts with gaps between them, with each picture once.
LEMMA EventsOfMinute ==
  ASSUME NEW listed \in Seq(Pictures)
  PROVE  LET events == groupImagesIntoEvents[listed]
         IN  events \in Seq(Seq(Pictures)) /\ Bursts(events) /\ EachOnce(events, listed)
<1> DEFINE items == BySecond[Only(listed, HaveSecond)]
           x == Grouped[items]
           events == IF x.current = <<>> THEN x.events ELSE Append(x.events, x.current)
<1>1. /\ items \in Seq(Pictures)
      /\ \A i \in 2..Len(items) : items[i - 1].sec <= items[i].sec
      /\ \E from : Sources(from, items, listed)
  BY SortedSources
<1>2. events = groupImagesIntoEvents[listed]
  BY DEF groupImagesIntoEvents
<1> HIDE DEF items
<1>3. events \in Seq(Seq(Pictures)) /\ Bursts(events) /\ FlattenSeq(events) = items
  BY <1>1, EventsOfSorted
<1> HIDE DEF events
<1>4. EachOnce(events, listed)
  BY <1>1, <1>3, EventsCount
<1> QED
  BY <1>2, <1>3, <1>4

\* The pictures of a minute are grouped into bursts: each picture that has a
\* second is in one event, the seconds never go back, no gap in an event is
\* longer than GapSeconds and every gap between two is.
THEOREM BurstsFound == Spec => []EventsAreBursts
<1>1. CameraInv => EventsAreBursts
  <2> SUFFICES ASSUME CameraInv, minute # NoDir
               PROVE  LET events == groupImagesIntoEvents[minute]
                      IN  /\ EachOnce(events, minute)
                          /\ \A k \in DOMAIN events : \A i \in 2..Len(events[k]) :
                               events[k][i].sec - events[k][i - 1].sec \in 0..GapSeconds
                          /\ \A k \in 2..Len(events) :
                               Head(events[k]).sec - Last(events[k - 1]).sec > GapSeconds
    BY DEF EventsAreBursts, EachOnce, PlacesOf
  <2>1. minute \in Seq(Pictures)
    BY DEF CameraInv, TypeOK
  <2> DEFINE events == groupImagesIntoEvents[minute]
  <2>2. events \in Seq(Seq(Pictures)) /\ Bursts(events) /\ EachOnce(events, minute)
    BY <2>1, EventsOfMinute
  <2> HIDE DEF events
  <2>3. DOMAIN events = 1..Len(events)
    BY <2>2, LenProperties
  <2>4. /\ \A k \in DOMAIN events : \A i \in 2..Len(events[k]) :
             events[k][i].sec - events[k][i - 1].sec \in 0..GapSeconds
        /\ \A k \in 2..Len(events) : Head(events[k]).sec - Last(events[k - 1]).sec > GapSeconds
    BY <2>2, <2>3 DEF Bursts, Burst
  <2> QED
    BY <2>2, <2>4 DEF events
<1> QED
  BY <1>1, CameraInvariance, PTL
=============================================================================
