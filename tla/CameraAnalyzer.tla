--------------------------- MODULE CameraAnalyzer ---------------------------
(***************************************************************************)
(* One camera's analyzer (CameraAnalyzer.py), polled by the monitor's loop *)
(* and restarted by systemd when the process ends, over the disk that the  *)
(* camera writes to and autoRemove.sh clears.                              *)
(*                                                                         *)
(* A poll is one action: nothing else in the process runs meanwhile, and   *)
(* what the camera writes during a poll counts as written after it.        *)
(* readyToNotify and isAlarmLevelCalculateFinish are no variables: a call  *)
(* that sets one of them clears it before it returns.                      *)
(***************************************************************************)
EXTENDS DetectObjects

CONSTANTS
  MinNewFiles,      \* minNewFilesToDetect
  BlockDuration,    \* notificationBlockDuration, in units of the poll interval
  MaxLate,          \* how many intervals a poll may come after the last one
  KeptDays,         \* maxCatalogs of autoRemove.sh
  NoDir,            \* the newest day has no minute directory yet
  LastDay,          \* bound: days
  MaxFiles,         \* bound: pictures of a day
  MaxPictures       \* bound: pictures of a minute

ASSUME CameraAssumption ==
  /\ MinNewFiles \in Nat \ {0} /\ BlockDuration \in Nat \ {0}
  /\ MaxLate \in Nat \ {0} /\ LastDay \in Nat \ {0}
  /\ KeptDays \in Nat /\ KeptDays >= 2

VARIABLES
  \* the disk
  mounted,          \* is dirName a directory?
  oldest, today,    \* the days that have a directory are oldest..today
  files,            \* the number of .jpg files of each day
  minute,           \* the newest minute directory, in the order of os.listdir
  \* the process
  up,
  built,            \* the constructor found a day: alarmLevel exists
  theNewestDir,     \* 0 stands for None
  countFiles,
  alarmLevel,
  window,           \* time since alarmLevelCalculateStartTimestamp
  result            \* what the last poll returned

disk == <<mounted, oldest, today, files, minute>>
process == <<up, built, theNewestDir, countFiles, alarmLevel, window, result>>
vars == <<disk, process>>

Off == -1           \* alarmLevelCalculateStartTimestamp is None

None == [kind |-> "none", level |-> 0]
DiskFailed == [None EXCEPT !.kind = "disk"]
AlarmOf(level) == [None EXCEPT !.kind = "alarm", !.level = level]
Raised == [None EXCEPT !.kind = "raised"]

DiskFound == mounted /\ oldest <= today

\* getListOfFiles, None taken for 0.
FilesIn(day) == IF day \in oldest..today THEN files[day] ELSE 0

AtLeastZero(n) == IF n > 0 THEN n ELSE 0

\* mutant: only the new day's files count after midnight.
AddedFilesOfNewDay == FilesIn(today) - IF today # theNewestDir THEN 0 ELSE countFiles

\* compute_added_files, its result.
AddedFiles ==
  IF today # theNewestDir
  THEN AtLeastZero(FilesIn(theNewestDir) - countFiles) + FilesIn(today)
  ELSE FilesIn(today) - countFiles

-----------------------------------------------------------------------------
(* The process *)

Dead == /\ up = FALSE /\ built = FALSE /\ theNewestDir = 0
        /\ countFiles = 0 /\ alarmLevel = 0 /\ window = Off

Init == /\ mounted \in BOOLEAN /\ oldest = 1 /\ today \in 0..1
        /\ files = [d \in 1..LastDay |-> 0] /\ minute = NoDir
        /\ Dead /\ result = None

\* The constructor.
Start == /\ ~up
         /\ up' = TRUE
         /\ built' = DiskFound
         /\ theNewestDir' = IF DiskFound THEN today ELSE 0
         /\ countFiles' = IF DiskFound THEN FilesIn(today) ELSE 0
         /\ alarmLevel' = 0 /\ window' = Off /\ result' = None
         /\ UNCHANGED disk

Dies(last) == /\ up' = FALSE /\ built' = FALSE /\ theNewestDir' = 0
              /\ countFiles' = 0 /\ alarmLevel' = 0 /\ window' = Off
              /\ result' = last
              /\ UNCHANGED disk

\* The process is killed, or ends because of another component.
Killed == up /\ Dies(None)

\* The block at the time of a poll that comes d intervals after the last one.
Elapsed(d) == IF window = Off THEN Off
              ELSE IF window + d < BlockDuration THEN window + d ELSE BlockDuration
Over(d) == Elapsed(d) = BlockDuration
Blocked(d) == Elapsed(d) # Off /\ ~Over(d)

\* mutant: a movement of exactly MinNewFiles files is too small.
ReachesMore(n) == n > MinNewFiles

Reaches(n) == n >= MinNewFiles

\* The first branch of analyzeMoving: the alarm level is calculated.
Calculates(d) == ~Blocked(d) /\ (Over(d) \/ Reaches(AddedFiles))

\* compute_added_files, what it stores.
Counted == /\ up /\ DiskFound
           /\ theNewestDir' = today /\ countFiles' = FilesIn(today)
           /\ UNCHANGED <<disk, up, built>>

DiskError(d) == /\ up /\ ~DiskFound
                /\ window' = Elapsed(d)   \* time goes on, the attribute stays
                /\ result' = DiskFailed
                /\ UNCHANGED <<disk, up, built, theNewestDir, countFiles, alarmLevel>>

Quiet(d) == /\ ~Blocked(d) /\ ~Calculates(d)
            /\ Counted
            /\ result' = None
            /\ UNCHANGED <<alarmLevel, window>>

Accumulate(d) == /\ Blocked(d)
                 /\ Counted
                 /\ alarmLevel' = alarmLevel + AtLeastZero(AddedFiles)
                 /\ window' = Elapsed(d)
                 /\ result' = None

\* mutant: the alarm level is not cleared.
ClearNothing(d) == /\ Calculates(d) /\ built /\ ~Reaches(alarmLevel + AddedFiles)
                   /\ Counted
                   /\ window' = Off /\ result' = None
                   /\ UNCHANGED alarmLevel

Clear(d) == /\ Calculates(d) /\ built /\ ~Reaches(alarmLevel + AddedFiles)
            /\ Counted
            /\ alarmLevel' = 0 /\ window' = Off /\ result' = None

\* What the detector sees when the poll notifies.
Seen == IF minute = NoDir THEN {} ELSE analyzeMinuteDir[minute]

Notify(d) == /\ Calculates(d) /\ built /\ Reaches(alarmLevel + AddedFiles)
             /\ Seen = {}
             /\ Counted
             /\ alarmLevel' = 0 /\ window' = 0
             /\ result' = AlarmOf(alarmLevel + AddedFiles)

\* The detector sees something and raises; nothing up to main catches it.
NotifyRaises(d) == /\ up /\ DiskFound
                   /\ Calculates(d) /\ built /\ Reaches(alarmLevel + AddedFiles)
                   /\ Seen # {}
                   /\ Dies(Raised)

\* self.alarmLevel += ... where the constructor set no alarmLevel.
HalfBuiltRaises(d) == /\ up /\ DiskFound
                      /\ Calculates(d) /\ ~built
                      /\ Dies(Raised)

Poll(d) == \/ DiskError(d) \/ Quiet(d) \/ Accumulate(d) \/ Clear(d)
           \/ Notify(d) \/ NotifyRaises(d) \/ HalfBuiltRaises(d)

-----------------------------------------------------------------------------
(* The disk *)

\* The first directory of a new day.  The analyzer polls between two of them.
NewDay == /\ mounted /\ today < LastDay
          /\ up /\ theNewestDir # 0 => theNewestDir = today
          /\ today' = today + 1 /\ minute' = NoDir
          /\ UNCHANGED <<mounted, oldest, files, process>>

NewMinute == /\ DiskFound
             /\ minute # <<>>
             /\ minute' = <<>>
             /\ UNCHANGED <<mounted, oldest, today, files, process>>

\* A camera writes its pictures in the order of their seconds; os.listdir may
\* list a new one at any place.
Record(picture) ==
  /\ DiskFound /\ minute # NoDir
  /\ Len(minute) < MaxPictures /\ files[today] < MaxFiles
  /\ \A i \in DOMAIN minute : minute[i].sec <= picture.sec
  /\ \E i \in 1..Len(minute) + 1 : minute' = InsertAt(minute, i, picture)
  /\ files' = [files EXCEPT ![today] = @ + 1]
  /\ UNCHANGED <<mounted, oldest, today, process>>

autoRemove == /\ mounted /\ today - oldest + 1 > KeptDays
              /\ oldest' = today - KeptDays + 1
              /\ files' = [d \in 1..LastDay |->
                             IF d < today - KeptDays + 1 THEN 0 ELSE files[d]]
              /\ UNCHANGED <<mounted, today, minute, process>>

Mount == mounted' = ~mounted /\ UNCHANGED <<oldest, today, files, minute, process>>

-----------------------------------------------------------------------------
Environment == \/ NewDay \/ NewMinute \/ autoRemove \/ Mount
               \/ \E picture \in Pictures : Record(picture)

Polls == \E d \in 1..MaxLate : Poll(d)

Next == Start \/ Killed \/ Polls \/ Environment

Spec == Init /\ [][Next]_vars

\* The monitor's loop polls as long as it runs.
LiveSpec == Spec /\ WF_vars(Polls)

-----------------------------------------------------------------------------
(* Properties *)

\* Types.
TypeOK == /\ mounted \in BOOLEAN /\ up \in BOOLEAN /\ built \in BOOLEAN
          /\ oldest \in 1..LastDay + 1 /\ today \in 0..LastDay
          /\ files \in [1..LastDay -> Nat]
          /\ minute # NoDir => minute \in Seq(Pictures)
          /\ theNewestDir \in 0..LastDay /\ countFiles \in Nat
          /\ alarmLevel \in Nat /\ window \in {Off} \cup 0..BlockDuration
          /\ result.kind \in {"none", "alarm", "disk", "raised"}
          /\ result.level \in Nat

\* The counter the next difference is taken from is behind the disk and at
\* most one midnight away, whatever was recorded, removed or restarted.
CounterBehindDisk ==
  up /\ built => /\ theNewestDir \in oldest..today
                 /\ today <= theNewestDir + 1
                 /\ countFiles <= files[theNewestDir]

\* Nothing is added up while no notification is blocked.
LevelOnlyWhileBlocked == window = Off => alarmLevel = 0

DiskInv == /\ oldest <= today + 1
           /\ today = 0 => oldest = 1
           /\ \A d \in 1..LastDay : d > today => files[d] = 0
           /\ ~up => Dead
           /\ ~built => window = Off

\* What is proved to be inductive.
CameraInv == TypeOK /\ CounterBehindDisk /\ LevelOnlyWhileBlocked /\ DiskInv

\* The analyzer promises what Alarm says: see there.
A == INSTANCE Alarm WITH
       on <- up /\ built,
       fresh <- IF up /\ built THEN AddedFiles ELSE 0,
       pending <- alarmLevel,
       blocked <- IF window = Off THEN 0 ELSE BlockDuration - window,
       told <- IF up /\ built THEN result.level ELSE 0
AlarmPromised == A!Spec

\* A movement of enough pictures is told by the poll that sees it or at the
\* end of the block, unless the process ends or the disk goes away.  An analyzer
\* that was built without a disk cannot tell it and must not go on either: the
\* process ends, and the next one builds it whole.
MovementTold ==
  (up /\ theNewestDir # 0 /\ AddedFiles >= MinNewFiles)
    ~> (result.level >= MinNewFiles \/ ~up \/ ~mounted)

\* Events are bursts: every picture with a second is in one event, seconds
\* never go back, no gap inside an event exceeds GapSeconds and every gap
\* between two events does.
EventsAreBursts ==
  minute # NoDir =>
    LET events == groupImagesIntoEvents[minute]
        places == UNION {{k} \X (1..Len(events[k])) : k \in 1..Len(events)}
        Gap(f, g) == g.sec - f.sec
    IN  /\ \A p \in Pictures :
             Cardinality({x \in places : events[x[1]][x[2]] = p})
               = IF p.sec = NoSecond THEN 0
                 ELSE Cardinality({i \in DOMAIN minute : minute[i] = p})
        /\ \A k \in DOMAIN events : \A i \in 2..Len(events[k]) :
             Gap(events[k][i - 1], events[k][i]) \in 0..GapSeconds
        /\ \A k \in 2..Len(events) :
             Gap(Last(events[k - 1]), Head(events[k])) > GapSeconds
=============================================================================
