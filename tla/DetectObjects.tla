--------------------------- MODULE DetectObjects ---------------------------
(***************************************************************************)
(* What DetectObjects.py makes of the pictures in one minute directory: it *)
(* groups them into events by the second in their names, samples up to     *)
(* three pictures of each event and asks the network what they show.  The  *)
(* network is an input: a frame is a scene and the objects it would report.*)
(***************************************************************************)
EXTENDS Lists

CONSTANTS
  Pictures,            \* pictures: the second in the name, and the frame
  InterestingLabels,   \* interesting_labels
  DayThreshold,        \* day_confidence_threshold, in percent
  NightThreshold,      \* night_confidence_threshold, in percent
  GapSeconds           \* the gap analyzeMoving passes

ASSUME DetectAssumption ==
  GapSeconds \in Nat /\ \A p \in Pictures : p.sec \in Int

NoSecond == -1      \* parseSecondFromFilename returned None
Unreadable == [scene |-> "none", objects |-> {}]   \* cv2.imread returned None

\* Pictures by second; pictures of one second stay as they were listed.
BySecond[items \in Seq(Pictures)] ==
  LET NotAfter(j, i) == \/ items[j].sec < items[i].sec
                        \/ items[j].sec = items[i].sec /\ j <= i
      Place(i) == Cardinality({j \in DOMAIN items : NotAfter(j, i)})
  IN  [k \in DOMAIN items |-> items[CHOOSE i \in DOMAIN items : Place(i) = k]]

\* mutant: an event ends already at a gap of GapSeconds.
StartsEager(items, i) == items[i].sec - items[i - 1].sec >= GapSeconds

\* A new event starts with items[i].
Starts(items, i) == items[i].sec - items[i - 1].sec > GapSeconds

\* The loop over items: the events that have ended and the current one.
Grouped[items \in Seq(Pictures)] ==
  LET f[i \in 0..Len(items)] ==
        IF i = 0 THEN [events |-> <<>>, current |-> <<>>]
        ELSE IF i # 1 /\ Starts(items, i)
             THEN [events |-> Append(f[i - 1].events, f[i - 1].current),
                   current |-> <<items[i]>>]
             ELSE [f[i - 1] EXCEPT !.current = Append(@, items[i])]
  IN  f[Len(items)]

HaveSecond == {p \in Pictures : p.sec # NoSecond}

groupImagesIntoEvents[files \in Seq(Pictures)] ==
  LET grouped == Grouped[BySecond[Only(files, HaveSecond)]]
  IN  IF grouped.current = <<>> THEN grouped.events
      ELSE Append(grouped.events, grouped.current)

getDetectionConfidenceThreshold(frame) ==
  IF frame.scene = "day" THEN DayThreshold ELSE NightThreshold

\* detsInteresting of one frame.
Interesting(frame) ==
  {d \in frame.objects : /\ d.label \in InterestingLabels
                         /\ d.conf >= getDetectionConfidenceThreshold(frame)}

\* The interesting labels of an event, found in its first, middle and last
\* readable picture.
classifyEvent[event \in Seq(Pictures)] ==
  LET frames == SelectSeq(event, LAMBDA f : f.frame # Unreadable)
      n == Len(frames)
      idxs == IF n = 0 THEN {} ELSE {1, n \div 2 + 1, n}
  IN  {d.label : d \in UNION {Interesting(frames[i].frame) : i \in idxs}}

\* The labels of the first event that shows any.  There savePreview calls
\* drawDetectionsRed, which the class does not have: AttributeError, and no
\* later event is looked at.  An analysis that returns has no reasons.
analyzeMinuteDir[files \in Seq(Pictures)] ==
  LET events == groupImagesIntoEvents[files]
      found == SelectSeq(events, LAMBDA e : classifyEvent[e] # {})
  IN  IF found = <<>> THEN {} ELSE classifyEvent[Head(found)]
=============================================================================
