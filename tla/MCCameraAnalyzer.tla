-------------------------- MODULE MCCameraAnalyzer --------------------------
(* Instances of CameraAnalyzer for TLC. *)
EXTENDS CameraAnalyzer, TLC

Frame(scene, label, conf) == [scene |-> scene, objects |-> {[label |-> label, conf |-> conf]}]
Still == [scene |-> "day", objects |-> {}]

\* Pictures two seconds apart are one event, three seconds apart two.  The
\* person is bright enough for the night and too faint for the day.
MCPictures ==
  {[sec |-> 0, frame |-> Still],
   [sec |-> 2, frame |-> Frame("night", "person", 40)],
   [sec |-> 5, frame |-> Frame("day", "person", 40)]}
MCInteresting == {"person"}
=============================================================================
