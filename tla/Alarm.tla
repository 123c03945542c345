-------------------------------- MODULE Alarm --------------------------------
(***************************************************************************)
(* What a camera analyzer promises.  Every poll takes all pictures that    *)
(* came since the poll before it.  While notifications are blocked they    *)
(* are added up; when they are not, the sum is told if it reaches          *)
(* MinNewFiles, and that blocks notifications for BlockDuration.  No       *)
(* picture is told twice, none is forgotten over midnight, and only a sum  *)
(* below MinNewFiles is dropped.                                           *)
(***************************************************************************)
EXTENDS Integers

CONSTANTS MinNewFiles, BlockDuration, MaxLate

VARIABLES
  on,        \* the analyzer runs and knows its disk
  fresh,     \* pictures that came since the last poll
  pending,   \* pictures added up while notifications are blocked
  blocked,   \* for how long notifications are still blocked
  told       \* the level the last poll told, 0 for none

vars == <<on, fresh, pending, blocked, told>>

Reset == fresh' = 0 /\ pending' = 0 /\ blocked' = 0 /\ told' = 0

Init == on = FALSE /\ fresh = 0 /\ pending = 0 /\ blocked = 0 /\ told = 0

Start == ~on /\ on' = TRUE /\ Reset

Stop == on /\ on' = FALSE /\ Reset

Record == /\ on
          /\ fresh' = fresh + 1
          /\ UNCHANGED <<on, pending, blocked, told>>

Rest(d) == IF d < blocked THEN blocked - d ELSE 0

\* A poll d units of time after the last one.
Poll(d) ==
  /\ on
  /\ fresh' = 0
  /\ \/ /\ Rest(d) > 0
        /\ blocked' = Rest(d) /\ pending' = pending + fresh /\ told' = 0
     \/ /\ Rest(d) = 0 /\ pending + fresh >= MinNewFiles
        /\ blocked' = BlockDuration /\ pending' = 0 /\ told' = pending + fresh
     \/ /\ Rest(d) = 0 /\ pending + fresh < MinNewFiles
        /\ blocked' = 0 /\ pending' = 0 /\ told' = 0
  /\ UNCHANGED on

\* A poll that does not see the disk.
Blind(d) == /\ on
            /\ blocked' = Rest(d) /\ told' = 0
            /\ UNCHANGED <<on, fresh, pending>>

Next == \/ Start \/ Stop \/ Record
        \/ \E d \in 1..MaxLate : Poll(d) \/ Blind(d)

Spec == Init /\ [][Next]_vars
=============================================================================
