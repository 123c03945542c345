------------------------------- MODULE Roster -------------------------------
(***************************************************************************)
(* What the program promises of the users who are told of alarms: a user   *)
(* is on or off as it last asked, a stop keeps the list for the next       *)
(* start, and a crash goes back to the last stop, or to nobody if it cuts  *)
(* the saving.                                                             *)
(***************************************************************************)
CONSTANT Users

VARIABLES phase, on, kept

vars == <<phase, on, kept>>

Init == phase = "stopped" /\ on = {} /\ kept \in SUBSET Users

Start == /\ phase = "stopped"
         /\ phase' = "running" /\ on' = kept
         /\ UNCHANGED kept

Switch(user) == /\ phase = "running"
                /\ on' \in {on \cup {user}, on \ {user}}
                /\ UNCHANGED <<phase, kept>>

Save == /\ phase = "running"
        /\ phase' = "saving" /\ kept' = {}
        /\ UNCHANGED on

Stop == /\ phase = "saving"
        /\ phase' = "stopped" /\ kept' = on /\ on' = {}

Crash == /\ phase # "stopped"
         /\ phase' = "stopped" /\ on' = {}
         /\ UNCHANGED kept

Next == Start \/ Save \/ Stop \/ Crash \/ \E user \in Users : Switch(user)

Spec == Init /\ [][Next]_vars
=============================================================================
