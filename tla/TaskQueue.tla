------------------------------ MODULE TaskQueue ------------------------------
(***************************************************************************)
(* What a request queue of the GSM engine promises to its clients: the     *)
(* requests are served one at a time, in the order they were made, and a   *)
(* request whose client waits on a future is answered exactly once.  The   *)
(* scheduler implements it twice, with atRequestsQueue and with            *)
(* atSmsRequestQueue (ATScheduler.tla).                                    *)
(***************************************************************************)
EXTENDS Sequences

CONSTANTS Task,     \* the requests that may be queued
          Tracked,  \* a subset: the ones that carry a promise; each is made once
          NoTask    \* no member of Task: no request is being served

VARIABLES queue,    \* requests not yet taken
          current,  \* the request being served, or NoTask
          outcome   \* what the promise of each tracked request holds

vars == <<queue, current, outcome>>

Init == /\ queue = <<>>
        /\ current = NoTask
        /\ outcome = [t \in Tracked |-> "idle"]

Add(t) == /\ queue' = Append(queue, t)
          /\ \/ t \in Task \ Tracked /\ UNCHANGED outcome
             \/ /\ t \in Tracked
                /\ outcome[t] = "idle"
                /\ outcome' = [outcome EXCEPT ![t] = "pending"]
          /\ UNCHANGED current

Take == /\ current = NoTask
        /\ queue # <<>>
        /\ current' = Head(queue)
        /\ queue' = Tail(queue)
        /\ UNCHANGED outcome

Finish(answer) == /\ current # NoTask
                  /\ current' = NoTask
                  /\ outcome' = IF current \in Tracked
                                THEN [outcome EXCEPT ![current] = answer]
                                ELSE outcome
                  /\ UNCHANGED queue

Next == \/ \E t \in Task : Add(t)
        \/ Take
        \/ \E answer \in {"succeeded", "failed"} : Finish(answer)

Spec == Init /\ [][Next]_vars
=============================================================================
