---------------------------- MODULE ATQueues_proofs ----------------------------
(***************************************************************************)
(* The scheduler implements TaskQueue twice: atRequestsQueue and           *)
(* atSmsRequestQueue each serve their requests one at a time, in order,    *)
(* and answer each request that carries a promise once.  The proofs follow *)
(* StepKinds: what each kind of step is to the abstract queue.             *)
(***************************************************************************)
EXTENDS ATScheduler_proofs

\* The task in hand, as the queue of the given requests sees it.
LEMMA CurrentType ==
  ASSUME TypeOK
  PROVE  /\ task \in Task \cup {NoTask} /\ NoTask \notin Task
         /\ ConfigReqs \subseteq ConfigTask /\ SmsSync \subseteq SmsTask
         /\ Promised = ConfigReqs \cup SmsSync
         /\ ConfigTask \cap SmsTask = {} /\ Task = ConfigTask \cup SmsTask
BY QueuesDisjoint, SchedulerAssumption DEF TypeOK, Task, ConfigTask, SmsTask, Promised

\* A step of the engine is a step of the configuration queue or leaves it alone.
LEMMA ConfigQueueStep ==
  ASSUME IInv, [OpenNext]_vars
  PROVE  [ConfigQueue!Next]_(ConfigQueue!vars)
<1>1. TypeOK /\ ThreadInv /\ PromiseInv
  BY DEF IInv
<1>2. ConfigReqs \subseteq Requests /\ ConfigReqs \subseteq Promised
  BY DEF Requests, Promised
<1>3. CASE Untouched
  BY <1>2, <1>3 DEF Untouched, requests, ConfigQueue!vars, outcomeOf
<1>4. ASSUME NEW r \in Requests \cup {ATH}, Queued(r)
      PROVE  [ConfigQueue!Next]_(ConfigQueue!vars)
  <2>1. CASE r \in ConfigTask
    <3>1. atRequestsQueue' = Append(atRequestsQueue, r) /\ UNCHANGED <<task, completion>>
      BY <1>1, <1>4, <2>1, CurrentType DEF Queued
    <3>2. CASE r \in ConfigReqs
      <4>1. outcomeOf(ConfigReqs)[r] = "idle" /\ completion[r] = "pending"
        BY <1>1, <1>2, <1>4, <3>2 DEF Queued, outcomeOf, PromiseInv
      <4>2. outcomeOf(ConfigReqs)' = [outcomeOf(ConfigReqs) EXCEPT ![r] = "pending"]
        BY <1>2, <1>4, <3>1, <3>2, <4>1 DEF Queued, outcomeOf
      <4>3. ConfigQueue!Add(r)
        BY <3>1, <3>2, <4>1, <4>2 DEF ConfigQueue!Add
      <4> QED
        BY <2>1, <4>3 DEF ConfigQueue!Next
    <3>3. CASE r \notin ConfigReqs
      <4>1. outcomeOf(ConfigReqs)' = outcomeOf(ConfigReqs)
        BY <1>2, <1>4, <3>1, <3>3 DEF Queued, outcomeOf
      <4>2. ConfigQueue!Add(r)
        BY <2>1, <3>1, <3>3, <4>1 DEF ConfigQueue!Add
      <4> QED
        BY <2>1, <4>2 DEF ConfigQueue!Next
    <3> QED
      BY <3>2, <3>3
  <2>2. CASE r \notin ConfigTask
    BY <1>1, <1>2, <1>4, <2>2, CurrentType DEF Queued, ConfigQueue!vars, outcomeOf
  <2> QED
    BY <2>1, <2>2
<1>5. CASE Taken
  <2>1. outcomeOf(ConfigReqs)' = outcomeOf(ConfigReqs) /\ task = NoTask
    BY <1>5 DEF Taken, outcomeOf
  <2>2. CASE /\ atRequestsQueue # <<>>
             /\ task' = Head(atRequestsQueue) /\ atRequestsQueue' = Tail(atRequestsQueue)
    <3>1. task' \in ConfigTask
      BY <1>1, <2>2, EndsType DEF TypeOK
    <3>2. ConfigQueue!Take
      BY <1>1, <2>1, <2>2, <3>1, CurrentType DEF ConfigQueue!Take
    <3> QED
      BY <3>2 DEF ConfigQueue!Next
  <2>3. CASE /\ atSmsRequestQueue # <<>> /\ UNCHANGED atRequestsQueue
             /\ task' = Head(atSmsRequestQueue)
    <3>1. task' \in SmsTask
      BY <1>1, <2>3, EndsType DEF TypeOK
    <3> QED
      BY <1>1, <2>1, <2>3, <3>1, CurrentType DEF ConfigQueue!vars
  <2> QED
    BY <1>5, <2>2, <2>3 DEF Taken
<1>6. ASSUME NEW ok \in BOOLEAN, Answered(ok)
      PROVE  [ConfigQueue!Next]_(ConfigQueue!vars)
  <2> DEFINE answer == IF ok THEN "succeeded" ELSE "failed"
  <2>1. CASE task \in ConfigTask
    <3>1. outcomeOf(ConfigReqs)' = IF task \in ConfigReqs
                                   THEN [outcomeOf(ConfigReqs) EXCEPT ![task] = answer]
                                   ELSE outcomeOf(ConfigReqs)
      BY <1>1, <1>2, <1>6 DEF Answered, requests, outcomeOf, PromiseInv
    <3>2. ConfigQueue!Finish(answer)
      BY <1>1, <1>6, <2>1, <3>1, CurrentType DEF Answered, requests, ConfigQueue!Finish
    <3> QED
      BY <3>2 DEF ConfigQueue!Next
  <2>2. CASE task \notin ConfigTask
    BY <1>1, <1>2, <1>6, <2>2, CurrentType
       DEF Answered, requests, ConfigQueue!vars, outcomeOf
  <2> QED
    BY <2>1, <2>2
<1> QED
  BY <1>1, <1>3, <1>4, <1>5, <1>6, StepKinds

\* Configuration requests are served one at a time, in the order they were
\* made, and each is answered once: the engine implements TaskQueue.
THEOREM ConfigQueueImplemented == Spec => ConfigServedInOrder
<1>1. Init => ConfigQueue!Init
  BY CurrentType, InitIInv DEF IInv, Init, ConfigQueue!Init, outcomeOf, Requests, Promised
<1>2. IInv /\ [Next]_vars => [ConfigQueue!Next]_(ConfigQueue!vars)
  BY ConfigQueueStep, NextIsOpen DEF IInv
<1> QED
  BY Invariance, <1>1, <1>2, PTL DEF Spec, ConfigServedInOrder, ConfigQueue!Spec

-----------------------------------------------------------------------------
\* A step of the engine is a step of the SMS queue or leaves it alone.
LEMMA SmsQueueStep ==
  ASSUME IInv, [OpenNext]_vars
  PROVE  [SmsQueue!Next]_(SmsQueue!vars)
<1>1. TypeOK /\ ThreadInv /\ PromiseInv
  BY DEF IInv
<1>2. SmsSync \subseteq Requests /\ SmsSync \subseteq Promised
  BY DEF Requests, Promised
<1>3. CASE Untouched
  BY <1>2, <1>3 DEF Untouched, requests, SmsQueue!vars, outcomeOf
<1>4. ASSUME NEW r \in Requests \cup {ATH}, Queued(r)
      PROVE  [SmsQueue!Next]_(SmsQueue!vars)
  <2>1. CASE r \in SmsTask
    <3>1. atSmsRequestQueue' = Append(atSmsRequestQueue, r) /\ UNCHANGED <<task, completion>>
      BY <1>1, <1>4, <2>1, CurrentType DEF Queued
    <3>2. CASE r \in SmsSync
      <4>1. outcomeOf(SmsSync)[r] = "idle" /\ completion[r] = "pending"
        BY <1>1, <1>2, <1>4, <3>2 DEF Queued, outcomeOf, PromiseInv
      <4>2. outcomeOf(SmsSync)' = [outcomeOf(SmsSync) EXCEPT ![r] = "pending"]
        BY <1>2, <1>4, <3>1, <3>2, <4>1 DEF Queued, outcomeOf
      <4>3. SmsQueue!Add(r)
        BY <3>1, <3>2, <4>1, <4>2 DEF SmsQueue!Add
      <4> QED
        BY <2>1, <4>3 DEF SmsQueue!Next
    <3>3. CASE r \notin SmsSync
      <4>1. outcomeOf(SmsSync)' = outcomeOf(SmsSync)
        BY <1>2, <1>4, <3>1, <3>3 DEF Queued, outcomeOf
      <4>2. SmsQueue!Add(r)
        BY <2>1, <3>1, <3>3, <4>1 DEF SmsQueue!Add
      <4> QED
        BY <2>1, <4>2 DEF SmsQueue!Next
    <3> QED
      BY <3>2, <3>3
  <2>2. CASE r \notin SmsTask
    BY <1>1, <1>2, <1>4, <2>2, CurrentType DEF Queued, SmsQueue!vars, outcomeOf
  <2> QED
    BY <2>1, <2>2
<1>5. CASE Taken
  <2>1. outcomeOf(SmsSync)' = outcomeOf(SmsSync) /\ task = NoTask
    BY <1>5 DEF Taken, outcomeOf
  <2>2. CASE /\ atSmsRequestQueue # <<>>
             /\ task' = Head(atSmsRequestQueue) /\ atSmsRequestQueue' = Tail(atSmsRequestQueue)
    <3>1. task' \in SmsTask
      BY <1>1, <2>2, EndsType DEF TypeOK
    <3>2. SmsQueue!Take
      BY <1>1, <2>1, <2>2, <3>1, CurrentType DEF SmsQueue!Take
    <3> QED
      BY <3>2 DEF SmsQueue!Next
  <2>3. CASE /\ atRequestsQueue # <<>> /\ UNCHANGED atSmsRequestQueue
             /\ task' = Head(atRequestsQueue)
    <3>1. task' \in ConfigTask
      BY <1>1, <2>3, EndsType DEF TypeOK
    <3> QED
      BY <1>1, <2>1, <2>3, <3>1, CurrentType DEF SmsQueue!vars
  <2> QED
    BY <1>5, <2>2, <2>3 DEF Taken
<1>6. ASSUME NEW ok \in BOOLEAN, Answered(ok)
      PROVE  [SmsQueue!Next]_(SmsQueue!vars)
  <2> DEFINE answer == IF ok THEN "succeeded" ELSE "failed"
  <2>1. CASE task \in SmsTask
    <3>1. outcomeOf(SmsSync)' = IF task \in SmsSync
                                   THEN [outcomeOf(SmsSync) EXCEPT ![task] = answer]
                                   ELSE outcomeOf(SmsSync)
      BY <1>1, <1>2, <1>6 DEF Answered, requests, outcomeOf, PromiseInv
    <3>2. SmsQueue!Finish(answer)
      BY <1>1, <1>6, <2>1, <3>1, CurrentType DEF Answered, requests, SmsQueue!Finish
    <3> QED
      BY <3>2 DEF SmsQueue!Next
  <2>2. CASE task \notin SmsTask
    BY <1>1, <1>2, <1>6, <2>2, CurrentType
       DEF Answered, requests, SmsQueue!vars, outcomeOf
  <2> QED
    BY <2>1, <2>2
<1> QED
  BY <1>1, <1>3, <1>4, <1>5, <1>6, StepKinds

\* SMS requests are served one at a time, in the order they were
\* made, and each is answered once: the engine implements TaskQueue.
THEOREM SmsQueueImplemented == Spec => SmsServedInOrder
<1>1. Init => SmsQueue!Init
  BY CurrentType, InitIInv DEF IInv, Init, SmsQueue!Init, outcomeOf, Requests, Promised
<1>2. IInv /\ [Next]_vars => [SmsQueue!Next]_(SmsQueue!vars)
  BY SmsQueueStep, NextIsOpen DEF IInv
<1> QED
  BY Invariance, <1>1, <1>2, PTL DEF Spec, SmsServedInOrder, SmsQueue!Spec
=============================================================================
