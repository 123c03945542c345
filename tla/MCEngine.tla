------------------------------ MODULE MCEngine ------------------------------
(* GSMEngine on a small instance.  The bounds of ATScheduler's open         *)
(* environment are not used: everything that arrives comes from the modem,  *)
(* which answers finitely many requests and receives finitely many messages. *)
EXTENDS GSMEngine

\* Every incoming SMS has the word OK in its text.
TextsSayOK == InSms \X {"OK"}

\* initilize makes every setting, or the settings are calls of their own.
AllSettings == SetToSeq(ConfigReqs)
NoSettings == <<>>

\* Incoming messages are interchangeable; sound where no liveness is checked.
SmsSymmetry == Permutations(InSms)
=============================================================================
