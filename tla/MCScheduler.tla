----------------------------- MODULE MCScheduler -----------------------------
(* ATScheduler on a small instance, against a modem that may say anything.  *)
EXTENDS ATScheduler

Line(kind) == [kind |-> kind, id |-> NoId]

\* One message for every way the engine can treat a line, calls and SMS
\* headers included; a text is a line that no wait looks for.
MCMessages == {Line(k) : k \in Tokens}
              \cup {[kind |-> "CMT", id |-> i] : i \in InSms}
              \cup {[kind |-> "CLIP", id |-> n] : n \in InCalls}
=============================================================================
