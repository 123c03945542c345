----------------------------- MODULE MCMonitor -----------------------------
(* Monitor on a small instance: two active users, one of whom the phone book *)
(* may take for another or not have at all.                                  *)
EXTENDS Monitor

MCAlphabet == <<"Adam", "Adamski", "Ewa">>
MCWithin == {<<w, w>> : w \in Range(MCAlphabet)} \cup {<<"Adam", "Adamski">>}

Entry(name, surname, numbers) ==
  [name |-> name, surname |-> surname, emails |-> <<"mail">>, numbers |-> numbers]

\* Two contacts that may be active, and a third whose names the words "Ewa"
\* and "Adam" are within; or without the first, and the third shares a number
\* with the second.
MCBooks ==
  {Lines(<<Entry("Ewa", "Adam", <<"n1">>), Entry("Adam", "Adamski", <<"n2">>),
           Entry("Ewa", "Adamski", <<>>)>>),
   Lines(<<Entry("Adam", "Adamski", <<"n2", "n1">>), Entry("Ewa", "Adamski", <<"n1">>)>>)}

\* A text that fits and one of three parts, the last of which is empty.
MCTexts == {<<"a", "b">>, <<"a", "b", "c", "d", "e">>}
\* For the run about the next SMS: texts that fit.
MCShort == {<<"a">>}
=============================================================================
