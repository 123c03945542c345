------------------------------- MODULE Lists -------------------------------
(***************************************************************************)
(* The elements of a sequence that are in a set, in their order: what      *)
(* SelectSeq is for a test, in a form that the provers can expand.         *)
(***************************************************************************)
EXTENDS Integers, SequencesExt

Only(s, S) ==
  LET f[i \in 0..Len(s)] ==
        IF i = 0 THEN <<>>
        ELSE IF s[i] \in S THEN Append(f[i - 1], s[i]) ELSE f[i - 1]
  IN  f[Len(s)]
=============================================================================
