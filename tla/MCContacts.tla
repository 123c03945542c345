----------------------------- MODULE MCContacts -----------------------------
(* Contacts on a small instance: a surname within another surname, a name   *)
(* within a surname.                                                        *)
EXTENDS Contacts

CONSTANTS n1, n2

MCAlphabet == <<"Adam", "Adamski", "Ewa">>
MCWithin == {<<w, w>> : w \in Range(MCAlphabet)} \cup {<<"Adam", "Adamski">>}
MCPeople == {[name |-> "Adam", surname |-> "Adamski"],
             [name |-> "Ewa", surname |-> "Adam"],
             [name |-> "Ewa", surname |-> "Adamski"]}
MCNumbers == {n1, n2, "112"}
NumberSymmetry == Permutations({n1, n2})
=============================================================================
