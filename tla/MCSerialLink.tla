---------------------------- MODULE MCSerialLink ----------------------------
(* An instance of SerialLink for TLC. *)
EXTENDS SerialLink

CONSTANTS a, b, prompt, cmd, sub

MCByte == {a, b, prompt, cmd, sub, CR, LF}
MCTalks == { <<<<prompt>>, <<a, CR, LF>>>>,
             <<<<CR, LF>>, <<a, CR, LF>>, <<prompt>>>>,
             <<<<a, b, a, b, CR, LF>>, <<b, CR, LF>>>> }
MCCommands == << [text |-> <<cmd>>, char |-> FALSE], [text |-> <<sub>>, char |-> TRUE] >>
=============================================================================
