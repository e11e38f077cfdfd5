------------------------------ MODULE MCSession ------------------------------
(***************************************************************************)
(* Session with room for two threads, the second of which makes the array  *)
(* grow, and structures that are there, or not, or not supported.          *)
(***************************************************************************)
EXTENDS Session

MCBlock == 1 .. 7
MCHeaders == {[magic |-> TRUE, v |-> TRUE, major |-> n] : n \in 0 .. 1}
               \cup {[magic |-> FALSE, v |-> FALSE, major |-> 0]}
MCNoFault == {}
MCFieldFaults == {"field"}
=============================================================================
