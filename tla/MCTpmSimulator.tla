---------------------------- MODULE MCTpmSimulator ----------------------------
(***************************************************************************)
(* Three commands on a connection, of one and two pieces, answers that fit *)
(* and that do not, and words that pass for a trailer, for a size, and for *)
(* a size that is too large.                                               *)
(***************************************************************************)
EXTENDS TpmSimulator

MCCmdLens == {1, 2}
MCAnswerSizes == {2, 3}
MCWords == {0, 1, 3}
=============================================================================
