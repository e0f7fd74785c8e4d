---------------------------- MODULE MCJscCommand ----------------------------
(* Instances of JscToken and JscCommand for TLC.                           *)
EXTENDS JscToken

\* Characters of two bytes and of one.
MixedWidths == <<2, 3, 4>>
=============================================================================
