-------------------------- MODULE MCEcaccessCommand --------------------------
(* EcaccessCommand for TLC: its only constant is a bound.                  *)
EXTENDS EcaccessCommand
=============================================================================
