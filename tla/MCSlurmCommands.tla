--------------------------- MODULE MCSlurmCommands ---------------------------
(* SlurmCommands for TLC.                                                  *)
EXTENDS SlurmCommands
=============================================================================
