--------------------------- MODULE MCSerialFrames ---------------------------
(* Values for TLC are all in the configuration.                             *)
EXTENDS SerialFrames
=============================================================================
