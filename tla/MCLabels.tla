------------------------------ MODULE MCLabels ------------------------------
(* Values of the constants of Labels for TLC.                               *)
EXTENDS Labels, TLC

TwoBridges == { "b1", "b2" }
=============================================================================
