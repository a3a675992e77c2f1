------------------------------ MODULE MCBridge ------------------------------
(* Instances of Bridge for TLC. *)
EXTENDS Bridge

AllKinds == {"inverter", "fronius", "ebz", "slave"}

OnlyEasyMeter == {"ebz"}
=============================================================================
