------------------------------- MODULE MCEnergy -------------------------------
(* An instance of EnergyCapture.tla for TLC.                                 *)
EXTENDS EnergyCapture, TLC

=============================================================================
