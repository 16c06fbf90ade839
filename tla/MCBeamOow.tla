------------------------------- MODULE MCBeamOow -------------------------------
(* BeamOow and PulseStats on small instances: the sets are defined here, the *)
(* numbers in the .cfg.                                                       *)
EXTENDS BeamOow

TwoSamples == {-1, 4}
FloorValue == -3
TwoStarts == <<1, 3>>

=============================================================================
