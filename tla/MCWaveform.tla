------------------------------ MODULE MCWaveform ------------------------------
(* Waveform on small instances: the constants are given in the .cfg files.  *)
EXTENDS Waveform

=============================================================================
