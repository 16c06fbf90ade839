------------------------------- MODULE MCBoard -------------------------------
(* Board on a small instance: all devices but the modules of two slots are  *)
(* fitted; of those whose drivers look at the status of a write, and of the *)
(* others, some may not answer.                                             *)
EXTENDS Board

CONSTANT h1

OneHandler == {h1}
AllThreads == {h1, "main", "brdstats", "console"}
MostDevices == Devices \ {Sfp(1), SfpId(1), Sfp(4), SfpId(4)}
MayFail == {ParamEeprom, Ina226, Ltc2977, Ltc2991(x49), Sfp(0)}

=============================================================================
