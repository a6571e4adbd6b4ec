---------------------------- MODULE MCNullModem ----------------------------
(* An instance of NullModem for TLC: every conversion with every kind of   *)
(* flow control, with and without the pause after a carriage return.       *)
EXTENDS NullModem

MC_Settings == SettingType
=============================================================================
