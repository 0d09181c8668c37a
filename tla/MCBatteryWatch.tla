--------------------------- MODULE MCBatteryWatch ---------------------------
(***************************************************************************)
(* Model checking instance of BatteryWatch: eight levels, of which those   *)
(* below four are below the threshold and those below two below half.      *)
(***************************************************************************)
EXTENDS BatteryWatch

=============================================================================
