-------------------------------- MODULE MCWaddle --------------------------------
(***************************************************************************)
(* Waddle with small angles, for TLC.                                      *)
(***************************************************************************)
EXTENDS Waddle

==============================================================================
