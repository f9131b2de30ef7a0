------------------------------ MODULE MCRCDrive ------------------------------
(***************************************************************************)
(* RCDrive with a few raw values per channel, for TLC.                     *)
(***************************************************************************)
EXTENDS RCDrive

DriveChannels == {0, 1, 4, 7}

\* The move stick around the edges of the threshold and of the dead zone.
DriveValues == [i \in DriveChannels |->
  IF i = 0 THEN {991, 1000} ELSE IF i = 1 THEN {991, 997, 1000}
  ELSE {172, 991, 1810}]

==============================================================================
