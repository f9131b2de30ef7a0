----------------------------- MODULE MCPneumatics -----------------------------
(***************************************************************************)
(* Pneumatics with raw values for each position of the switches, on both   *)
(* sides of one boundary for each switch.                                  *)
(***************************************************************************)
EXTENDS Pneumatics, TLC

PumpChannels == {5, 6}

PumpValues == [i \in PumpChannels |->
  IF i = 5 THEN {581, 582, 1401} ELSE {581, 1400, 1401}]

\* Clients are alike, and so are the threads that send pulses.
Symmetry == Permutations(Clients) \union Permutations(Tasks)

==============================================================================
