-------------------------- MODULE MCTelemetryServer --------------------------
(***************************************************************************)
(* TelemetryServer on small sets, for TLC.                                 *)
(***************************************************************************)
EXTENDS TelemetryServer, TLC

\* Connections are alike, and so are descriptors.
Symmetry == Permutations(Clients) \union Permutations(Fds)

==============================================================================
