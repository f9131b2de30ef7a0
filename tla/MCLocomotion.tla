----------------------------- MODULE MCLocomotion -----------------------------
(***************************************************************************)
(* Locomotion on small sets, for TLC.                                      *)
(***************************************************************************)
EXTENDS Locomotion, TLC

\* Client threads are alike, and so are std::thread objects.
Symmetry == Permutations(Commanders) \union Permutations(Threads)

==============================================================================
