----------------------------- MODULE MCRotations -----------------------------
(***************************************************************************)
(* Sequences of none or two rotations of two joints, the second of which   *)
(* is relative, for TLC: actions.cfg.                                      *)
(***************************************************************************)
EXTENDS Rotations

SomeRounds == {LOOP_FOREVER, 2}

Wheels == <<"left_wheel", "right_wheel">>

ToAndOn == [k \in {0, 1} |-> [type    |-> IF k = 0 THEN "absolute" ELSE "relative",
                              degrees |-> 3]]

==============================================================================
