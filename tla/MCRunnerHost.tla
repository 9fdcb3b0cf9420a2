---------------------------- MODULE MCRunnerHost ----------------------------
(* Instances of RunnerHost for TLC.                                          *)
EXTENDS RunnerHost, TLC

CONSTANTS ci1, ci2, ci3, win

\* A branch names ci1; the other two are of pull requests that are not rebased.
Boxes == {ci1, ci2, ci3, win}
CiBoxes == {ci1, ci2, ci3}

\* The unused boxes are interchangeable.
Unused == Permutations({ci2, ci3})
=============================================================================
