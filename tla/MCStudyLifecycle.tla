-------------------------- MODULE MCStudyLifecycle --------------------------
(* Small instances of StudyLifecycle for TLC. *)
EXTENDS StudyLifecycle, TLC

CONSTANTS s1, s2, a1, a2, c1, c2, c3

MCStudies == {s1, s2}
MCAssets == {a1, a2}
MCCalls == {c1, c2}
MCThreeCalls == {c1, c2, c3}

Symmetry == Permutations(MCStudies) \cup Permutations(MCAssets) \cup Permutations(MCCalls)
CallSymmetry == Permutations(MCThreeCalls)
=============================================================================
