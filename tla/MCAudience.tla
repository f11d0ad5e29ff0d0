----------------------------- MODULE MCAudience -----------------------------
(* Small instances of Audience for TLC. *)
EXTENDS Audience, TLC

CONSTANTS p1, p2, c1, c2

MCPanelists == {p1, p2}
MCPast == <<[invited |-> {p1}, day |-> 0]>>
MCCalls == {c1, c2}

Symmetry == Permutations(MCCalls)
=============================================================================
