---------------------------- MODULE MCPanelImport ----------------------------
(* Small instances of PanelImport for TLC. *)
EXTENDS PanelImport, TLC

CONSTANTS k1, k2, b1, b2, c1, c2, g1, g2, o1

MCKeys == {k1, k2}
MCBatches == {b1, b2}
MCCalls == {c1, c2}

Symmetry == Permutations(MCKeys) \cup Permutations(MCBatches) \cup Permutations(MCCalls)

(* Bound: recruitment pages insert rows in some behaviours and officers     *)
(* anonymize in the others.  MCSpec, for MCPanelAnonymized.cfg, has both.   *)
VARIABLE inserting

Inserts(g) == pages[g].pc = "looked" /\ pages[g].row = NoRow

MCInit == Init /\ inserting \in BOOLEAN

MCNext ==
  /\ Next
  /\ UNCHANGED inserting
  /\ IF inserting THEN UNCHANGED scrubs ELSE \A g \in Pages : ~Inserts(g)'

MCSpec == MCInit /\ [][Next /\ UNCHANGED inserting]_<<vars, inserting>>

MCFairSpec == MCInit /\ [][MCNext]_<<vars, inserting>> /\ Fairness
=============================================================================
