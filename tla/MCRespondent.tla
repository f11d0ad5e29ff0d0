---------------------------- MODULE MCRespondent ----------------------------
(* Small instances of Respondent for TLC. *)
EXTENDS Respondent, TLC

CONSTANTS c1, c2, c3, r1, r2, i1, i2, p1

MCConns     == {c1, c2, c3}
MCTwoConns  == {c1, c2}
MCResponses == {r1, r2}

\* Two invitations to the same panelist.
MCInvitedAs == i1 :> p1 @@ i2 :> p1
MCOneInvite == i1 :> p1

Symmetry == Permutations(MCConns) \cup Permutations(MCResponses) \cup Permutations({i1, i2})
=============================================================================
