SPECIFICATION FairSpec
CONSTANTS
  c1 = c1
  c2 = c2
  c3 = c3
  r1 = r1
  r2 = r2
  i1 = i1
  i2 = i2
  p1 = p1
  Link = Link
  Nobody = Nobody
  Conns <- MCTwoConns
  Invites = {i1, i2}
  Responses <- MCResponses
  Panelists = {p1}
  InvitedAs <- MCInvitedAs
INVARIANTS OneOpenResponse EffectsOnce OneAnswerUnlessOverwritten AnonymizedUnlinked
PROPERTIES RequestsEnd
