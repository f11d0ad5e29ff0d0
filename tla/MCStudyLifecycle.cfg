SPECIFICATION Spec
CONSTANTS
  s1 = s1
  s2 = s2
  a1 = a1
  a2 = a2
  c1 = c1
  c2 = c2
  c3 = c3
  NoStudy = NoStudy
  NoAsset = NoAsset
  Studies <- MCStudies
  Assets = {a1}
  Calls <- MCCalls
  MaxVersions = 1
SYMMETRY Symmetry
INVARIANTS VersionsNumbered LiveHasVersion ShownImagesAreStored
PROPERTIES VersionsNeverChange
CHECK_DEADLOCK FALSE
