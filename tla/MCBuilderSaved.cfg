CONSTANTS
  m = m
  l = l
  Tabs = {m, l}
  Editor <- MCEditor
  Documents <- MCDocuments
  Types = {"first_click", "prototype_test"}
  Looks = {"a", "b"}
  Files = {"A", "B"}
  MaxStimuli = 3
  MaxWork = 2
SPECIFICATION Spec
INVARIANT SavedMeansSaved
