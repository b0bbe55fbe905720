SPECIFICATION Spec
CONSTANTS
  Keys = {k1, k2}
  Clients = {c1, c2}
  good = good
  flaky = flaky
  Sources = {good, flaky}
  Reliable = {good}
  Options <- MCOptions
  NoSource = NoSource
  NoItem = NoItem
  Times = {0, 2}
  MaxCalls = 2
INVARIANT NilIsNeverStale
