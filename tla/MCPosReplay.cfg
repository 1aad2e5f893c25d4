\* Two events of one item: a replay after a restart.
CONSTANTS
  pizza = pizza
  wine = wine
  e1 = e1
  e2 = e2
  s1 = s1
  s2 = s2
  Free = Free
  NoEvent = NoEvent
  Events = {e1, e2}
  Items = {pizza}
  ItemsOf <- TwoItems
  Sessions = {s1, s2}
  MaxStock = 1
  MaxStarts = 1
SPECIFICATION Spec
INVARIANT SkippedReplaysAreHandled
