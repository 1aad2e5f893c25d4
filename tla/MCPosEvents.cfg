\* One event of two items; two sessions process it, operators twice.
CONSTANTS
  pizza = pizza
  wine = wine
  e1 = e1
  e2 = e2
  s1 = s1
  s2 = s2
  Free = Free
  NoEvent = NoEvent
  Events = {e1}
  Items = {pizza, wine}
  ItemsOf <- TwoItems
  Sessions = {s1, s2}
  MaxStock = 2
  MaxStarts = 2
SPECIFICATION FairSpec
INVARIANTS TypeOK TakenOnce AuditTimeline
PROPERTIES TerminalIsFinal RunsEnd
