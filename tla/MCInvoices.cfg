\* One request at a time processes, one reviews; they overlap.
CONSTANTS
  p1 = p1
  p2 = p2
  r1 = r1
  l1 = l1
  l2 = l2
  l3 = l3
  l4 = l4
  Processors = {p1}
  Reviewers = {r1}
  Lines = {l1, l2, l3, l4}
  Decisions <- OneEach
SPECIFICATION Spec
INVARIANTS TypeOK OneLotPerConfirmedLine
PROPERTIES ConfirmedIsFinal ReadOnce
CHECK_DEADLOCK FALSE
