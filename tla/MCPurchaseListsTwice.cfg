\* One editor and one receiver at a time.
CONSTANTS
  ed = ed
  r1 = r1
  r2 = r2
  oil = oil
  salt = salt
  rice = rice
  Free = Free
  NoItem = NoItem
  Editors = {ed}
  Receivers = {r1, r2}
  Items = {oil, salt, rice}
  Quantities = {1, 2, 3}
  MaxReceived = 4
SPECIFICATION Spec
INVARIANT ListInStep
CHECK_DEADLOCK FALSE
