\* A discard between the read and the lock of another one.
CONSTANTS
  s1 = s1
  s2 = s2
  flour = flour
  milk = milk
  Free = Free
  NoLot = NoLot
  NoExpiry = NoExpiry
  Sessions = {s1, s2}
  Lots = {1, 2}
  Products = {flour, milk}
  ProductOf <- OneProduct
  Plans <- SinglePlans
  Quantities = {1}
  Dates = {1}
  EditDates = {1}
  MaxStock = 2
  MaxDiscards = 1
SPECIFICATION Spec
INVARIANT LedgerExact
