\* An expiry is edited while a consumption waits.
CONSTANTS
  s1 = s1
  s2 = s2
  flour = flour
  milk = milk
  Free = Free
  NoLot = NoLot
  NoExpiry = NoExpiry
  Sessions = {s1, s2}
  Lots = {1, 2}
  Products = {flour, milk}
  ProductOf <- OneProduct
  Plans <- SinglePlans
  Quantities <- SignedQuantities
  Dates = {1, 2}
  EditDates = {1, 2}
  MaxStock = 2
  MaxDiscards = 0
SPECIFICATION Spec
PROPERTY FefoRespected
