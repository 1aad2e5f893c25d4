\* Plans that cross, over two products.
CONSTANTS
  s1 = s1
  s2 = s2
  flour = flour
  milk = milk
  Free = Free
  NoLot = NoLot
  NoExpiry = NoExpiry
  Sessions = {s1, s2}
  Lots = {1, 2, 3}
  Products = {flour, milk}
  ProductOf <- TwoProducts
  Plans <- CrossingPlans
  Quantities = {1}
  Dates = {1}
  EditDates = {}
  MaxStock = 1
  MaxDiscards = 0
SPECIFICATION FairSpec
PROPERTIES LooksAtomic EveryConsumerEnds
