\* One restaurant; each workload is a set of requests its people make.
CONSTANTS
  p1 = p1
  p2 = p2
  ann = ann
  bob = bob
  cyd = cyd
  cold = cold
  warm = warm
  Nobody = Nobody
  NoRequest = NoRequest
  NoEquipment = NoEquipment
  NoSnapshot = NoSnapshot
  NoExpiry = NoExpiry
  Procs = {p1, p2}
  Users = {ann, bob, cyd}
  Founder = ann
  Equipment = {cold, warm}
  Temperatures = {0, 1, 5, 6}
  Machines <- OurMachines
  Workloads <- OurWorkloads
  FirstWeekday = 0
  MonthStarts <- FirstDays
SPECIFICATION Spec
INVARIANTS TypeOK SeededOnce CompletedIsAnswered RacesAreBounded PendingIsHonest BreachIsShown
PROPERTIES OnlyTheFounderManages OnlyInvitationsReadmit KeepsTheBook ClearedStaysCleared  LotsRipen
