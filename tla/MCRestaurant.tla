--------------------------- MODULE MCRestaurant ---------------------------
EXTENDS Restaurant

CONSTANTS p1, p2, ann, bob, cyd, cold, warm

Weekly == [name |-> "Filters", frequency |-> "weekly"]
Hourly == [name |-> "Filters", frequency |-> "hourly"]   \* refused
Renamed == [name |-> "Alarm Test", frequency |-> "daily"]
Back == [name |-> FireSafetyCheck.name, frequency |-> "daily"]
OfEquipment == [name |-> WeeklyDeepClean.name, frequency |-> "weekly", dynamic |-> TRUE]

Fridge == [type |-> "fridge", min |-> 1, max |-> 5]
Cupboard == [type |-> "hot_hold", min |-> 4, max |-> 9]
OurMachines == {Fridge, Cupboard}

\* Everybody at work on nothing; each workload below changes some of it.
Quiet == [desks |-> {p1, p2}, people |-> {ann}, kinds |-> {"create"},
          names |-> {}, forms |-> {}, templates |-> 15, items |-> 0, runs |-> 0, logs |-> 0,
          days |-> 0]

Staffing == [Quiet EXCEPT !.people = {ann, bob, cyd},
                          !.kinds = @ \cup {"invite", "role", "remove"}]

Seeding == [Quiet EXCEPT !.templates = 17, !.forms = {Renamed, Back},
    !.names = {FireSafetyCheck.name, "Alarm Test"},
    !.kinds = @ \cup {"reseed", "update_template", "delete_template"}]

Rounds == [Quiet EXCEPT !.names = {HotHoldRecord.name}, !.runs = 1,
    !.kinds = @ \cup {"start", "answer", "complete", "create_equipment",
                      "delete_equipment"}]

Questions == [Quiet EXCEPT !.names = {WeeklyDeepClean.name}, !.runs = 1, !.items = 6,
    !.forms = {OfEquipment},
    !.kinds = @ \cup {"start", "answer", "complete", "create_item",
                      "update_template"}]

Readings == [Quiet EXCEPT !.desks = {p1}, !.logs = 1, !.days = 2,
    !.kinds = @ \cup {"log", "create_equipment", "update_equipment",
                      "delete_equipment"}]

Fortnight == [Quiet EXCEPT !.desks = {p1}, !.names = {"Filters"}, !.templates = 16,
    !.forms = {Weekly, Hourly},
    !.runs = 2, !.days = 14,
    !.kinds = @ \cup {"create_template", "set_active", "start", "complete"}]

Shifts == [Quiet EXCEPT !.names = {HotHoldRecord.name}, !.runs = 3, !.days = 1,
    !.kinds = @ \cup {"start", "complete"}]

OurWorkloads == {Staffing, Seeding, Rounds, Questions, Readings, Fortnight, Shifts}
FirstDays == {0, 14}
=============================================================================
