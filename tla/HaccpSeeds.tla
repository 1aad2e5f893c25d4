----------------------------- MODULE HaccpSeeds -----------------------------
(***************************************************************************)
(* The checklist templates every restaurant is created with:               *)
(* SEED_TEMPLATES of services/haccp_service.py, one definition for each.   *)
(*                                                                         *)
(* A template is known by what the services branch on: its name (reseeding *)
(* matches on it), its frequency and shifts a day (the dashboard and the   *)
(* monthly report count by them), whether its questions are the equipment  *)
(* of the restaurant, of which type, and how many of its items are         *)
(* required and how many optional (completing a run asks for the former).  *)
(* The wording, order and type of an item decide nothing and are left out. *)
(***************************************************************************)
EXTENDS Naturals, Sequences

AnyType == "any"   \* no equipment_type_filter

\* A template of written questions.
Checklist(name, frequency, required, optional) ==
    [name |-> name, frequency |-> frequency, shifts |-> 0,
     dynamic |-> FALSE, filter |-> AnyType,
     required |-> required, optional |-> optional]

\* A template that asks for a reading of each piece of equipment.
EquipmentRound(name, shifts, filter) ==
    [name |-> name, frequency |-> "shift", shifts |-> shifts,
     dynamic |-> TRUE, filter |-> filter, required |-> 0, optional |-> 0]

OpeningCheck      == Checklist("Opening Check", "daily", 12, 1)
ClosingCheck      == Checklist("Closing Check", "daily", 11, 2)
TemperatureRound  == EquipmentRound("Temperature Log", 2, AnyType)
DeliveryCheck     == Checklist("Delivery Check", "on_delivery", 11, 2)
CleaningLog       == Checklist("Cleaning Log", "daily", 6, 3)
WeeklyDeepClean   == Checklist("Weekly Deep Clean", "weekly", 5, 2)
CookingRecord     == Checklist("SC3 Cooking/Cooling/Reheating Record",
                               "on_delivery", 6, 1)
HotHoldRecord     == EquipmentRound("SC4 Hot Hold/Display Record", 3, "hot_hold")
HygieneTraining   == Checklist("SC6 Staff Hygiene Training Record", "monthly", 5, 1)
FitnessToWork     == Checklist("SC7 Fitness to Work Assessment", "monthly", 6, 1)
AllergenRecord    == Checklist("Allergen Record", "monthly", 17, 0)
FireSafetyCheck   == Checklist("Fire Safety Check", "daily", 6, 1)
PestControlLog    == Checklist("Pest Control Log", "weekly", 6, 1)
AccidentRecord    == Checklist("Accident and Incident Record", "monthly", 7, 2)
SafetyCheck       == Checklist("Opening and Closing Safety Check", "daily", 6, 2)

SEED_TEMPLATES ==
    << OpeningCheck, ClosingCheck, TemperatureRound, DeliveryCheck, CleaningLog,
       WeeklyDeepClean, CookingRecord, HotHoldRecord, HygieneTraining,
       FitnessToWork, AllergenRecord, FireSafetyCheck, PestControlLog,
       AccidentRecord, SafetyCheck >>
=============================================================================
