------------------------------- MODULE Haccp -------------------------------
(***************************************************************************)
(* HACCP checklists: services/haccp_service.py with its endpoints, and the *)
(* equipment and temperature logs of endpoints/equipment.py.               *)
(*                                                                         *)
(* Rows are only ever added, so a template or a run is its position in     *)
(* templates or runs.  The written items of a template differ in nothing   *)
(* the service looks at but whether they are required, so a template keeps *)
(* how many required items it has and a run how many of them are answered. *)
(***************************************************************************)
EXTENDS Memberships, HaccpSeeds, SequencesExt, Integers

CONSTANTS
    Equipment,       \* pieces of equipment a restaurant may register
    NoEquipment,     \* no row
    NoSnapshot,      \* the snapshot of a run that is not dynamic
    Machines,        \* what equipment is registered as: its type and its limits,
                     \* no limit being one that no reading reaches
    Temperatures,    \* readings
    Workloads        \* what the people of the restaurant do, and how often

VARIABLES
    templates,       \* haccp_checklist_templates, with their required items
    equipment,       \* equipment rows
    runs,            \* haccp_checklist_runs, with their answers
    logs,            \* temperature_logs
    day,             \* today
    work             \* the workload, one of Workloads

\* The body of a template request sets fields of HACCPTemplateCreate: a name, a
\* frequency, which is any text, and perhaps others.
FormTexts == {"name", "frequency", "filter"}
IsForm(f) ==
    /\ {"name", "frequency"} \subseteq DOMAIN f
    /\ DOMAIN f \subseteq FormTexts \cup {"shifts", "dynamic"}
    /\ "shifts" \in DOMAIN f => f["shifts"] \in Int
    /\ "dynamic" \in DOMAIN f => f["dynamic"] \in BOOLEAN

\* The texts of the tables: the seeds', and those the requests bring.
Forms == UNION {w.forms : w \in Workloads}
SeedTexts == UNION {{s.name, s.frequency, s.filter} : s \in Range(SEED_TEMPLATES)}
FormsTexts == UNION {{f[c] : c \in FormTexts \cap DOMAIN f} : f \in Forms}
Texts == {"", AnyType} \cup SeedTexts \cup FormsTexts \cup {m.type : m \in Machines}

\* A row of haccp_checklist_templates with its items, and one of equipment.
Template ==
    [name : Texts, frequency : Texts, shifts : Int, dynamic : BOOLEAN,
     filter : Texts, required : Nat, optional : Nat,
     active : BOOLEAN, seed : BOOLEAN, edited : BOOLEAN]

Machine == [type : Texts, min : Int, max : Int]
Piece   == [type : Texts, min : Int, max : Int, active : BOOLEAN]

ASSUME HaccpAssumption ==
    /\ NoEquipment \notin Piece
    /\ \A S \in SUBSET Equipment : NoSnapshot # S
    /\ Machines \subseteq Machine /\ Temperatures \subseteq Int

ASSUME WorkloadAssumption ==
    \A w \in Workloads :
       /\ w.desks \subseteq Procs /\ w.people \subseteq Users /\ w.kinds \subseteq Kinds
       /\ \A f \in w.forms : IsForm(f)
       /\ w.days \in Nat

haccpVars == <<templates, equipment, runs, logs, day, work>>

HaccpInit ==
    /\ templates = << >>
    /\ equipment = [e \in Equipment |-> NoEquipment]
    /\ runs = << >>
    /\ logs = << >>
    /\ day = 0
    /\ work \in Workloads

----------------------------------------------------------------------------
\* Templates.  edited is TRUE once a request has written the row.

FREQUENCIES == {"daily", "shift", "on_delivery", "weekly", "monthly"}

\* The CHECK constraint of the table: a request that violates it is rolled back.
ck_haccp_template_frequency(t) == t.frequency \in FREQUENCIES

\* A row with the fields of a body set, as model_dump(exclude_unset=True) has them.
Patched(row, body) ==
    [c \in DOMAIN row |-> IF c \in DOMAIN body THEN body[c] ELSE row[c]]

Seeded(s) ==
    [name |-> s.name, frequency |-> s.frequency, shifts |-> s.shifts,
     dynamic |-> s.dynamic, filter |-> s.filter, required |-> s.required,
     optional |-> s.optional, active |-> TRUE, seed |-> TRUE, edited |-> FALSE]

create_seed_templates ==
    templates' = [i \in DOMAIN SEED_TEMPLATES |-> Seeded(SEED_TEMPLATES[i])]

\* The new restaurant, its owner and its templates are one commit.
CreateRestaurant(p) ==
    /\ Found(p)
    /\ create_seed_templates
    /\ UNCHANGED <<equipment, runs, logs, day, work>>

\* Mutant: only the active templates are looked at.
ActiveNames == {templates[i].name : i \in {j \in DOMAIN templates : templates[j].active}}

ExistingNames == {t.name : t \in Range(templates)}

\* The templates this workload touches, and whether one more may be made.
Handled == {i \in DOMAIN templates : templates[i].name \in work.names}
RoomForTemplates == Len(templates) < work.templates

ReadNames(p) ==
    /\ At(p, "handler", "reseed")
    /\ Keep(p, 0, ExistingNames)
    /\ UNCHANGED <<users, members, haccpVars>>

\* The seeds of the names that were not there, one after the other: nothing
\* looks at their order.  No unique index stands behind the names.
Missing(names) == {s \in Range(SEED_TEMPLATES) : s.name \notin names}
NewRows(names) ==
    LET missing == SetToSeq(Missing(names))
    IN [i \in 1..Cardinality(Missing(names)) |-> Seeded(missing[i])]

Reseed(p) ==
    /\ At(p, "commit", "reseed")
    /\ Len(templates) + Cardinality(Missing(req[p].seen)) <= work.templates
    /\ templates' = templates \o NewRows(req[p].seen)
    /\ End(p)
    /\ UNCHANGED <<users, members, equipment, runs, logs, day, work>>

TemplateRequest(p, kind, step) ==
    /\ At(p, step, kind)
    /\ End(p)
    /\ UNCHANGED <<users, members, equipment, runs, logs, day, work>>

NewTemplate ==
    [name |-> "", frequency |-> "", shifts |-> 0, dynamic |-> FALSE,
     filter |-> AnyType, required |-> 0, optional |-> 0,
     active |-> TRUE, seed |-> FALSE, edited |-> FALSE]

CreateTemplate(p) ==
    /\ TemplateRequest(p, "create_template", "handler")
    /\ RoomForTemplates
    /\ \E f \in work.forms :
          /\ ck_haccp_template_frequency(f)
          /\ templates' = Append(templates, Patched(NewTemplate, f))

\* A template about to be updated, switched on or off, or deleted.
ReadToWrite(p) ==
    /\ \/ At(p, "handler", "update_template")
       \/ At(p, "handler", "set_active")
       \/ At(p, "handler", "delete_template")
    /\ \E i \in Handled : Keep(p, i, templates[i])
    /\ UNCHANGED <<users, members, haccpVars>>

WriteTemplate(p, kind, new) ==
    /\ TemplateRequest(p, kind, "commit")
    /\ templates' = [templates EXCEPT ![req[p].on] = Written(@, req[p].seen, new)]

\* Only the fields of the body are set.
UpdateTemplate(p) ==
    \E f \in work.forms :
       /\ ck_haccp_template_frequency(f)
       /\ WriteTemplate(p, "update_template", Patched([req[p].seen EXCEPT !.edited = TRUE], f))

SetTemplateActive(p) ==
    \E active \in BOOLEAN :
       WriteTemplate(p, "set_active", [req[p].seen EXCEPT !.active = active])

\* Soft: runs and answers of the template stay.
DeleteTemplate(p) ==
    WriteTemplate(p, "delete_template", [req[p].seen EXCEPT !.active = FALSE])

\* A required item; an optional one changes nothing that is modelled.
CreateItem(p) ==
    /\ TemplateRequest(p, "create_item", "handler")
    /\ \E i \in Handled :
          /\ templates[i].required < work.items
          /\ templates' = [templates EXCEPT ![i].required = @ + 1]

TemplateStep(p) ==
    \/ ReadNames(p) \/ Reseed(p)
    \/ CreateTemplate(p) \/ CreateItem(p) \/ ReadToWrite(p)
    \/ UpdateTemplate(p) \/ SetTemplateActive(p) \/ DeleteTemplate(p)

----------------------------------------------------------------------------
\* Equipment and temperature logs.

InUse(e) == equipment[e] # NoEquipment /\ equipment[e].active

OutOfRange(m, t) == t < m.min \/ t > m.max

EquipmentRequest(p, kind, step) ==
    /\ At(p, step, kind)
    /\ End(p)
    /\ UNCHANGED <<users, members, templates, runs, logs, day, work>>

CreateEquipment(p) ==
    /\ EquipmentRequest(p, "create_equipment", "handler")
    /\ \E e \in Equipment, m \in Machines :
          /\ equipment[e] = NoEquipment
          /\ equipment' = [equipment EXCEPT ![e] =
                [type |-> m.type, min |-> m.min, max |-> m.max, active |-> TRUE]]

\* A row about to be updated or deleted, deleted before or not.
ReadEquipment(p) ==
    /\ \/ At(p, "handler", "update_equipment")
       \/ At(p, "handler", "delete_equipment")
    /\ \E e \in Equipment :
          /\ equipment[e] # NoEquipment
          /\ Keep(p, e, equipment[e])
    /\ UNCHANGED <<users, members, haccpVars>>

WriteEquipment(p, kind, new) ==
    /\ EquipmentRequest(p, kind, "commit")
    /\ equipment' = [equipment EXCEPT ![req[p].on] = Written(@, req[p].seen, new)]

\* Editing a deleted piece does not bring it back.
UpdateEquipment(p) ==
    \E m \in Machines : WriteEquipment(p, "update_equipment", Patched(req[p].seen, m))

DeleteEquipment(p) ==
    WriteEquipment(p, "delete_equipment", [req[p].seen EXCEPT !.active = FALSE])

\* A log keeps what it was judged by at that moment (limits is a history
\* variable); the day it is about comes from the client.
LogTemperature(p) ==
    /\ At(p, "handler", "log")
    /\ Len(logs) < work.logs
    /\ \E e \in Equipment, t \in Temperatures, recorded \in {day - 1, day} \cap Nat :
          /\ InUse(e)
          /\ logs' = Append(logs,
                [equipment |-> e, temperature |-> t, recorded |-> recorded,
                 created |-> day, out |-> OutOfRange(equipment[e], t),
                 limits |-> equipment[e]])
    /\ End(p)
    /\ UNCHANGED <<users, members, templates, equipment, runs, day, work>>

EquipmentStep(p) ==
    \/ CreateEquipment(p) \/ ReadEquipment(p)
    \/ UpdateEquipment(p) \/ DeleteEquipment(p) \/ LogTemperature(p)

----------------------------------------------------------------------------
\* Runs.  Of a run: asked is how many required items its completion found,
\* late how many answers arrived after it, completions how often it was
\* completed; these three are history variables.

RunRequest(p, kind, step) ==
    /\ At(p, step, kind)
    /\ UNCHANGED <<users, members, templates, equipment, logs, day, work>>

ReadTemplate(p) ==
    /\ RunRequest(p, "start", "handler")
    /\ \E i \in Handled :
          IF templates[i].active
          THEN Keep(p, i, templates[i])
          ELSE End(p)
    /\ UNCHANGED runs

Snapshot(t) ==
    IF t.dynamic
    THEN {e \in Equipment :
             InUse(e) /\ (t.filter # AnyType => equipment[e].type = t.filter)}
    ELSE NoSnapshot

\* The client dates the run; here, the day itself or the day before.
StartRun(p) ==
    /\ RunRequest(p, "start", "commit")
    /\ Len(runs) < work.runs
    /\ \E date \in {day - 1, day} \cap Nat :
          runs' = Append(runs,
             [template |-> req[p].on, date |-> date, status |-> "in_progress",
              snapshot |-> Snapshot(req[p].seen), answered |-> 0, readings |-> {},
              asked |-> 0, late |-> 0, completions |-> 0])
    /\ End(p)

Completed(r) == runs[r].status = "completed"

\* Mutant: a completed run takes new answers.
ReadAnyRun(p) ==
    /\ \/ RunRequest(p, "answer", "handler")
       \/ RunRequest(p, "complete", "handler")
    /\ \E r \in DOMAIN runs :
          /\ req' = [req EXCEPT ![p].on = r, ![p].seen = 0]
          /\ Go(p, IF req[p].kind = "answer" THEN "commit" ELSE "check")
    /\ UNCHANGED runs

\* A completed run is refused; it is not looked at again.
ReadRun(p) ==
    /\ \/ RunRequest(p, "answer", "handler")
       \/ RunRequest(p, "complete", "handler")
    /\ \E r \in DOMAIN runs :
          IF runs[r].status = "completed"
          THEN End(p)
          ELSE /\ req' = [req EXCEPT ![p].on = r, ![p].seen = 0]
               /\ Go(p, IF req[p].kind = "answer" THEN "commit" ELSE "check")
    /\ UNCHANGED runs

\* An answer names a required item not yet answered, a piece of equipment, or
\* anything else.  A row with neither an answer nor a reason counts as one.
SubmitAnswer(p) ==
    /\ RunRequest(p, "answer", "commit")
    /\ LET r == req[p].on
           t == templates[runs[r].template]
           Store(run) ==
              runs' = [runs EXCEPT ![r] =
                 [run EXCEPT !.late = IF Completed(r) THEN run.late + 1 ELSE run.late]]
       IN \/ /\ runs[r].answered < t.required
             /\ Store([runs[r] EXCEPT !.answered = @ + 1])
          \/ \E e \in Equipment :
                /\ equipment[e] # NoEquipment
                /\ Store([runs[r] EXCEPT !.readings = @ \cup {e}])
          \/ Store(runs[r])
    /\ End(p)

\* No snapshot, or an empty one: the required items decide.
NothingToRead(r) == runs[r].snapshot \in {NoSnapshot, {}}

\* Mutant: the equipment in use now is asked for, not the snapshot.
EnoughForToday(r) ==
    IF NothingToRead(r)
    THEN runs[r].answered >= templates[runs[r].template].required
    ELSE {e \in Equipment : InUse(e)} \subseteq runs[r].readings

NothingMissing(r) ==
    IF NothingToRead(r)
    THEN runs[r].answered >= templates[runs[r].template].required
    ELSE runs[r].snapshot \subseteq runs[r].readings

CheckRun(p) ==
    /\ RunRequest(p, "complete", "check")
    /\ LET r == req[p].on
       IN IF NothingMissing(r)
          THEN Keep(p, r, IF NothingToRead(r)
                          THEN templates[runs[r].template].required ELSE 0)
          ELSE End(p)
    /\ UNCHANGED runs

\* Mutant: the equipment of the moment is stored with the status.
CompleteWithSnapshot(p) ==
    /\ RunRequest(p, "complete", "commit")
    /\ LET t == templates[runs[req[p].on].template]
       IN runs' = [runs EXCEPT ![req[p].on] =
                     [@ EXCEPT !.status = "completed", !.completions = @ + 1,
                               !.asked = req[p].seen, !.snapshot = Snapshot(t)]]
    /\ End(p)

\* The status is written without a second look.
CompleteRun(p) ==
    /\ RunRequest(p, "complete", "commit")
    /\ LET run == runs[req[p].on]
       IN runs' = [runs EXCEPT ![req[p].on] =
                     [run EXCEPT !.status = "completed", !.asked = req[p].seen,
                                 !.completions = run.completions + 1]]
    /\ End(p)

RunStep(p) ==
    \/ ReadTemplate(p) \/ StartRun(p)
    \/ ReadRun(p) \/ SubmitAnswer(p)
    \/ CheckRun(p) \/ CompleteRun(p)
=============================================================================
