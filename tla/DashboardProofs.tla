--------------------------- MODULE DashboardProofs ---------------------------
(***************************************************************************)
(* The dashboard and the monthly summary tell what happened, and the same: *)
(* for any calendar that covers the workload, any equipment and any        *)
(* workload.                                                               *)
(***************************************************************************)
EXTENDS ChecklistProofs, FiniteSums

\* A log keeps what it was judged by.
Judged ==
    \A k \in DOMAIN logs : logs[k].out <=> OutOfRange(logs[k].limits, logs[k].temperature)

\* The constraint holds of every template, however its columns were written.
Frequent == \A i \in DOMAIN templates : ck_haccp_template_frequency(templates[i])

\* No run is dated after today, and the days end with the workload.
Dated == day <= work.days /\ \A r \in DOMAIN runs : runs[r].date <= day
----------------------------------------------------------------------------
(***************************************************************************)
(* Temperatures.                                                           *)
(***************************************************************************)
LEMMA RequestsTakeNoDay ==
  ASSUME NEW p \in Procs, Request(p)
  PROVE  day' = day /\ work' = work
<1>1. CASE Arrive(p) \/ Account(p) \/ CreateRestaurant(p)
  BY <1>1 DEF Arrive, Account, CreateRestaurant, haccpVars
<1>2. CASE TemplateStep(p)
  BY <1>2 DEF TemplateStep, ReadNames, Reseed, CreateTemplate, CreateItem, ReadToWrite,
     UpdateTemplate, SetTemplateActive, DeleteTemplate, WriteTemplate, TemplateRequest, haccpVars
<1>3. CASE EquipmentStep(p)
  BY <1>3 DEF EquipmentStep, CreateEquipment, ReadEquipment, UpdateEquipment, DeleteEquipment,
     WriteEquipment, EquipmentRequest, LogTemperature, haccpVars
<1>4. CASE RunStep(p)
  BY <1>4 DEF RunStep, ReadTemplate, StartRun, ReadRun, SubmitAnswer, CheckRun, CompleteRun, RunRequest
<1>5. QED
  BY <1>1, <1>2, <1>3, <1>4 DEF Request

LEMMA LogSteps ==
  ASSUME NEW p \in Procs, Request(p)
  PROVE  UNCHANGED logs \/ LogTemperature(p)
<1>1. CASE Arrive(p) \/ Account(p) \/ CreateRestaurant(p)
  BY <1>1 DEF Arrive, Account, CreateRestaurant, haccpVars
<1>2. CASE TemplateStep(p)
  BY <1>2 DEF TemplateStep, ReadNames, Reseed, CreateTemplate, CreateItem, ReadToWrite,
     UpdateTemplate, SetTemplateActive, DeleteTemplate, WriteTemplate, TemplateRequest, haccpVars
<1>3. CASE EquipmentStep(p)
  BY <1>3 DEF EquipmentStep, CreateEquipment, ReadEquipment, UpdateEquipment, DeleteEquipment,
     WriteEquipment, EquipmentRequest, haccpVars
<1>4. CASE RunStep(p)
  BY <1>4 DEF RunStep, ReadTemplate, StartRun, ReadRun, SubmitAnswer, CheckRun, CompleteRun, RunRequest
<1>5. QED
  BY <1>1, <1>2, <1>3, <1>4 DEF Request

LEMMA NextKeepsJudged ==
  ASSUME IInv, Judged, [Next]_vars
  PROVE  Judged'
<1>1. CASE UNCHANGED logs
  BY <1>1 DEF Judged, OutOfRange
<1>2. ASSUME NEW p \in Procs, LogTemperature(p)
      PROVE  Judged'
  <2>1. PICK e \in Equipment, t \in Temperatures, recorded \in {day - 1, day} \cap Nat :
           logs' = Append(logs,
               [equipment |-> e, temperature |-> t, recorded |-> recorded, created |-> day,
                out |-> OutOfRange(equipment[e], t), limits |-> equipment[e]])
    BY <1>2 DEF LogTemperature
  <2> DEFINE log == [equipment |-> e, temperature |-> t, recorded |-> recorded, created |-> day,
                     out |-> OutOfRange(equipment[e], t), limits |-> equipment[e]]
  <2>2. log.out <=> OutOfRange(log.limits, log.temperature)
    BY DEF OutOfRange
  <2>3. logs \in Seq(Log)
    BY DEF IInv, Tables
  <2> HIDE DEF log
  <2>4. /\ DOMAIN logs' = DOMAIN logs \cup {Len(logs) + 1} /\ logs'[Len(logs) + 1] = log
        /\ \A k \in DOMAIN logs : logs'[k] = logs[k]
    BY <2>1, <2>3 DEF log
  <2>5. QED
    BY <2>2, <2>4 DEF Judged
<1>3. QED
  BY <1>1, <1>2, LogSteps, WorkloadAssumption DEF Next, NextDay, vars, haccpVars, IInv, Tables

\* A reading outside the limits of its moment stays visible, on the dashboard
\* for a day and in the report of its day, whatever is done to the equipment;
\* no other reading shows (dashboard_service.py:258, pdf_service.py:88).
THEOREM BreachesShown == Spec => []BreachIsShown
<1>1. Init => Judged
  BY DEF Init, HaccpInit, Judged
<1>2. IInv /\ Judged /\ [Next]_vars => Judged'
  BY NextKeepsJudged
<1>3. IInv /\ Judged => BreachIsShown
  <2> SUFFICES ASSUME IInv, Judged, NEW k \in DOMAIN logs
               PROVE  LET l == logs[k]
                          breach == ~(l.limits.min <= l.temperature /\ l.temperature <= l.limits.max)
                      IN /\ (k \in temperature_alerts(day)) <=> (breach /\ day <= l.created + 1)
                         /\ breach => out_of_range_count(l.recorded, l.recorded) > 0
    BY DEF BreachIsShown
  <2> DEFINE l == logs[k]
             breach == ~(l.limits.min <= l.temperature /\ l.temperature <= l.limits.max)
  <2>1. logs \in Seq(Log) /\ day \in Nat
    BY DEF IInv, Tables
  <2>2. l \in Log
    BY <2>1
  <2>3. l.limits.min \in Int /\ l.limits.max \in Int /\ l.temperature \in Int
        /\ l.created \in Nat /\ l.recorded \in Nat
    BY <2>2 DEF Log, Piece
  <2>4. l.out <=> breach
    BY <2>3 DEF Judged, OutOfRange
  <2>5. (k \in temperature_alerts(day)) <=> (breach /\ day <= l.created + 1)
    BY <2>1, <2>3, <2>4 DEF temperature_alerts
  <2>6. ASSUME breach
        PROVE  out_of_range_count(l.recorded, l.recorded) > 0
    <3> DEFINE S == {j \in temperature_log(l.recorded, l.recorded) : logs[j].out}
    <3>1. k \in S
      BY <2>3, <2>4, <2>6 DEF temperature_log
    <3>2. IsFiniteSet(S)
      <4>1. DOMAIN logs = 1..Len(logs) /\ Len(logs) \in Nat
        BY <2>1
      <4>2. IsFiniteSet(DOMAIN logs)
        BY <4>1, FS_Interval
      <4>3. S \subseteq DOMAIN logs
        BY DEF temperature_log
      <4>4. QED
        BY <4>2, <4>3, FS_Subset
    <3>3. Cardinality(S) \in Nat /\ Cardinality(S) # 0
      BY <3>1, <3>2, FS_CardinalityType, FS_EmptySet
    <3>4. QED
      BY <3>3 DEF out_of_range_count
  <2>7. QED
    BY <2>5, <2>6
<1>4. QED
  BY <1>1, <1>2, <1>3, Inductive, PTL DEF Spec
----------------------------------------------------------------------------
(***************************************************************************)
(* Lots.                                                                   *)
(***************************************************************************)
\* Overnight, a lot the dashboard warned of does not fall off both lists, and
\* one that is critical stays so (dashboard_service.py:77 and 119).
THEOREM RipeLots == Spec => LotsRipen
<1> DEFINE A == day' # day =>
      \A critical \in 0..2, warning \in 0..2, expiry \in day..(day + 3) :
         LET lots == {[status |-> "active", expiry |-> expiry]}
             Critical(d) == critical_expiry_alerts(lots, d, critical)
             Warned(d) == expiry_alerts(lots, d, warning, critical)
         IN /\ Critical(day) \subseteq Critical(day')
            /\ Warned(day) \subseteq Warned(day') \cup Critical(day')
            /\ Warned(day) \cap Critical(day) = {}
<1>1. ASSUME IInv, Next
      PROVE  A
  <2>1. day \in Nat
    BY <1>1 DEF IInv, Tables
  <2>2. day' = day \/ day' = day + 1
    BY <1>1, RequestsTakeNoDay, WorkloadAssumption DEF Next, NextDay, IInv, Tables
  <2>3. QED
    BY <2>1, <2>2 DEF critical_expiry_alerts, expiry_alerts, ActiveDated
<1>2. IInv /\ [Next]_vars => [A]_vars
  BY <1>1
<1>3. QED
  BY <1>2, Inductive, PTL DEF Spec, LotsRipen
----------------------------------------------------------------------------
(***************************************************************************)
(* Pending checklists.                                                     *)
(***************************************************************************)
LEMMA RunsAreFinite ==
  ASSUME IInv, NEW S \in SUBSET DOMAIN runs
  PROVE  IsFiniteSet(S) /\ Cardinality(S) \in Nat
<1>1. DOMAIN runs = 1..Len(runs) /\ Len(runs) \in Nat
  BY DEF IInv, Tables
<1>2. IsFiniteSet(DOMAIN runs)
  BY <1>1, FS_Interval
<1>3. QED
  BY <1>2, FS_Subset, FS_CardinalityType

\* A template is due, or not, by its frequency.
DueRule ==
    \A i \in DOMAIN templates :
       LET t == templates[i]
       IN /\ t.active \in BOOLEAN /\ t.shifts \in Int
          /\ Shown(i) => t.active /\ t.frequency \in {"daily", "shift", "weekly", "monthly"}
          /\ t.active /\ t.frequency = "daily"   => (Shown(i) <=> ~run_exists(i, day))
          /\ t.active /\ t.frequency = "shift"   =>
                (Shown(i) <=> completed_runs_today(i, day) < t.shifts)
          /\ t.active /\ t.frequency = "weekly"  => (Shown(i) <=> ~DoneThisWeek(i, day))
          /\ t.active /\ t.frequency = "monthly" => (Shown(i) <=> ~DoneThisMonth(i, day))

LEMMA DueByFrequency == IInv => DueRule
<1> SUFFICES ASSUME IInv, NEW i \in DOMAIN templates
             PROVE  LET t == templates[i]
                    IN /\ t.active \in BOOLEAN /\ t.shifts \in Int
                       /\ Shown(i) => t.active
                                        /\ t.frequency \in {"daily", "shift", "weekly", "monthly"}
                       /\ t.active /\ t.frequency = "daily"   => (Shown(i) <=> ~run_exists(i, day))
                       /\ t.active /\ t.frequency = "shift"   =>
                             (Shown(i) <=> completed_runs_today(i, day) < t.shifts)
                       /\ t.active /\ t.frequency = "weekly"  => (Shown(i) <=> ~DoneThisWeek(i, day))
                       /\ t.active /\ t.frequency = "monthly" => (Shown(i) <=> ~DoneThisMonth(i, day))
  BY DEF DueRule
<1> DEFINE t == templates[i]
<1>1. t \in Template
  BY DEF IInv, Tables
<1>2. t.active \in BOOLEAN /\ t.shifts \in Int
  BY <1>1 DEF Template
<1>3. CASE ~t.active
  <2>1. haccp_pending(i, day) = {}
    BY <1>3 DEF haccp_pending
  <2>2. QED
    BY <1>2, <1>3, <2>1 DEF Shown
<1>4. CASE t.active /\ t.frequency = "daily"
  BY <1>2, <1>4 DEF haccp_pending, Shown
<1>5. CASE t.active /\ t.frequency = "shift"
  <2>1. haccp_pending(i, day) = (completed_runs_today(i, day) + 1)..t.shifts
    BY <1>5 DEF haccp_pending
  <2>2. completed_runs_today(i, day) \in Nat
    BY RunsAreFinite DEF completed_runs_today, CompletedRuns
  <2>3. Shown(i) <=> completed_runs_today(i, day) < t.shifts
    BY <1>2, <2>1, <2>2 DEF Shown
  <2>4. QED
    BY <1>2, <1>5, <2>3
<1>6. CASE t.active /\ t.frequency = "weekly"
  BY <1>2, <1>6 DEF haccp_pending, Shown
<1>7. CASE t.active /\ t.frequency = "monthly"
  BY <1>2, <1>7 DEF haccp_pending, Shown
<1>8. CASE t.active /\ t.frequency \notin {"daily", "shift", "weekly", "monthly"}
  <2>1. haccp_pending(i, day) = {}
    BY <1>8 DEF haccp_pending
  <2>2. QED
    BY <1>2, <1>8, <2>1 DEF Shown
<1>9. QED
  BY <1>2, <1>3, <1>4, <1>5, <1>6, <1>7, <1>8

LEMMA TemplatesStay ==
  ASSUME IInv, NEW p \in Procs, Request(p), NEW i \in DOMAIN templates
  PROVE  i \in DOMAIN templates'
<1>1. templates \in Seq(Template)
  BY DEF IInv, Tables
<1>2. CASE UNCHANGED templates
  BY <1>2
<1>3. CASE CreateRestaurant(p)
  <2>1. templates = << >>
    BY <1>3 DEF CreateRestaurant, Found, IInv, Consistent
  <2>2. QED
    BY <2>1
<1>4. CASE Arrive(p) \/ Account(p)
  BY <1>2, <1>4 DEF Arrive, Account, haccpVars
<1>5. CASE TemplateStep(p)
  <2>1. CASE Reseed(p)
    BY <1>1, <2>1, NewRowsAreSeeds DEF Reseed
  <2>2. CASE CreateTemplate(p)
    BY <1>1, <2>2 DEF CreateTemplate
  <2>3. QED
    BY <1>1, <1>5, <2>1, <2>2 DEF TemplateStep, ReadNames, CreateItem, ReadToWrite,
     UpdateTemplate, SetTemplateActive, DeleteTemplate, WriteTemplate, TemplateRequest, haccpVars
<1>6. CASE EquipmentStep(p)
  BY <1>2, <1>6 DEF EquipmentStep, CreateEquipment, ReadEquipment, UpdateEquipment, DeleteEquipment,
     WriteEquipment, EquipmentRequest, LogTemperature, haccpVars
<1>7. CASE RunStep(p)
  BY <1>2, <1>7 DEF RunStep, ReadTemplate, StartRun, ReadRun, SubmitAnswer, CheckRun, CompleteRun, RunRequest
<1>8. QED
  BY <1>3, <1>4, <1>5, <1>6, <1>7 DEF Request

\* Completed runs stay completed runs of their template and date.
LEMMA CompletedRunsStay ==
  ASSUME IInv, NEW p \in Procs, Request(p), NEW i
  PROVE  /\ CompletedRuns(i) \subseteq CompletedRuns(i)'
         /\ \A r \in CompletedRuns(i) : runs'[r].date = runs[r].date
BY RunsKeep DEF CompletedRuns

\* What was done stays done for the day: no request makes the dashboard ask
\* again for a check it had cleared, unless it writes that template
\* (dashboard_service.py:192).
THEOREM ClearedStays == Spec => ClearedStaysCleared
<1> DEFINE A == day' = day =>
      \A i \in DOMAIN templates :
         (templates'[i] = templates[i] /\ ~Shown(i)) => ~Shown(i)'
<1>1. ASSUME IInv, IInv', NEW p \in Procs, Request(p), day' = day,
             NEW i \in DOMAIN templates, templates'[i] = templates[i], ~Shown(i)
      PROVE  ~Shown(i)'
  <2> DEFINE t      == templates[i]
             Before == CompletedRuns(i)
             After  == CompletedRuns(i)'
  <2>1. /\ Before \subseteq After
        /\ \A r \in Before : runs'[r].date = runs[r].date
    BY <1>1, CompletedRunsStay
  <2>2. DueRule /\ i \in DOMAIN templates
    BY <1>1, DueByFrequency
  <2>3. DueRule' /\ i \in DOMAIN templates'
    <3>1. i \in DOMAIN templates'
      BY <1>1, TemplatesStay
    <3>2. QED
      BY <1>1, <3>1, DueByFrequency, PTL
  <2>4. CASE t.active /\ t.frequency = "daily"
    <3>1. run_exists(i, day)
      BY <1>1, <2>2, <2>4 DEF DueRule
    <3>2. run_exists(i, day)'
      BY <1>1, <2>1, <3>1 DEF run_exists
    <3>3. QED
      BY <1>1, <2>3, <2>4, <3>2 DEF DueRule
  <2>5. CASE t.active /\ t.frequency = "weekly"
    <3>1. DoneThisWeek(i, day)
      BY <1>1, <2>2, <2>5 DEF DueRule
    <3>2. DoneThisWeek(i, day)'
      BY <1>1, <2>1, <3>1 DEF DoneThisWeek, run_exists_in_range
    <3>3. QED
      BY <1>1, <2>3, <2>5, <3>2 DEF DueRule
  <2>6. CASE t.active /\ t.frequency = "monthly"
    <3>1. DoneThisMonth(i, day)
      BY <1>1, <2>2, <2>6 DEF DueRule
    <3>2. DoneThisMonth(i, day)'
      BY <1>1, <2>1, <3>1 DEF DoneThisMonth, run_exists_in_range
    <3>3. QED
      BY <1>1, <2>3, <2>6, <3>2 DEF DueRule
  <2>7. CASE t.active /\ t.frequency = "shift"
    <3> DEFINE today    == {r \in Before : runs[r].date = day}
               todayNow == {r \in After : runs'[r].date = day'}
    <3>1. today \subseteq todayNow
      BY <1>1, <2>1
    <3>2. IsFiniteSet(todayNow) /\ Cardinality(todayNow) \in Nat
      <4>1. IsFiniteSet(DOMAIN runs')
        <5>1. runs' \in Seq(Run)
          BY <1>1 DEF IInv, Tables
        <5>2. DOMAIN runs' = 1..Len(runs') /\ Len(runs') \in Nat
          BY <5>1
        <5>3. QED
          BY <5>2, FS_Interval
      <4>2. todayNow \subseteq DOMAIN runs'
        BY DEF CompletedRuns
      <4>3. QED
        BY <4>1, <4>2, FS_Subset, FS_CardinalityType
    <3>3. Cardinality(today) \in Nat /\ Cardinality(today) <= Cardinality(todayNow)
      BY <1>1, <3>1, <3>2, FS_Subset, FS_CardinalityType
    <3>4. ~(Cardinality(today) < t.shifts) /\ t.shifts \in Int
      BY <1>1, <2>2, <2>7 DEF DueRule, completed_runs_today
    <3>5. ~(Cardinality(todayNow) < t.shifts)
      BY <3>2, <3>3, <3>4
    <3>6. QED
      BY <1>1, <2>3, <2>7, <3>5 DEF DueRule, completed_runs_today
  <2>8. CASE ~t.active \/ t.frequency \notin {"daily", "shift", "weekly", "monthly"}
    BY <1>1, <2>3, <2>8 DEF DueRule
  <2>9. QED
    BY <2>2, <2>4, <2>5, <2>6, <2>7, <2>8 DEF DueRule
<1>2. IInv /\ IInv' /\ [Next]_vars => [A]_vars
  <2> SUFFICES ASSUME IInv, IInv', Next
               PROVE  A
    OBVIOUS
  <2>1. CASE \E p \in work.desks : Request(p)
    BY <1>1, <2>1, WorkloadAssumption DEF IInv, Tables
  <2>2. CASE NextDay
    <3>1. day \in Nat /\ day' # day
      BY <2>2 DEF NextDay, IInv, Tables
    <3>2. QED
      BY <3>1
  <2>3. QED
    BY <2>1, <2>2 DEF Next
<1>3. QED
  BY <1>2, Inductive, PTL DEF Spec, ClearedStaysCleared
----------------------------------------------------------------------------
(***************************************************************************)
(* The calendar.                                                           *)
(***************************************************************************)
LEMMA MaxFound ==
  ASSUME NEW S \in SUBSET Nat, S # {}, IsFiniteSet(S)
  PROVE  Max(S) \in S /\ \A m \in S : m <= Max(S)
<1>1. PICK n \in S : \A m \in S : m <= n
  BY GreatestNatural
<1>2. \A m \in S : n >= m
  BY <1>1
<1>3. Max(S) \in S /\ \A m \in S : Max(S) >= m
  BY <1>2 DEF Max
<1>4. QED
  BY <1>3

LEMMA MinFound ==
  ASSUME NEW S \in SUBSET Nat, S # {}
  PROVE  Min(S) \in S /\ \A m \in S : Min(S) <= m
<1>1. PICK n \in S : \A m \in S : n <= m
  BY LeastNatural
<1>2. QED
  BY <1>1 DEF Min

\* The month of a day begins at the last first day that is not after it, and
\* ends before the next.
LEMMA MonthBounds ==
  ASSUME NEW d \in Nat, d < NoEnd
  PROVE  LET start == month_start(d)
             next  == next_month(d)
         IN /\ NoEnd \in Nat
            /\ start \in MonthStarts /\ start <= d
            /\ \A m \in MonthStarts : m <= d => m <= start
            /\ next \in Nat /\ d < next /\ next \in MonthStarts \cup {NoEnd}
            /\ \A m \in MonthStarts : d < m => next <= m
<1> DEFINE Past   == {m \in MonthStarts : m <= d}
           Coming == {m \in MonthStarts : m > d} \cup {NoEnd}
<1>1. MonthStarts \in SUBSET Nat /\ IsFiniteSet(MonthStarts) /\ 0 \in MonthStarts
  BY CalendarAssumption
<1>2. Max(MonthStarts) \in Nat
  BY <1>1, MaxFound
<1>3. NoEnd \in Nat
  BY <1>2 DEF NoEnd
<1>4. Max(Past) \in Past /\ \A m \in Past : m <= Max(Past)
  <2>1. Past \in SUBSET Nat /\ Past # {} /\ IsFiniteSet(Past)
    <3>1. 0 \in Past /\ Past \subseteq MonthStarts
      BY <1>1
    <3> HIDE DEF Past
    <3>2. QED
      BY <1>1, <3>1, FS_Subset
  <2> HIDE DEF Past
  <2>2. QED
    BY <2>1, MaxFound
<1>5. Min(Coming) \in Coming /\ \A m \in Coming : Min(Coming) <= m
  <2>1. Coming \in SUBSET Nat /\ Coming # {}
    BY <1>1, <1>3
  <2> HIDE DEF Coming
  <2>2. QED
    BY <2>1, MinFound
<1>6. month_start(d) = Max(Past) /\ next_month(d) = Min(Coming)
  BY DEF month_start, next_month
<1> QED
  BY <1>1, <1>3, <1>4, <1>5, <1>6

\* Of the days up to today, those of its month.
LEMMA SameMonth ==
  ASSUME NEW d \in Nat, NEW today \in Nat, d <= today, today < NoEnd
  PROVE  MonthOf(d) = MonthOf(today) <=> month_start(today) <= d /\ d < next_month(today)
<1> DEFINE Past(k) == {m \in MonthStarts : m <= k}
           start == month_start(today)
<1>1. /\ start \in MonthStarts /\ start \in Nat /\ start <= today
      /\ \A m \in MonthStarts : m <= today => m <= start
      /\ today < next_month(today) /\ next_month(today) \in Nat
  BY MonthBounds, CalendarAssumption
<1>2. d < next_month(today)
  BY <1>1
<1>3. IsFiniteSet(Past(today)) /\ Past(d) \subseteq Past(today)
  <2>1. Past(today) \subseteq MonthStarts /\ IsFiniteSet(MonthStarts)
    BY CalendarAssumption
  <2>2. \A m \in MonthStarts : m <= d => m <= today
    BY CalendarAssumption
  <2>3. QED
    BY <2>1, <2>2, FS_Subset
<1>4. ASSUME MonthOf(d) = MonthOf(today)
      PROVE  start <= d
  <2>1. Cardinality(Past(d)) = Cardinality(Past(today))
    BY <1>4 DEF MonthOf
  <2>2. Past(d) = Past(today)
    BY <1>3, <2>1, FS_Subset
  <2>3. start \in Past(today)
    BY <1>1
  <2>4. QED
    BY <2>2, <2>3
<1>5. ASSUME start <= d
      PROVE  MonthOf(d) = MonthOf(today)
  <2>1. \A m \in MonthStarts : m \in Nat
    BY CalendarAssumption
  <2>2. Past(d) = Past(today)
    BY <1>1, <1>5, <2>1
  <2>3. QED
    BY <2>2 DEF MonthOf
<1>6. QED
  BY <1>2, <1>4, <1>5

\* Of the days of this week, those before its Sunday.
LEMMA SameWeek ==
  ASSUME NEW d \in Nat, NEW today \in Nat
  PROVE  LET start == today - weekday(today)
         IN (WeekOf(d) = WeekOf(today) /\ weekday(d) \in 0..5) <=> (start <= d /\ d < start + 6)
<1>1. FirstWeekday \in 0..6
  BY CalendarAssumption
<1>2. QED
  BY <1>1 DEF weekday, WeekOf
----------------------------------------------------------------------------
(***************************************************************************)
(* Frequencies and dates.                                                  *)
(***************************************************************************)
LEMMA SeedFrequencies ==
  \A s \in Range(SEED_TEMPLATES) : ck_haccp_template_frequency(Seeded(s))
<1> DEFINE frequency(i) == SEED_TEMPLATES[i].frequency
<1>1. DOMAIN SEED_TEMPLATES = 1..15
  BY DEF SEED_TEMPLATES
<1>2. \A i \in 1..15 : i \in {1, 2, 3, 4, 5, 6, 7, 8, 9, 10, 11, 12, 13, 14, 15}
  OBVIOUS
<1>3. /\ frequency(1) = "daily"
      /\ frequency(2) = "daily"
      /\ frequency(3) = "shift"
      /\ frequency(4) = "on_delivery"
      /\ frequency(5) = "daily"
      /\ frequency(6) = "weekly"
      /\ frequency(7) = "on_delivery"
      /\ frequency(8) = "shift"
      /\ frequency(9) = "monthly"
      /\ frequency(10) = "monthly"
      /\ frequency(11) = "monthly"
      /\ frequency(12) = "daily"
      /\ frequency(13) = "weekly"
      /\ frequency(14) = "monthly"
      /\ frequency(15) = "daily"
  BY DEF SEED_TEMPLATES, OpeningCheck, ClosingCheck, TemperatureRound, DeliveryCheck, CleaningLog,
     WeeklyDeepClean, CookingRecord, HotHoldRecord, HygieneTraining, FitnessToWork, AllergenRecord,
     FireSafetyCheck, PestControlLog, AccidentRecord, SafetyCheck, Checklist, EquipmentRound
<1> HIDE DEF frequency
<1>4. \A i \in 1..15 : frequency(i) \in FREQUENCIES
  BY <1>2, <1>3 DEF FREQUENCIES
<1>5. QED
  BY <1>1, <1>4 DEF frequency, Range, Seeded, ck_haccp_template_frequency

\* What a write leaves in the column is what was there or what the request set.
LEMMA WrittenFrequency ==
  ASSUME NEW row \in Template, NEW seen, NEW new
  PROVE  Written(row, seen, new).frequency = IF new.frequency # seen.frequency
                                             THEN new.frequency ELSE row.frequency
BY DEF Written, Template

LEMMA PatchedFrequency ==
  ASSUME NEW row \in Template, NEW f, IsForm(f)
  PROVE  Patched(row, f).frequency = f.frequency
BY DEF Patched, IsForm, Template

LEMMA RequestKeepsFrequent ==
  ASSUME IInv, Frequent, NEW p \in Procs, Request(p)
  PROVE  Frequent'
<1>1. templates \in Seq(Template) /\ \A i \in DOMAIN templates : templates[i] \in Template
  BY DEF IInv, Tables
<1>2. CASE UNCHANGED templates
  BY <1>2 DEF Frequent
<1>3. CASE CreateRestaurant(p)
  <2>1. \A i \in DOMAIN templates' : \E s \in Range(SEED_TEMPLATES) : templates'[i] = Seeded(s)
    BY <1>3 DEF CreateRestaurant, create_seed_templates, Range
  <2>2. QED
    BY <2>1, SeedFrequencies DEF Frequent
<1>4. ASSUME NEW n \in Nat, NEW rows \in [1..n -> Template], templates' = templates \o rows,
             \A j \in 1..n : ck_haccp_template_frequency(rows[j])
      PROVE  Frequent'
  <2>1. rows \in Seq(Template) /\ DOMAIN rows = 1..n
    OBVIOUS
  <2>2. SUFFICES ASSUME NEW i \in DOMAIN templates'
                 PROVE  ck_haccp_template_frequency(templates'[i])
    BY DEF Frequent
  <2>3. CASE i \in DOMAIN templates
    BY <1>1, <1>4, <2>1, <2>3 DEF Frequent
  <2>4. CASE i \notin DOMAIN templates
    BY <1>1, <1>4, <2>1, <2>2, <2>4, AddedRow
  <2>5. QED
    BY <2>3, <2>4
<1>5. CASE Reseed(p)
  <2> DEFINE names == req[p].seen
             n     == Cardinality(Missing(names))
  <2>1. n \in Nat /\ NewRows(names) \in [1..n -> Template] /\ templates' = templates \o NewRows(names)
    BY <1>5, NewRowsAreSeeds DEF Reseed
  <2>2. SetToSeq(Missing(names)) \in [1..n -> Missing(names)]
    BY MissingInOrder
  <2>3. \A j \in 1..n : \E s \in Range(SEED_TEMPLATES) : NewRows(names)[j] = Seeded(s)
    BY <2>2 DEF NewRows, Missing
  <2>4. QED
    BY <1>4, <2>1, <2>3, SeedFrequencies
<1>6. CASE CreateTemplate(p)
  <2>1. PICK f \in work.forms :
           ck_haccp_template_frequency(f) /\ templates' = Append(templates, Patched(NewTemplate, f))
    BY <1>6 DEF CreateTemplate
  <2>2. f \in Forms /\ IsForm(f)
    BY WorkloadAssumption DEF Forms, IInv, Tables
  <2>3. NewTemplate \in Template
    BY NewTemplateIsTyped
  <2> DEFINE row == Patched(NewTemplate, f)
  <2>4. row \in Template /\ row.frequency = f.frequency
    BY <2>2, <2>3, PatchedTemplate, PatchedFrequency
  <2> HIDE DEF row
  <2>5. ck_haccp_template_frequency(row)
    BY <2>1, <2>4 DEF ck_haccp_template_frequency
  <2>6. /\ DOMAIN templates' = DOMAIN templates \cup {Len(templates) + 1}
        /\ templates'[Len(templates) + 1] = row
        /\ \A i \in DOMAIN templates : templates'[i] = templates[i]
    BY <1>1, <2>1, <2>4 DEF row
  <2>7. QED
    BY <2>5, <2>6 DEF Frequent
<1>7. CASE CreateItem(p)
  <2>1. PICK j \in DOMAIN templates : templates' = [templates EXCEPT ![j].required = @ + 1]
    BY <1>7 DEF CreateItem, Handled
  <2> DEFINE row == [templates[j] EXCEPT !.required = @ + 1]
  <2>2. row.frequency = templates[j].frequency
    BY <1>1 DEF Template
  <2>3. templates' = [templates EXCEPT ![j] = row]
    BY <2>1
  <2> HIDE DEF row
  <2>4. QED
    BY <1>1, <2>2, <2>3 DEF Frequent, ck_haccp_template_frequency
<1>8. ASSUME NEW row, templates' = [templates EXCEPT ![req[p].on] = row],
             row.frequency \in FREQUENCIES
      PROVE  Frequent'
  BY <1>1, <1>8 DEF Frequent, ck_haccp_template_frequency
<1>9. CASE SetTemplateActive(p) \/ DeleteTemplate(p) \/ UpdateTemplate(p)
  <2>1. req[p].on \in DOMAIN templates /\ req[p].seen \in Template
    BY <1>9 DEF SetTemplateActive, DeleteTemplate, UpdateTemplate, WriteTemplate, TemplateRequest,
       At, IInv, Knows, Read
  <2> DEFINE old  == templates[req[p].on]
             seen == req[p].seen
  <2>2. old \in Template /\ old.frequency \in FREQUENCIES
    BY <1>1, <2>1 DEF Frequent, ck_haccp_template_frequency
  <2>3. CASE SetTemplateActive(p) \/ DeleteTemplate(p)
    <3>1. PICK active \in BOOLEAN :
             templates' = [templates EXCEPT ![req[p].on] =
                             Written(old, seen, [seen EXCEPT !.active = active])]
      BY <2>3 DEF SetTemplateActive, DeleteTemplate, WriteTemplate
    <3> DEFINE new == [seen EXCEPT !.active = active]
    <3>2. new.frequency = seen.frequency
      BY <2>1 DEF Template
    <3> HIDE DEF new
    <3>3. Written(old, seen, new).frequency \in FREQUENCIES
      BY <2>2, <3>2, WrittenFrequency
    <3>4. QED
      BY <1>8, <3>1, <3>3 DEF new
  <2>4. CASE UpdateTemplate(p)
    <3> DEFINE mine == [seen EXCEPT !.edited = TRUE]
    <3>1. PICK f \in work.forms :
             /\ ck_haccp_template_frequency(f)
             /\ templates' = [templates EXCEPT ![req[p].on] = Written(old, seen, Patched(mine, f))]
      BY <2>4 DEF UpdateTemplate, WriteTemplate
    <3>2. IsForm(f)
      BY WorkloadAssumption DEF IInv, Tables
    <3>3. mine \in Template
      <4>1. \A yes \in BOOLEAN : [seen EXCEPT !.edited = yes] \in Template
        BY <2>1 DEF Template
      <4>2. TRUE \in BOOLEAN
        OBVIOUS
      <4>3. QED
        BY ONLY <4>1, <4>2
    <3> HIDE DEF mine
    <3>4. Patched(mine, f).frequency \in FREQUENCIES
      BY <3>1, <3>2, <3>3, PatchedFrequency DEF ck_haccp_template_frequency
    <3>5. Written(old, seen, Patched(mine, f)).frequency \in FREQUENCIES
      BY <2>2, <3>4, WrittenFrequency
    <3>6. QED
      BY <1>8, <3>1, <3>5 DEF mine
  <2>5. QED
    BY <1>9, <2>3, <2>4
<1>10. QED
  BY <1>2, <1>3, <1>5, <1>6, <1>7, <1>9, TemplateSteps

LEMMA NextKeepsFrequent ==
  ASSUME IInv, Frequent, [Next]_vars
  PROVE  Frequent'
<1>1. CASE \E p \in work.desks : Request(p)
  BY <1>1, RequestKeepsFrequent, WorkloadAssumption DEF IInv, Tables
<1>2. CASE UNCHANGED templates
  BY <1>2 DEF Frequent
<1>3. QED
  BY <1>1, <1>2 DEF Next, NextDay, vars, haccpVars

LEMMA NextKeepsDated ==
  ASSUME IInv, Dated, [Next]_vars
  PROVE  Dated'
<1>1. /\ day \in Nat /\ work.days \in Nat /\ runs \in Seq(Run)
      /\ \A r \in DOMAIN runs : runs[r].date \in Nat
  <2>1. runs \in Seq(Run) /\ \A r \in DOMAIN runs : runs[r] \in Run
    BY DEF IInv, Tables
  <2>2. QED
    BY <2>1, WorkloadAssumption DEF IInv, Tables, Run
<1>2. ASSUME NEW p \in Procs, Request(p)
      PROVE  Dated'
  <2>1. day' = day /\ work' = work
    BY <1>2, RequestsTakeNoDay
  <2>2. \A r \in DOMAIN runs : runs'[r].date = runs[r].date
    BY <1>2, RunsKeep
  <2>3. \A r \in DOMAIN runs' : r \in DOMAIN runs \/ runs'[r].date \in {day - 1, day}
    <3>1. CASE StartRun(p)
      BY <1>1, <3>1, Started
    <3>2. CASE SubmitAnswer(p)
      BY <3>2, Answered
    <3>3. CASE CompleteRun(p)
      BY <3>3, Signed
    <3>4. CASE UNCHANGED runs
      BY <3>4
    <3>5. QED
      BY <1>2, <3>1, <3>2, <3>3, <3>4, RunSteps
  <2>4. QED
    BY <1>1, <2>1, <2>2, <2>3 DEF Dated
<1>3. CASE NextDay
  BY <1>1, <1>3 DEF NextDay, Dated
<1>4. CASE UNCHANGED <<day, work, runs>>
  BY <1>4 DEF Dated
<1>5. QED
  BY <1>2, <1>3, <1>4, WorkloadAssumption DEF Next, vars, haccpVars, IInv, Tables
----------------------------------------------------------------------------
LEMMA SomeRuns ==
  ASSUME IInv, NEW S \in SUBSET DOMAIN runs
  PROVE  Cardinality(S) >= 1 <=> S # {}
<1>1. IsFiniteSet(S) /\ Cardinality(S) \in Nat
  BY RunsAreFinite
<1>2. Cardinality(S) = 0 <=> S = {}
  BY <1>1, FS_EmptySet
<1>3. QED
  BY <1>1, <1>2

LEMMA RunsAreDated ==
  ASSUME IInv, NEW i
  PROVE  CompletedRuns(i) \subseteq DOMAIN runs /\ \A r \in CompletedRuns(i) : runs[r].date \in Nat
<1>1. runs \in Seq(Run) /\ CompletedRuns(i) \subseteq DOMAIN runs
  BY DEF IInv, Tables, CompletedRuns
<1>2. \A r \in DOMAIN runs : runs[r] \in Run
  BY <1>1
<1>3. QED
  BY <1>1, <1>2 DEF Run

LEMMA TodayIsInCalendar ==
  ASSUME IInv, Dated
  PROVE  day \in Nat /\ day < NoEnd
<1>1. work \in Workloads /\ day \in Nat
  BY DEF IInv, Tables
<1>2. NoEnd \in Nat
  <2>1. Max(MonthStarts) \in Nat
    BY CalendarAssumption, MaxFound
  <2>2. QED
    BY <2>1 DEF NoEnd
<1>3. QED
  BY <1>1, <1>2, WorkloadAssumption, DaysAssumption DEF Dated

\* What the dashboard looks for is what was done in the period.
LEMMA PeriodsAgree ==
  ASSUME IInv, Dated, NEW i \in DOMAIN templates
  PROVE  LET f    == templates[i].frequency
             done == DoneInPeriod(i, 0..5)
             all  == DoneInPeriod(i, 0..6)
         IN /\ done \subseteq all /\ all \subseteq DOMAIN runs
            /\ f = "daily"   => (run_exists(i, day) <=> all # {})  /\ done = all
            /\ f = "shift"   => completed_runs_today(i, day) = Cardinality(all) /\ done = all
            /\ f = "weekly"  => (DoneThisWeek(i, day) <=> done # {})
            /\ f = "monthly" => (DoneThisMonth(i, day) <=> all # {}) /\ done = all
<1> DEFINE f    == templates[i].frequency
           done == DoneInPeriod(i, 0..5)
           all  == DoneInPeriod(i, 0..6)
<1>1. /\ day \in Nat /\ day < NoEnd
      /\ \A r \in CompletedRuns(i) : runs[r].date \in Nat /\ runs[r].date <= day
  BY TodayIsInCalendar, RunsAreDated DEF Dated
<1>2. done \subseteq all /\ all \subseteq DOMAIN runs
  <2>1. \A w \in 0..5 : w \in 0..6
    OBVIOUS
  <2>2. QED
    BY <2>1 DEF DoneInPeriod, CompletedRuns
<1>3. ASSUME f = "daily" \/ f = "shift"
      PROVE  /\ all = {r \in CompletedRuns(i) : runs[r].date = day} /\ done = all
  BY <1>3 DEF DoneInPeriod, SamePeriod
<1>4. ASSUME f = "weekly"
      PROVE  DoneThisWeek(i, day) <=> done # {}
  <2> DEFINE start == day - weekday(day)
  <2>1. done = {r \in CompletedRuns(i) :
                  WeekOf(runs[r].date) = WeekOf(day) /\ weekday(runs[r].date) \in 0..5}
    BY <1>4 DEF DoneInPeriod, SamePeriod
  <2>2. \A r \in CompletedRuns(i) :
           (WeekOf(runs[r].date) = WeekOf(day) /\ weekday(runs[r].date) \in 0..5)
              <=> (start <= runs[r].date /\ runs[r].date < start + 6)
    BY <1>1, SameWeek
  <2> HIDE DEF start
  <2>3. QED
    BY <2>1, <2>2 DEF DoneThisWeek, run_exists_in_range, start
<1>5. ASSUME f = "monthly"
      PROVE  (DoneThisMonth(i, day) <=> all # {}) /\ done = all
  <2>1. all = {r \in CompletedRuns(i) : MonthOf(runs[r].date) = MonthOf(day)} /\ done = all
    BY <1>5 DEF DoneInPeriod, SamePeriod
  <2>2. \A r \in CompletedRuns(i) :
           MonthOf(runs[r].date) = MonthOf(day)
              <=> (month_start(day) <= runs[r].date /\ runs[r].date < next_month(day))
    BY <1>1, SameMonth
  <2>3. QED
    BY <2>1, <2>2 DEF DoneThisMonth, run_exists_in_range
<1>6. QED
  BY <1>2, <1>3, <1>4, <1>5 DEF run_exists, completed_runs_today

\* What the dashboard no longer shows was done in its day, shift, week or
\* month, and what was done it does not show, a weekly check on its Sunday
\* excepted (dashboard_service.py:192).
THEOREM PendingHonest == Spec => []PendingIsHonest
<1>1. Init => Frequent /\ Dated
  BY WorkloadAssumption DEF Init, HaccpInit, Frequent, Dated
<1>2. IInv /\ Frequent /\ Dated /\ [Next]_vars => Frequent' /\ Dated'
  BY NextKeepsFrequent, NextKeepsDated
<1>3. IInv /\ Frequent /\ Dated => PendingIsHonest
  <2> SUFFICES ASSUME IInv, Frequent, Dated, NEW i \in DOMAIN templates, Scheduled(i)
               PROVE  LET asked == RunsAsked(templates[i])
                      IN /\ ~Shown(i) => Cardinality(DoneInPeriod(i, 0..6)) >= asked
                         /\ Cardinality(DoneInPeriod(i, 0..5)) >= asked => ~Shown(i)
    BY DEF PendingIsHonest
  <2> DEFINE t    == templates[i]
             done == DoneInPeriod(i, 0..5)
             all  == DoneInPeriod(i, 0..6)
  <2>1. /\ t.active /\ t.frequency \in FREQUENCIES /\ t.frequency # "on_delivery"
    BY DEF Scheduled, Frequent, ck_haccp_template_frequency
  <2>2. done \subseteq all /\ all \in SUBSET DOMAIN runs /\ done \in SUBSET DOMAIN runs
    BY PeriodsAgree
  <2>3. /\ Cardinality(done) >= 1 <=> done # {}
        /\ Cardinality(all) >= 1 <=> all # {}
    BY <2>2, SomeRuns
  <2>4. DueRule
    BY DueByFrequency
  <2>5. CASE t.frequency = "shift"
    <3>1. RunsAsked(t) = t.shifts /\ t.shifts \in Int
      BY <2>4, <2>5 DEF RunsAsked, DueRule
    <3>2. completed_runs_today(i, day) = Cardinality(all) /\ done = all
      BY <2>5, PeriodsAgree
    <3>3. Shown(i) <=> Cardinality(all) < t.shifts
      BY <2>1, <2>4, <2>5, <3>2 DEF DueRule
    <3>4. Cardinality(all) \in Nat
      BY <2>2, RunsAreFinite
    <3>5. QED
      BY <3>1, <3>2, <3>3, <3>4
  <2>6. CASE t.frequency # "shift"
    <3>1. RunsAsked(t) = 1
      BY <2>6 DEF RunsAsked
    <3>2. CASE t.frequency = "daily"
      <4>1. (Shown(i) <=> all = {}) /\ done = all
        BY <2>1, <2>4, <3>2, PeriodsAgree DEF DueRule
      <4>2. QED
        BY <2>3, <3>1, <4>1
    <3>3. CASE t.frequency = "weekly"
      <4>1. Shown(i) <=> done = {}
        BY <2>1, <2>4, <3>3, PeriodsAgree DEF DueRule
      <4>2. QED
        BY <2>2, <2>3, <3>1, <4>1
    <3>4. CASE t.frequency = "monthly"
      <4>1. (Shown(i) <=> all = {}) /\ done = all
        BY <2>1, <2>4, <3>4, PeriodsAgree DEF DueRule
      <4>2. QED
        BY <2>3, <3>1, <4>1
    <3>5. QED
      BY <2>1, <2>6, <3>2, <3>3, <3>4 DEF FREQUENCIES
  <2>7. QED
    BY <2>5, <2>6
<1>4. QED
  BY <1>1, <1>2, <1>3, Inductive, PTL DEF Spec
----------------------------------------------------------------------------
(***************************************************************************)
(* The monthly summary.                                                    *)
(***************************************************************************)
\* How many Mondays there are from one day to another, the latter excluded.
Mondays(from, to) == ((to + FirstWeekday + 6) \div 7) - ((from + FirstWeekday + 6) \div 7)

\* How many runs an evening with nothing due adds up to.
Quota(t, from, to) ==
    CASE t.frequency = "daily"   -> to - from
      [] t.frequency = "shift"   -> (to - from) * t.shifts
      [] t.frequency = "weekly"  -> Mondays(from, to)
      [] t.frequency = "monthly" -> IF from < to THEN 1 ELSE 0
      [] OTHER                   -> 0

\* The templates that had nothing due on any evening of this month so far.
Spotless == IF day \in MonthStarts THEN DOMAIN templates ELSE clean

QuotaMet ==
    \A i \in Spotless :
       completed_by_template(i, month_start(day), day) >= Quota(templates[i], month_start(day), day)

LEMMA MondayComes ==
  ASSUME NEW from \in Nat, NEW to \in Nat
  PROVE  /\ Mondays(from, to) \in Int /\ Mondays(from, from) = 0
         /\ Mondays(from, to + 1) = Mondays(from, to) + (IF weekday(to) = 0 THEN 1 ELSE 0)
<1>1. FirstWeekday \in 0..6
  BY CalendarAssumption
<1>2. QED
  BY <1>1 DEF Mondays, weekday

LEMMA MondayInEachWeek ==
  ASSUME NEW from \in Nat, NEW to \in Nat, from <= to
  PROVE  /\ (to - from) \div 7 <= Mondays(from, to)
         /\ (to - from) \div 7 \in Nat
         /\ from + 7 <= to => 1 <= Mondays(from, to)
<1>1. FirstWeekday \in 0..6
  BY CalendarAssumption
<1>2. QED
  BY <1>1 DEF Mondays

\* The runs of two spans of days, one after the other, add up.
LEMMA CountsAdd ==
  ASSUME IInv, NEW i, NEW from \in Nat, NEW mid \in Nat, NEW to \in Nat, from <= mid, mid <= to
  PROVE  /\ completed_by_template(i, from, mid) \in Nat
         /\ completed_by_template(i, mid, to) \in Nat
         /\ completed_by_template(i, from, to) =
               completed_by_template(i, from, mid) + completed_by_template(i, mid, to)
<1> DEFINE Dates(a, b) == {r \in CompletedRuns(i) : a <= runs[r].date /\ runs[r].date < b}
<1>1. \A a, b : IsFiniteSet(Dates(a, b)) /\ Cardinality(Dates(a, b)) \in Nat
  <2> SUFFICES ASSUME NEW a, NEW b
               PROVE  IsFiniteSet(Dates(a, b)) /\ Cardinality(Dates(a, b)) \in Nat
    OBVIOUS
  <2>1. Dates(a, b) \in SUBSET DOMAIN runs
    BY RunsAreDated
  <2>2. QED
    BY <2>1, RunsAreFinite
<1>2. Dates(from, to) = Dates(from, mid) \cup Dates(mid, to) /\ Dates(from, mid) \cap Dates(mid, to) = {}
  BY RunsAreDated
<1>3. \A a, b : completed_by_template(i, a, b) = Cardinality(Dates(a, b))
  BY DEF completed_by_template
<1> HIDE DEF Dates
<1>4. Cardinality(Dates(from, to)) =
        Cardinality(Dates(from, mid)) + Cardinality(Dates(mid, to))
          - Cardinality(Dates(from, mid) \cap Dates(mid, to))
  BY <1>1, <1>2, FS_Union
<1>5. Cardinality(Dates(from, mid) \cap Dates(mid, to)) = 0
  BY <1>2, FS_EmptySet
<1>6. QED
  BY <1>1, <1>3, <1>4, <1>5

\* Nothing due in the evening: what is asked of the day was done, on top of
\* what was asked until the day before.
LEMMA Evening ==
  ASSUME IInv, Frequent, Dated, QuotaMet, NEW i \in CleanTonight
  PROVE  completed_by_template(i, month_start(day), day + 1)
            >= Quota(templates[i], month_start(day), day + 1)
<1> DEFINE t     == templates[i]
           start == month_start(day)
           Count(a, b) == completed_by_template(i, a, b)
<1>1. /\ i \in Spotless /\ i \in DOMAIN templates /\ t.active /\ ~Shown(i)
  BY DEF CleanTonight, Spotless, IInv, Consistent
<1>2. day \in Nat /\ day < NoEnd /\ start \in Nat /\ start <= day
  BY TodayIsInCalendar, MonthBounds, CalendarAssumption
<1>3. /\ Count(start, day) \in Nat /\ Count(day, day + 1) \in Nat
      /\ Count(start, day + 1) = Count(start, day) + Count(day, day + 1)
  <2>1. day + 1 \in Nat /\ day <= day + 1
    BY <1>2
  <2>2. QED
    BY <1>2, <2>1, CountsAdd
<1>4. Count(start, day) >= Quota(t, start, day)
  BY <1>1 DEF QuotaMet
<1>5. Count(day, day + 1) = Cardinality({r \in CompletedRuns(i) : runs[r].date = day})
  <2>1. \A r \in CompletedRuns(i) : (day <= runs[r].date /\ runs[r].date < day + 1) <=> runs[r].date = day
    BY <1>2, RunsAreDated
  <2>2. {r \in CompletedRuns(i) : day <= runs[r].date /\ runs[r].date < day + 1}
          = {r \in CompletedRuns(i) : runs[r].date = day}
    BY <2>1
  <2>3. QED
    BY <2>2 DEF completed_by_template
<1>6. ASSUME NEW r \in CompletedRuns(i), NEW a \in Nat, NEW b \in Nat,
             a <= runs[r].date, runs[r].date < b
      PROVE  Count(a, b) >= 1
  <2> DEFINE S == {q \in CompletedRuns(i) : a <= runs[q].date /\ runs[q].date < b}
  <2>1. S \in SUBSET DOMAIN runs /\ S # {}
    BY <1>6, RunsAreDated
  <2>2. QED
    BY <2>1, SomeRuns DEF completed_by_template
<1>7. t.frequency \in FREQUENCIES /\ t.shifts \in Int /\ DueRule
  BY <1>1, DueByFrequency DEF Frequent, ck_haccp_template_frequency, DueRule
<1> HIDE DEF Count, start
<1>8. CASE t.frequency = "daily"
  <2>1. run_exists(i, day)
    BY <1>1, <1>7, <1>8 DEF DueRule
  <2>2. Count(day, day + 1) >= 1
    BY <1>2, <1>6, <2>1 DEF run_exists
  <2>3. /\ Quota(t, start, day) = day - start
        /\ Quota(t, start, day + 1) = day + 1 - start
    BY <1>2, <1>8 DEF Quota
  <2>4. QED
    BY <1>2, <1>3, <1>4, <2>2, <2>3 DEF Count, start
<1>9. CASE t.frequency = "shift"
  <2>1. ~(completed_runs_today(i, day) < t.shifts)
    BY <1>1, <1>7, <1>9 DEF DueRule
  <2>2. Count(day, day + 1) >= t.shifts
    BY <1>3, <1>5, <1>7, <2>1 DEF completed_runs_today
  <2>3. /\ Quota(t, start, day) = (day - start) * t.shifts
        /\ Quota(t, start, day + 1) = (day + 1 - start) * t.shifts
    BY <1>2, <1>7, <1>9 DEF Quota
  <2>4. (day + 1 - start) * t.shifts = (day - start) * t.shifts + t.shifts
    BY <1>2, <1>7
  <2>5. (day - start) * t.shifts \in Int
    BY <1>2, <1>7
  <2>6. QED
    BY <1>3, <1>4, <1>7, <2>2, <2>3, <2>4, <2>5 DEF Count, start
<1>10. CASE t.frequency = "weekly"
  <2>1. DoneThisWeek(i, day)
    BY <1>1, <1>7, <1>10 DEF DueRule
  <2>2. ASSUME weekday(day) = 0
        PROVE  Count(day, day + 1) >= 1
    <3>1. PICK r \in CompletedRuns(i) : day <= runs[r].date
      BY <1>2, <2>1, <2>2 DEF DoneThisWeek, run_exists_in_range
    <3>2. runs[r].date <= day /\ runs[r].date \in Nat
      BY <3>1, RunsAreDated DEF Dated
    <3>3. QED
      BY <1>2, <1>6, <3>1, <3>2
  <2>3. /\ Quota(t, start, day) = Mondays(start, day)
        /\ Quota(t, start, day + 1) = Mondays(start, day + 1)
    BY <1>10 DEF Quota
  <2>4. /\ Mondays(start, day) \in Int
        /\ Mondays(start, day + 1) = Mondays(start, day) + (IF weekday(day) = 0 THEN 1 ELSE 0)
    BY <1>2, MondayComes
  <2>5. QED
    BY <1>3, <1>4, <2>2, <2>3, <2>4 DEF Count, start
<1>11. CASE t.frequency = "monthly"
  <2>1. PICK r \in CompletedRuns(i) : start <= runs[r].date
    BY <1>1, <1>7, <1>11 DEF DueRule, DoneThisMonth, run_exists_in_range, start
  <2>2. runs[r].date <= day /\ runs[r].date \in Nat
    BY <2>1, RunsAreDated DEF Dated
  <2>3. Count(start, day + 1) >= 1
    BY <1>2, <1>6, <2>1, <2>2
  <2>4. Quota(t, start, day + 1) = 1
    BY <1>2, <1>11 DEF Quota
  <2>5. QED
    BY <2>3, <2>4 DEF Count, start
<1>12. CASE t.frequency = "on_delivery"
  <2>1. Quota(t, start, day + 1) = 0
    BY <1>12 DEF Quota
  <2>2. QED
    BY <1>3, <2>1 DEF Count, start
<1>13. QED
  BY <1>7, <1>8, <1>9, <1>10, <1>11, <1>12 DEF FREQUENCIES

\* In a month that began, nothing more can be asked before the next begins.
LEMMA MonthGoesOn ==
  ASSUME NEW d \in Nat, d + 1 \notin MonthStarts
  PROVE  month_start(d + 1) = month_start(d)
<1>1. \A m \in MonthStarts : m <= d + 1 <=> m <= d
  BY CalendarAssumption
<1>2. {m \in MonthStarts : m <= d + 1} = {m \in MonthStarts : m <= d}
  BY <1>1
<1>3. QED
  BY <1>2 DEF month_start

LEMMA MonthBegins ==
  ASSUME NEW d \in MonthStarts, d < NoEnd
  PROVE  month_start(d) = d
<1>1. d \in Nat
  BY CalendarAssumption
<1>2. /\ month_start(d) \in MonthStarts /\ month_start(d) <= d
      /\ \A m \in MonthStarts : m <= d => m <= month_start(d)
  BY <1>1, MonthBounds
<1>3. d <= d /\ month_start(d) \in Nat
  <2>1. \A m \in MonthStarts : m \in Nat
    BY CalendarAssumption
  <2>2. month_start(d) \in Nat
    BY <1>2, <2>1
  <2>3. d <= d
    BY <1>1
  <2>4. QED
    BY <2>2, <2>3
<1>4. d <= month_start(d)
  BY <1>2, <1>3
<1>5. QED
  BY <1>1, <1>2, <1>3, <1>4

LEMMA NothingAsked ==
  ASSUME NEW t, t.shifts \in Int, NEW d \in Nat
  PROVE  Quota(t, d, d) = 0
<1>1. Mondays(d, d) = 0 /\ d - d = 0 /\ (d - d) * t.shifts = 0 /\ ~(d < d)
  BY MondayComes
<1>2. QED
  BY <1>1, Zenon DEF Quota

LEMMA QuotaIsInteger ==
  ASSUME IInv, NEW i \in DOMAIN templates, NEW from \in Nat, NEW to \in Nat
  PROVE  Quota(templates[i], from, to) \in Int
<1>1. templates[i].shifts \in Int
  BY DueByFrequency DEF DueRule
<1>2. /\ to - from \in Int /\ (to - from) * templates[i].shifts \in Int
      /\ Mondays(from, to) \in Int
  BY <1>1, MondayComes
<1>3. QED
  BY <1>2 DEF Quota

LEMMA DaysPass ==
  ASSUME IInv, [Next]_vars
  PROVE  day' = day \/ (NextDay /\ day' = day + 1)
BY RequestsTakeNoDay, WorkloadAssumption DEF Next, NextDay, vars, haccpVars, IInv, Tables

MetAtStart == day \in MonthStarts => QuotaMet

LEMMA QuotaAtStart == IInv /\ Dated => MetAtStart
<1> SUFFICES ASSUME IInv, Dated, day \in MonthStarts, NEW i \in DOMAIN templates
             PROVE  completed_by_template(i, month_start(day), day)
                      >= Quota(templates[i], month_start(day), day)
  BY DEF QuotaMet, Spotless, MetAtStart
<1>1. day \in Nat /\ month_start(day) = day
  BY TodayIsInCalendar, MonthBegins
<1>2. templates[i].shifts \in Int
  BY DueByFrequency DEF DueRule
<1>3. completed_by_template(i, day, day) \in Nat
  BY <1>1, CountsAdd
<1>4. QED
  BY <1>1, <1>2, <1>3, NothingAsked

\* The completed runs of a span of days grow, and no count of them falls.
LEMMA CountsStay ==
  ASSUME IInv, IInv', NEW p \in Procs, Request(p), NEW i, NEW a \in Nat, NEW b \in Nat
  PROVE  /\ completed_by_template(i, a, b) \in Nat
         /\ completed_by_template(i, a, b)' \in Nat
         /\ completed_by_template(i, a, b)' >= completed_by_template(i, a, b)
<1> DEFINE Before == {r \in CompletedRuns(i) : a <= runs[r].date /\ runs[r].date < b}
           After  == {r \in CompletedRuns(i)' : a <= runs'[r].date /\ runs'[r].date < b}
<1>1. Before \subseteq After
  BY CompletedRunsStay
<1>2. IsFiniteSet(After)
  <2>1. runs' \in Seq(Run)
    BY DEF IInv, Tables
  <2>2. DOMAIN runs' = 1..Len(runs') /\ Len(runs') \in Nat
    BY <2>1
  <2>3. IsFiniteSet(DOMAIN runs') /\ After \subseteq DOMAIN runs'
    BY <2>2, FS_Interval DEF CompletedRuns
  <2>4. QED
    BY <2>3, FS_Subset
<1>3. /\ Cardinality(Before) \in Nat /\ Cardinality(After) \in Nat
      /\ Cardinality(Before) <= Cardinality(After)
  BY <1>1, <1>2, FS_Subset, FS_CardinalityType
<1>4. QED
  BY <1>3 DEF completed_by_template

LEMMA NextKeepsQuotaMet ==
  ASSUME IInv, IInv', Frequent, Dated, Dated', QuotaMet, [Next]_vars
  PROVE  QuotaMet'
<1>1. CASE day' \in MonthStarts
  <2>1. MetAtStart'
    BY QuotaAtStart, PTL
  <2>2. QED
    BY <1>1, <2>1 DEF MetAtStart
<1>2. SUFFICES ASSUME day' \notin MonthStarts, NEW i \in clean'
               PROVE  completed_by_template(i, month_start(day), day)'
                        >= Quota(templates[i], month_start(day), day)'
  BY <1>1 DEF QuotaMet, Spotless
<1>3. day \in Nat /\ day' \in Nat /\ month_start(day) \in Nat
  BY TodayIsInCalendar, MonthBounds, CalendarAssumption DEF IInv, Tables
<1>4. PICK from \in Nat, to \in Nat : from = month_start(day) /\ to = day'
  BY <1>3
<1>5. SUFFICES ASSUME from = month_start(day')
               PROVE  completed_by_template(i, from, to)' >= Quota(templates'[i], from, to)
  <2>1. from = month_start(day')
    <3>1. CASE day' = day
      BY <1>4, <3>1
    <3>2. CASE day' = day + 1
      BY <1>2, <1>3, <1>4, <3>2, MonthGoesOn
    <3>3. QED
      BY <1>3, <3>1, <3>2, DaysPass
  <2>2. QED
    BY <1>4, <1>5, <2>1 DEF completed_by_template, Quota
<1>6. ASSUME NEW p \in Procs, Request(p)
      PROVE  completed_by_template(i, from, to)' >= Quota(templates'[i], from, to)
  <2>1. day' = day /\ i \in clean /\ templates'[i] = templates[i]
    BY <1>2, <1>6, RequestsTakeNoDay DEF Request
  <2>2. completed_by_template(i, from, to) >= Quota(templates[i], from, to)
    BY <1>2, <1>4, <2>1 DEF QuotaMet, Spotless
  <2>3. /\ completed_by_template(i, from, to) \in Nat
        /\ completed_by_template(i, from, to)' \in Nat
        /\ completed_by_template(i, from, to)' >= completed_by_template(i, from, to)
    BY <1>6, CountsStay
  <2>4. Quota(templates[i], from, to) \in Int
    BY <2>1, QuotaIsInteger DEF IInv, Consistent
  <2>5. QED
    BY <2>1, <2>2, <2>3, <2>4
<1>7. CASE NextDay
  <2>1. i \in CleanTonight /\ to = day + 1
    BY <1>2, <1>4, <1>7 DEF NextDay
  <2>2. completed_by_template(i, from, to) >= Quota(templates[i], from, to)
    BY <1>4, <2>1, Evening
  <2>3. UNCHANGED <<runs, templates>>
    BY <1>7 DEF NextDay
  <2>4. QED
    BY <2>2, <2>3 DEF completed_by_template, CompletedRuns, Completed
<1>8. CASE UNCHANGED vars
  <2>1. UNCHANGED <<runs, templates, clean, day>>
    BY <1>8 DEF vars, haccpVars
  <2>2. completed_by_template(i, from, to) >= Quota(templates[i], from, to)
    BY <1>2, <1>4, <2>1 DEF QuotaMet, Spotless
  <2>3. QED
    BY <2>1, <2>2 DEF completed_by_template, CompletedRuns, Completed
<1>9. QED
  BY <1>6, <1>7, <1>8, WorkloadAssumption DEF Next, IInv, Tables

\* What the summary expects of a month is no more than its evenings add up to.
LEMMA ExpectedIsMet ==
  ASSUME NEW t, t.shifts \in Int, t.frequency \in FREQUENCIES \ {"on_delivery"},
         t.frequency = "shift" => t.shifts > 0,
         NEW from \in Nat, NEW to \in Nat, from + 7 <= to
  PROVE  LET expected == expected_runs(t, to - from)
         IN expected \in Nat /\ expected > 0 /\ expected <= Quota(t, from, to)
<1> DEFINE days == to - from
<1>1. days \in Nat /\ days >= 7
  OBVIOUS
<1>2. CASE t.frequency = "daily"
  BY <1>1, <1>2 DEF expected_runs, Quota
<1>3. CASE t.frequency = "shift"
  <2>1. expected_runs(t, days) = days * t.shifts /\ Quota(t, from, to) = days * t.shifts
    BY <1>3 DEF expected_runs, Quota
  <2>2. days * t.shifts \in Nat /\ days * t.shifts > 0
    BY <1>1, <1>3
  <2>3. QED
    BY <2>1, <2>2
<1>4. CASE t.frequency = "weekly"
  <2> DEFINE weeks == days \div 7
  <2>1. weeks \in Nat /\ weeks <= Mondays(from, to) /\ 1 <= Mondays(from, to)
    BY MondayInEachWeek
  <2>2. {1, weeks} \in SUBSET Nat /\ {1, weeks} # {} /\ IsFiniteSet({1, weeks})
    <3>1. IsFiniteSet({1}) /\ IsFiniteSet({1} \cup {weeks})
      <4>1. IsFiniteSet({1})
        BY FS_Singleton
      <4>2. QED
        BY <4>1, FS_AddElement
    <3>2. {1, weeks} = {1} \cup {weeks}
      OBVIOUS
    <3> HIDE DEF weeks
    <3>3. QED
      BY <2>1, <3>1, <3>2
  <2>3. Max({1, weeks}) \in {1, weeks} /\ 1 <= Max({1, weeks})
    BY <2>2, MaxFound
  <2>4. expected_runs(t, days) = Max({1, weeks}) /\ Quota(t, from, to) = Mondays(from, to)
    BY <1>4 DEF expected_runs, Quota
  <2>5. QED
    BY <2>1, <2>3, <2>4
<1>5. CASE t.frequency = "monthly"
  BY <1>1, <1>5 DEF expected_runs, Quota
<1>6. QED
  BY <1>2, <1>3, <1>4, <1>5 DEF FREQUENCIES

LEMMA FullPercents ==
  ASSUME NEW count \in Nat, NEW expected \in Nat, expected > 0, expected <= count
  PROVE  Min({100, (count * 100) \div expected}) = 100
<1> DEFINE q == (count * 100) \div expected
<1>1. q \in Nat /\ q >= 100
  OBVIOUS
<1>2. {100, q} \in SUBSET Nat /\ {100, q} # {}
  BY <1>1
<1> HIDE DEF q
<1>3. Min({100, q}) \in {100, q} /\ Min({100, q}) <= 100
  BY <1>2, MinFound
<1>4. QED
  BY <1>1, <1>3 DEF q

\* A template that had nothing due on any evening of a month is compliant in
\* the summary of that month: the dashboard and the report count alike
\* (dashboard_service.py:192, pdf_service.py:370).
THEOREM CleanIsCompliant == Spec => CleanMonthIsCompliant
<1> DEFINE A == (day' # day /\ day' \in MonthStarts) =>
                   \A i \in CleanTonight :
                      Scheduled(i) => compliance_pct(i, month_start(day), day') = 100
<1>1. Init => Frequent /\ Dated
  BY WorkloadAssumption DEF Init, HaccpInit, Frequent, Dated
<1>2. IInv /\ Frequent /\ Dated /\ [Next]_vars => Frequent' /\ Dated'
  BY NextKeepsFrequent, NextKeepsDated
<1>3. Init /\ IInv /\ Dated => QuotaMet
  BY QuotaAtStart, CalendarAssumption DEF Init, HaccpInit, MetAtStart
<1>4. IInv /\ IInv' /\ Frequent /\ Dated /\ Dated' /\ QuotaMet /\ [Next]_vars => QuotaMet'
  BY NextKeepsQuotaMet
<1>5. IInv /\ Frequent /\ Dated /\ QuotaMet /\ [Next]_vars => [A]_vars
  <2> SUFFICES ASSUME IInv, Frequent, Dated, QuotaMet, [Next]_vars,
                      day' # day, day' \in MonthStarts, NEW i \in CleanTonight, Scheduled(i)
               PROVE  compliance_pct(i, month_start(day), day') = 100
    OBVIOUS
  <2> DEFINE t        == templates[i]
             start    == month_start(day)
             next     == day + 1
             expected == expected_runs(t, next - start)
             count    == completed_by_template(i, start, next)
  <2>1. day' = next
    BY DaysPass
  <2>2. day \in Nat /\ start \in MonthStarts /\ start <= day
    BY TodayIsInCalendar, MonthBounds
  <2>3. start \in Nat /\ next \in Nat /\ start + 7 <= next
    <3>1. next \in MonthStarts
      BY <2>1
    <3>2. start \in Nat
      BY <2>2, CalendarAssumption
    <3>3. start < next /\ next \in Nat
      BY <2>2, <3>2
    <3>4. QED
      BY <2>2, <3>1, <3>2, <3>3, CalendarAssumption
  <2>4. i \in DOMAIN templates
    BY DEF CleanTonight, IInv, Consistent
  <2>5. /\ t.shifts \in Int /\ t.frequency \in FREQUENCIES \ {"on_delivery"}
        /\ t.frequency = "shift" => t.shifts > 0
    BY <2>4, DueByFrequency DEF Scheduled, Frequent, ck_haccp_template_frequency, DueRule
  <2>6. expected \in Nat /\ expected > 0 /\ expected <= Quota(t, start, next)
    BY <2>3, <2>5, ExpectedIsMet
  <2>7. count >= Quota(t, start, next)
    BY Evening
  <2>8. count \in Nat /\ Quota(t, start, next) \in Int
    <3>1. start <= next /\ next <= next
      BY <2>3
    <3>2. count \in Nat
      BY <2>3, <3>1, CountsAdd
    <3>3. QED
      BY <2>3, <2>4, <3>2, QuotaIsInteger
  <2> HIDE DEF expected, count
  <2>9. expected <= count /\ expected # 0
    BY <2>6, <2>7, <2>8
  <2>10. Min({100, (count * 100) \div expected}) = 100
    BY <2>6, <2>8, <2>9, FullPercents
  <2>11. compliance_pct(i, start, next) = 100
    BY <2>9, <2>10 DEF compliance_pct, expected, count
  <2>12. QED
    BY <2>1, <2>11
<1>6. QED
  BY <1>1, <1>2, <1>3, <1>4, <1>5, Inductive, PTL DEF Spec, CleanMonthIsCompliant
=============================================================================
