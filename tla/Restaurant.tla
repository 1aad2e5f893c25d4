----------------------------- MODULE Restaurant -----------------------------
(***************************************************************************)
(* A restaurant at work: its members, its checklists and equipment, what   *)
(* the dashboard and the reports make of them, and the days that pass.     *)
(***************************************************************************)
EXTENDS Dashboard

\* What a process knows of the request it serves: who asks for what, on which
\* row, and what it has read of it.
Subjects == Nat \cup Users \cup Equipment
Invitation == [role : Roles, row : Row \cup {Nobody}]
Reads == UNION {Nat, Row, Invitation, SUBSET Texts, Template, Piece}
Served == [user : Users, kind : Kinds, on : Subjects, seen : Reads]

ASSUME NoRequestAssumption == NoRequest \notin Served

\* The calendar does not end before the workload does.
ASSUME DaysAssumption == \A w \in Workloads : w.days < NoEnd

VARIABLE
    clean     \* templates with nothing due at the end of any day this month

vars == <<accessVars, haccpVars, clean>>

Init ==
    /\ AccessInit
    /\ HaccpInit
    /\ clean = {}

\* The dashboard asks for a run of template i.
Shown(i) == haccp_pending(i, day) # {}

\* A request is for a restaurant that exists, or creates it.
Arrive(p) ==
    /\ \E u \in work.people, kind \in work.kinds :
          /\ (kind = "create") <=> (templates = << >>)
          /\ kind = "create" => u = Founder
          /\ SignIn(p, u, kind)
    /\ UNCHANGED haccpVars

Account(p) ==
    /\ Register(p) \/ Authorise(p) \/ Die(p) \/ MemberStep(p)
    /\ UNCHANGED haccpVars

\* A template that was changed is not the one that was clean.
Request(p) ==
    /\ \/ Arrive(p) \/ Account(p) \/ CreateRestaurant(p)
       \/ TemplateStep(p) \/ EquipmentStep(p) \/ RunStep(p)
    /\ clean' = {i \in clean : templates'[i] = templates[i]}

\* The templates that had nothing due on any evening of this month, this one
\* included.
CleanTonight ==
    {i \in IF day \in MonthStarts THEN DOMAIN templates ELSE clean :
        templates[i].active /\ ~Shown(i)}

NextDay ==
    /\ day < work.days
    /\ day' = day + 1
    /\ clean' = IF day' \in MonthStarts THEN {} ELSE CleanTonight
    /\ UNCHANGED <<accessVars, templates, equipment, runs, logs, work>>

Next ==
    \/ \E p \in work.desks : Request(p)
    \/ NextDay

Spec == Init /\ [][Next]_vars

----------------------------------------------------------------------------
\* Types.

TypeOK ==
    /\ users \subseteq Users
    /\ members \in [Users -> Row \cup {Nobody}]
    /\ \A p \in Procs : pc[p] \in {"idle", "register", "member", "handler", "check", "commit"}
    /\ \A p \in Procs : pc[p] = "idle" <=> req[p] = NoRequest
    /\ \A p \in Procs : pc[p] # "idle" => req[p].user \in Users /\ req[p].kind \in Kinds
    /\ \A u \in Users : members[u] # Nobody => u \in users
    /\ \A i \in DOMAIN templates : templates[i].required \in Nat
    /\ \A r \in DOMAIN runs :
          /\ runs[r].template \in DOMAIN templates
          /\ runs[r].answered <= templates[runs[r].template].required
          /\ runs[r].status = "completed" <=> runs[r].completions > 0
    /\ clean \subseteq DOMAIN templates

----------------------------------------------------------------------------
\* Members.

\* Only requests of the founder ever change the memberships of others or add
\* the missing seed templates, whatever roles have changed hands meanwhile:
\* no sequence of invitations and role changes makes a second owner
\* (restaurants.py, permissions.py).
OnlyTheFounderManages ==
    [][\A p \in Procs :
          /\ pc[p] = "commit" /\ pc'[p] = "idle"
          /\ members' # members \/ Len(templates') > Len(templates)
          => req[p].user = Founder]_vars

\* A member who was removed comes back by an invitation alone; a role change
\* that read the row before the removal does not bring them back.
OnlyInvitationsReadmit ==
    [][\A u \in Users :
          (members[u] # Nobody /\ ~members[u].active /\ members'[u].active)
          => \E p \in Procs : /\ At(p, "commit", "invite")
                              /\ req[p].on = u /\ pc'[p] = "idle"]_vars

----------------------------------------------------------------------------
\* Checklists.

\* Reseeding is idempotent as far as requests do not overlap: a name has at
\* most as many untouched seed templates as there are processes to have read
\* the names before the first of them was stored (haccp_service.py:1094).
SeededOnce ==
    \A s \in Range(SEED_TEMPLATES) :
       Cardinality({i \in DOMAIN templates :
          /\ templates[i].name = s.name
          /\ templates[i].seed /\ ~templates[i].edited}) <= Cardinality(Procs)

\* The sheet of a completed run has a line for all it asked: for every piece of
\* the equipment that was in use when it was started, whatever has become of it
\* since, and otherwise for all the required items there were when it was
\* completed (haccp_service.py:1244, pdf_service.py:167).
CompletedIsAnswered ==
    \A r \in DOMAIN runs :
       LET sheet == daily_checklist(r)
       IN sheet.status = "completed" =>
             IF NothingToRead(r)
             THEN runs[r].asked <= sheet.items
             ELSE runs[r].snapshot \subseteq sheet.equipment

\* The runs as pages of a book: a dynamic run needs its snapshot.
Page(r) ==
    [checklist |-> runs[r].template, date |-> runs[r].date,
     needs |-> IF NothingToRead(r) THEN {} ELSE runs[r].snapshot,
     noted |-> runs[r].readings, signed |-> Completed(r)]

Book == INSTANCE RecordBook
    WITH book <- [r \in DOMAIN runs |-> Page(r)], Readings <- Equipment

\* The checklists keep the book an inspector expects, with all their requests
\* overlapping: what a run is and needs is fixed when it is started, readings
\* stay, a signed page was complete and stays signed (haccp_service.py:1135).
KeepsTheBook == Book!Spec

\* A completed run is refused, so only requests that were already being served
\* reach it: no more answers or completions than there are other processes.
RacesAreBounded ==
    \A r \in DOMAIN runs : Completed(r) =>
       runs[r].late + runs[r].completions <= Cardinality(Procs)

----------------------------------------------------------------------------
\* The dashboard.

WeekOf(d) == (d + FirstWeekday) \div 7
MonthOf(d) == Cardinality({m \in MonthStarts : m <= d})

\* The period of a frequency, by the calendar.
SamePeriod(frequency, d, today) ==
    CASE frequency = "weekly"  -> WeekOf(d) = WeekOf(today)
      [] frequency = "monthly" -> MonthOf(d) = MonthOf(today)
      [] OTHER                 -> d = today

\* Completed runs of the period; of a week, those of a set of weekdays.
DoneInPeriod(i, weekdays) ==
    {r \in CompletedRuns(i) :
       /\ SamePeriod(templates[i].frequency, runs[r].date, day)
       /\ templates[i].frequency = "weekly" => weekday(runs[r].date) \in weekdays}

RunsAsked(t) == IF t.frequency = "shift" THEN t.shifts ELSE 1

\* Templates the dashboard has something to say about.
Scheduled(i) ==
    /\ templates[i].active
    /\ templates[i].frequency # "on_delivery"
    /\ templates[i].frequency = "shift" => templates[i].shifts > 0

\* What the dashboard no longer shows was done in the period, and what was done
\* it does not show, a weekly check on its Sunday excepted
\* (dashboard_service.py:192).
PendingIsHonest ==
    \A i \in DOMAIN templates : Scheduled(i) =>
       /\ ~Shown(i) => Cardinality(DoneInPeriod(i, 0..6)) >= RunsAsked(templates[i])
       /\ Cardinality(DoneInPeriod(i, 0..5)) >= RunsAsked(templates[i]) => ~Shown(i)

\* What was done stays done for the day: no request makes the dashboard ask
\* again for a check it had cleared, unless it writes that template.
ClearedStaysCleared ==
    [][day' = day =>
          \A i \in DOMAIN templates :
             (templates'[i] = templates[i] /\ ~Shown(i)) => ~Shown(i)']_vars

\* A template that had nothing due on any evening of a month is compliant in the
\* summary of that month: the dashboard and the report count alike
\* (dashboard_service.py:192, pdf_service.py:370).
CleanMonthIsCompliant ==
    [][(day' # day /\ day' \in MonthStarts) =>
          \A i \in CleanTonight :
             Scheduled(i) => compliance_pct(i, month_start(day), day') = 100]_vars

\* A reading outside the limits it was judged by is on the dashboard for a day
\* and counted in the report for the day it is about, whatever has become of
\* the equipment; no other reading is (dashboard_service.py:258,
\* pdf_service.py:88).
BreachIsShown ==
    \A k \in DOMAIN logs :
       LET l == logs[k]
           breach == ~(l.limits.min <= l.temperature /\ l.temperature <= l.limits.max)
       IN /\ (k \in temperature_alerts(day)) <=> (breach /\ day <= l.created + 1)
          /\ breach => out_of_range_count(l.recorded, l.recorded) > 0

\* Overnight, an active lot the dashboard warned of is still on one of the two
\* lists, and a critical one is still critical after it has expired
\* (dashboard_service.py:77 and 119).
LotsRipen ==
    [][day' # day =>
          \A critical \in 0..2, warning \in 0..2, expiry \in day..(day + 3) :
             LET lots == {[status |-> "active", expiry |-> expiry]}
                 Critical(d) == critical_expiry_alerts(lots, d, critical)
                 Warned(d) == expiry_alerts(lots, d, warning, critical)
             IN /\ Critical(day) \subseteq Critical(day')
                /\ Warned(day) \subseteq Warned(day') \cup Critical(day')
                /\ Warned(day) \cap Critical(day) = {}]_vars
=============================================================================
