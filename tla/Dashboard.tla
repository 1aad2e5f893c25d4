----------------------------- MODULE Dashboard -----------------------------
(***************************************************************************)
(* What the restaurant is shown of its state: the lists of the dashboard   *)
(* (services/dashboard_service.py) and the figures of the PDF reports      *)
(* (services/pdf_service.py).  Nothing here changes state.                 *)
(*                                                                         *)
(* A day is a natural number, its weekday counts from Monday = 0, and a    *)
(* month is the days from one member of MonthStarts to the next.           *)
(***************************************************************************)
EXTENDS Haccp, FiniteSetsExt

CONSTANTS
    FirstWeekday,    \* the weekday of day 0
    MonthStarts      \* the first days of the months

ASSUME CalendarAssumption ==
    /\ FirstWeekday \in 0..6
    /\ MonthStarts \subseteq Nat /\ IsFiniteSet(MonthStarts)
    /\ 0 \in MonthStarts
    \* A month has a week at least.
    /\ \A m, n \in MonthStarts : m < n => m + 7 <= n

weekday(d) == (d + FirstWeekday) % 7

month_start(d) == Max({m \in MonthStarts : m <= d})

\* The first day after the month of d; a month that does not end in the
\* calendar given ends after every day of it.
NoEnd == 1 + Max(MonthStarts) + 31
next_month(d) == Min({m \in MonthStarts : m > d} \cup {NoEnd})

----------------------------------------------------------------------------
\* Checklists that are due.

CompletedRuns(i) == {r \in DOMAIN runs : runs[r].template = i /\ Completed(r)}

run_exists(i, today) == \E r \in CompletedRuns(i) : runs[r].date = today

completed_runs_today(i, today) ==
    Cardinality({r \in CompletedRuns(i) : runs[r].date = today})

\* Mutant: the latest run decides.
LatestRunDecides(i, start, end) ==
    LET Within == {r \in DOMAIN runs : /\ runs[r].template = i
                                       /\ start <= runs[r].date /\ runs[r].date < end}
    IN Within # {} /\ Completed(Max(Within))

\* end is not included.
run_exists_in_range(i, start, end) ==
    \E r \in CompletedRuns(i) : start <= runs[r].date /\ runs[r].date < end

\* Mutant: the last seven days.
LastSevenDays(i, today) == run_exists_in_range(i, today - 6, today + 1)

\* Monday to Sunday, with the Sunday left out.
DoneThisWeek(i, today) ==
    LET week_start == today - weekday(today)
    IN run_exists_in_range(i, week_start, week_start + 6)

DoneThisMonth(i, today) ==
    run_exists_in_range(i, month_start(today), next_month(today))

\* The alerts of template i: none, one, or one for each shift left of today.
haccp_pending(i, today) ==
    LET t == templates[i]
        UnlessDone(done) == IF done THEN {} ELSE {1}
    IN CASE ~t.active -> {}
         [] t.active /\ t.frequency = "daily"   -> UnlessDone(run_exists(i, today))
         [] t.active /\ t.frequency = "shift"   -> (completed_runs_today(i, today) + 1)..t.shifts
         [] t.active /\ t.frequency = "weekly"  -> UnlessDone(DoneThisWeek(i, today))
         [] t.active /\ t.frequency = "monthly" -> UnlessDone(DoneThisMonth(i, today))
         [] OTHER -> {}

----------------------------------------------------------------------------
\* Temperatures.

\* Mutant: equipment that was deleted is no longer joined.
AlertsOfEquipmentInUse(today) ==
    {k \in DOMAIN logs : /\ logs[k].out /\ logs[k].created >= today - 1
                         /\ InUse(logs[k].equipment)}

\* The last 24 hours, here a day, by the time the log was stored.
temperature_alerts(today) ==
    {k \in DOMAIN logs : logs[k].out /\ logs[k].created >= today - 1}

\* The temperature report goes by the time the client gave.
temperature_log(from, to) ==
    {k \in DOMAIN logs : from <= logs[k].recorded /\ logs[k].recorded <= to}

out_of_range_count(from, to) ==
    Cardinality({k \in temperature_log(from, to) : logs[k].out})

----------------------------------------------------------------------------
\* The sheet of one run: a line for every answer it has, by now.

daily_checklist(r) ==
    [status |-> runs[r].status, items |-> runs[r].answered,
     equipment |-> runs[r].readings]

----------------------------------------------------------------------------
\* The monthly summary.

expected_runs(t, days) ==
    CASE t.frequency = "daily"   -> days
      [] t.frequency = "shift"   -> days * (IF t.shifts = 0 THEN 1 ELSE t.shifts)
      [] t.frequency = "weekly"  -> Max({1, days \div 7})
      [] t.frequency = "monthly" -> 1
      [] OTHER                   -> 0

\* Mutant: the first day of the month is missed.
AfterTheFirst(i, start, next) ==
    Cardinality({r \in CompletedRuns(i) : start < runs[r].date /\ runs[r].date < next})

completed_by_template(i, start, next) ==
    Cardinality({r \in CompletedRuns(i) : start <= runs[r].date /\ runs[r].date < next})

\* Whole percents: the report rounds to a tenth.
compliance_pct(i, start, next) ==
    LET expected == expected_runs(templates[i], next - start)
    IN IF expected = 0
       THEN 100
       ELSE Min({100, (completed_by_template(i, start, next) * 100) \div expected})

----------------------------------------------------------------------------
\* Stock lots by the day they expire, or NoExpiry.

CONSTANT NoExpiry

ActiveDated(lots) == {l \in lots : l.status = "active" /\ l.expiry # NoExpiry}

expiry_alerts(lots, today, warning, critical) ==
    {l \in ActiveDated(lots) :
        /\ today <= l.expiry /\ l.expiry <= today + warning
        /\ l.expiry - today > critical}

\* Mutant: an expired lot is left out.
OnlyComing(lots, today, critical) ==
    {l \in ActiveDated(lots) : today <= l.expiry /\ l.expiry <= today + critical}

\* Lots that have expired are critical too.
critical_expiry_alerts(lots, today, critical) ==
    {l \in ActiveDated(lots) : l.expiry <= today + critical}
=============================================================================
