------------------------------ MODULE Insights ------------------------------
(***************************************************************************)
(* Saved reports and their delivery schedules (insights.service.ts and     *)
(* packages/insights/src/schedule.ts).  An instant is a number of hours.   *)
(* An update of a schedule reads the row and then writes it, with the      *)
(* requests of other people committing in between.                         *)
(***************************************************************************)
EXTENDS Reports, Calendar

CONSTANTS
  ReportNames,  \* names a report may be given
  Specs,        \* report specifications that people submit
  Hours,        \* hours of the day that schedules are set to
  Changes,      \* what updates of a schedule give: records of some of its fields
  Start,        \* the instant at which the checked behaviour starts
  Elapsed,      \* bound on the hours that pass
  Editors,      \* requests handled concurrently
  MaxReports    \* bound on the reports ever created

Cadences == {"DAILY", "WEEKLY", "MONTHLY"}

\* What the request schema lets through.
ASSUME InsightsAssumption ==
  /\ Hours \subseteq 0..23 /\ Start \in Nat /\ Elapsed \subseteq Nat /\ MaxReports \in Nat
  /\ \A change \in Changes :
       /\ DOMAIN change \subseteq {"cadence", "hour", "active"}
       /\ "cadence" \in DOMAIN change => change.cadence \in Cadences
       /\ "hour" \in DOMAIN change => change.hour \in Hours

VARIABLES
  reports,      \* report_definition rows by id
  schedules,    \* report_schedule rows by the id of their report
  now,
  editing       \* per request: the update that has read its schedule

insightVars == <<reports, schedules, now, editing>>

ReportIds == 1..MaxReports
STEP_DAYS == [DAILY |-> 1, WEEKLY |-> 7]
Missing == [name |-> "none"]
NoSchedule == [cadence |-> "none"]
NotEditing == [report |-> 0]
Stored(r) == reports[r] # Missing
Scheduled(r) == schedules[r] # NoSchedule

-----------------------------------------------------------------------------
(* computeNextRun.                                                         *)

DayOfInstant(t) == t \div 24
HourOf(t) == t % 24

\* The next candidate of a cadence; a day that the next month lacks runs over into the
\* month after it.
Later(cadence, candidate) ==
  LET day == DayOfInstant(candidate)
      next == IF cadence = "MONTHLY"
              THEN MonthStart(MonthOf(day) + 1) + DayOfMonth(day) - 1
              ELSE day + STEP_DAYS[cadence]
  IN 24 * next + HourOf(candidate)

\* One step is enough: the first candidate is on the day of "from" itself.
computeNextRun(cadence, hour, from) ==
  LET today == 24 * DayOfInstant(from) + hour
  IN IF today <= from THEN Later(cadence, today) ELSE today

-----------------------------------------------------------------------------
(* Reports.  Names are unique in a tenant.                                 *)

NameFree(name, r) == \A other \in ReportIds \ {r} : reports[other].name # name

InsightsInit ==
  /\ reports = [r \in ReportIds |-> Missing]
  /\ schedules = [r \in ReportIds |-> NoSchedule]
  /\ now = Start
  /\ editing = [e \in Editors |-> NotEditing]

\* A report that does not compile is refused before anything is stored.
CreateReport(r, name, spec) ==
  /\ ~Stored(r)
  /\ compileReport(spec) = "ok"
  /\ NameFree(name, r)
  /\ reports' = [reports EXCEPT ![r] = [name |-> name, dataset |-> spec.dataset, spec |-> spec]]
  /\ UNCHANGED <<schedules, now, editing>>

RenameReport(r, name) ==
  /\ Stored(r)
  /\ NameFree(name, r)
  /\ reports' = [reports EXCEPT ![r].name = name]
  /\ UNCHANGED <<schedules, now, editing>>

ChangeSpec(r, spec) ==
  /\ Stored(r)
  /\ compileReport(spec) = "ok"
  /\ reports' = [reports EXCEPT ![r].dataset = spec.dataset, ![r].spec = spec]
  /\ UNCHANGED <<schedules, now, editing>>

\* An update of a schedule that is deleted before it writes finds no row and fails.
Orphaned(r) == [e \in Editors |-> IF editing[e].report = r THEN NotEditing ELSE editing[e]]

\* The report's schedules are deleted with it.
DeleteReport(r) ==
  /\ Stored(r)
  /\ reports' = [reports EXCEPT ![r] = Missing]
  /\ schedules' = [schedules EXCEPT ![r] = NoSchedule]
  /\ editing' = Orphaned(r)
  /\ UNCHANGED now

-----------------------------------------------------------------------------
(* Schedules.  "since" and "mixed" are history: when the next run was      *)
(* computed, and whether from values that another update had replaced.     *)

\* The bound: one schedule at a time, as schedules do not touch one another.
CreateSchedule(r, cadence, hour) ==
  /\ Stored(r) /\ \A other \in ReportIds : ~Scheduled(other)
  /\ schedules' = [schedules EXCEPT ![r] =
       [cadence |-> cadence, hour |-> hour, active |-> TRUE, since |-> now, mixed |-> FALSE,
        next |-> computeNextRun(cadence, hour, now)]]
  /\ UNCHANGED <<reports, now, editing>>

\* An update changes the fields that it gives.
Chosen(change, field, row) ==
  IF field \in DOMAIN change THEN change[field] ELSE row[field]

ReadSchedule(e, r, change) ==
  /\ editing[e] = NotEditing
  /\ Scheduled(r)
  /\ editing' = [editing EXCEPT ![e] =
       [report |-> r, change |-> change,
        cadence |-> Chosen(change, "cadence", schedules[r]),
        hour |-> Chosen(change, "hour", schedules[r])]]
  /\ UNCHANGED <<reports, schedules, now>>

\* Faulty variant: a new hour takes effect with the run after the next.
ReschedulesOnCadence(change) == "cadence" \in DOMAIN change

Reschedules(change) == {"cadence", "hour"} \cap DOMAIN change # {}

\* The given fields are written; the next run follows from the cadence and the hour as
\* the update knows them.
UpdateSchedule(e) ==
  /\ editing[e] # NotEditing
  /\ LET edit == editing[e]
         row == schedules[edit.report]
         written == [f \in DOMAIN row |-> Chosen(edit.change, f, row)]
         replaced == written.cadence # edit.cadence \/ written.hour # edit.hour
     IN schedules' =
          [schedules EXCEPT ![edit.report] =
             IF Reschedules(edit.change)
             THEN [written EXCEPT !.next = computeNextRun(edit.cadence, edit.hour, now),
                                  !.since = now, !.mixed = replaced]
             ELSE written]
  /\ editing' = [editing EXCEPT ![e] = NotEditing]
  /\ UNCHANGED <<reports, now>>

DeleteSchedule(r) ==
  /\ Scheduled(r)
  /\ schedules' = [schedules EXCEPT ![r] = NoSchedule]
  /\ editing' = Orphaned(r)
  /\ UNCHANGED <<reports, now>>

TimePasses(hours) ==
  /\ now = Start
  /\ now' = now + hours
  /\ UNCHANGED <<reports, schedules, editing>>

InsightsNext ==
  \/ \E r \in ReportIds :
       \/ \E name \in ReportNames :
            RenameReport(r, name) \/ \E spec \in Specs : CreateReport(r, name, spec)
       \/ \E spec \in Specs : ChangeSpec(r, spec)
       \/ \E cadence \in Cadences, hour \in Hours : CreateSchedule(r, cadence, hour)
       \/ \E e \in Editors, change \in Changes : ReadSchedule(e, r, change)
       \/ DeleteReport(r) \/ DeleteSchedule(r)
  \/ \E e \in Editors : UpdateSchedule(e)
  \/ \E hours \in Elapsed : TimePasses(hours)

InsightsSpec == InsightsInit /\ [][InsightsNext]_insightVars

-----------------------------------------------------------------------------
(* Properties.                                                             *)

\* The longest wait for the next run, in days.
LongestWait == [DAILY |-> 1, WEEKLY |-> 7, MONTHLY |-> 31]

\* Every schedule that is kept belongs to a report, and its next run is at its hour,
\* strictly after the moment it was computed, and no later than its cadence allows,
\* month ends included.  The one exception is an update that recomputes the next run from
\* a cadence or an hour which another update replaced after it was read.
NextRunOnGrid ==
  \A r \in ReportIds : Scheduled(r) =>
    LET s == schedules[r]
    IN /\ Stored(r)
       /\ s.mixed \/ /\ HourOf(s.next) = s.hour
                     /\ s.since < s.next
                     /\ s.next <= s.since + 24 * LongestWait[s.cadence]
=============================================================================
