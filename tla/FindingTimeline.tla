--------------------------- MODULE FindingTimeline ---------------------------
(***************************************************************************)
(* The clock of one finding identity (scope, fingerprint), as the views      *)
(* finding_first_seen, finding_timeline and finding_sla compute it from the  *)
(* reports of the scope, the ledger events about the finding and the policy. *)
(* Rows are only ever added, in any order: an old report is ingested late,   *)
(* events are imported in bulk, a policy is replaced.  A report need not     *)
(* carry the finding, or may carry it at another severity, or refuted.  An   *)
(* event's occurred_at is stored as the text its author wrote, with an       *)
(* offset; the views pick the least and the greatest text and convert only   *)
(* the one they picked.  SQL's NULL is the constant NULL.                    *)
(***************************************************************************)
EXTENDS Integers, FiniteSets, FiniteSetsExt

CONSTANTS
    NULL,
    MaxTime,       \* instants are 0..MaxTime
    Offsets,       \* offsets from UTC an event's author may use
    Subjects,      \* the scope's subjects
    Severities,    \* the severities, numbered as their names sort: critical, high, ...
    Policies,      \* the policies the deployment may state
    MaxReports,    \* bound on the reports
    MaxEvents      \* bound on the events about the finding

Time == 0..MaxTime

Resolutions == {"open", "fix_in_progress", "resolved", "risk_accepted",
                "regression_introduced"}

Validities == {NULL, "confirmed", "corrected", "not_verified", "false_positive", "hardening"}

Clocks == {"audit_date", "first_event", "first_routed_or_filed"}

\* A severity the policy's default profile leaves out has no days.
Policy == [clock_start : Clocks \cup {NULL}, days : [Severities -> Nat \cup {NULL}]]

ASSUME TimelineAssumption ==
    /\ MaxTime \in Nat
    /\ Offsets \subseteq Int
    /\ Severities \subseteq 1..5
    /\ Policies \subseteq Policy
    /\ NULL \notin Int /\ NULL \notin BOOLEAN /\ NULL \notin Policy
    /\ MaxReports \in Nat /\ MaxEvents \in Nat

\* A report_finding row with the fingerprint, and a report with those it has.
Finding == [severity : Severities, validity : Validities]

Report == [subject : Subjects, date : Time, rows : SUBSET Finding]

Event == [at : Time, offset : Offsets, resolution : Resolutions, routed : BOOLEAN]

VARIABLES
    reports,   \* the reports ingested; superseded ones stay
    current,   \* report_current: the one report of each subject that is counted
    events,    \* layer_event rows about the finding
    policy     \* the current policy, or NULL

timelineVars == <<reports, current, events, policy>>

TimelineTypeOK ==
    /\ reports \subseteq Report
    /\ current \in [Subjects -> reports \cup {NULL}]
    /\ events \subseteq Event
    /\ policy \in Policies \cup {NULL}

TimelineInit ==
    /\ reports = {}
    /\ current = [s \in Subjects |-> NULL]
    /\ events = {}
    /\ policy = NULL

\* A report is ingested.  Which report of its subject is counted from then on
\* is the choice of report_current, by role, clock and correction (module
\* CurrentViews): the new one, the one of before, or an older one.
AddReport(r) ==
    /\ Cardinality(reports) < MaxReports
    /\ reports' = reports \cup {r}
    /\ \E c \in {q \in reports' : q.subject = r.subject} :
          current' = [current EXCEPT ![r.subject] = c]
    /\ UNCHANGED <<events, policy>>

\* A ledger layer with one more event is ingested.
AddEvent(e) ==
    /\ Cardinality(events) < MaxEvents
    /\ events' = events \cup {e}
    /\ UNCHANGED <<reports, current, policy>>

\* A policy is ingested, or corrected.
NewPolicy(p) ==
    /\ policy' = p
    /\ UNCHANGED <<reports, current, events>>

TimelineNext ==
    \/ \E r \in Report : AddReport(r)
    \/ \E e \in Event : AddEvent(e)
    \/ \E p \in Policies : NewPolicy(p)

TimelineSpec == TimelineInit /\ [][TimelineNext]_timelineVars

-----------------------------------------------------------------------------
(* finding_first_seen                                                      *)

Minimum(S) == IF S = {} THEN NULL ELSE Min(S)
Maximum(S) == IF S = {} THEN NULL ELSE Max(S)

\* Mutant: only the reports that are counted.
Carrying_Current == {r \in reports : r.rows # {} /\ r = current[r.subject]}

\* Every report that carried the finding, superseded ones too.
Carrying == {r \in reports : r.rows # {}}

Dates == {r.date : r \in Carrying}

first_seen == Minimum(Dates)
last_seen == Maximum(Dates)

-----------------------------------------------------------------------------
(* finding_timeline                                                        *)

\* MIN and MAX of occurred_at compare texts: the local time, then the sign of
\* the offset ("+" sorts before "-"), then its hours.
OffsetBefore(o, p) ==
    IF (o >= 0) = (p >= 0) THEN o * o <= p * p ELSE o >= 0

TextBefore(e, f) ==
    \/ e.at + e.offset < f.at + f.offset
    \/ e.at + e.offset = f.at + f.offset /\ OffsetBefore(e.offset, f.offset)

MinText(S) ==
    IF S = {} THEN NULL ELSE (CHOOSE e \in S : \A f \in S : TextBefore(e, f)).at
MaxText(S) ==
    IF S = {} THEN NULL ELSE (CHOOSE e \in S : \A f \in S : TextBefore(f, e)).at

WithResolution(r) == {e \in events : e.resolution = r}

first_adjudicated == MinText(events)

\* The event came from a tracker or a review (source_type jira, mr_comment).
first_routed_or_filed == MinText({e \in events : e.routed})

resolved_at == MinText(WithResolution("resolved"))

\* Mutant: the latest regression.
regression_at_Last == MaxText(WithResolution("regression_introduced"))

regression_at == MinText(WithResolution("regression_introduced"))

resolved_after_regression == MaxText(WithResolution("resolved"))

Days(from, to) == IF from = NULL \/ to = NULL THEN NULL ELSE to - from

Known(d) == IF d = NULL THEN NULL ELSE IF d < 0 THEN NULL ELSE d

days_to_resolve == Known(Days(first_seen, resolved_at))

days_adjudicated_to_resolve == Days(first_adjudicated, resolved_at)

regression_days == Known(Days(regression_at, resolved_after_regression))

regression_still_open == regression_at # NULL /\ resolved_after_regression = NULL

-----------------------------------------------------------------------------
(* finding_sla                                                             *)

COALESCE(a, b) == IF a = NULL THEN b ELSE a

\* current_finding's rows that count: neither a false positive nor hardening.
Counts(f) == COALESCE(f.validity, "confirmed") \notin {"false_positive", "hardening"}

CountedRows == {f \in UNION {current[s].rows : s \in {t \in Subjects : current[t] # NULL}} : Counts(f)}

\* MIN(severity) compares names.  Without a counted row the finding has no
\* SLA row at all.
severity == Minimum({f.severity : f \in CountedRows})

clock_start ==
    IF policy = NULL THEN "audit_date" ELSE COALESCE(policy.clock_start, "first_routed_or_filed")

resolve_days == IF policy = NULL \/ severity = NULL THEN NULL ELSE policy.days[severity]

clock_started_at ==
    CASE clock_start = "first_event" -> COALESCE(first_adjudicated, first_seen)
      [] clock_start = "first_routed_or_filed" ->
            COALESCE(first_routed_or_filed, COALESCE(first_adjudicated, first_seen))
      [] OTHER -> first_seen

still_open == resolved_at = NULL

age_days == Days(clock_started_at, COALESCE(resolved_at, last_seen))

\* NULL also where the finding has no SLA row.
breached == IF resolve_days = NULL THEN NULL ELSE age_days > resolve_days

-----------------------------------------------------------------------------
(* Properties.  A finding has a timeline row once some report carried it.   *)

HasRow == Carrying # {}

SameOffset == \A e, f \in events : e.offset = f.offset

\* No duration is negative, also the ones the view does not guard: the first
\* resolution cannot precede the first event, when they share an offset.
NoNegativeDuration ==
    HasRow /\ SameOffset =>
        \A d \in {days_to_resolve, days_adjudicated_to_resolve, regression_days} :
            d = NULL \/ d >= 0

\* "The breaches are precisely the ones that never closed": a finding that a
\* counted report shows and does not refute, and that was never resolved, is
\* open, has no duration, is judged where its severity has days, and breached
\* where the clock runs from the audit and two reports, whether they are still
\* counted or not, show it further apart than that.
NeverClosedIsJudged ==
    CountedRows # {} /\ (\A e \in events : e.resolution # "resolved") =>
        /\ HasRow /\ still_open /\ severity # NULL
        /\ days_to_resolve = NULL
        /\ resolve_days # NULL =>
              /\ breached \in BOOLEAN
              /\ clock_start = "audit_date" =>
                    \A q, r \in Carrying : r.date - q.date > resolve_days => breached

\* An event later than every other one, written in their offset, never moves
\* the finding's closing date, nor its first adjudication: a month of the
\* trend that has passed does not change.
PastIsSettled ==
    [][\A e \in events' \ events :
          SameOffset' /\ (\A f \in events : f.at < e.at) =>
              /\ resolved_at # NULL => resolved_at' = resolved_at
              /\ first_adjudicated # NULL => first_adjudicated' = first_adjudicated]_timelineVars

\* With the clock of the audit date, the breach of an unresolved finding is
\* taken back by no event and by no report or policy as such: only by one that
\* leaves the finding without a limit (uncounted, refuted, tracked) or with
\* more days than it had (another severity, another policy).
BreachSticks ==
    [][clock_start = "audit_date" /\ clock_start' = "audit_date"
          /\ breached = TRUE /\ resolved_at' = NULL =>
              \/ breached' = TRUE
              \/ /\ current' # current \/ policy' # policy
                 /\ resolve_days' = NULL \/ resolve_days' > resolve_days]_timelineVars

\* The closing date is picked by its text: it is not always the earliest
\* resolution, and misses it by no more than the offsets differ.
OffsetsShiftByHours ==
    \A e \in WithResolution("resolved") :
        \E f, g \in WithResolution("resolved") : resolved_at - e.at <= f.offset - g.offset

\* A finding not resolved before it first regressed: the regression is closed
\* and has its dwell, or is open, for the query to run the dwell up to the
\* day it asks.
RegressionIsTimed ==
    LET regressed == WithResolution("regression_introduced")
        before == {e \in WithResolution("resolved") : \A r \in regressed : e.at < r.at}
    IN  HasRow /\ SameOffset /\ regressed # {} /\ before = {} =>
            regression_days # NULL \/ regression_still_open

\* What the finding views show of one finding, in whatever order its reports,
\* events and policies were imported: durations that are none or not negative,
\* a counted open finding that is judged, dates off by the offsets at most,
\* regressions timed.
DurationsHold ==
    /\ TimelineTypeOK
    /\ NoNegativeDuration /\ NeverClosedIsJudged
    /\ OffsetsShiftByHours /\ RegressionIsTimed

\* What the views once said of the past stands: closing dates, and breaches
\* as long as the limit does.
HistoryStands == PastIsSettled /\ BreachSticks
=============================================================================
