---------------------------- MODULE MonthlyBudget ----------------------------
(***************************************************************************)
(* budget-service: the monthly budgets of one account, the close of a      *)
(* month by the user's button and by the scheduled worker, and the alert   *)
(* worker.  Months are numbered consecutively, so that a year's end is no  *)
(* case of its own; days are numbered from the first day of month 0.       *)
(* Requests of users who do not own the account find no row and change     *)
(* nothing.                                                                *)
(***************************************************************************)
EXTENDS Platform, FiniteSetsExt, SequencesExt

CONSTANTS
    Periods,        \* the budget months
    Categories,
    Amounts,        \* amounts of a budget line
    Thresholds,     \* BUDGET_ALERT_THRESHOLDS
    DaysPerPeriod, CloseDay,
    StartDays,      \* the budget_start_day a caller of the close route may send
    Failing,        \* months whose expenses analytics-service never returns
    BudgetIds,      \* bound: rows monthly_budgets can get, 1..n
    SpendOn,        \* bound: pairs of a day and a category that expenses are on
    MaxSpend,       \* bound: what is spent on one category in a day
    Stored,         \* rows monthly_budgets starts with
    FirstDay, MaxDay  \* the day it starts on; bound: the last day

ASSUME BudgetAssumption ==
    /\ Periods \subseteq Nat /\ BudgetIds \subseteq Nat /\ Failing \subseteq Periods
    /\ SpendOn \subseteq Int \X (Categories \cup {"uncategorised"}) /\ IsFiniteSet(SpendOn)
    /\ Amounts \subseteq Nat /\ Thresholds \subseteq 1..100
    /\ {DaysPerPeriod, CloseDay, MaxSpend, FirstDay, MaxDay} \subseteq Nat
    /\ CloseDay \in 1..DaysPerPeriod /\ 1 \in StartDays /\ StartDays \subseteq 1..DaysPerPeriod
    /\ IsFiniteSet(Categories) /\ "uncategorised" \notin Categories

VARIABLES
    budgets,    \* id -> row of monthly_budgets with its budget_lines
    spend,      \* day and category or Uncategorised -> what analytics has counted
    today,
    closing,    \* caller -> the close_month call it is in
    sweep,      \* months the scheduler's current sweep has still to close
    alerting    \* the budgets the alert worker's current sweep has loaded

budgetVars == <<budgets, spend, today, closing, sweep, alerting>>

-----------------------------------------------------------------------------
(* Tables and their queries *)

Uncategorised == "uncategorised"

Lines == UNION {[S -> Amounts] : S \in SUBSET Categories}

MonthlyBudgetRow == [state : {"open", "closed", "deleted"}, period : Periods, lines : Lines]

Unused == [state |-> "unused"]

(* The rows it starts with are open, one for a month: closed ones have been
   announced before. *)
ASSUME StoredAssumption ==
    /\ \A b \in DOMAIN Stored : Stored[b] \in MonthlyBudgetRow /\ Stored[b].state = "open"
    /\ \A b, c \in DOMAIN Stored : Stored[b].period = Stored[c].period => b = c

Live(b) == budgets[b].state \in {"open", "closed"}

total_budget(lines) == MapThenSumSet(LAMBDA c : lines[c], DOMAIN lines)

get_by_account_and_period(p) == {b \in BudgetIds : Live(b) /\ budgets[b].period = p}

Running == today \div DaysPerPeriod

OpenIn(Ps) == {b \in BudgetIds : budgets[b].state = "open" /\ budgets[b].period \in Ps}

list_open_before_period(p) ==
    SetToSortSeq({budgets[b].period : b \in OpenIn({q \in Periods : q < p})}, <)

list_open_for_period(p) == {[id |-> b, row |-> budgets[b]] : b \in OpenIn({p})}

(* The row with the next id; the unique constraint on account and month    *)
(* makes the check for an existing budget and the insert one step.         *)
InsertBudget(p, lines) ==
    \E b \in BudgetIds :
        /\ budgets[b] = Unused /\ \A c \in BudgetIds : c < b => budgets[c] # Unused
        /\ budgets' = [budgets EXCEPT ![b] = [state |-> "open", period |-> p, lines |-> lines]]

(* The conditional UPDATE ... WHERE closed_at IS NULL. *)
mark_closed(b) == budgets' = [budgets EXCEPT ![b].state = "closed"]

-----------------------------------------------------------------------------
(* Expenses, as analytics-service reports them *)

(* The days of a budget month: the calendar month, or from the start day   *)
(* in the month before.                                                    *)
budget_period(p, start) ==
    IF start = 1 THEN p * DaysPerPeriod .. (p + 1) * DaysPerPeriod - 1
                 ELSE (p - 1) * DaysPerPeriod + start - 1 .. p * DaysPerPeriod + start - 2

SpentIn(days, categories) ==
    MapThenSumSet(LAMBDA x : spend[x], {x \in SpendOn : x[1] \in days /\ x[2] \in categories})

get_expenses_by_category(p, start) ==
    [c \in Categories |-> SpentIn(budget_period(p, start), {c})]

get_total_expenses(p, start) ==
    SpentIn(budget_period(p, start), Categories \cup {Uncategorised})

Spend(x) ==
    /\ spend[x] < MaxSpend
    /\ spend' = [spend EXCEPT ![x] = @ + 1]
    /\ UNCHANGED <<bus, budgets, today, closing, sweep, alerting>> /\ Background

DayPasses ==
    /\ today < MaxDay /\ today' = today + 1
    /\ UNCHANGED <<bus, budgets, spend, closing, sweep, alerting>> /\ Background

-----------------------------------------------------------------------------
(* Budgets *)

EditEnds == UNCHANGED <<bus, spend, today, closing, sweep, alerting>>

create(p, lines) ==
    /\ get_by_account_and_period(p) = {}
    /\ InsertBudget(p, lines)

(* replace_lines: the old lines go and the new ones come in one flush. *)
replace_lines(b, lines) == budgets' = [budgets EXCEPT ![b].lines = lines]

(* A closed month can still be edited. *)
update(b, lines) == Live(b) /\ replace_lines(b, lines)

mark_deleted(b) == budgets' = [budgets EXCEPT ![b].state = "deleted"]

delete(b) == Live(b) /\ mark_deleted(b)

copy_to_month(source, target) ==
    \E b \in get_by_account_and_period(source) :
        /\ DOMAIN budgets[b].lines # {}
        /\ get_by_account_and_period(target) = {}
        /\ InsertBudget(target, budgets[b].lines)

create_monthly_budget(p, lines) == Request /\ create(p, lines) /\ EditEnds

update_monthly_budget(b, lines) == Request /\ update(b, lines) /\ EditEnds

delete_monthly_budget(b) == Request /\ delete(b) /\ EditEnds

copy_monthly_budget(p, q) == Request /\ copy_to_month(p, q) /\ EditEnds

-----------------------------------------------------------------------------
(* Closing a month *)

Closers == {"button", "scheduler"}

Idle == [at |-> "idle"]

(* The call is over; the scheduler goes on to the next month of its sweep. *)
CallEnds(a) ==
    /\ closing' = [closing EXCEPT ![a] = Idle]
    /\ sweep' = IF a = "scheduler" THEN Tail(sweep) ELSE sweep

(* The budget as it is now; known keeps, for the properties, what has been *)
(* spent when the call begins.                                             *)
CloseReads(a, p, start) ==
    \E b \in get_by_account_and_period(p) :
        closing' = [closing EXCEPT ![a] =
            [at |-> "spend", id |-> b, period |-> p, start |-> start,
             budgeted |-> total_budget(budgets[b].lines), known |-> get_total_expenses(p, start)]]

(* The close route; the button of the user interface sends no start day,   *)
(* which is start day 1.                                                   *)
CloseRequest(p, start) ==
    /\ Request /\ closing["button"] = Idle
    /\ CloseReads("button", p, start)
    /\ UNCHANGED <<bus, budgets, spend, today, sweep, alerting>>

Fetched(call, total) ==
    [at |-> "commit", id |-> call.id, period |-> call.period, start |-> call.start,
     budgeted |-> call.budgeted, known |-> call.known, spent |-> total]

CloseFetches(a) ==
    /\ closing[a].at = "spend" /\ closing[a].period \notin Failing
    /\ closing' = [closing EXCEPT ![a] =
           Fetched(@, get_total_expenses(closing[a].period, closing[a].start))]
    /\ UNCHANGED <<bus, budgets, spend, today, sweep, alerting>> /\ Background

Unavailable(a) ==
    /\ closing[a].at = "spend"
    /\ IF closing[a].period \in Failing THEN Background ELSE Fault

(* Mutant of CloseUnavailable: it falls back to nothing spent, as the      *)
(* summary does.                                                           *)
CloseFailsOpen(a) ==
    /\ Unavailable(a)
    /\ closing' = [closing EXCEPT ![a] = Fetched(@, 0)]
    /\ UNCHANGED <<bus, budgets, spend, today, sweep, alerting>>

(* Mutant of CloseUnavailable: the failure ends the scheduler's sweep.     *)
CloseFailureEndsSweep(a) ==
    /\ Unavailable(a)
    /\ closing' = [closing EXCEPT ![a] = Idle]
    /\ sweep' = IF a = "scheduler" THEN <<>> ELSE sweep
    /\ UNCHANGED <<bus, budgets, spend, today, alerting>>

(* No expenses, no close: UpstreamServiceUnavailable leaves the month open. *)
CloseUnavailable(a) ==
    /\ Unavailable(a)
    /\ CallEnds(a)
    /\ UNCHANGED <<bus, budgets, spend, today, alerting>>

MonthClosedEvent(call) ==
    [type |-> "budget.month_closed", period |-> call.period, id |-> call.id,
     surplus |-> Max({0, call.budgeted - call.spent})]

(* Mutant of CloseCommits: closed_at is not looked at again. *)
CloseCommitsAlways(a) ==
    LET call == closing[a] IN
    /\ call.at = "commit"
    /\ IF Live(call.id)
       THEN mark_closed(call.id) /\ Emit({MonthClosedEvent(call)})
       ELSE UNCHANGED <<budgets, bus>>
    /\ CallEnds(a)
    /\ UNCHANGED <<spend, today, alerting>> /\ Background

CloseCommits(a) ==
    LET call == closing[a] IN
    /\ call.at = "commit"
    /\ IF budgets[call.id].state = "open"
       THEN mark_closed(call.id) /\ Emit({MonthClosedEvent(call)})
       ELSE UNCHANGED <<budgets, bus>>
    /\ CallEnds(a)
    /\ UNCHANGED <<spend, today, alerting>> /\ Background

-----------------------------------------------------------------------------
(* The month-close worker *)

is_due_for_scheduled_close(p) == today >= (p + 1) * DaysPerPeriod + CloseDay - 1

SweepBegins ==
    /\ sweep = <<>>
    /\ sweep' = SelectSeq(list_open_before_period(Running), is_due_for_scheduled_close)
    /\ UNCHANGED <<bus, budgets, spend, today, closing, alerting>> /\ Background

SweepNext ==
    /\ sweep # <<>> /\ closing["scheduler"] = Idle
    /\ IF get_by_account_and_period(Head(sweep)) = {}
       THEN CallEnds("scheduler")
       ELSE CloseReads("scheduler", Head(sweep), 1) /\ sweep' = sweep
    /\ UNCHANGED <<bus, budgets, spend, today, alerting>> /\ Background

SweepCrash ==
    /\ Fault
    /\ sweep # <<>> /\ sweep' = <<>>
    /\ closing' = [closing EXCEPT !["scheduler"] = Idle]
    /\ UNCHANGED <<bus, budgets, spend, today, alerting>>

-----------------------------------------------------------------------------
(* The alert worker *)

(* Percentages are floored; a line without money never alerts. *)
evaluate_line_crossings(lines, expenses) ==
    {x \in (DOMAIN lines) \X Thresholds :
        lines[x[1]] > 0 /\ (expenses[x[1]] * 100) \div lines[x[1]] >= x[2]}

AlertSweepBegins ==
    /\ alerting = {} /\ list_open_for_period(Running) # {}
    /\ alerting' = list_open_for_period(Running)
    /\ UNCHANGED <<bus, budgets, spend, today, closing, sweep>> /\ Background

ThresholdEvent(p, crossing) ==
    [type |-> "budget.line_threshold_crossed", period |-> p,
     category |-> crossing[1], threshold |-> crossing[2]]

evaluate_alerts(row) ==
    Emit({ThresholdEvent(row.period, x) :
          x \in evaluate_line_crossings(row.lines, get_expenses_by_category(row.period, 1))})

AlertSweepNext ==
    \E b \in alerting :
        /\ alerting' = alerting \ {b}
        /\ \/ b.row.period \notin Failing /\ evaluate_alerts(b.row) /\ Background
           \/ (IF b.row.period \in Failing THEN Background ELSE Fault) /\ bus' = bus
        /\ UNCHANGED <<budgets, spend, today, closing, sweep>>

-----------------------------------------------------------------------------

BudgetInit ==
    /\ budgets = [b \in BudgetIds |-> IF b \in DOMAIN Stored THEN Stored[b] ELSE Unused]
    /\ spend = [x \in SpendOn |-> 0]
    /\ today = FirstDay
    /\ closing = [a \in Closers |-> Idle]
    /\ sweep = <<>> /\ alerting = {}

BudgetNext ==
    \/ DayPasses
    \/ \E p \in Periods, lines \in Lines : create_monthly_budget(p, lines)
    \/ \E b \in BudgetIds, lines \in Lines : update_monthly_budget(b, lines)
    \/ \E b \in BudgetIds : delete_monthly_budget(b)
    \/ \E p, q \in Periods : copy_monthly_budget(p, q)
    \/ \E x \in SpendOn : Spend(x)
    \/ \E p \in Periods, start \in StartDays : CloseRequest(p, start)
    \/ \E a \in Closers : CloseFetches(a) \/ CloseUnavailable(a) \/ CloseCommits(a)
    \/ SweepBegins \/ SweepNext \/ SweepCrash
    \/ AlertSweepBegins \/ AlertSweepNext

=============================================================================
