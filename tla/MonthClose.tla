----------------------------- MODULE MonthClose -----------------------------
(***************************************************************************)
(* The path of a month's surplus through two services: MonthlyBudget       *)
(* closes the month and GoalSavings credits the surplus.  They share       *)
(* nothing but the event bus.                                              *)
(***************************************************************************)
EXTENDS MonthlyBudget, GoalSavings

vars == <<platform, budgetVars, goalVars>>

Init == PlatformInit /\ BudgetInit /\ GoalInit

Next ==
    \/ BudgetNext /\ UNCHANGED goalVars
    \/ GoalNext /\ UNCHANGED budgetVars

(* The close worker's loop goes on as long as its process runs: it sweeps  *)
(* again, and every call it makes ends.                                    *)
SchedulerStep ==
    /\ \/ SweepBegins \/ SweepNext
       \/ CloseFetches("scheduler") \/ CloseCommits("scheduler")
       \/ closing["scheduler"].at = "spend" /\ closing["scheduler"].period \in Failing
          /\ CloseUnavailable("scheduler")
    /\ UNCHANGED goalVars

Fairness == WF_vars(SchedulerStep)

Spec == Init /\ [][Next]_vars

FairSpec == Spec /\ Fairness

-----------------------------------------------------------------------------

Closed == {e \in bus : e.type = "budget.month_closed"}

(* A budget is closed exactly when its close was announced, and it was     *)
(* announced once, however the button, the scheduler, a crash between      *)
(* them, an edit and a deletion interleave: closed_at and the outbox row   *)
(* are one commit, behind one conditional UPDATE.                          *)
ClosedIffAnnounced ==
    /\ \A b \in BudgetIds : Live(b) =>
          (budgets[b].state = "closed" <=> \E e \in Closed : e.id = b)
    /\ \A e, f \in Closed : e.id = f.id => e = f

(* A month's surplus is placed once, on a goal or aside, though the month  *)
(* may be deleted, budgeted again and closed again, and deliveries repeat; *)
(* the amount placed is one that a close of that month announced.          *)
SurplusPlacedOnce ==
    LET placed == allocations \cup get_unallocated_surplus IN
    /\ \A r, s \in placed : r.key = s.key => r = s
    /\ \A r \in placed :
          \E e \in Closed : e.period = r.key /\ e.surplus = r.amount /\ r.amount > 0

Credited(rows) == MapThenSumSet(LAMBDA r : r.amount, rows)

(* What a goal holds is what it was created with and what its history      *)
(* shows was credited to it, unless the user overwrote the amount; and a   *)
(* goal that credits brought to its target has been announced.             *)
CreditsAddUp ==
    \A g \in Goals : goals[g] # NoGoal /\ g \notin edited =>
        /\ GoalLive(g) =>
              goals[g].current = saved[g] + Credited(get_allocation_history(g))
        /\ list_for_goal(g) # {} /\ goals[g].target > 0 /\ goals[g].current >= goals[g].target
              => \E e \in bus : e.type = "goal.reached" /\ e.goal = g

(* No close credits a fictitious surplus: what it announces is what the    *)
(* budget it read leaves of the period's expenses, categorised or not, as  *)
(* analytics had them at some moment of the call.  An outage in its midst  *)
(* is no month without expenses.                                           *)
SurplusWasLeft ==
    [][\A e \in Closed' \ Closed : \E a \in Closers :
          LET call == closing[a] IN
          /\ call.at = "commit" /\ call.id = e.id /\ call.period = e.period
          /\ \E spent \in call.known .. get_total_expenses(call.period, call.start) :
                e.surplus = Max({0, call.budgeted - spent})]_vars

(* A month that is due is closed, even when another month's expenses can   *)
(* never be fetched: a failure ends one call of the sweep, not the sweep.  *)
DueMonthsClose ==
    \A p \in Periods \ Failing :
        (OpenIn({p}) # {} /\ is_due_for_scheduled_close(p) /\ p < Running) ~> (OpenIn({p}) = {})

=============================================================================
