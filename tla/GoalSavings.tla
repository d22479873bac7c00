----------------------------- MODULE GoalSavings -----------------------------
(***************************************************************************)
(* goal-service: the savings goals of one account, and the consumer of     *)
(* budget.month_closed that credits a month's surplus to the account's     *)
(* default goal.  The consumer handles one delivery at a time (prefetch 1, *)
(* one replica); a second handler runs only while an earlier one, whose    *)
(* connection was lost, has not ended.  Requests on goals of another       *)
(* user's account are refused without effect.                              *)
(***************************************************************************)
EXTENDS Platform, FiniteSetsExt

CONSTANTS
    Goals,         \* the ids the goals table can give out
    GoalAmounts,   \* amounts a request can carry
    StoredGoals,   \* rows goals starts with
    GoalWorkers    \* handlers that can run at once

ASSUME GoalAssumption == GoalAmounts \subseteq Nat

VARIABLES
    goals,         \* goal -> its row
    allocations,   \* goal_allocation_history
    unallocated,   \* unallocated_budget_surplus
    handling,      \* worker -> the delivery it handles
    saved,         \* history: goal -> the amount it was created with
    edited         \* history: goals whose amounts a user has changed

goalVars == <<goals, allocations, unallocated, handling, saved, edited>>

-----------------------------------------------------------------------------
(* Tables *)

NoGoal == [state |-> "none"]

GoalRow == [state : {"live", "deleted"}, target : Nat, current : Nat, default : BOOLEAN]

ASSUME StoredGoalsAssumption == \A g \in DOMAIN StoredGoals : StoredGoals[g] \in GoalRow

GoalLive(g) == goals[g].state = "live"

GoalEvent(type, g, row) ==
    [type |-> type, goal |-> g, target |-> row.target, current |-> row.current]

(* The deleted_at filter makes the flag of a deleted goal harmless. *)
get_default_savings_goal == {g \in Goals : GoalLive(g) /\ goals[g].default}

set_default_savings_goal(g) ==
    goals' = [h \in Goals |-> IF goals[h] = NoGoal THEN NoGoal
                              ELSE [goals[h] EXCEPT !.default = (h = g)]]

clear_default_savings_goal(g) == goals' = [goals EXCEPT ![g].default = FALSE]

insert_goal(g, row) == goals' = [goals EXCEPT ![g] = row]

write_goal(g, row) == goals' = [goals EXCEPT ![g] = row]

(* delete: one statement sets deleted_at and clears the default flag. *)
soft_delete(g) == goals' = [goals EXCEPT ![g].state = "deleted", ![g].default = FALSE]

-----------------------------------------------------------------------------
(* Requests *)

create_goal(g, target, current) ==
    LET row == [state |-> "live", target |-> target, current |-> current, default |-> FALSE] IN
    /\ goals[g] = NoGoal
    /\ insert_goal(g, row)
    /\ saved' = [saved EXCEPT ![g] = current]
    /\ Emit({GoalEvent("goal.created", g, row)})
    /\ UNCHANGED edited

(* The form sends every field back: the amount is overwritten, not added to. *)
update_goal(g, target, current) ==
    LET row == [goals[g] EXCEPT !.target = target, !.current = current] IN
    /\ GoalLive(g)
    /\ write_goal(g, row)
    /\ edited' = edited \cup {g}
    /\ Emit({GoalEvent("goal.updated", g, row)})
    /\ UNCHANGED saved

delete_goal(g) ==
    /\ GoalLive(g)
    /\ soft_delete(g)
    /\ Emit({[type |-> "goal.deleted", goal |-> g]})
    /\ UNCHANGED <<saved, edited>>

set_default_goal(g) ==
    /\ GoalLive(g)
    /\ set_default_savings_goal(g)
    /\ Emit({GoalEvent("goal.updated", g, goals[g])})
    /\ UNCHANGED <<saved, edited>>

clear_default_goal(g) ==
    /\ GoalLive(g)
    /\ clear_default_savings_goal(g)
    /\ Emit({GoalEvent("goal.updated", g, goals[g])})
    /\ UNCHANGED <<saved, edited>>

GoalRoute == Request /\ UNCHANGED <<allocations, unallocated, handling>>

post_goal(g, target, current) == GoalRoute /\ create_goal(g, target, current)

put_goal(g, target, current) == GoalRoute /\ update_goal(g, target, current)

remove_goal(g) == GoalRoute /\ delete_goal(g)

put_default_goal(g) == GoalRoute /\ set_default_goal(g)

remove_default_goal(g) == GoalRoute /\ clear_default_goal(g)

-----------------------------------------------------------------------------
(* budget.month_closed *)

Waiting == [at |-> "waiting"]

SourceKeys(rows) == {r.key : r \in rows}

(* Mutant of _already_handled: the surplus kept aside is not looked at. *)
handled_if_allocated(key) == key \in SourceKeys(allocations)

_already_handled(key) == key \in SourceKeys(allocations) \/ key \in SourceKeys(unallocated)

_is_goal_complete(row) == row.current >= row.target

(* The reads of a delivery; the row of the goal stays in the session.  A   *)
(* surplus of zero and a duplicate are acknowledged.                       *)
SurplusArrives(w) ==
    \E e \in bus :
        /\ e.type = "budget.month_closed" /\ handling[w] = Waiting
        /\ e.surplus # 0 /\ ~ _already_handled(e.period)
        /\ \/ \E g \in get_default_savings_goal :
                 handling' = [handling EXCEPT ![w] =
                     [at |-> "goal", key |-> e.period, amount |-> e.surplus,
                      goal |-> g, row |-> goals[g]]]
           \/ /\ get_default_savings_goal = {}
              /\ handling' = [handling EXCEPT ![w] =
                     [at |-> "none", key |-> e.period, amount |-> e.surplus]]
        /\ UNCHANGED <<bus, goals, allocations, unallocated, saved, edited>> /\ Background

(* The unique source_key of unallocated_budget_surplus; a violation of it  *)
(* is acknowledged as a duplicate.                                         *)
add_unallocated(d, reason) ==
    unallocated' = IF d.key \in SourceKeys(unallocated) THEN unallocated
                   ELSE unallocated \cup {[key |-> d.key, amount |-> d.amount, reason |-> reason]}

SurplusKept(w) ==
    LET d == handling[w] IN
    /\ \/ d.at = "none" /\ add_unallocated(d, "no_default_goal")
       \/ d.at = "goal" /\ _is_goal_complete(d.row) /\ add_unallocated(d, "goal_already_complete")
    /\ handling' = [handling EXCEPT ![w] = Waiting]
    /\ UNCHANGED <<bus, goals, allocations, saved, edited>> /\ Background

(* Mutant of increment_current_amount: a goal is never filled beyond its target. *)
increment_up_to_target(d) ==
    goals' = [goals EXCEPT ![d.goal].current = Min({d.row.target, d.row.current + d.amount})]

(* The amount read with the goal, plus the surplus: the row is not locked, *)
(* and not read again.                                                     *)
increment_current_amount(d) ==
    goals' = [goals EXCEPT ![d.goal].current = d.row.current + d.amount]

(* The event of an allocation that brings the goal, as read, to its target. *)
GoalReachedEvents(d) ==
    {GoalEvent("goal.reached", d.goal, r) : r \in
        {r \in {[d.row EXCEPT !.current = @ + d.amount]} : r.target > 0 /\ r.current >= r.target}}

add_allocation(d) ==
    allocations' = allocations \cup {[key |-> d.key, goal |-> d.goal, amount |-> d.amount]}

(* One transaction: the allocation, the goal's amount and the event.  The  *)
(* unique pair of source_key and goal turns a lost race into a duplicate.  *)
SurplusAllocated(w) ==
    LET d == handling[w] IN
    /\ d.at = "goal" /\ ~ _is_goal_complete(d.row)
    /\ IF \E r \in allocations : r.key = d.key /\ r.goal = d.goal
       THEN UNCHANGED <<goals, allocations, bus>>
       ELSE /\ add_allocation(d)
            /\ increment_current_amount(d)
            /\ Emit(GoalReachedEvents(d))
    /\ handling' = [handling EXCEPT ![w] = Waiting]
    /\ UNCHANGED <<unallocated, saved, edited>> /\ Background

(* A crash or an error before the commit: the delivery comes back. *)
SurplusLost(w) ==
    /\ Fault /\ handling[w] # Waiting
    /\ handling' = [handling EXCEPT ![w] = Waiting]
    /\ UNCHANGED <<bus, goals, allocations, unallocated, saved, edited>>

-----------------------------------------------------------------------------
(* What the two history routes answer *)

list_for_goal(g) == {r \in allocations : r.goal = g}

get_allocation_history(g) == IF GoalLive(g) THEN list_for_goal(g) ELSE {}

list_for_account == {[key |-> r.key, amount |-> r.amount] : r \in unallocated}

get_unallocated_surplus == list_for_account

-----------------------------------------------------------------------------

GoalInit ==
    /\ goals = [g \in Goals |-> IF g \in DOMAIN StoredGoals THEN StoredGoals[g] ELSE NoGoal]
    /\ allocations = {} /\ unallocated = {}
    /\ handling = [w \in GoalWorkers |-> Waiting]
    /\ saved = [g \in Goals |-> IF g \in DOMAIN StoredGoals THEN StoredGoals[g].current ELSE 0]
    /\ edited = {}

GoalNext ==
    \/ \E g \in Goals :
          \/ \E t, c \in GoalAmounts : post_goal(g, t, c) \/ put_goal(g, t, c)
          \/ remove_goal(g) \/ put_default_goal(g) \/ remove_default_goal(g)
    \/ \E w \in GoalWorkers :
          SurplusArrives(w) \/ SurplusKept(w) \/ SurplusAllocated(w) \/ SurplusLost(w)

=============================================================================
