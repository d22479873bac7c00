--------------------------- MODULE MCNotification ---------------------------
(* Two users with an account each; every kind of event, a goal reached in  *)
(* both ways, a quiet sync and one the user asked for.                     *)
EXTENDS Notification, TLC

CONSTANTS a1, a2, u1, u2

MCOwner == (a1 :> u1) @@ (a2 :> u2)

Sync(scheduled, imported, run) ==
    [type |-> "bank.sync.completed", user |-> u2, connection |-> "c", correlation |-> run,
     scheduled |-> scheduled, imported |-> imported, errors |-> 0, skipped |-> 0]

MCEvents ==
    { Sync(TRUE, 0, 1), Sync(FALSE, 0, 2),
      [type |-> "goal.updated", user |-> u1, goal |-> "g", current |-> 1, target |-> 2],
      [type |-> "goal.updated", user |-> u1, goal |-> "g", current |-> 2, target |-> 2],
      [type |-> "goal.reached", account |-> a1, goal |-> "g", target |-> 2],
      [type |-> "budget.month_closed", account |-> a2, period |-> 1, surplus |-> 0],
      [type |-> "budget.line_threshold_crossed", account |-> a1, period |-> 2,
       category |-> "food", threshold |-> 80] }

=============================================================================
