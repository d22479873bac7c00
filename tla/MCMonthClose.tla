---------------------------- MODULE MCMonthClose ----------------------------
(* Two budgeted months, both due at the start.  The expenses of the first, *)
(* which every sweep comes to first, can never be fetched.  A third month, *)
(* which users may budget, falls due.  The default goal takes in any       *)
(* month's surplus.                                                        *)
EXTENDS MonthClose

CONSTANTS food, g1, g2

MCSpendOn == {<<3, food>>, <<4, Uncategorised>>}

MCStored ==
    [b \in {1, 2} |-> [state |-> "open", period |-> b - 1, lines |-> [c \in {food} |-> 2]]]

MCStoredGoals ==
    [g \in {g1} |-> [state |-> "live", target |-> 2, current |-> 0, default |-> TRUE]]

=============================================================================
