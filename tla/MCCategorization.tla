-------------------------- MODULE MCCategorization --------------------------
(* Two seeded categories, one subcategory in each, and room for another;   *)
(* rows come in with no pair, with one of the taxonomy and with one that   *)
(* is none.                                                                *)
EXTENDS Categorization

MCStoredCategories == (1 :> "food") @@ (2 :> "other")

MCStoredSubs == (1 :> SubCategoryRow("groceries", 1)) @@ (2 :> SubCategoryRow("Anden", 2))

MCPatternsIn == [d \in Descriptions |-> <<"netto">>]

MCLearns == [d \in Descriptions |-> "netto"]

MCSentPairs == {<<0, 0>>, <<1, 1>>, <<2, 1>>}

MCDirectionOf == [d \in Descriptions |-> "outgoing"]

MCSeedRules == "netto" :> [target |-> 1, direction |-> "any"]

=============================================================================
