------------------------- MODULE MCReclassification -------------------------
(* Two legacy categories with a leaf each, a target category with one      *)
(* leaf, and references of the kinds each service stores.  The mapping in  *)
(* force leaves the second leaf unresolved; an older one sent it along.    *)
EXTENDS Reclassification

MCParentOf == "groceries" :> "food"

MCLegacyTable ==
    [category |-> 1 :> Node(NoKey, NoParent, TRUE) @@ 2 :> Node(NoKey, NoParent, TRUE)
                 @@ 3 :> Node(NoKey, NoParent, TRUE),
     subcategory |-> 1 :> Node(NoKey, 1, TRUE) @@ 2 :> Node(NoKey, 2, TRUE)]

MCParentKeys == <<"food">>

MCChildKeys == <<"groceries">>

MCFixedStart == [category |-> 4, subcategory |-> 3]

MCFloor == [category |-> 5, subcategory |-> 5]

MCKindOf ==
    "t1" :> "transaction" @@ "t2" :> "transaction" @@ "c1" :> "categorization_result" @@ "r1" :> "system_rule"
    @@ "b1" :> "monthly_budget_line" @@ "b2" :> "monthly_budget_line"

MCMonthOf == "b1" :> 1 @@ "b2" :> 1

StoredRef(cat, sub, tier) == [cat |-> cat, sub |-> sub, tier |-> tier, live |-> TRUE]

MCStoredRefs ==
    "t1" :> StoredRef(1, 1, "rule") @@ "t2" :> StoredRef(2, 2, "rule") @@ "c1" :> StoredRef(1, 1, "rule") @@ "r1" :> StoredRef(0, 1, "rule")
    @@ "b1" :> StoredRef(1, NoSub, "none") @@ "b2" :> StoredRef(3, NoSub, "none")

MCMapping ==
    [category |-> 1 :> Proposal(SAFE, {"food"}) @@ 2 :> Proposal(REVIEW, {"food"})
                 @@ 3 :> Proposal(SAFE, {"food"}),
     subcategory |-> 1 :> Proposal(SAFE, {"groceries"}) @@ 2 :> Proposal(EVIDENCE, {})]

MCMappings == <<[MCMapping EXCEPT !.subcategory[2] = Proposal(SAFE, {"groceries"})], MCMapping>>
=============================================================================
