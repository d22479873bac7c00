---------------------------- MODULE MCProjections ----------------------------
EXTENDS Projections

P(amount, type, date, category, subcategory, manual) ==
  [core |-> [user |-> 1, account |-> 1, amount |-> amount, type |-> type,
             date |-> date, description |-> category],
   category |-> category, subcategory |-> subcategory, manual |-> manual]

MCCorePayloads ==
  [created |-> { P(-3, "expense", <<2026, 3, 27>>, 1, 1, FALSE) },
   updated |-> { P(-2, "", <<2026, 3, 28>>, 0, 0, manual) : manual \in BOOLEAN }]

MCNames == [created |-> {1}, updated |-> {2}]

MCCategorizations == { [category |-> 2, subcategory |-> 0] }
=============================================================================
