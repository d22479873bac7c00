---------------------------- MODULE MCDashboard ----------------------------
(* One registered user with a default account whose budget months start on *)
(* the 15th, signed in, and one free id; documents on the days around the  *)
(* 15th, of either sign and with and without a type.  On the first start   *)
(* day February has a category more than a breakdown lists.                *)
EXTENDS Dashboard

MCStoredUsers == [u \in {1} |-> [username |-> "ann", email |-> "ann@", password |-> "pw"]]

MCStoredAccounts == [a \in {1} |-> [user |-> 1, name |-> DefaultName, start |-> 15]]

MCToday == <<2024, 3, 20>>

Doc(id, date, type, amount, category, merchant) ==
    [id |-> id, user |-> 1, account |-> 1, date |-> date, type |-> type, amount |-> amount,
     category |-> category, merchant |-> merchant, deleted |-> FALSE]

MCStoredDocs == {
    Doc(1, <<2024, 2, 14>>, "expense", -3, 1, "bank"),
    Doc(2, <<2024, 2, 15>>, "", -5, 2, "shop")}

MCDocuments == {
    Doc(1, <<2024, 3, 15>>, "", 7, 0, "work"),
    Doc(3, <<2024, 2, 14>>, "expense", -2, 3, "")}

=============================================================================
