------------------------------ MODULE Dashboard ------------------------------
(***************************************************************************)
(* From signing up to the dashboard: user-service announces a user,        *)
(* account-service opens the account, the user connects it to a bank, its  *)
(* transactions are indexed, and the gateway answers for the account it    *)
(* finds for the user.                                                     *)
(***************************************************************************)
EXTENDS BankConnect, Gateway

vars == <<platform, userVars, accountVars, bankVars, docs>>

Init == PlatformInit /\ UsersInit /\ AccountsInit /\ BankInit /\ ReportsInit

Next ==
    \/ UsersNext /\ UNCHANGED <<accountVars, bankVars, docs>>
    \/ AccountsNext /\ UNCHANGED <<userVars, bankVars, docs>>
    \/ BankNext /\ UNCHANGED <<userVars, accountVars, docs>>
    \/ ReportsNext /\ UNCHANGED <<userVars, accountVars, bankVars>>

(* The consumer of user.created goes on handling deliveries, and every     *)
(* account about to be inserted is.                                        *)
ConsumerStep ==
    /\ Background
    /\ \E d \in Deliveries : _handle_user_created(d) \/ create_account(d)
    /\ UNCHANGED <<userVars, bankVars, docs>>

Fairness == WF_vars(ConsumerStep)

Spec == Init /\ [][Next]_vars /\ Fairness

-----------------------------------------------------------------------------

(* What the gateway finds a user and an account by names one of each: two  *)
(* users share no username and no email, a user has one default account,   *)
(* though every one of these is checked some time before it is written.    *)
FoundByOneName == IdentitiesDistinct /\ OneDefaultAccount

=============================================================================
