------------------------------ MODULE Accounts ------------------------------
(***************************************************************************)
(* account-service: accounts, account groups, and the consumer that opens  *)
(* a default account for a new user.  Opening an account asks user-service *)
(* about the user before the insert, so calls overlap; the partial unique  *)
(* index on the name "Default Account" decides at the insert.  The balance *)
(* a user types in is left out.                                            *)
(***************************************************************************)
EXTENDS Users, FiniteSets

CONSTANTS
    AccountIds,       \* the serial of Account
    AccountNames,     \* names a user can type in
    StartDays,        \* budget start days a user can type in
    GroupIds,         \* the serial of AccountGroups
    MemberLists,      \* sets of user ids a user can type in
    Openers,          \* requests account-service can be serving at once
    Deliveries,       \* deliveries of user.created its consumer can be handling at once
    StoredAccounts    \* rows Account starts with

ASSUME AccountAssumption == StartDays \subseteq Int /\ AccountIds \subseteq Nat \ {0}

(* So do the rows of Account, whose unique index is on this name. *)
DefaultName == "Default Account"

ASSUME StoredAccountsAssumption ==
    /\ DOMAIN StoredAccounts \subseteq AccountIds
    /\ StoredAccounts \in [DOMAIN StoredAccounts ->
                             [user : UserIds, name : AccountNames \cup {DefaultName}, start : 1 .. 28]]
    /\ \A a, b \in DOMAIN StoredAccounts :
          /\ StoredAccounts[a].user = StoredAccounts[b].user
          /\ StoredAccounts[a].name = DefaultName /\ StoredAccounts[b].name = DefaultName
          => a = b

VARIABLES
    accounts,   \* id -> its row
    opening,    \* request or delivery -> the account it is about to insert
    groups      \* id -> the users in the group

accountVars == <<accounts, opening, groups>>

NoAccount == [user |-> 0]

Closed == [user |-> 0]

NoGroup == {0}

-----------------------------------------------------------------------------
(* Repositories and the routes other services call *)

get_by_id(a) == accounts[a] # NoAccount

account_exists(a) == get_by_id(a)

Opened == {a \in AccountIds : account_exists(a)}

account_owner(a) == accounts[a].user

(* Mutant of get_all: the filter on the user is missing. *)
get_all_of_everyone(u) == Opened

get_all(u) == {a \in Opened : account_owner(a) = u}

list_accounts(u) == get_all(u)

(* GET /accounts/{id}: a stranger's account is forbidden. *)
read_account(u, a) == account_exists(a) /\ account_owner(a) = u

(* Mutant of one_default_per_user: the index does not exist. *)
no_index(a, row) == TRUE

(* The partial unique index: no other account of the user has the name. *)
one_default_per_user(a, row) ==
    row.name = DefaultName =>
        \A b \in get_all(row.user) \ {a} : accounts[b].name # DefaultName

(* Account.__post_init__ keeps the start day within 1..28. *)
Account(u, name, day) ==
    [user |-> u, name |-> name, start |-> IF day < 1 THEN 1 ELSE IF day > 28 THEN 28 ELSE day]

AccountEvent(type, a, row) == [type |-> type, account |-> a, row |-> row]

insert_account(a, row) ==
    /\ a \notin Opened /\ \A b \in AccountIds \ Opened : a <= b
    /\ accounts' = [accounts EXCEPT ![a] = row]

write_account(a, row) == accounts' = [accounts EXCEPT ![a] = row]

-----------------------------------------------------------------------------
(* create_account and update_account *)

(* The port to user-service. *)
exists(u) == get_user_by_id(u)

(* A 404 and an outage both end the call here. *)
OpenChecks(o, row) ==
    /\ opening[o] = Closed /\ exists(row.user)
    /\ opening' = [opening EXCEPT ![o] = row]
    /\ UNCHANGED <<bus, accounts, groups>>

(* A unique violation is an error to a user and a duplicate to the consumer. *)
create_account(o) ==
    LET row == opening[o] IN
    /\ row # Closed
    /\ \/ /\ one_default_per_user(0, row)
          /\ \E a \in AccountIds :
                insert_account(a, row) /\ Emit({AccountEvent("account.created", a, row)})
       \/ ~ one_default_per_user(0, row) /\ UNCHANGED <<bus, accounts>>
    /\ opening' = [opening EXCEPT ![o] = Closed]
    /\ UNCHANGED groups

(* Every field is written back; the owner stays. *)
update_account(a, name, day) ==
    LET row == Account(account_owner(a), name, day) IN
    /\ one_default_per_user(a, row) /\ write_account(a, row)
    /\ Emit({AccountEvent("account.updated", a, row)})
    /\ UNCHANGED <<opening, groups>>

-----------------------------------------------------------------------------
(* Groups: any signed-in user edits any group; max_users is not enforced. *)

get_users_by_ids(ids) == {u \in ids : get_user_by_id(u)}

_replace_users(g, ids) == groups' = [groups EXCEPT ![g] = ids]

insert_group(g, ids) == groups[g] = NoGroup /\ _replace_users(g, ids)

write_group(g, ids) == groups[g] # NoGroup /\ _replace_users(g, ids)

create_group(g, ids) ==
    /\ get_users_by_ids(ids) = ids /\ insert_group(g, ids)
    /\ UNCHANGED <<bus, accounts, opening>>

update_group(g, ids) ==
    /\ get_users_by_ids(ids) = ids /\ write_group(g, ids)
    /\ UNCHANGED <<bus, accounts, opening>>

-----------------------------------------------------------------------------
(* Routes; the user is the token's *)

post_account ==
    \E o \in Openers, u \in tokens, name \in AccountNames, day \in StartDays :
        OpenChecks(o, Account(u, name, day))

put_account ==
    \E u \in tokens, name \in AccountNames, day \in StartDays :
        \E a \in get_all(u) : update_account(a, name, day)

post_group == tokens # {} /\ \E g \in GroupIds, ids \in MemberLists : create_group(g, ids)

put_group == tokens # {} /\ \E g \in GroupIds, ids \in MemberLists : update_group(g, ids)

-----------------------------------------------------------------------------
(* user.created *)

(* The fast path acknowledges a user who has an account of any name.       *)
_handle_user_created(d) ==
    \E e \in bus :
        /\ e.type = "user.created" /\ get_all(e.user) = {}
        /\ OpenChecks(d, Account(e.user, DefaultName, 1))

(* user-service is unreachable, or the process dies: nothing is committed, *)
(* and a delivery comes back.                                              *)
OpeningFails(o) ==
    /\ Fault /\ opening[o] # Closed
    /\ opening' = [opening EXCEPT ![o] = Closed]
    /\ UNCHANGED <<bus, accounts, groups>>

AccountsInit ==
    /\ accounts = [a \in AccountIds |->
          IF a \in DOMAIN StoredAccounts THEN StoredAccounts[a] ELSE NoAccount]
    /\ opening = [o \in Openers \cup Deliveries |-> Closed]
    /\ groups = [g \in GroupIds |-> NoGroup]

AccountsNext ==
    \/ Request /\ (post_account \/ put_account \/ post_group \/ put_group)
    \/ Background /\ \E d \in Deliveries : _handle_user_created(d)
    \/ Background /\ \E o \in Openers \cup Deliveries : create_account(o)
    \/ \E o \in Openers \cup Deliveries : OpeningFails(o)

-----------------------------------------------------------------------------

(* A user has at most one account under the default name, the one name the *)
(* gateway falls back on, though two deliveries of user.created and the    *)
(* user's own requests may all have found none.                            *)
OneDefaultAccount ==
    \A u \in UserIds :
        Cardinality({a \in get_all(u) : accounts[a].name = DefaultName}) <= 1

(* Whoever registers ends up with an account.                              *)
EveryoneGetsAccount == \A u \in UserIds : find_by_id(u) ~> (\E a \in Opened : account_owner(a) = u)

=============================================================================
