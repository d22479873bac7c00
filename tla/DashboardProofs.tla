-------------------------- MODULE DashboardProofs --------------------------
(***************************************************************************)
(* Proofs about signing up, opening an account and connecting it to a      *)
(* bank: every one of these checks first and writes later, while other     *)
(* calls write as well.  And about what the dashboard is told meanwhile:   *)
(* that a search finds what the user's filters let through, and that the   *)
(* answers about a month, of which each is another query of other days or  *)
(* buckets, add up to the same; for any users, accounts, documents, start  *)
(* days and today's date.                                                  *)
(***************************************************************************)
EXTENDS Dashboard, Sums, FiniteSetTheorems, SequenceTheorems, TLAPS

-----------------------------------------------------------------------------
(* The inductive invariant *)

IsUser(row) ==
    row = [username |-> row.username, email |-> row.email, password |-> row.password]

UsersInv ==
    /\ users = [u \in UserIds |-> users[u]]
    /\ \A u \in UserIds : users[u] = NoUser \/ IsUser(users[u])
    /\ serving = [c \in Clients |-> serving[c]]
    /\ \A c \in Clients : serving[c].op \in {"password", "username"} =>
          serving[c].user \in Registered
    /\ tokens \subseteq Registered
    /\ IdentitiesDistinct

IsAccount(row) ==
    row = [user |-> row.user, name |-> row.name, start |-> row.start] /\ row.start \in 1 .. 28

Default(a) == a \in Opened /\ accounts[a].name = DefaultName

AccountsInv ==
    /\ accounts = [a \in AccountIds |-> accounts[a]]
    /\ \A a \in AccountIds : accounts[a] = NoAccount \/ IsAccount(accounts[a])
    /\ opening = [o \in Openers \cup Deliveries |-> opening[o]]
    /\ \A o \in Openers \cup Deliveries : opening[o] = Closed \/ IsAccount(opening[o])
    /\ \A a, b \in AccountIds :
          Default(a) /\ Default(b) /\ account_owner(a) = account_owner(b) => a = b

(* The user left with the state for an account of theirs. *)
Left(s, a, u) ==
    /\ s \in States /\ asked[s] = [account |-> a, user |-> u]
    /\ a \in AccountIds /\ read_account(u, a)

IsConnection(row) ==
    row = [account |-> row.account, user |-> row.user, uid |-> row.uid,
           session |-> row.session, status |-> row.status]

(* A consumed state can no longer be consumed. *)
Consumed(s) == pending[s] = Nothing \/ pending[s].consumed

(* Whatever has come of a state came of the one callback that consumed it. *)
CallInv(i) ==
    LET call == returning[i] IN
    /\ call.at \in {"session", "store"} =>
          /\ Left(call.state, call.account, call.user) /\ Consumed(call.state)
          /\ \A j \in Callbacks :
                returning[j].at \in {"session", "store"} /\ returning[j].state = call.state => j = i
          /\ \A k \in ConnectionIds : connections[k] # Nothing => connections[k].session # call.state
    /\ call.at = "store" =>
          \A uid \in DOMAIN call.found : \A k \in call.found[uid] :
             /\ k \in ConnectionIds /\ connections[k] # Nothing
             /\ connections[k].uid = uid /\ connections[k].account = call.account

ConnectionInv(k) ==
    LET row == connections[k] IN
    row # Nothing =>
       /\ IsConnection(row)
       /\ Left(row.session, row.account, row.user) /\ Consumed(row.session)
       /\ \A j \in ConnectionIds : connections[j] # Nothing =>
             (connections[j].session = row.session /\ connections[j].uid = row.uid => j = k)

BankInv ==
    /\ pending = [s \in States |-> pending[s]] /\ asked = [s \in States |-> asked[s]]
    /\ \A s \in States : pending[s] # Nothing =>
          /\ pending[s] = [account |-> pending[s].account, user |-> pending[s].user,
                           consumed |-> pending[s].consumed, expired |-> pending[s].expired]
          /\ Left(s, pending[s].account, pending[s].user)
    /\ returning = [i \in Callbacks |-> returning[i]]
    /\ \A i \in Callbacks : CallInv(i)
    /\ connections = [k \in ConnectionIds |-> connections[k]]
    /\ \A k \in ConnectionIds : ConnectionInv(k)
    /\ leaving \subseteq {k \in ConnectionIds : connections[k] # Nothing}

(* The index holds one document per transaction, of accounts that exist. *)
DocsInv ==
    /\ IsFiniteSet(docs) /\ docs \subseteq Document
    /\ \A d, e \in docs : d.id = e.id => d = e
    /\ \A d \in docs : d.account \in Opened

DashboardInv == UsersInv /\ AccountsInv /\ BankInv /\ DocsInv

-----------------------------------------------------------------------------
(* Rows are not the marks of empty places *)

LEMMA RowsThere ==
    /\ \A row : IsUser(row) => row # NoUser
    /\ \A row : IsAccount(row) => row # NoAccount /\ row # Closed
    /\ \A row : IsConnection(row) => row # Nothing
    /\ \A a, u : [account |-> a, user |-> u] # Nothing
<1>1. ASSUME NEW row, IsUser(row) PROVE row # NoUser
  <2>1. "email" \in DOMAIN row BY <1>1 DEF IsUser
  <2>2. "email" \notin DOMAIN NoUser BY DEF NoUser
  <2>3. QED BY <2>1, <2>2
<1>2. ASSUME NEW row, IsAccount(row) PROVE row # NoAccount /\ row # Closed
  <2>1. "name" \in DOMAIN row BY <1>2 DEF IsAccount
  <2>2. "name" \notin DOMAIN NoAccount /\ "name" \notin DOMAIN Closed BY DEF NoAccount, Closed
  <2>3. QED BY <2>1, <2>2
<1>3. "user" \notin DOMAIN Nothing BY DEF Nothing
<1>4. ASSUME NEW row, IsConnection(row) PROVE row # Nothing
  <2>1. "user" \in DOMAIN row BY <1>4 DEF IsConnection
  <2>2. QED BY <1>3, <2>1
<1>5. ASSUME NEW a, NEW u PROVE [account |-> a, user |-> u] # Nothing
  <2>1. "user" \in DOMAIN [account |-> a, user |-> u] OBVIOUS
  <2>2. QED BY <1>3, <2>1
<1>6. QED BY <1>1, <1>2, <1>4, <1>5

-----------------------------------------------------------------------------
(* Users *)

(* A row that the unique constraints let through. *)
LEMMA UserWritten ==
    ASSUME UsersInv, NEW u \in UserIds, NEW row, IsUser(row), ConstraintsHold(u, row),
           users' = [users EXCEPT ![u] = row], bus \subseteq bus',
           u \in Registered \/ [type |-> "user.created", user |-> u] \in bus'
    PROVE  /\ users' = [v \in UserIds |-> users'[v]]
           /\ \A v \in UserIds : users'[v] = NoUser \/ IsUser(users'[v])
           /\ Registered \subseteq Registered'
           /\ IdentitiesDistinct'
<1>1. \A v \in UserIds : users'[v] = IF v = u THEN row ELSE users[v] BY DEF UsersInv
<1>2. users' = [v \in UserIds |-> users'[v]] BY DEF UsersInv
<1>3. \A v \in UserIds : users'[v] = NoUser \/ IsUser(users'[v]) BY <1>1 DEF UsersInv
<1>4. row # NoUser BY RowsThere
<1>5. Registered' = Registered \cup {u} BY <1>1, <1>4 DEF Registered, find_by_id
<1>6. ASSUME NEW v \in Registered'
      PROVE  (/\ find_by_username(users[v].username) = {v}
              /\ find_by_email(users[v].email) = {v}
              /\ v \in DOMAIN StoredUsers \/ [type |-> "user.created", user |-> v] \in bus)'
  <2>1. \A w \in Registered : users[w].username = row.username \/ users[w].email = row.email => w = u
    BY DEF ConstraintsHold, find_by_username, find_by_email
  <2>2. \A x, y \in Registered :
          users[x].username = users[y].username \/ users[x].email = users[y].email => x = y
    BY DEF UsersInv, IdentitiesDistinct, find_by_username, find_by_email
  <2>3. \A x, y \in Registered' :
          users'[x].username = users'[y].username \/ users'[x].email = users'[y].email => x = y
    BY <1>1, <1>5, <2>1, <2>2 DEF Registered
  <2>4. \A x \in Registered' :
          x \in DOMAIN StoredUsers \/ [type |-> "user.created", user |-> x] \in bus'
    BY <1>5 DEF UsersInv, IdentitiesDistinct
  <2>5. QED BY <2>3, <2>4 DEF find_by_username, find_by_email
<1>7. QED BY <1>2, <1>3, <1>5, <1>6 DEF IdentitiesDistinct

LEMMA UsersKept ==
    ASSUME UsersInv, UNCHANGED userVars, bus \subseteq bus'
    PROVE  UsersInv'
BY DEF UsersInv, userVars, IdentitiesDistinct, Registered, find_by_id, find_by_username,
       find_by_email

(* A call ends, with or without a write. *)
LEMMA CallEnds ==
    ASSUME UsersInv, NEW c \in Clients, Serve(c, Idle), UNCHANGED tokens,
           users' = [v \in UserIds |-> users'[v]],
           \A v \in UserIds : users'[v] = NoUser \/ IsUser(users'[v]),
           Registered \subseteq Registered', IdentitiesDistinct'
    PROVE  UsersInv'
<1>1. \A d \in Clients : serving'[d] = IF d = c THEN Idle ELSE serving[d]
  BY DEF Serve, UsersInv
<1>2. serving' = [d \in Clients |-> serving'[d]] BY DEF Serve, UsersInv
<1>3. Idle.op = "idle" BY DEF Idle
<1>4. QED BY <1>1, <1>2, <1>3 DEF UsersInv

LEMMA UsersStep ==
    ASSUME UsersInv, UsersNext
    PROVE  UsersInv' /\ bus \subseteq bus'
<1>1. ASSUME NEW c \in Clients, NEW call, Serve(c, call), UNCHANGED <<bus, users, tokens>>,
             call.op \in {"password", "username"} => call.user \in Registered
      PROVE  UsersInv' /\ bus \subseteq bus'
  <2>1. \A d \in Clients : serving'[d] = IF d = c THEN call ELSE serving[d]
    BY <1>1 DEF Serve, UsersInv
  <2>2. serving' = [d \in Clients |-> serving'[d]] BY <1>1 DEF Serve, UsersInv
  <2>3. Registered' = Registered BY <1>1 DEF Registered, find_by_id
  <2>4. IdentitiesDistinct'
    BY <1>1 DEF UsersInv, IdentitiesDistinct, Registered, find_by_id, find_by_username, find_by_email
  <2>5. QED BY <1>1, <2>1, <2>2, <2>3, <2>4 DEF UsersInv
<1>2. CASE post_register
  <2>1. PICK c, name, email, pw : c \in Clients /\ RegisterChecks(c, name, email, pw)
    BY <1>2 DEF post_register
  <2> DEFINE call == [op |-> "register", username |-> name, email |-> email, password |-> pw]
  <2>2. Serve(c, call) /\ UNCHANGED <<bus, users, tokens>> BY <2>1 DEF RegisterChecks
  <2>3. call.op = "register" OBVIOUS
  <2> HIDE DEF call
  <2>4. QED BY <1>1, <2>1, <2>2, <2>3 DEF Serve
<1>3. CASE post_login
  <2>1. PICK identifier, pw : login(identifier, pw) BY <1>3 DEF post_login
  <2>2. UNCHANGED <<bus, users, serving>> BY <2>1 DEF login
  <2>3. tokens' \subseteq Registered
    BY <2>1 DEF login, find_by_email, find_by_username, UsersInv
  <2>4. QED BY <2>2, <2>3 DEF UsersInv, IdentitiesDistinct, Registered, find_by_id,
                              find_by_username, find_by_email
<1>4. CASE change_my_password
  <2>1. PICK c, u, old, new : c \in Clients /\ u \in tokens /\ PasswordChecks(c, u, old, new)
    BY <1>4 DEF change_my_password
  <2> DEFINE call == [op |-> "password", user |-> u, password |-> new]
  <2>2. Serve(c, call) /\ UNCHANGED <<bus, users, tokens>> BY <2>1 DEF PasswordChecks
  <2>3. call.user \in Registered BY <2>1 DEF UsersInv
  <2> HIDE DEF call
  <2>4. QED BY <1>1, <2>1, <2>2, <2>3 DEF Serve
<1>5. CASE change_my_username
  <2>1. PICK c, u, name : c \in Clients /\ u \in tokens /\ UsernameChecks(c, u, name)
    BY <1>5 DEF change_my_username
  <2> DEFINE call == [op |-> "username", user |-> u, username |-> name]
  <2>2. Serve(c, call) /\ UNCHANGED <<bus, users, tokens>> BY <2>1 DEF UsernameChecks
  <2>3. call.user \in Registered BY <2>1 DEF UsersInv
  <2> HIDE DEF call
  <2>4. QED BY <1>1, <2>1, <2>2, <2>3 DEF Serve
<1>6. Idle.op = "idle" BY DEF Idle
<1>7. ASSUME NEW c \in Clients, register(c) PROVE UsersInv' /\ bus \subseteq bus'
  <2> DEFINE call == serving[c]
             row == [username |-> call.username, email |-> call.email, password |-> call.password]
  <2>0. IsUser(row) BY DEF IsUser
  <2>1. CASE Serve(c, Idle) /\ UNCHANGED <<bus, users>>
    BY <1>1, <1>6, <1>7, <2>1 DEF register, Serve
  <2>2. ASSUME NEW u \in UserIds, ConstraintsHold(u, row), insert_user(c, u, row),
               Emit({[type |-> "user.created", user |-> u]})
        PROVE  UsersInv' /\ bus \subseteq bus'
    <3>1. Serve(c, Idle) /\ users' = [users EXCEPT ![u] = row]
      BY <2>2 DEF insert_user, Stored
    <3>2. bus \subseteq bus' /\ [type |-> "user.created", user |-> u] \in bus' BY <2>2 DEF Emit
    <3> HIDE DEF row
    <3>3. /\ users' = [v \in UserIds |-> users'[v]]
          /\ \A v \in UserIds : users'[v] = NoUser \/ IsUser(users'[v])
          /\ Registered \subseteq Registered'
          /\ IdentitiesDistinct'
      BY <2>0, <2>2, <3>1, <3>2, UserWritten
    <3>4. UNCHANGED tokens BY <1>7 DEF register
    <3>5. QED BY <3>1, <3>2, <3>3, <3>4, CallEnds DEF Serve
  <2>3. QED BY <1>7, <2>1, <2>2 DEF register
<1>8. ASSUME NEW c \in Clients, change_password(c) PROVE UsersInv' /\ bus \subseteq bus'
  <2> DEFINE u == serving[c].user
             row == [users[u] EXCEPT !.password = serving[c].password]
  <2>1. u \in Registered BY <1>8 DEF change_password, UsersInv
  <2>2. u \in UserIds /\ IsUser(users[u]) BY <2>1 DEF Registered, find_by_id, UsersInv
  <2>3. IsUser(row) /\ row.username = users[u].username /\ row.email = users[u].email
    BY <2>2 DEF IsUser
  <2>4. ConstraintsHold(u, row)
    BY <2>1, <2>3 DEF ConstraintsHold, UsersInv, IdentitiesDistinct
  <2>5. /\ Serve(c, Idle) /\ users' = [users EXCEPT ![u] = row] /\ UNCHANGED <<bus, tokens>>
    <3>1. users' = [users EXCEPT ![u].password = serving[c].password]
      BY <1>8 DEF change_password, update_password, Stored
    <3>2. [users EXCEPT ![u].password = serving[c].password] = [users EXCEPT ![u] = row] OBVIOUS
    <3>3. QED BY <1>8, <3>1, <3>2 DEF change_password, update_password, Stored
  <2> HIDE DEF row, u
  <2>6. /\ users' = [v \in UserIds |-> users'[v]]
        /\ \A v \in UserIds : users'[v] = NoUser \/ IsUser(users'[v])
        /\ Registered \subseteq Registered'
        /\ IdentitiesDistinct'
    BY <2>1, <2>2, <2>3, <2>4, <2>5, UserWritten
  <2>7. QED BY <2>5, <2>6, CallEnds DEF Serve
<1>9. ASSUME NEW c \in Clients, change_username(c) PROVE UsersInv' /\ bus \subseteq bus'
  <2> DEFINE u == serving[c].user
             row == [users[u] EXCEPT !.username = serving[c].username]
  <2>1. u \in Registered BY <1>9 DEF change_username, UsersInv
  <2>2. u \in UserIds /\ IsUser(users[u]) BY <2>1 DEF Registered, find_by_id, UsersInv
  <2>3. IsUser(row) BY <2>2 DEF IsUser
  <2>4. CASE Serve(c, Idle) /\ UNCHANGED <<bus, users>>
    BY <1>1, <1>6, <1>9, <2>4 DEF change_username, Serve
  <2>5. CASE ConstraintsHold(u, row) /\ update_username(c, u, serving[c].username)
    <3>1. Serve(c, Idle) /\ users' = [users EXCEPT ![u].username = serving[c].username]
      BY <2>5 DEF update_username, Stored
    <3>2. [users EXCEPT ![u].username = serving[c].username] = [users EXCEPT ![u] = row] OBVIOUS
    <3>3. users' = [users EXCEPT ![u] = row] /\ ConstraintsHold(u, row) BY <2>5, <3>1, <3>2
    <3>4. UNCHANGED <<bus, tokens>> BY <1>9 DEF change_username
    <3> HIDE DEF row, u
    <3>5. /\ users' = [v \in UserIds |-> users'[v]]
          /\ \A v \in UserIds : users'[v] = NoUser \/ IsUser(users'[v])
          /\ Registered \subseteq Registered'
          /\ IdentitiesDistinct'
      BY <2>1, <2>2, <2>3, <3>3, <3>4, UserWritten
    <3>6. QED BY <3>1, <3>4, <3>5, CallEnds DEF Serve
  <2>6. QED BY <1>9, <2>4, <2>5 DEF change_username
<1>10. ASSUME NEW c \in Clients, CallLost(c) PROVE UsersInv' /\ bus \subseteq bus'
  BY <1>1, <1>6, <1>10 DEF CallLost, Serve
<1>11. QED BY <1>2, <1>3, <1>4, <1>5, <1>7, <1>8, <1>9, <1>10 DEF UsersNext

-----------------------------------------------------------------------------
(* Accounts *)

(* No account disappears, and none changes hands. *)
OwnersKept ==
    \A a \in Opened : accounts'[a] # NoAccount /\ accounts'[a].user = account_owner(a)

(* A row that the partial unique index lets through. *)
LEMMA AccountWritten ==
    ASSUME AccountsInv, NEW a \in AccountIds, NEW row, IsAccount(row),
           one_default_per_user(a, row), a \in Opened => row.user = account_owner(a),
           accounts' = [accounts EXCEPT ![a] = row]
    PROVE  /\ accounts' = [b \in AccountIds |-> accounts'[b]]
           /\ \A b \in AccountIds : accounts'[b] = NoAccount \/ IsAccount(accounts'[b])
           /\ (\A b, c \in AccountIds :
                  Default(b) /\ Default(c) /\ account_owner(b) = account_owner(c) => b = c)'
           /\ OwnersKept
<1>1. \A b \in AccountIds : accounts'[b] = IF b = a THEN row ELSE accounts[b] BY DEF AccountsInv
<1>2. accounts' = [b \in AccountIds |-> accounts'[b]] BY DEF AccountsInv
<1>3. \A b \in AccountIds : accounts'[b] = NoAccount \/ IsAccount(accounts'[b])
  BY <1>1 DEF AccountsInv
<1>4. row # NoAccount BY RowsThere
<1>5. OwnersKept
  BY <1>1, <1>4 DEF OwnersKept, Opened, account_exists, get_by_id, account_owner
<1>6. ASSUME NEW b \in AccountIds, NEW c \in AccountIds,
             accounts'[b] # NoAccount, accounts'[b].name = DefaultName,
             accounts'[c] # NoAccount, accounts'[c].name = DefaultName,
             accounts'[b].user = accounts'[c].user
      PROVE  b = c
  <2>1. \A d \in AccountIds \ {a} :
          row.name = DefaultName /\ accounts[d] # NoAccount /\ accounts[d].user = row.user =>
             accounts[d].name # DefaultName
    BY DEF one_default_per_user, get_all, Opened, account_exists, get_by_id, account_owner
  <2>2. CASE b # a /\ c # a
    BY <1>1, <1>6, <2>2 DEF AccountsInv, Default, Opened, account_exists, get_by_id, account_owner
  <2>3. QED BY <1>1, <1>6, <2>1, <2>2
<1>7. QED
  BY <1>2, <1>3, <1>5, <1>6 DEF Default, Opened, account_exists, get_by_id, account_owner

LEMMA AccountsKept ==
    ASSUME AccountsInv, UNCHANGED accounts
    PROVE  /\ accounts' = [b \in AccountIds |-> accounts'[b]]
           /\ \A b \in AccountIds : accounts'[b] = NoAccount \/ IsAccount(accounts'[b])
           /\ (\A b, c \in AccountIds :
                  Default(b) /\ Default(c) /\ account_owner(b) = account_owner(c) => b = c)'
           /\ OwnersKept
BY DEF AccountsInv, OwnersKept, Default, Opened, account_exists, get_by_id, account_owner

LEMMA AccountsUnchanged ==
    ASSUME AccountsInv, UNCHANGED accountVars
    PROVE  AccountsInv' /\ OwnersKept
<1>1. UNCHANGED accounts /\ UNCHANGED opening BY DEF accountVars
<1>2. QED BY <1>1, AccountsKept DEF AccountsInv

LEMMA AccountsStep ==
    ASSUME AccountsInv, AccountsNext
    PROVE  AccountsInv' /\ OwnersKept /\ bus \subseteq bus'
<1>1. ASSUME NEW o \in Openers \cup Deliveries, NEW row, row = Closed \/ IsAccount(row),
             opening' = [opening EXCEPT ![o] = row], UNCHANGED <<bus, accounts>>
      PROVE  AccountsInv' /\ OwnersKept /\ bus \subseteq bus'
  <2>1. \A p \in Openers \cup Deliveries : opening'[p] = IF p = o THEN row ELSE opening[p]
    BY <1>1 DEF AccountsInv
  <2>2. opening' = [p \in Openers \cup Deliveries |-> opening'[p]] BY <1>1 DEF AccountsInv
  <2>3. \A p \in Openers \cup Deliveries : opening'[p] = Closed \/ IsAccount(opening'[p])
    BY <1>1, <2>1 DEF AccountsInv
  <2>4. UNCHANGED accounts BY <1>1
  <2>5. QED BY <1>1, <2>2, <2>3, <2>4, AccountsKept DEF AccountsInv
<1>2. \A u, name, day : day \in Int => IsAccount(Account(u, name, day)) BY DEF Account, IsAccount
<1>3. CASE post_account
  <2>1. PICK o, u, name, day :
          o \in Openers /\ day \in StartDays /\ OpenChecks(o, Account(u, name, day))
    BY <1>3 DEF post_account
  <2> DEFINE row == Account(u, name, day)
  <2>2. IsAccount(row) BY <1>2, <2>1, AccountAssumption
  <2> HIDE DEF row
  <2>3. opening' = [opening EXCEPT ![o] = row] /\ UNCHANGED <<bus, accounts>>
    BY <2>1 DEF OpenChecks, row
  <2>4. QED BY <1>1, <2>1, <2>2, <2>3
<1>4. CASE put_account
  <2>1. PICK u, name, day, a :
          a \in get_all(u) /\ day \in StartDays /\ update_account(a, name, day)
    BY <1>4 DEF put_account
  <2> DEFINE row == Account(account_owner(a), name, day)
  <2>2. IsAccount(row) BY <1>2, <2>1, AccountAssumption
  <2>3. row.user = account_owner(a) BY DEF Account
  <2>4. /\ one_default_per_user(a, row) /\ accounts' = [accounts EXCEPT ![a] = row]
        /\ bus \subseteq bus' /\ UNCHANGED opening
    BY <2>1 DEF update_account, write_account, Emit
  <2>5. a \in AccountIds BY <2>1 DEF get_all, Opened
  <2> HIDE DEF row
  <2>6. /\ accounts' = [b \in AccountIds |-> accounts'[b]]
        /\ \A b \in AccountIds : accounts'[b] = NoAccount \/ IsAccount(accounts'[b])
        /\ (\A b, c \in AccountIds :
               Default(b) /\ Default(c) /\ account_owner(b) = account_owner(c) => b = c)'
        /\ OwnersKept
    BY <2>2, <2>3, <2>4, <2>5, AccountWritten
  <2>7. QED BY <2>4, <2>6 DEF AccountsInv
<1>5. CASE post_group
  <2>1. UNCHANGED <<bus, accounts, opening>> BY <1>5 DEF post_group, create_group
  <2>2. QED BY <2>1, AccountsKept DEF AccountsInv
<1>6. CASE put_group
  <2>1. UNCHANGED <<bus, accounts, opening>> BY <1>6 DEF put_group, update_group
  <2>2. QED BY <2>1, AccountsKept DEF AccountsInv
<1>7. ASSUME NEW d \in Deliveries, _handle_user_created(d)
      PROVE  AccountsInv' /\ OwnersKept /\ bus \subseteq bus'
  <2>1. PICK u : OpenChecks(d, Account(u, DefaultName, 1)) BY <1>7 DEF _handle_user_created
  <2> DEFINE row == Account(u, DefaultName, 1)
  <2>2. IsAccount(row) BY <1>2
  <2> HIDE DEF row
  <2>3. opening' = [opening EXCEPT ![d] = row] /\ UNCHANGED <<bus, accounts>>
    BY <2>1 DEF OpenChecks, row
  <2>4. QED BY <1>1, <2>2, <2>3
<1>8. ASSUME NEW o \in Openers \cup Deliveries, create_account(o)
      PROVE  AccountsInv' /\ OwnersKept /\ bus \subseteq bus'
  <2> DEFINE row == opening[o]
  <2>1. row # Closed /\ opening' = [opening EXCEPT ![o] = Closed] BY <1>8 DEF create_account
  <2>2. CASE UNCHANGED <<bus, accounts>> BY <1>1, <2>1, <2>2
  <2>3. ASSUME NEW a \in AccountIds, one_default_per_user(0, row), insert_account(a, row),
               Emit({AccountEvent("account.created", a, row)})
        PROVE  AccountsInv' /\ OwnersKept /\ bus \subseteq bus'
    <3>1. IsAccount(row) BY <2>1 DEF AccountsInv
    <3>2. one_default_per_user(a, row)
      BY <2>3, AccountAssumption DEF one_default_per_user, get_all, Opened
    <3>3. a \notin Opened /\ accounts' = [accounts EXCEPT ![a] = row] BY <2>3 DEF insert_account
    <3>4. bus \subseteq bus' BY <2>3 DEF Emit
    <3>5. \A p \in Openers \cup Deliveries : opening'[p] = IF p = o THEN Closed ELSE opening[p]
      BY <2>1 DEF AccountsInv
    <3>6. opening' = [p \in Openers \cup Deliveries |-> opening'[p]] BY <2>1 DEF AccountsInv
    <3> HIDE DEF row
    <3>7. /\ accounts' = [b \in AccountIds |-> accounts'[b]]
          /\ \A b \in AccountIds : accounts'[b] = NoAccount \/ IsAccount(accounts'[b])
          /\ (\A b, c \in AccountIds :
                 Default(b) /\ Default(c) /\ account_owner(b) = account_owner(c) => b = c)'
          /\ OwnersKept
      BY <3>1, <3>2, <3>3, AccountWritten
    <3>8. QED BY <3>4, <3>5, <3>6, <3>7 DEF AccountsInv
  <2>4. QED BY <1>8, <2>2, <2>3 DEF create_account
<1>9. ASSUME NEW o \in Openers \cup Deliveries, OpeningFails(o)
      PROVE  AccountsInv' /\ OwnersKept /\ bus \subseteq bus'
  BY <1>1, <1>9 DEF OpeningFails
<1>10. QED BY <1>3, <1>4, <1>5, <1>6, <1>7, <1>8, <1>9 DEF AccountsNext

-----------------------------------------------------------------------------
(* Banks *)

(* The part of the invariant about the table of states. *)
PendingInv ==
    /\ pending = [s \in States |-> pending[s]] /\ asked = [s \in States |-> asked[s]]
    /\ \A s \in States : pending[s] # Nothing =>
          /\ pending[s] = [account |-> pending[s].account, user |-> pending[s].user,
                           consumed |-> pending[s].consumed, expired |-> pending[s].expired]
          /\ Left(s, pending[s].account, pending[s].user)

Ahead(i) == returning[i].at \in {"session", "store"}

(* Who left with a state stays on record, and what is consumed consumed. *)
AskedKept ==
    \A s \in States : asked[s] # Nothing =>
       asked'[s] = asked[s] /\ (Consumed(s) => pending'[s] = Nothing \/ pending'[s].consumed)

(* A connection goes on being one of the same two accounts. *)
ConnectionsStay ==
    \A k \in ConnectionIds : connections[k] # Nothing =>
       /\ connections'[k] # Nothing
       /\ connections'[k].uid = connections[k].uid /\ connections'[k].account = connections[k].account

LEMMA LeftKept ==
    ASSUME OwnersKept, NEW s, NEW a, NEW u, Left(s, a, u), asked'[s] = asked[s]
    PROVE  Left(s, a, u)'
BY DEF Left, OwnersKept, read_account, account_owner, account_exists, get_by_id, Opened

LEMMA PendingKept ==
    ASSUME PendingInv, OwnersKept, NEW s \in States, pending[s] # Nothing,
           asked'[s] = asked[s],
           pending'[s] = Nothing \/ pending'[s] = pending[s]
              \/ pending'[s] = [pending[s] EXCEPT !.consumed = TRUE]
              \/ pending'[s] = [pending[s] EXCEPT !.expired = TRUE],
           pending'[s] # Nothing
    PROVE  (/\ pending[s] = [account |-> pending[s].account, user |-> pending[s].user,
                             consumed |-> pending[s].consumed, expired |-> pending[s].expired]
            /\ Left(s, pending[s].account, pending[s].user))'
<1>1. PICK a, u : a = pending[s].account /\ u = pending[s].user OBVIOUS
<1>2. Left(s, a, u) BY <1>1 DEF PendingInv
<1>3. Left(s, a, u)' BY <1>2, LeftKept
<1>4. /\ a = pending'[s].account /\ u = pending'[s].user
      /\ pending'[s] = [account |-> pending'[s].account, user |-> pending'[s].user,
                        consumed |-> pending'[s].consumed, expired |-> pending'[s].expired]
  BY <1>1 DEF PendingInv
<1>5. QED BY <1>3, <1>4 DEF Left

LEMMA CallKept ==
    ASSUME BankInv, OwnersKept, AskedKept, ConnectionsStay,
           NEW i \in Callbacks, returning'[i] = returning[i],
           Ahead(i) =>
              /\ \A j \in Callbacks :
                    Ahead(j)' /\ returning'[j].state = returning[i].state => j = i
              /\ \A k \in ConnectionIds : connections'[k] # Nothing =>
                    connections'[k].session # returning[i].state
    PROVE  CallInv(i)'
<1>1. CallInv(i) BY DEF BankInv
<1>2. CASE Ahead(i)
  <2>1. PICK s, a, u : s = returning[i].state /\ a = returning[i].account /\ u = returning[i].user
    OBVIOUS
  <2>2. Left(s, a, u) /\ Consumed(s) BY <1>1, <1>2, <2>1 DEF CallInv, Ahead
  <2>3. s \in States /\ asked[s] # Nothing BY <2>2, RowsThere DEF Left
  <2>4. asked'[s] = asked[s] /\ Consumed(s)' BY <2>2, <2>3 DEF AskedKept, Consumed
  <2>5. Left(s, a, u)' BY <2>2, <2>4, LeftKept
  <2>6. /\ s = returning'[i].state /\ a = returning'[i].account /\ u = returning'[i].user
    BY <2>1
  <2>7. Left(returning[i].state, returning[i].account, returning[i].user)'
    BY <2>5, <2>6 DEF Left
  <2>8. Consumed(returning[i].state)' BY <2>4, <2>6 DEF Consumed
  <2>9. QED BY <1>1, <1>2, <2>7, <2>8 DEF CallInv, Ahead, ConnectionsStay
<1>3. CASE ~ Ahead(i) BY <1>3 DEF CallInv, Ahead
<1>4. QED BY <1>2, <1>3

LEMMA ConnectionKept ==
    ASSUME BankInv, OwnersKept, AskedKept,
           NEW k \in ConnectionIds, connections[k] # Nothing,
           IsConnection(connections'[k]),
           connections'[k].account = connections[k].account,
           connections'[k].user = connections[k].user,
           connections'[k].session = connections[k].session,
           \A j \in ConnectionIds : connections'[j] # Nothing =>
              (connections'[j].session = connections'[k].session
                 /\ connections'[j].uid = connections'[k].uid => j = k)
    PROVE  ConnectionInv(k)'
<1>1. ConnectionInv(k) BY DEF BankInv
<1>2. PICK s, a, u : s = connections[k].session /\ a = connections[k].account /\ u = connections[k].user
  OBVIOUS
<1>3. Left(s, a, u) /\ Consumed(s) BY <1>1, <1>2 DEF ConnectionInv
<1>4. s \in States /\ asked[s] # Nothing BY <1>3, RowsThere DEF Left
<1>5. asked'[s] = asked[s] /\ Consumed(s)' BY <1>3, <1>4 DEF AskedKept, Consumed
<1>6. Left(s, a, u)' BY <1>3, <1>5, LeftKept
<1>7. s = connections'[k].session /\ a = connections'[k].account /\ u = connections'[k].user
  BY <1>2
<1>8. Left(connections[k].session, connections[k].account, connections[k].user)'
  BY <1>6, <1>7 DEF Left
<1>9. Consumed(connections[k].session)' BY <1>5, <1>7 DEF Consumed
<1>10. QED BY <1>8, <1>9 DEF ConnectionInv

(* A step that leaves the connections as they are, or that leaves them and *)
(* the callbacks.                                                          *)
LEMMA AllConnectionsKept ==
    ASSUME BankInv, OwnersKept, AskedKept, UNCHANGED connections
    PROVE  \A k \in ConnectionIds : ConnectionInv(k)'
<1>1. TAKE k \in ConnectionIds
<1>2. ConnectionInv(k) BY DEF BankInv
<1>3. CASE connections[k] # Nothing BY <1>2, <1>3, ConnectionKept DEF ConnectionInv
<1>4. CASE connections[k] = Nothing BY <1>4 DEF ConnectionInv
<1>5. QED BY <1>3, <1>4

LEMMA AllCallsKept ==
    ASSUME BankInv, OwnersKept, AskedKept, UNCHANGED <<connections, returning>>
    PROVE  \A i \in Callbacks : CallInv(i)'
<1>1. TAKE i \in Callbacks
<1>2. CallInv(i) /\ ConnectionsStay BY DEF BankInv, ConnectionsStay
<1>3. Ahead(i) =>
         /\ \A j \in Callbacks : Ahead(j)' /\ returning'[j].state = returning[i].state => j = i
         /\ \A k \in ConnectionIds : connections'[k] # Nothing =>
               connections'[k].session # returning[i].state
  BY <1>2 DEF CallInv, Ahead
<1>4. QED BY <1>2, <1>3, CallKept

LEMMA BankKept ==
    ASSUME BankInv, OwnersKept, UNCHANGED bankVars
    PROVE  BankInv'
<1>1. UNCHANGED <<pending, asked, returning, connections, leaving>> BY DEF bankVars
<1>2. AskedKept BY <1>1 DEF AskedKept, Consumed
<1>3. PendingInv' BY <1>1, PendingKept DEF BankInv, PendingInv
<1>4. QED BY <1>1, <1>2, <1>3, AllCallsKept, AllConnectionsKept DEF BankInv, PendingInv

-----------------------------------------------------------------------------
(* The steps of banking-service *)

LEMMA SameOwners ==
    ASSUME UNCHANGED accounts
    PROVE  OwnersKept
BY DEF OwnersKept, Opened, account_exists, get_by_id, account_owner

LEMMA StartConnect ==
    ASSUME BankInv, UNCHANGED accounts, NEW s \in States, asked[s] = Nothing,
           NEW u, NEW a \in AccountIds, start_connect(s, a, u)
    PROVE  BankInv' /\ bus \subseteq bus'
<1> DEFINE row == [account |-> a, user |-> u, consumed |-> FALSE, expired |-> FALSE]
           who == [account |-> a, user |-> u]
<1>0. OwnersKept BY SameOwners
<1>1. /\ pending' = [pending EXCEPT ![s] = row] /\ asked' = [asked EXCEPT ![s] = who]
      /\ UNCHANGED <<bus, returning, connections, leaving>>
      /\ read_account(u, a)
  BY DEF start_connect, save_pending, _verify_account_access, read_account, Opened
<1>2. row = [account |-> row.account, user |-> row.user, consumed |-> row.consumed,
             expired |-> row.expired] /\ row.account = a /\ row.user = u
  OBVIOUS
<1>3. who = [account |-> a, user |-> u] OBVIOUS
<1> HIDE DEF row, who
<1>4. /\ pending' = [t \in States |-> pending'[t]] /\ asked' = [t \in States |-> asked'[t]]
      /\ \A t \in States : /\ pending'[t] = (IF t = s THEN row ELSE pending[t])
                           /\ asked'[t] = (IF t = s THEN who ELSE asked[t])
  BY <1>1 DEF BankInv
<1>5. AskedKept BY <1>4 DEF AskedKept, Consumed
<1>6. Left(s, a, u)'
  BY <1>1, <1>3, <1>4 DEF Left, read_account, account_exists, get_by_id, account_owner
<1>7. ASSUME NEW t \in States, pending'[t] # Nothing
      PROVE  (/\ pending[t] = [account |-> pending[t].account, user |-> pending[t].user,
                               consumed |-> pending[t].consumed, expired |-> pending[t].expired]
              /\ Left(t, pending[t].account, pending[t].user))'
  <2>1. CASE t = s
    <3>1. pending'[t] = row BY <1>4, <2>1
    <3>2. QED BY <1>2, <1>6, <2>1, <3>1 DEF Left
  <2>2. CASE t # s
    <3>1. pending'[t] = pending[t] /\ asked'[t] = asked[t] BY <1>4, <2>2
    <3>2. QED BY <1>0, <1>7, <3>1, PendingKept DEF BankInv, PendingInv
  <2>3. QED BY <2>1, <2>2
<1>8. PendingInv' BY <1>4, <1>7 DEF PendingInv
<1>9. QED BY <1>0, <1>1, <1>5, <1>8, AllCallsKept, AllConnectionsKept DEF BankInv, PendingInv

LEMMA BankCallback ==
    ASSUME BankInv, UNCHANGED accounts, NEW i \in Callbacks, NEW s \in States, bank_callback(i, s)
    PROVE  BankInv' /\ bus \subseteq bus'
<1> DEFINE call == [at |-> "session", state |-> s, account |-> pending[s].account,
                    user |-> pending[s].user]
<1>0. OwnersKept BY SameOwners
<1>1. /\ Consumable(s) /\ consume(s) /\ returning' = [returning EXCEPT ![i] = call]
      /\ UNCHANGED <<bus, asked, connections, leaving>>
  BY DEF bank_callback
<1>2. /\ pending' = [t \in States |-> pending'[t]]
      /\ \A t \in States \ {s} : pending'[t] = Nothing \/ pending'[t] = pending[t]
      /\ pending'[s] = Nothing \/ pending'[s] = [pending[s] EXCEPT !.consumed = TRUE]
  BY <1>1 DEF consume, cleanup_expired, BankInv
<1>3. pending[s] # Nothing /\ ~ pending[s].consumed BY <1>1 DEF Consumable
<1>4. [pending[s] EXCEPT !.consumed = TRUE].consumed BY <1>3 DEF BankInv
<1>5. Consumed(s)' BY <1>2, <1>4 DEF Consumed
<1>6. AskedKept BY <1>1, <1>2, <1>5 DEF AskedKept, Consumed
<1>7. PendingInv'
  <2>1. ASSUME NEW t \in States, pending'[t] # Nothing
        PROVE  (/\ pending[t] = [account |-> pending[t].account, user |-> pending[t].user,
                                 consumed |-> pending[t].consumed, expired |-> pending[t].expired]
                /\ Left(t, pending[t].account, pending[t].user))'
    <3>1. pending[t] # Nothing BY <1>2, <1>3, <2>1
    <3>2. PendingInv BY DEF BankInv, PendingInv
    <3>3. asked'[t] = asked[t] BY <1>1
    <3>4. QED BY <1>0, <1>2, <2>1, <3>1, <3>2, <3>3, PendingKept
  <2>2. asked' = [t \in States |-> asked'[t]] BY <1>1 DEF BankInv
  <2>3. QED BY <1>2, <2>1, <2>2 DEF PendingInv
<1>8. ~ Consumed(s) BY <1>3 DEF Consumed
<1>9. /\ returning' = [j \in Callbacks |-> returning'[j]]
      /\ \A j \in Callbacks : returning'[j] = IF j = i THEN call ELSE returning[j]
  BY <1>1 DEF BankInv
<1>10. call.at = "session" /\ call.state = s /\ call.account = pending[s].account
       /\ call.user = pending[s].user
  OBVIOUS
<1> HIDE DEF call
<1>11. \A j \in Callbacks : Ahead(j) => returning[j].state # s
  BY <1>8 DEF BankInv, CallInv, Ahead
<1>12. \A k \in ConnectionIds : connections[k] # Nothing => connections[k].session # s
  BY <1>8 DEF BankInv, ConnectionInv
<1>13. CallInv(i)'
  <2>1. PICK a, u : a = pending[s].account /\ u = pending[s].user OBVIOUS
  <2>2. Left(s, a, u) BY <1>3, <2>1 DEF BankInv
  <2>3. Left(s, a, u)' BY <1>0, <1>1, <2>2, LeftKept
  <2>4. /\ returning'[i].at = "session" /\ returning'[i].state = s
        /\ returning'[i].account = a /\ returning'[i].user = u
    BY <1>9, <1>10, <2>1
  <2>5. Left(returning[i].state, returning[i].account, returning[i].user)'
    BY <2>3, <2>4 DEF Left
  <2>6. Consumed(returning[i].state)' BY <1>5, <2>4 DEF Consumed
  <2>7. \A j \in Callbacks :
           returning'[j].at \in {"session", "store"} /\ returning'[j].state = s => j = i
    BY <1>9, <1>11 DEF Ahead
  <2>8. QED BY <1>1, <1>12, <2>4, <2>5, <2>6, <2>7 DEF CallInv
<1>14. ASSUME NEW j \in Callbacks, j # i PROVE CallInv(j)'
  <2>1. returning'[j] = returning[j] BY <1>9, <1>14
  <2>2. ConnectionsStay BY <1>1 DEF ConnectionsStay
  <2>3. CallInv(j) BY DEF BankInv
  <2>4. Ahead(j) =>
           /\ \A h \in Callbacks : Ahead(h)' /\ returning'[h].state = returning[j].state => h = j
           /\ \A k \in ConnectionIds : connections'[k] # Nothing =>
                 connections'[k].session # returning[j].state
    BY <1>1, <1>9, <1>10, <1>11, <1>14, <2>3 DEF CallInv, Ahead
  <2>5. QED BY <1>0, <1>6, <2>1, <2>2, <2>4, CallKept
<1>15. QED BY <1>0, <1>1, <1>6, <1>7, <1>9, <1>13, <1>14, AllConnectionsKept
       DEF BankInv, PendingInv

(* A callback that has gone has nothing to keep. *)
LEMMA CallOver ==
    ASSUME NEW i \in Callbacks, returning'[i] = NotThere
    PROVE  CallInv(i)' /\ ~ Ahead(i)'
BY DEF CallInv, Ahead, NotThere

LEMMA CallbackFailed ==
    ASSUME BankInv, UNCHANGED accounts, NEW i \in Callbacks,
           returning' = [returning EXCEPT ![i] = NotThere],
           UNCHANGED <<bus, pending, asked, connections, leaving>>
    PROVE  BankInv' /\ bus \subseteq bus'
<1>0. OwnersKept BY SameOwners
<1>1. AskedKept /\ ConnectionsStay BY DEF AskedKept, Consumed, ConnectionsStay
<1>2. PendingInv' BY <1>0, PendingKept DEF BankInv, PendingInv
<1>3. /\ returning' = [j \in Callbacks |-> returning'[j]]
      /\ \A j \in Callbacks : returning'[j] = IF j = i THEN NotThere ELSE returning[j]
  BY DEF BankInv
<1>4. CallInv(i)' /\ ~ Ahead(i)' BY <1>3, CallOver
<1>5. ASSUME NEW j \in Callbacks, j # i PROVE CallInv(j)'
  <2>1. returning'[j] = returning[j] BY <1>3, <1>5
  <2>2. CallInv(j) BY DEF BankInv
  <2>3. Ahead(j) =>
           /\ \A h \in Callbacks : Ahead(h)' /\ returning'[h].state = returning[j].state => h = j
           /\ \A k \in ConnectionIds : connections'[k] # Nothing =>
                 connections'[k].session # returning[j].state
    BY <1>3, <1>4, <1>5, <2>2 DEF CallInv, Ahead
  <2>4. QED BY <1>0, <1>1, <2>1, <2>3, CallKept
<1>6. QED BY <1>0, <1>1, <1>2, <1>3, <1>4, <1>5, AllConnectionsKept DEF BankInv, PendingInv

LEMMA CreateSession ==
    ASSUME BankInv, UNCHANGED accounts, NEW i \in Callbacks, create_session(i)
    PROVE  BankInv' /\ bus \subseteq bus'
<1>0. OwnersKept BY SameOwners
<1>1. returning[i].at = "session" /\ UNCHANGED <<bus, pending, asked, connections, leaving>>
  BY DEF create_session
<1>2. CASE returning' = [returning EXCEPT ![i] = NotThere] BY <1>1, <1>2, CallbackFailed
<1>3. ASSUME NEW found,
             \A uid \in DOMAIN found : found[uid] = get_active_by_uid(uid, returning[i].account),
             returning' = [returning EXCEPT ![i] =
                [at |-> "store", state |-> returning[i].state, account |-> returning[i].account,
                 user |-> returning[i].user, found |-> found]]
      PROVE  BankInv' /\ bus \subseteq bus'
  <2> DEFINE call == [at |-> "store", state |-> returning[i].state,
                      account |-> returning[i].account, user |-> returning[i].user,
                      found |-> found]
  <2>1. /\ returning' = [j \in Callbacks |-> returning'[j]]
        /\ \A j \in Callbacks : returning'[j] = IF j = i THEN call ELSE returning[j]
    BY <1>3 DEF BankInv
  <2>2. /\ call.at = "store" /\ call.state = returning[i].state
        /\ call.account = returning[i].account /\ call.user = returning[i].user
        /\ call.found = found
    OBVIOUS
  <2> HIDE DEF call
  <2>3. AskedKept /\ ConnectionsStay BY <1>1 DEF AskedKept, Consumed, ConnectionsStay
  <2>4. PendingInv' BY <1>0, <1>1, PendingKept DEF BankInv, PendingInv
  <2>5. \A j \in Callbacks : Ahead(j)' = Ahead(j) /\ returning'[j].state = returning[j].state
    BY <1>1, <2>1, <2>2 DEF Ahead
  <2>6. CallInv(i)'
    <3>1. PICK s, a, u : s = returning[i].state /\ a = returning[i].account /\ u = returning[i].user
      OBVIOUS
    <3>2. CallInv(i) BY DEF BankInv
    <3>3. Left(s, a, u) /\ Consumed(s) BY <1>1, <3>1, <3>2 DEF CallInv
    <3>4. Left(s, a, u)' BY <1>0, <1>1, <3>3, LeftKept
    <3>5. /\ returning'[i].at = "store" /\ returning'[i].state = s /\ returning'[i].account = a
          /\ returning'[i].user = u /\ returning'[i].found = found
      BY <2>1, <2>2, <3>1
    <3>6. Left(returning[i].state, returning[i].account, returning[i].user)'
      BY <3>4, <3>5 DEF Left
    <3>7. Consumed(returning[i].state)' BY <1>1, <3>3, <3>5 DEF Consumed
    <3>8. /\ \A j \in Callbacks :
                returning'[j].at \in {"session", "store"} /\ returning'[j].state = s => j = i
          /\ \A k \in ConnectionIds : connections'[k] # Nothing => connections'[k].session # s
      BY <1>1, <2>5, <3>1, <3>2 DEF CallInv, Ahead
    <3>9. \A uid \in DOMAIN found : \A k \in found[uid] :
             /\ k \in ConnectionIds /\ connections'[k] # Nothing
             /\ connections'[k].uid = uid /\ connections'[k].account = a
      BY <1>1, <1>3, <3>1 DEF get_active_by_uid, Live
    <3>10. QED BY <3>5, <3>6, <3>7, <3>8, <3>9 DEF CallInv
  <2>7. ASSUME NEW j \in Callbacks, j # i PROVE CallInv(j)'
    <3>1. returning'[j] = returning[j] BY <2>1, <2>7
    <3>2. CallInv(j) BY DEF BankInv
    <3>3. Ahead(j) =>
             /\ \A h \in Callbacks :
                   Ahead(h)' /\ returning'[h].state = returning[j].state => h = j
             /\ \A k \in ConnectionIds : connections'[k] # Nothing =>
                   connections'[k].session # returning[j].state
      BY <1>1, <2>5, <3>2 DEF CallInv, Ahead
    <3>4. QED BY <1>0, <2>3, <3>1, <3>3, CallKept
  <2>8. QED BY <1>0, <1>1, <2>1, <2>3, <2>4, <2>6, <2>7, AllConnectionsKept
        DEF BankInv, PendingInv
<1>4. PICK uids : uids \in SUBSET Uids \ {{}} /\
          LET found == [uid \in uids |-> get_active_by_uid(uid, returning[i].account)] IN
          IF \E uid \in uids : Cardinality(found[uid]) > 1
          THEN returning' = [returning EXCEPT ![i] = NotThere]
          ELSE returning' = [returning EXCEPT ![i] =
                   [at |-> "store", state |-> returning[i].state,
                    account |-> returning[i].account,
                    user |-> returning[i].user, found |-> found]]
  BY DEF create_session
<1> DEFINE known == [uid \in uids |-> get_active_by_uid(uid, returning[i].account)]
<1>5. \/ returning' = [returning EXCEPT ![i] = NotThere]
      \/ returning' = [returning EXCEPT ![i] =
            [at |-> "store", state |-> returning[i].state, account |-> returning[i].account,
             user |-> returning[i].user, found |-> known]]
  BY <1>4
<1>6. \A uid \in DOMAIN known : known[uid] = get_active_by_uid(uid, returning[i].account)
  OBVIOUS
<1> HIDE DEF known
<1>7. QED BY <1>2, <1>3, <1>5, <1>6

(* The rest changes an expiry, a status or who is leaving. *)
LEMMA TimedOut ==
    ASSUME BankInv, UNCHANGED accounts, NEW s \in States, TimeOut(s)
    PROVE  BankInv' /\ bus \subseteq bus'
<1>0. OwnersKept BY SameOwners
<1>1. /\ pending[s] # Nothing /\ pending' = [pending EXCEPT ![s].expired = TRUE]
      /\ UNCHANGED <<bus, asked, returning, connections, leaving>>
  BY DEF TimeOut
<1>2. /\ pending' = [t \in States |-> pending'[t]]
      /\ \A t \in States \ {s} : pending'[t] = pending[t]
      /\ pending'[s] = [pending[s] EXCEPT !.expired = TRUE]
  BY <1>1 DEF BankInv
<1>3. [pending[s] EXCEPT !.expired = TRUE].consumed = pending[s].consumed
  BY <1>1 DEF BankInv
<1>4. AskedKept BY <1>1, <1>2, <1>3 DEF AskedKept, Consumed
<1>5. PendingInv'
  <2>1. ASSUME NEW t \in States, pending'[t] # Nothing
        PROVE  (/\ pending[t] = [account |-> pending[t].account, user |-> pending[t].user,
                                 consumed |-> pending[t].consumed, expired |-> pending[t].expired]
                /\ Left(t, pending[t].account, pending[t].user))'
    <3>1. pending[t] # Nothing BY <1>1, <1>2, <2>1
    <3>2. PendingInv BY DEF BankInv, PendingInv
    <3>3. asked'[t] = asked[t] BY <1>1
    <3>4. QED BY <1>0, <1>2, <2>1, <3>1, <3>2, <3>3, PendingKept
  <2>2. asked' = [t \in States |-> asked'[t]] BY <1>1 DEF BankInv
  <2>3. QED BY <1>2, <2>1, <2>2 DEF PendingInv
<1>6. QED BY <1>0, <1>1, <1>4, <1>5, AllCallsKept, AllConnectionsKept DEF BankInv, PendingInv

LEMMA Disconnecting ==
    ASSUME BankInv, UNCHANGED accounts, disconnect_bank
    PROVE  BankInv' /\ bus \subseteq bus'
<1>0. OwnersKept BY SameOwners
<1>1. UNCHANGED <<bus, pending, asked, returning, connections>> BY DEF disconnect_bank
<1>2. leaving' \subseteq {k \in ConnectionIds : connections'[k] # Nothing}
  BY DEF disconnect_bank, BankInv
<1>3. AskedKept BY <1>1 DEF AskedKept, Consumed
<1>4. PendingInv' BY <1>0, <1>1, PendingKept DEF BankInv, PendingInv
<1>5. QED BY <1>0, <1>1, <1>2, <1>3, <1>4, AllCallsKept, AllConnectionsKept
      DEF BankInv, PendingInv

LEMMA Disconnected ==
    ASSUME BankInv, UNCHANGED accounts, NEW k \in ConnectionIds, disconnect(k)
    PROVE  BankInv' /\ bus \subseteq bus'
<1> DEFINE row == [connections[k] EXCEPT !.status = "disconnected"]
<1>0. OwnersKept BY SameOwners
<1>1. /\ k \in leaving /\ connections' = [connections EXCEPT ![k] = row]
      /\ bus \subseteq bus' /\ leaving' = leaving \ {k} /\ UNCHANGED <<pending, asked, returning>>
  BY DEF disconnect, update_status, Emit
<1>2. connections[k] # Nothing /\ IsConnection(connections[k])
  BY <1>1 DEF BankInv, ConnectionInv
<1>3. /\ IsConnection(row) /\ row.account = connections[k].account
      /\ row.user = connections[k].user /\ row.uid = connections[k].uid
      /\ row.session = connections[k].session
  BY <1>2 DEF IsConnection
<1> HIDE DEF row
<1>4. row # Nothing BY <1>3, RowsThere
<1>5. /\ connections' = [j \in ConnectionIds |-> connections'[j]]
      /\ \A j \in ConnectionIds : connections'[j] = IF j = k THEN row ELSE connections[j]
  BY <1>1 DEF BankInv
<1>6. AskedKept /\ ConnectionsStay
  BY <1>1, <1>3, <1>4, <1>5 DEF AskedKept, Consumed, ConnectionsStay
<1>7. PendingInv' BY <1>0, <1>1, PendingKept DEF BankInv, PendingInv
<1>8. ASSUME NEW i \in Callbacks PROVE CallInv(i)'
  <2>1. CallInv(i) BY DEF BankInv
  <2>2. Ahead(i) =>
           /\ \A j \in Callbacks : Ahead(j)' /\ returning'[j].state = returning[i].state => j = i
           /\ \A j \in ConnectionIds : connections'[j] # Nothing =>
                 connections'[j].session # returning[i].state
    BY <1>1, <1>2, <1>3, <1>5, <2>1 DEF CallInv, Ahead
  <2>3. QED BY <1>0, <1>1, <1>6, <2>2, CallKept
<1>9. \A j \in ConnectionIds :
         /\ connections'[j] # Nothing <=> connections[j] # Nothing
         /\ connections'[j].session = connections[j].session /\ connections'[j].uid = connections[j].uid
         /\ connections'[j].account = connections[j].account
         /\ connections'[j].user = connections[j].user
  BY <1>2, <1>3, <1>4, <1>5
<1>10. ASSUME NEW j \in ConnectionIds PROVE ConnectionInv(j)'
  <2>1. ConnectionInv(j) BY DEF BankInv
  <2>2. CASE connections[j] # Nothing
    <3>1. IsConnection(connections'[j]) BY <1>3, <1>5, <2>1, <2>2 DEF ConnectionInv
    <3>2. \A h \in ConnectionIds : connections'[h] # Nothing =>
             (connections'[h].session = connections'[j].session
                /\ connections'[h].uid = connections'[j].uid => h = j)
      BY <1>9, <2>1, <2>2 DEF ConnectionInv
    <3>3. QED BY <1>0, <1>6, <1>9, <2>2, <3>1, <3>2, ConnectionKept
  <2>3. CASE connections[j] = Nothing BY <1>9, <2>3 DEF ConnectionInv
  <2>4. QED BY <2>2, <2>3
<1>11. leaving' \subseteq {j \in ConnectionIds : connections'[j] # Nothing}
  BY <1>1, <1>9 DEF BankInv
<1>12. QED BY <1>1, <1>5, <1>7, <1>8, <1>10, <1>11 DEF BankInv, PendingInv

(* What one completed authorization writes: rows of its own account, under *)
(* its own state, one per bank account.                                    *)
LEMMA RowsWritten ==
    ASSUME BankInv, NEW i \in Callbacks, returning[i].at = "store",
           NEW uid \in DOMAIN returning[i].found, NEW k \in ConnectionIds,
           IF returning[i].found[uid] = {} THEN connections[k] = Nothing
           ELSE k \in returning[i].found[uid],
           NEW row,
           row = IF returning[i].found[uid] = {} THEN NewConnection(returning[i], uid)
                 ELSE Reconnected(connections[k], returning[i].state)
    PROVE  /\ IsConnection(row)
           /\ row.account = returning[i].account /\ row.user = returning[i].user
           /\ row.session = returning[i].state /\ row.uid = uid
           /\ connections[k] # Nothing =>
                 row.uid = connections[k].uid /\ row.account = connections[k].account
<1> DEFINE call == returning[i]
<1>1. CallInv(i) BY DEF BankInv
<1>2. CASE call.found[uid] = {} BY <1>2 DEF NewConnection, IsConnection
<1>3. CASE call.found[uid] # {}
  <2>1. k \in call.found[uid] BY <1>3
  <2>2. connections[k] # Nothing /\ connections[k].uid = uid /\ connections[k].account = call.account
    BY <1>1, <2>1 DEF CallInv
  <2>3. ConnectionInv(k) BY DEF BankInv
  <2>4. /\ IsConnection(connections[k])
        /\ read_account(connections[k].user, connections[k].account)
    BY <2>2, <2>3 DEF ConnectionInv, Left
  <2>5. read_account(call.user, call.account) BY <1>1 DEF CallInv, Left
  <2>6. connections[k].user = call.user BY <2>2, <2>4, <2>5 DEF read_account
  <2>7. row = [[connections[k] EXCEPT !.status = "active"] EXCEPT !.session = call.state]
    BY <1>3 DEF Reconnected, update_consent, update_status
  <2>8. QED BY <2>2, <2>4, <2>6, <2>7 DEF IsConnection
<1>4. QED BY <1>2, <1>3

LEMMA CompleteConnect ==
    ASSUME BankInv, UNCHANGED accounts, NEW i \in Callbacks, complete_connect(i)
    PROVE  BankInv' /\ bus \subseteq bus'
<1> DEFINE call == returning[i]
<1>0. OwnersKept BY SameOwners
<1>1. /\ call.at = "store" /\ returning' = [returning EXCEPT ![i] = NotThere]
      /\ UNCHANGED <<pending, asked, leaving>>
  BY DEF complete_connect
<1>2. PICK into \in [DOMAIN call.found -> ConnectionIds] :
          LET row(uid) == IF call.found[uid] = {} THEN NewConnection(call, uid)
                          ELSE Reconnected(connections[into[uid]], call.state)
              Named(k) == CHOOSE uid \in DOMAIN into : into[uid] = k
              written == {into[uid] : uid \in DOMAIN into}
          IN  /\ \A uid \in DOMAIN into :
                    IF call.found[uid] = {} THEN connections[into[uid]] = Nothing
                    ELSE into[uid] \in call.found[uid]
              /\ connections' = [k \in ConnectionIds |->
                    IF k \in written THEN row(Named(k)) ELSE connections[k]]
              /\ Emit({ConnectionCreatedEvent(k, row(Named(k))) : k \in written})
  BY DEF complete_connect
<1> DEFINE row(uid) == IF call.found[uid] = {} THEN NewConnection(call, uid)
                       ELSE Reconnected(connections[into[uid]], call.state)
           Named(k) == CHOOSE uid \in DOMAIN into : into[uid] = k
           written == {into[uid] : uid \in DOMAIN into}
<1>3. bus \subseteq bus' BY <1>2 DEF Emit
<1>4. \A k \in written : Named(k) \in DOMAIN call.found /\ into[Named(k)] = k OBVIOUS
<1>5. /\ connections' = [k \in ConnectionIds |-> connections'[k]]
      /\ \A k \in ConnectionIds :
            connections'[k] = IF k \in written THEN row(Named(k)) ELSE connections[k]
  BY <1>2
<1>6. \A uid \in DOMAIN call.found :
         IF call.found[uid] = {} THEN connections[into[uid]] = Nothing
         ELSE into[uid] \in call.found[uid]
  BY <1>2
<1>7. ASSUME NEW k \in ConnectionIds, k \in written
      PROVE  /\ IsConnection(connections'[k])
             /\ connections'[k].account = call.account /\ connections'[k].user = call.user
             /\ connections'[k].session = call.state /\ connections'[k].uid = Named(k)
             /\ connections[k] # Nothing =>
                   /\ connections'[k].uid = connections[k].uid
                   /\ connections'[k].account = connections[k].account
  <2>1. Named(k) \in DOMAIN call.found /\ into[Named(k)] = k BY <1>4, <1>7
  <2> DEFINE uid == Named(k)
  <2>2. connections'[k] = IF call.found[uid] = {} THEN NewConnection(call, uid)
                          ELSE Reconnected(connections[k], call.state)
    BY <1>5, <1>7, <2>1
  <2>3. IF call.found[uid] = {} THEN connections[k] = Nothing ELSE k \in call.found[uid]
    BY <1>6, <2>1
  <2> HIDE DEF uid, Named, row, written
  <2>4. uid \in DOMAIN call.found BY <2>1 DEF uid
  <2>5. QED BY <1>1, <2>2, <2>3, <2>4, RowsWritten DEF uid
<1> HIDE DEF row, written, Named
<1>8. \A j, k \in written : Named(j) = Named(k) => j = k BY <1>4
<1>9. CallInv(i) /\ Ahead(i) BY <1>1 DEF BankInv, Ahead
<1>10. AskedKept BY <1>1 DEF AskedKept, Consumed
<1>11. ASSUME NEW k \in ConnectionIds, connections[k] # Nothing
       PROVE  /\ connections'[k] # Nothing
              /\ connections'[k].uid = connections[k].uid
              /\ connections'[k].account = connections[k].account
  BY <1>5, <1>7, <1>11, RowsThere
<1>12. ConnectionsStay BY <1>11 DEF ConnectionsStay
<1>13. PendingInv' BY <1>0, <1>1, PendingKept DEF BankInv, PendingInv
<1>14. /\ returning' = [j \in Callbacks |-> returning'[j]]
       /\ \A j \in Callbacks : returning'[j] = IF j = i THEN NotThere ELSE returning[j]
  BY <1>1 DEF BankInv
<1>15. CallInv(i)' /\ ~ Ahead(i)' BY <1>14, CallOver
<1>16. ASSUME NEW j \in Callbacks, j # i PROVE CallInv(j)'
  <2>1. returning'[j] = returning[j] /\ CallInv(j) BY <1>14, <1>16 DEF BankInv
  <2>2. Ahead(j) => returning[j].state # call.state BY <1>9, <1>16 DEF CallInv, Ahead
  <2>3. ASSUME Ahead(j)
        PROVE  /\ \A h \in Callbacks :
                     Ahead(h)' /\ returning'[h].state = returning[j].state => h = j
               /\ \A k \in ConnectionIds : connections'[k] # Nothing =>
                     connections'[k].session # returning[j].state
    <3>1. \A h \in Callbacks : Ahead(h)' /\ returning'[h].state = returning[j].state => h = j
      BY <1>14, <1>15, <2>1, <2>3 DEF CallInv, Ahead
    <3>2. ASSUME NEW k \in ConnectionIds, connections'[k] # Nothing
          PROVE  connections'[k].session # returning[j].state
      BY <1>5, <1>7, <2>1, <2>2, <2>3, <3>2 DEF CallInv, Ahead
    <3>3. QED BY <3>1, <3>2
  <2>4. QED BY <1>0, <1>10, <1>12, <2>1, <2>3, CallKept
<1>17. ASSUME NEW k \in ConnectionIds PROVE ConnectionInv(k)'
  <2>1. ASSUME NEW j \in ConnectionIds, connections'[j] # Nothing, connections'[k] # Nothing,
               connections'[j].session = connections'[k].session,
               connections'[j].uid = connections'[k].uid
        PROVE  j = k
    <3>1. \A h \in ConnectionIds \ written : connections'[h] # Nothing =>
             connections[h] # Nothing /\ connections'[h] = connections[h]
                /\ connections'[h].session # call.state
      BY <1>5, <1>9 DEF CallInv, Ahead
    <3>2. ConnectionInv(k) BY DEF BankInv
    <3>3. QED BY <1>7, <1>8, <2>1, <3>1, <3>2 DEF ConnectionInv
  <2>2. CASE k \in written
    <3>1. PICK s, a, u : s = call.state /\ a = call.account /\ u = call.user OBVIOUS
    <3>2. Left(s, a, u) /\ Consumed(s) BY <1>9, <3>1 DEF CallInv, Ahead
    <3>3. Left(s, a, u)' BY <1>0, <1>1, <3>2, LeftKept
    <3>4. /\ connections'[k].session = s /\ connections'[k].account = a
          /\ connections'[k].user = u /\ IsConnection(connections'[k])
      BY <1>7, <2>2, <3>1
    <3>5. Left(connections[k].session, connections[k].account, connections[k].user)'
      BY <3>3, <3>4 DEF Left
    <3>6. Consumed(connections[k].session)' BY <1>1, <3>2, <3>4 DEF Consumed
    <3>7. connections'[k] # Nothing BY <3>4, RowsThere
    <3>8. QED BY <2>1, <3>4, <3>5, <3>6, <3>7 DEF ConnectionInv
  <2>3. CASE k \notin written /\ connections[k] # Nothing
    <3>1. connections'[k] = connections[k] BY <1>5, <2>3
    <3>2. IsConnection(connections'[k]) BY <2>3, <3>1 DEF BankInv, ConnectionInv
    <3>3. QED BY <1>0, <1>10, <2>1, <2>3, <3>1, <3>2, ConnectionKept
  <2>4. CASE k \notin written /\ connections[k] = Nothing BY <1>5, <2>4 DEF ConnectionInv
  <2>5. QED BY <2>2, <2>3, <2>4
<1>18. leaving' \subseteq {k \in ConnectionIds : connections'[k] # Nothing}
  BY <1>1, <1>11 DEF BankInv
<1>19. QED BY <1>3, <1>5, <1>13, <1>14, <1>15, <1>16, <1>17, <1>18 DEF BankInv, PendingInv

LEMMA BankStep ==
    ASSUME BankInv, UNCHANGED accountVars, BankNext
    PROVE  BankInv' /\ bus \subseteq bus'
<1>0. UNCHANGED accounts BY DEF accountVars
<1>1. CASE start_bank_connection BY <1>0, <1>1, StartConnect DEF start_bank_connection
<1>2. CASE disconnect_bank BY <1>0, <1>2, Disconnecting
<1>3. ASSUME NEW i \in Callbacks, NEW s \in States, bank_callback(i, s)
      PROVE  BankInv' /\ bus \subseteq bus'
  BY <1>0, <1>3, BankCallback
<1>4. ASSUME NEW i \in Callbacks, create_session(i)
      PROVE  BankInv' /\ bus \subseteq bus'
  BY <1>0, <1>4, CreateSession
<1>5. ASSUME NEW i \in Callbacks, complete_connect(i)
      PROVE  BankInv' /\ bus \subseteq bus'
  BY <1>0, <1>5, CompleteConnect
<1>6. ASSUME NEW s \in States, TimeOut(s)
      PROVE  BankInv' /\ bus \subseteq bus'
  BY <1>0, <1>6, TimedOut
<1>7. ASSUME NEW k \in ConnectionIds, disconnect(k)
      PROVE  BankInv' /\ bus \subseteq bus'
  BY <1>0, <1>7, Disconnected
<1>8. ASSUME NEW i \in Callbacks, CallbackFails(i)
      PROVE  BankInv' /\ bus \subseteq bus'
  BY <1>0, <1>8, CallbackFailed DEF CallbackFails
<1>9. QED BY <1>1, <1>2, <1>3, <1>4, <1>5, <1>6, <1>7, <1>8 DEF BankNext

-----------------------------------------------------------------------------
(* The index *)

LEMMA DocsWritten ==
    ASSUME DocsInv, NEW d \in Document, d.account \in Opened, NEW D \in SUBSET docs,
           \A e \in D : e.id # d.id, docs' = D \cup {d}, UNCHANGED accounts
    PROVE  DocsInv'
<1>1. IsFiniteSet(docs')
  <2>1. IsFiniteSet(D) BY FS_Subset DEF DocsInv
  <2> QED BY <2>1, FS_AddElement
<1>2. Opened' = Opened BY DEF Opened, account_exists, get_by_id
<1> QED BY <1>1, <1>2 DEF DocsInv

LEMMA DocsKept ==
    ASSUME DocsInv, OwnersKept, UNCHANGED docs
    PROVE  DocsInv'
<1>1. Opened \subseteq Opened' BY DEF OwnersKept, Opened, account_exists, get_by_id
<1> QED BY <1>1 DEF DocsInv

LEMMA DocsStep ==
    ASSUME DocsInv, ReportsNext, UNCHANGED accountVars
    PROVE  DocsInv'
<1>0. UNCHANGED accounts BY DEF accountVars
<1>1. ASSUME NEW d \in Documents, Indexed(d) PROVE DocsInv'
  <2>1. d \in Document BY DocumentsAssumption
  <2>2. d.account \in Opened BY <1>1 DEF Indexed, get_all
  <2> DEFINE others == {e \in docs : e.id # d.id}
  <2>3. docs' = others \cup {d} BY <1>1 DEF Indexed
  <2>4. others \in SUBSET docs /\ \A e \in others : e.id # d.id OBVIOUS
  <2> HIDE DEF others
  <2> QED BY <1>0, <2>1, <2>2, <2>3, <2>4, DocsWritten
<1>2. ASSUME NEW d \in docs, Tombstoned(d) PROVE DocsInv'
  <2> DEFINE t == [d EXCEPT !.deleted = TRUE]
  <2>1. d \in Document /\ d.account \in Opened BY DEF DocsInv
  <2>2. t \in Document /\ t.account = d.account /\ t.id = d.id BY <2>1 DEF Document
  <2>3. docs' = (docs \ {d}) \cup {t} BY <1>2 DEF Tombstoned
  <2>4. \A e \in docs \ {d} : e.id # t.id BY <2>2 DEF DocsInv
  <2> HIDE DEF t
  <2> QED BY <1>0, <2>1, <2>2, <2>3, <2>4, DocsWritten
<1> QED BY <1>1, <1>2 DEF ReportsNext

-----------------------------------------------------------------------------
(* The invariant and what it implies *)

LEMMA DashboardInit == Init => DashboardInv
<1> SUFFICES ASSUME Init PROVE DashboardInv
  OBVIOUS
<1> USE DEF Init, UsersInit, AccountsInit, BankInit
<1>1. UsersInv
  <2>1. \A u \in UserIds : users[u] = IF u \in DOMAIN StoredUsers THEN StoredUsers[u] ELSE NoUser
    OBVIOUS
  <2>2. \A u \in DOMAIN StoredUsers : IsUser(StoredUsers[u]) BY StoredUsersAssumption DEF IsUser
  <2>3. Registered = DOMAIN StoredUsers
    BY <2>1, <2>2, StoredUsersAssumption, RowsThere DEF Registered, find_by_id
  <2>4. IdentitiesDistinct
    BY <2>1, <2>3, StoredUsersAssumption DEF IdentitiesDistinct, find_by_username, find_by_email
  <2>5. users = [u \in UserIds |-> users[u]] /\ serving = [c \in Clients |-> serving[c]] OBVIOUS
  <2>6. \A c \in Clients : serving[c].op \notin {"password", "username"} BY DEF Idle
  <2>7. tokens \subseteq Registered BY <2>3
  <2>8. QED BY <2>1, <2>2, <2>4, <2>5, <2>6, <2>7 DEF UsersInv
<1>2. AccountsInv
  <2>1. \A a \in AccountIds :
           accounts[a] = IF a \in DOMAIN StoredAccounts THEN StoredAccounts[a] ELSE NoAccount
    OBVIOUS
  <2>2. \A a \in DOMAIN StoredAccounts : IsAccount(StoredAccounts[a])
    BY StoredAccountsAssumption DEF IsAccount
  <2>3. Opened \subseteq DOMAIN StoredAccounts
    BY <2>1 DEF Opened, account_exists, get_by_id
  <2>4. ASSUME NEW a \in AccountIds, NEW b \in AccountIds, Default(a), Default(b),
               account_owner(a) = account_owner(b)
        PROVE  a = b
    BY <2>1, <2>3, <2>4, StoredAccountsAssumption DEF Default, account_owner
  <2>5. /\ accounts = [a \in AccountIds |-> accounts[a]]
        /\ opening = [o \in Openers \cup Deliveries |-> opening[o]]
        /\ \A o \in Openers \cup Deliveries : opening[o] = Closed
    OBVIOUS
  <2>6. QED BY <2>1, <2>2, <2>4, <2>5 DEF AccountsInv
<1>3. BankInv
  <2>1. \A i \in Callbacks : CallInv(i) BY DEF CallInv, NotThere
  <2>2. \A k \in ConnectionIds : ConnectionInv(k) BY DEF ConnectionInv
  <2>3. QED BY <2>1, <2>2 DEF BankInv
<1>4. DocsInv
  <2>1. docs = StoredDocs BY DEF ReportsInit
  <2>2. \A a \in DOMAIN StoredAccounts : a \in AccountIds /\ accounts[a] = StoredAccounts[a]
    BY StoredAccountsAssumption
  <2>3. \A a \in DOMAIN StoredAccounts : IsAccount(StoredAccounts[a])
    BY StoredAccountsAssumption DEF IsAccount
  <2>4. \A a \in DOMAIN StoredAccounts : a \in Opened
    BY <2>2, <2>3, RowsThere DEF Opened, account_exists, get_by_id
  <2>5. QED BY <2>1, <2>4, DocumentsAssumption DEF DocsInv
<1>5. QED BY <1>1, <1>2, <1>3, <1>4 DEF DashboardInv

LEMMA DashboardStep == DashboardInv /\ [Next]_vars => DashboardInv'
<1> SUFFICES ASSUME DashboardInv, [Next]_vars PROVE DashboardInv'
  OBVIOUS
<1> USE DEF DashboardInv
<1>1. CASE UsersNext /\ UNCHANGED <<accountVars, bankVars, docs>>
  <2>1. UsersInv' BY <1>1, UsersStep
  <2>2. AccountsInv' /\ OwnersKept BY <1>1, AccountsUnchanged
  <2>3. BankInv' BY <1>1, <2>2, BankKept
  <2>4. DocsInv' BY <1>1, <2>2, DocsKept
  <2>5. QED BY <2>1, <2>2, <2>3, <2>4
<1>2. CASE AccountsNext /\ UNCHANGED <<userVars, bankVars, docs>>
  <2>1. AccountsInv' /\ OwnersKept /\ bus \subseteq bus' BY <1>2, AccountsStep
  <2>2. UsersInv' BY <1>2, <2>1, UsersKept
  <2>3. BankInv' BY <1>2, <2>1, BankKept
  <2>4. DocsInv' BY <1>2, <2>1, DocsKept
  <2>5. QED BY <2>1, <2>2, <2>3, <2>4
<1>3. CASE BankNext /\ UNCHANGED <<userVars, accountVars, docs>>
  <2>1. BankInv' /\ bus \subseteq bus' BY <1>3, BankStep
  <2>2. UsersInv' BY <1>3, <2>1, UsersKept
  <2>3. AccountsInv' /\ OwnersKept BY <1>3, AccountsUnchanged
  <2>4. DocsInv' BY <1>3, <2>3, DocsKept
  <2>5. QED BY <2>1, <2>2, <2>3, <2>4
<1>4. ASSUME UNCHANGED <<userVars, accountVars, bankVars>>, bus \subseteq bus'
      PROVE  UsersInv' /\ AccountsInv' /\ BankInv' /\ OwnersKept
  <2>1. UsersInv' BY <1>4, UsersKept
  <2>2. AccountsInv' /\ OwnersKept BY <1>4, AccountsUnchanged
  <2>3. BankInv' BY <1>4, <2>2, BankKept
  <2>4. QED BY <2>1, <2>2, <2>3
<1>5. CASE ReportsNext /\ UNCHANGED <<userVars, accountVars, bankVars>>
  <2>1. bus \subseteq bus' BY <1>5 DEF ReportsNext
  <2>2. DocsInv' BY <1>5, DocsStep
  <2>3. QED BY <1>4, <1>5, <2>1, <2>2
<1>6. CASE UNCHANGED vars
  <2>1. UNCHANGED <<userVars, accountVars, bankVars>> /\ bus \subseteq bus' /\ UNCHANGED docs
    BY <1>6 DEF vars, platform
  <2>2. QED BY <1>4, <2>1, DocsKept
<1>7. QED BY <1>1, <1>2, <1>3, <1>5, <1>6 DEF Next

(* The invariant holds at every moment: a row of users or of accounts is   *)
(* only ever written past its unique index, whatever the call had read     *)
(* before, and a state that is consumed belongs to one callback.           *)
THEOREM DashboardInvariance == Spec => []DashboardInv
<1>1. QED BY DashboardInit, DashboardStep, PTL DEF Spec

(* What the gateway looks up by a name is one row: usernames, emails and   *)
(* default accounts stay unique, though register, change_username and      *)
(* create_account check some time before they write, and each user was     *)
(* announced.                                                              *)
THEOREM NamesFindOne == Spec => []FoundByOneName
<1>1. DashboardInv => FoundByOneName
  <2> SUFFICES ASSUME DashboardInv PROVE FoundByOneName
    OBVIOUS
  <2>1. IdentitiesDistinct BY DEF DashboardInv, UsersInv
  <2>2. ASSUME NEW u \in UserIds
        PROVE  Cardinality({a \in get_all(u) : accounts[a].name = DefaultName}) <= 1
    <3> DEFINE D == {a \in get_all(u) : accounts[a].name = DefaultName}
    <3>1. \A a, b \in D : a = b
      BY DEF DashboardInv, AccountsInv, Default, get_all, Opened
    <3>2. CASE D = {} BY <3>2, FS_EmptySet
    <3>3. CASE D # {}
      <4>1. PICK a : a \in D BY <3>3
      <4>2. D = {a} BY <3>1, <4>1
      <4> HIDE DEF D
      <4>3. Cardinality(D) = 1 BY <4>2, FS_Singleton
      <4>4. QED BY <4>3 DEF D
    <3>4. QED BY <3>2, <3>3
  <2>3. QED BY <2>1, <2>2 DEF FoundByOneName, OneDefaultAccount
<1>2. QED BY <1>1, DashboardInvariance, PTL

(* Every bank connection is the one somebody asked for: the account and    *)
(* the user who left with the state its session answers, once per bank     *)
(* account and authorization, whatever callbacks, retries and disconnects  *)
(* bank_callback, complete_connect and disconnect_bank interleave.         *)
THEOREM ConnectionsAsAsked == Spec => []ConnectedAsAsked
<1>1. DashboardInv => ConnectedAsAsked
  <2> SUFFICES ASSUME DashboardInv, NEW k \in ConnectionIds, connections[k] # Nothing
               PROVE  LET row == connections[k] IN
                      /\ [account |-> row.account, user |-> row.user] = asked[row.session]
                      /\ k \in list_connections(row.account, row.user)
                      /\ \A j \in ConnectionIds \ {k} : connections[j] # Nothing =>
                            <<connections[j].session, connections[j].uid>> # <<row.session, row.uid>>
    BY DEF ConnectedAsAsked
  <2>1. ConnectionInv(k) BY DEF DashboardInv, BankInv
  <2> DEFINE row == connections[k]
  <2>2. Left(row.session, row.account, row.user) BY <2>1 DEF ConnectionInv
  <2>3. k \in list_connections(row.account, row.user)
    BY <2>2 DEF Left, read_account, Opened, list_connections, _verify_account_access, list_by_account
  <2>4. QED BY <2>1, <2>2, <2>3 DEF ConnectionInv, Left
<1>2. QED BY <1>1, DashboardInvariance, PTL

-----------------------------------------------------------------------------
(* Sorting *)

(* before is a strict total order of S. *)
Orders(before, S) ==
    \A x, y \in S : x # y =>
       /\ <<x, y>> \in before <=> ~ (<<y, x>> \in before)
       /\ \A z \in S : z # y /\ <<x, y>> \in before /\ <<y, z>> \in before => <<x, z>> \in before

(* As many members come before x as its place says. *)
LEMMA Places ==
  ASSUME NEW S, IsFiniteSet(S), NEW before, Orders(before, S)
  PROVE  /\ Cardinality(S) \in Nat
         /\ \A x \in S : Cardinality(Below(S, before, x)) \in 0 .. (Cardinality(S) - 1)
         /\ \A x, y \in S : x # y /\ <<x, y>> \in before =>
               Cardinality(Below(S, before, x)) < Cardinality(Below(S, before, y))
         /\ \A n \in 0 .. (Cardinality(S) - 1) : \E x \in S : Cardinality(Below(S, before, x)) = n
<1> DEFINE B(x) == Below(S, before, x)
           N == Cardinality(S)
           rank == [x \in S |-> Cardinality(B(x))]
           I == 0 .. (N - 1)
<1>1. N \in Nat BY FS_CardinalityType
<1>2. ASSUME NEW x \in S
      PROVE  IsFiniteSet(B(x)) /\ Cardinality(B(x)) \in I
  <2>1. B(x) \in SUBSET (S \ {x}) BY DEF Below
  <2>2. IsFiniteSet(S \ {x}) /\ Cardinality(S \ {x}) = N - 1 BY FS_RemoveElement
  <2> HIDE DEF B
  <2>3. IsFiniteSet(B(x)) /\ Cardinality(B(x)) <= N - 1 BY <2>1, <2>2, FS_Subset
  <2>4. Cardinality(B(x)) \in Nat BY <2>3, FS_CardinalityType
  <2> QED BY <1>1, <2>3, <2>4
<1>3. ASSUME NEW x \in S, NEW y \in S, x # y, <<x, y>> \in before
      PROVE  Cardinality(B(x)) < Cardinality(B(y))
  <2>1. B(x) \in SUBSET B(y) BY <1>3 DEF Below, Orders
  <2>2. x \in B(y) /\ x \notin B(x) BY <1>3 DEF Below
  <2>3. IsFiniteSet(B(y)) /\ Cardinality(B(x)) \in Nat /\ Cardinality(B(y)) \in Nat BY <1>1, <1>2
  <2> HIDE DEF B
  <2>4. Cardinality(B(x)) <= Cardinality(B(y)) /\ (Cardinality(B(y)) = Cardinality(B(x)) => B(y) = B(x))
    BY <2>1, <2>3, FS_Subset
  <2> QED BY <2>2, <2>3, <2>4
<1> HIDE DEF B, N
<1>4. rank \in [S -> I] BY <1>2
<1>5. \A x, y \in S : rank[x] = rank[y] => x = y
  <2> SUFFICES ASSUME NEW x \in S, NEW y \in S, x # y PROVE rank[x] # rank[y] OBVIOUS
  <2>1. <<x, y>> \in before \/ <<y, x>> \in before BY DEF Orders
  <2>2. Cardinality(B(x)) \in Int /\ Cardinality(B(y)) \in Int BY <1>1, <1>2
  <2> QED BY <1>3, <2>1, <2>2
<1>6. IsFiniteSet(I) /\ Cardinality(I) = N
  BY <1>1, FS_Interval
<1>7. rank \in Injection(S, I) BY <1>4, <1>5 DEF Injection, IsInjective
<1>8. rank \in Surjection(S, I) BY <1>6, <1>7, FS_Injection DEF N
<1>9. \A n \in I : \E x \in S : rank[x] = n BY <1>8 DEF Surjection
<1> QED BY <1>1, <1>2, <1>3, <1>9 DEF B, N

(* InOrder lists the members of S, each once and in the order. *)
LEMMA Listed ==
  ASSUME NEW S, IsFiniteSet(S), NEW before, Orders(before, S)
  PROVE  /\ Cardinality(S) \in Nat
         /\ InOrder(S, before) \in [1 .. Cardinality(S) -> S]
         /\ \A x \in S : \E i \in 1 .. Cardinality(S) : InOrder(S, before)[i] = x
         /\ \A i, j \in 1 .. Cardinality(S) : i < j =>
               /\ InOrder(S, before)[i] # InOrder(S, before)[j]
               /\ <<InOrder(S, before)[i], InOrder(S, before)[j]>> \in before
<1> DEFINE N == Cardinality(S)
           B(x) == Below(S, before, x)
           s == InOrder(S, before)
<1>1. /\ N \in Nat
      /\ \A x \in S : Cardinality(B(x)) \in 0 .. (N - 1)
      /\ \A x, y \in S : x # y /\ <<x, y>> \in before => Cardinality(B(x)) < Cardinality(B(y))
      /\ \A n \in 0 .. (N - 1) : \E x \in S : Cardinality(B(x)) = n
  BY Places
<1>2. s = [i \in 1 .. N |-> CHOOSE x \in S : Cardinality(B(x)) = i - 1]
  BY DEF InOrder
<1> HIDE DEF N, B, s
<1>3. ASSUME NEW i \in 1 .. N PROVE s[i] \in S /\ Cardinality(B(s[i])) = i - 1
  <2>1. i - 1 \in 0 .. (N - 1) BY <1>1
  <2>2. \E x \in S : Cardinality(B(x)) = i - 1 BY <1>1, <2>1
  <2> QED BY <1>2, <2>2
<1>4. s \in [1 .. N -> S] BY <1>2, <1>3
<1>5. ASSUME NEW x \in S, NEW y \in S, x # y PROVE Cardinality(B(x)) # Cardinality(B(y))
  <2>1. <<x, y>> \in before \/ <<y, x>> \in before BY <1>5 DEF Orders
  <2>2. Cardinality(B(x)) < Cardinality(B(y)) \/ Cardinality(B(y)) < Cardinality(B(x))
    BY <1>1, <1>5, <2>1
  <2>3. Cardinality(B(x)) \in Int /\ Cardinality(B(y)) \in Int BY <1>1
  <2> QED BY <2>2, <2>3
<1>6. ASSUME NEW x \in S PROVE \E i \in 1 .. N : s[i] = x
  <2> DEFINE n == Cardinality(B(x))
  <2>1. n \in 0 .. (N - 1) BY <1>1
  <2> HIDE DEF n
  <2>2. n + 1 \in 1 .. N /\ (n + 1) - 1 = n BY <1>1, <2>1
  <2>3. Cardinality(B(s[n + 1])) = n /\ s[n + 1] \in S BY <1>3, <2>2
  <2>4. s[n + 1] = x BY <1>5, <2>3 DEF n
  <2> QED BY <2>2, <2>4
<1>7. ASSUME NEW i \in 1 .. N, NEW j \in 1 .. N, i < j
      PROVE  s[i] # s[j] /\ <<s[i], s[j]>> \in before
  <2>1. s[i] \in S /\ s[j] \in S /\ Cardinality(B(s[i])) = i - 1 /\ Cardinality(B(s[j])) = j - 1
    BY <1>3
  <2>2. i \in Int /\ j \in Int BY <1>1
  <2>3. s[i] # s[j] BY <1>7, <2>1, <2>2
  <2>4. ~ (<<s[j], s[i]>> \in before) BY <1>1, <1>7, <2>1, <2>2, <2>3
  <2> QED BY <2>1, <2>3, <2>4 DEF Orders
<1> QED BY <1>1, <1>4, <1>6, <1>7 DEF N, s

-----------------------------------------------------------------------------
(* Fusing the rankings of two branches *)

(* What adding up the places of an item comes to, one place at a time. *)
Plus(p, s) == <<s[1] * (RRF_K + p[2]) + s[2], s[2] * (RRF_K + p[2])>>

PickPlace(s) == CHOOSE x \in s : TRUE

Scoring(it, s) == IF s = {} THEN <<0, 1>> ELSE Plus(PickPlace(s), it[s \ {PickPlace(s)}])

ScoreFold(S) == CHOOSE it : it = [s \in SUBSET S |-> Scoring(it, s)]

LEMMA ScoreIs == ASSUME NEW x, NEW rankings
                 PROVE  Score(x, rankings) = ScoreFold(Ranks(x, rankings))[Ranks(x, rankings)]
BY DEF Score, FoldSet, MapThenFoldSet, ScoreFold, Scoring, Plus, PickPlace

(* Places of one or two lists: the recursion has a solution. *)
LEMMA ScoreFolds ==
  ASSUME NEW S, NEW p, NEW q, S = {p, q}
  PROVE  \A s \in SUBSET S : ScoreFold(S)[s] = Scoring(ScoreFold(S), s)
<1> DEFINE one(x) == Plus(x, <<0, 1>>)
           pick == PickPlace(S)
           other == PickPlace(S \ {pick})
           it == [s \in SUBSET S |->
                    IF s = {} THEN <<0, 1>>
                    ELSE IF s \ {PickPlace(s)} = {} THEN one(PickPlace(s))
                    ELSE Plus(PickPlace(s), one(PickPlace(s \ {PickPlace(s)})))]
<1>1. ASSUME NEW s \in SUBSET S PROVE it[s] = Scoring(it, s)
  <2> DEFINE x == PickPlace(s)
             y == PickPlace(s \ {x})
  <2>1. CASE s = {} BY <2>1 DEF Scoring
  <2>2. CASE s # {} /\ s \ {x} = {}
    <3>1. it[s] = one(x) BY <2>2
    <3>2. it[s \ {x}] = <<0, 1>> BY <2>2
    <3> HIDE DEF it
    <3> QED BY <2>2, <3>1, <3>2 DEF Scoring
  <2>3. CASE s # {} /\ s \ {x} # {}
    <3>1. it[s] = Plus(x, one(y)) BY <2>3
    <3>2. x \in s /\ y \in s \ {x} BY <2>3 DEF PickPlace
    <3>3. (s \ {x}) \ {y} = {}
      <4>1. s = {p} \/ s = {q} \/ s = {p, q} BY <2>3
      <4> QED BY <3>2, <4>1
    <3>4. s \ {x} \in SUBSET S OBVIOUS
    <3>5. it[s \ {x}] = one(y) BY <3>3, <3>4, <2>3
    <3>6. s # {} /\ x = PickPlace(s) BY <2>3
    <3> HIDE DEF it, x, y, one
    <3>7. Scoring(it, s) = Plus(x, it[s \ {x}]) BY <3>6 DEF Scoring
    <3> QED BY <3>1, <3>5, <3>7
  <2> QED BY <2>1, <2>2, <2>3
<1>2. it = [s \in SUBSET S |-> Scoring(it, s)]
  <2>1. it = [s \in SUBSET S |-> it[s]] OBVIOUS
  <2> HIDE DEF it
  <2> QED BY <1>1, <2>1
<1> HIDE DEF it
<1>3. ScoreFold(S) = [s \in SUBSET S |-> Scoring(ScoreFold(S), s)]
  BY <1>2 DEF ScoreFold
<1> QED BY <1>3

LEMMA ScoreOfOne ==
  ASSUME NEW p, p[2] \in {1, 2}
  PROVE  ScoreFold({p})[{p}] = <<1, RRF_K + p[2]>>
<1> DEFINE F == ScoreFold({p})
<1>1. \A s \in SUBSET {p} : F[s] = Scoring(F, s)
  <2>1. {p} = {p, p} OBVIOUS
  <2> QED BY <2>1, ScoreFolds
<1> HIDE DEF F
<1>2. F[{}] = <<0, 1>> BY <1>1 DEF Scoring
<1>3. PickPlace({p}) = p BY DEF PickPlace
<1>4. F[{p}] = Plus(p, <<0, 1>>) BY <1>1, <1>2, <1>3 DEF Scoring
<1>5. Plus(p, <<0, 1>>) = <<1, RRF_K + p[2]>> BY DEF Plus, RRF_K
<1> QED BY <1>4, <1>5 DEF F

LEMMA ScoreOfTwo ==
  ASSUME NEW p, NEW q, p # q, p[2] \in {1, 2}, q[2] \in {1, 2}
  PROVE  ScoreFold({p, q})[{p, q}]
            = <<(RRF_K + p[2]) + (RRF_K + q[2]), (RRF_K + p[2]) * (RRF_K + q[2])>>
<1> DEFINE S == {p, q}
           F == ScoreFold(S)
           x == PickPlace(S)
           y == IF x = p THEN q ELSE p
<1>1. \A s \in SUBSET S : F[s] = Scoring(F, s) BY ScoreFolds
<1>2. x \in S BY DEF PickPlace
<1>3. S \ {x} = {y} /\ y \in S BY <1>2
<1> HIDE DEF F
<1>4. F[{}] = <<0, 1>> BY <1>1 DEF Scoring
<1>5. PickPlace({y}) = y BY DEF PickPlace
<1>6. F[{y}] = Plus(y, <<0, 1>>)
  <2>1. {y} # {} /\ {y} \in SUBSET S /\ {y} \ {y} = {} BY <1>3
  <2> HIDE DEF S, y
  <2> QED BY <1>1, <1>4, <1>5, <2>1 DEF Scoring
<1>7. F[S] = Plus(x, Plus(y, <<0, 1>>))
  <2>1. S # {} /\ S \in SUBSET S OBVIOUS
  <2>2. x = PickPlace(S) OBVIOUS
  <2>3. F[S \ {x}] = Plus(y, <<0, 1>>) BY <1>3, <1>6
  <2> HIDE DEF S, x, y
  <2>4. F[S] = Plus(x, F[S \ {x}]) BY <1>1, <2>1, <2>2 DEF Scoring
  <2> QED BY <2>3, <2>4
<1>8. Plus(p, Plus(q, <<0, 1>>)) = Plus(q, Plus(p, <<0, 1>>))
  BY DEF Plus, RRF_K
<1>9. Plus(p, Plus(q, <<0, 1>>))
         = <<(RRF_K + p[2]) + (RRF_K + q[2]), (RRF_K + p[2]) * (RRF_K + q[2])>>
  BY DEF Plus, RRF_K
<1> QED BY <1>2, <1>7, <1>8, <1>9 DEF F

(* One or two items, none twice. *)
IsRanking(s) ==
    /\ s \in Seq(Int) /\ Len(s) \in {1, 2}
    /\ \A i, j \in DOMAIN s : s[i] = s[j] => i = j

LEMMA PlacesOf ==
  ASSUME NEW l, NEW k, IsRanking(l), IsRanking(k), NEW x \in ToSet(l) \cup ToSet(k)
  PROVE  \E r, t \in {1, 2} :
            \/ /\ x \in ToSet(l) \cap ToSet(k) /\ l[r] = x /\ k[t] = x
               /\ Ranks(x, <<l, k>>) = {<<1, r>>, <<2, t>>}
            \/ x \notin ToSet(k) /\ l[r] = x /\ Ranks(x, <<l, k>>) = {<<1, r>>}
            \/ x \notin ToSet(l) /\ k[t] = x /\ Ranks(x, <<l, k>>) = {<<2, t>>}
<1> DEFINE L == {<<1, r>> : r \in {r \in DOMAIN l : l[r] = x}}
           K == {<<2, r>> : r \in {r \in DOMAIN k : k[r] = x}}
           both == <<l, k>>
           At(c) == {<<c, r>> : r \in {r \in DOMAIN both[c] : both[c][r] = x}}
<1>0. DOMAIN both = {1, 2} OBVIOUS
<1>a. both[1] = l /\ both[2] = k OBVIOUS
<1>b. Ranks(x, both) = UNION {At(c) : c \in DOMAIN both} BY DEF Ranks
<1>c. At(1) = L /\ At(2) = K BY <1>a
<1> HIDE DEF both, At, L, K
<1>1. Ranks(x, both) = L \cup K BY <1>0, <1>b, <1>c
<1> USE DEF L, K
<1>2. DOMAIN l \subseteq {1, 2} /\ DOMAIN k \subseteq {1, 2} BY DEF IsRanking
<1>3. ASSUME x \in ToSet(l) PROVE \E r \in {1, 2} : l[r] = x /\ L = {<<1, r>>}
  <2>1. PICK r \in DOMAIN l : l[r] = x BY <1>3 DEF ToSet
  <2>2. \A c \in DOMAIN l : l[c] = x => c = r BY <2>1 DEF IsRanking
  <2>3. {c \in DOMAIN l : l[c] = x} = {r} BY <2>1, <2>2
  <2>4. r \in {1, 2} BY <1>2
  <2> QED BY <2>1, <2>3, <2>4
<1>4. ASSUME x \in ToSet(k) PROVE \E r \in {1, 2} : k[r] = x /\ K = {<<2, r>>}
  <2>1. PICK r \in DOMAIN k : k[r] = x BY <1>4 DEF ToSet
  <2>2. \A c \in DOMAIN k : k[c] = x => c = r BY <2>1 DEF IsRanking
  <2>3. {c \in DOMAIN k : k[c] = x} = {r} BY <2>1, <2>2
  <2>4. r \in {1, 2} BY <1>2
  <2> QED BY <2>1, <2>3, <2>4
<1>5. (x \notin ToSet(l) => L = {}) /\ (x \notin ToSet(k) => K = {}) BY DEF ToSet
<1> HIDE DEF L, K
<1>6. CASE x \in ToSet(l) /\ x \in ToSet(k)
  <2>1. PICK r \in {1, 2} : l[r] = x /\ L = {<<1, r>>} BY <1>3, <1>6
  <2>2. PICK t \in {1, 2} : k[t] = x /\ K = {<<2, t>>} BY <1>4, <1>6
  <2>3. Ranks(x, both) = {<<1, r>>, <<2, t>>} BY <1>1, <2>1, <2>2
  <2> QED BY <1>6, <2>1, <2>2, <2>3 DEF both
<1>7. CASE x \in ToSet(l) /\ x \notin ToSet(k)
  <2>1. PICK r \in {1, 2} : l[r] = x /\ L = {<<1, r>>} BY <1>3, <1>7
  <2>3. Ranks(x, both) = {<<1, r>>} BY <1>1, <1>5, <1>7, <2>1
  <2> QED BY <1>7, <2>1, <2>3 DEF both
<1>8. CASE x \notin ToSet(l) /\ x \in ToSet(k)
  <2>1. PICK r \in {1, 2} : k[r] = x /\ K = {<<2, r>>} BY <1>4, <1>8
  <2>3. Ranks(x, both) = {<<2, r>>} BY <1>1, <1>5, <1>8, <2>1
  <2> QED BY <1>8, <2>1, <2>3 DEF both
<1> QED BY <1>6, <1>7, <1>8

(* The scores of an item that one list has, or both. *)
Once == {<<1, 61>>, <<1, 62>>}

Twice == {<<122, 3721>>, <<123, 3782>>, <<124, 3844>>}

(* Over a common denominator. *)
Scaled(s) == s[1] * (IF s[2] = 61 THEN 234484 ELSE IF s[2] = 62 THEN 230702
                     ELSE IF s[2] = 3721 THEN 3844 ELSE IF s[2] = 3782 THEN 3782 ELSE 3721)

LEMMA ScoresScaled ==
  /\ \A s \in Once \cup Twice : Scaled(s) \in Int
  /\ \A s, t \in Once \cup Twice :
        /\ s[1] * t[2] > t[1] * s[2] <=> Scaled(s) > Scaled(t)
        /\ s[1] * t[2] = t[1] * s[2] <=> Scaled(s) = Scaled(t)
  /\ \A s \in Twice, t \in Once : Scaled(s) > Scaled(t)
<1>1. \A s \in Once \cup Twice : Scaled(s) \in Int BY DEF Once, Twice, Scaled
<1>2. ASSUME NEW s \in Once \cup Twice, NEW t \in Once \cup Twice
      PROVE  /\ s[1] * t[2] > t[1] * s[2] <=> Scaled(s) > Scaled(t)
             /\ s[1] * t[2] = t[1] * s[2] <=> Scaled(s) = Scaled(t)
  <2>1. CASE s = <<1, 61>> BY <2>1 DEF Once, Twice, Scaled
  <2>2. CASE s = <<1, 62>> BY <2>2 DEF Once, Twice, Scaled
  <2>3. CASE s = <<122, 3721>> BY <2>3 DEF Once, Twice, Scaled
  <2>4. CASE s = <<123, 3782>> BY <2>4 DEF Once, Twice, Scaled
  <2>5. CASE s = <<124, 3844>> BY <2>5 DEF Once, Twice, Scaled
  <2> QED BY <2>1, <2>2, <2>3, <2>4, <2>5 DEF Once, Twice
<1>3. \A s \in Twice, t \in Once : Scaled(s) > Scaled(t) BY DEF Once, Twice, Scaled
<1> QED BY <1>1, <1>2, <1>3

LEMMA ScoredOnce ==
  ASSUME NEW p, p[2] \in {1, 2}
  PROVE  ScoreFold({p})[{p}] \in Once
<1>1. ScoreFold({p})[{p}] = <<1, RRF_K + p[2]>> BY ScoreOfOne
<1>2. <<1, RRF_K + p[2]>> \in Once
  <2>1. CASE p[2] = 1 BY <2>1 DEF Once, RRF_K
  <2>2. CASE p[2] = 2 BY <2>2 DEF Once, RRF_K
  <2> QED BY <2>1, <2>2
<1> QED BY <1>1, <1>2

LEMMA ScoreOf ==
  ASSUME NEW l, NEW k, IsRanking(l), IsRanking(k), NEW x \in ToSet(l) \cup ToSet(k)
  PROVE  LET seen == first_seen(x, <<l, k>>) IN
         /\ Score(x, <<l, k>>) \in IF x \in ToSet(l) \cap ToSet(k) THEN Twice ELSE Once
         /\ seen \in {1, 2} \X {1, 2} /\ x = (IF seen[1] = 1 THEN l ELSE k)[seen[2]]
<1> DEFINE both == <<l, k>>
           S == Ranks(x, both)
           seen == first_seen(x, both)
<1>0. seen = CHOOSE p \in S : \A q \in S : p[1] <= q[1] BY DEF first_seen
<1>1. Score(x, both) = ScoreFold(S)[S] BY ScoreIs
<1>2. PICK r \in {1, 2}, t \in {1, 2} :
            \/ /\ x \in ToSet(l) \cap ToSet(k) /\ l[r] = x /\ k[t] = x
               /\ S = {<<1, r>>, <<2, t>>}
            \/ x \notin ToSet(k) /\ l[r] = x /\ S = {<<1, r>>}
            \/ x \notin ToSet(l) /\ k[t] = x /\ S = {<<2, t>>}
  BY ZenonT(40), PlacesOf
<1> HIDE DEF S, seen
<1>3. \E p \in S : \A q \in S : p[1] <= q[1]
  <2>0. <<1, r>>[1] = 1 /\ <<2, t>>[1] = 2 OBVIOUS
  <2>1. CASE S = {<<1, r>>, <<2, t>>}
    <3>1. \A q \in S : <<1, r>>[1] <= q[1] BY <2>0, <2>1
    <3> QED BY <2>1, <3>1
  <2>2. CASE S = {<<1, r>>} BY <2>2
  <2>3. CASE S = {<<2, t>>} BY <2>3
  <2> QED BY <1>2, <2>1, <2>2, <2>3
<1>4. seen \in S BY <1>0, <1>3
<1>5. seen \in {1, 2} \X {1, 2} /\ x = (IF seen[1] = 1 THEN l ELSE k)[seen[2]]
  <2>1. CASE seen = <<1, r>> BY <1>2, <1>4, <2>1
  <2>2. CASE seen = <<2, t>> BY <1>2, <1>4, <2>2
  <2> QED BY <1>2, <1>4, <2>1, <2>2
<1>6. ScoreFold({<<1, r>>})[{<<1, r>>}] \in Once
  <2> DEFINE p == <<1, r>>
  <2>1. p[2] \in {1, 2} OBVIOUS
  <2> HIDE DEF p
  <2>2. ScoreFold({p})[{p}] \in Once BY <2>1, ScoredOnce
  <2> QED BY <2>2 DEF p
<1>7. ScoreFold({<<2, t>>})[{<<2, t>>}] \in Once
  <2> DEFINE p == <<2, t>>
  <2>1. p[2] \in {1, 2} OBVIOUS
  <2> HIDE DEF p
  <2>2. ScoreFold({p})[{p}] \in Once BY <2>1, ScoredOnce
  <2> QED BY <2>2 DEF p
<1>8. ScoreFold({<<1, r>>, <<2, t>>})[{<<1, r>>, <<2, t>>}] \in Twice
  <2> DEFINE p == <<1, r>>
             q == <<2, t>>
  <2>1. p # q /\ p[2] \in {1, 2} /\ p[2] = r /\ q[2] \in {1, 2} /\ q[2] = t OBVIOUS
  <2> HIDE DEF p, q
  <2>2. ScoreFold({p, q})[{p, q}]
           = <<(RRF_K + p[2]) + (RRF_K + q[2]), (RRF_K + p[2]) * (RRF_K + q[2])>>
    BY <2>1, ScoreOfTwo
  <2>3. <<(RRF_K + p[2]) + (RRF_K + q[2]), (RRF_K + p[2]) * (RRF_K + q[2])>> \in Twice
    <3>1. CASE p[2] = 1 /\ q[2] = 1 BY <3>1 DEF Twice, RRF_K
    <3>2. CASE p[2] = 1 /\ q[2] = 2 BY <3>2 DEF Twice, RRF_K
    <3>3. CASE p[2] = 2 /\ q[2] = 1 BY <3>3 DEF Twice, RRF_K
    <3>4. CASE p[2] = 2 /\ q[2] = 2 BY <3>4 DEF Twice, RRF_K
    <3> QED BY <2>1, <3>1, <3>2, <3>3, <3>4
  <2> QED BY <2>2, <2>3 DEF p, q
<1>9. Score(x, both) \in IF x \in ToSet(l) \cap ToSet(k) THEN Twice ELSE Once
  BY <1>1, <1>2, <1>6, <1>7, <1>8
<1> QED BY <1>5, <1>9 DEF seen

Entry(x, l, k) ==
    [item |-> x, score |-> Score(x, <<l, k>>), seen |-> first_seen(x, <<l, k>>)]

(* rrf_fuse's order. *)
Beats(x, y) ==
    \/ x.score[1] * y.score[2] > y.score[1] * x.score[2]
    \/ /\ x.score[1] * y.score[2] = y.score[1] * x.score[2]
       /\ x.seen[1] < y.seen[1] \/ (x.seen[1] = y.seen[1] /\ x.seen[2] < y.seen[2])

LEMMA FuseIs ==
  ASSUME NEW l, NEW k
  PROVE  LET E == {Entry(x, l, k) : x \in ToSet(l) \cup ToSet(k)}
             order == InOrder(E, {p \in E \X E : Beats(p[1], p[2])})
         IN  rrf_fuse(<<l, k>>) = [i \in DOMAIN order |-> order[i].item]
<1> DEFINE both == <<l, k>>
           items == UNION {ToSet(both[c]) : c \in DOMAIN both}
<1>1. items = ToSet(l) \cup ToSet(k)
  <2>1. DOMAIN both = {1, 2} /\ both[1] = l /\ both[2] = k OBVIOUS
  <2> HIDE DEF both
  <2> QED BY <2>1
<1>2. \A x : Entry(x, l, k) = [item |-> x, score |-> Score(x, both), seen |-> first_seen(x, both)]
  BY DEF Entry
<1> DEFINE E == {[item |-> x, score |-> Score(x, both), seen |-> first_seen(x, both)] : x \in items}
           order == InOrder(E, {p \in E \X E : Beats(p[1], p[2])})
<1>3. rrf_fuse(both) = [i \in DOMAIN order |-> order[i].item]
  BY DEF rrf_fuse, Sorted, Beats
<1>4. E = {Entry(x, l, k) : x \in ToSet(l) \cup ToSet(k)}
  <2> HIDE DEF items, both
  <2> QED BY <1>1, <1>2
<1> QED BY <1>3, <1>4

LEMMA BeatsOrders ==
  ASSUME NEW l, NEW k, IsRanking(l), IsRanking(k), NEW E,
         E = {Entry(x, l, k) : x \in ToSet(l) \cup ToSet(k)}
  PROVE  Orders({p \in E \X E : Beats(p[1], p[2])}, E)
<1> DEFINE R == {p \in E \X E : Beats(p[1], p[2])}
           S(x) == Scaled(x.score)
<1>1. ASSUME NEW x \in E
      PROVE  /\ x.score \in Once \cup Twice /\ S(x) \in Int
             /\ x.seen[1] \in {1, 2} /\ x.seen[2] \in {1, 2} /\ x.seen = <<x.seen[1], x.seen[2]>>
             /\ x.item = (IF x.seen[1] = 1 THEN l ELSE k)[x.seen[2]]
             /\ x = Entry(x.item, l, k)
  <2>1. PICK i \in ToSet(l) \cup ToSet(k) : x = Entry(i, l, k) OBVIOUS
  <2>2. x.item = i /\ x.score = Score(i, <<l, k>>) /\ x.seen = first_seen(i, <<l, k>>)
    BY <2>1 DEF Entry
  <2>3. Score(i, <<l, k>>) \in Once \cup Twice /\ first_seen(i, <<l, k>>) \in {1, 2} \X {1, 2}
        /\ i = (IF first_seen(i, <<l, k>>)[1] = 1 THEN l ELSE k)[first_seen(i, <<l, k>>)[2]]
    BY ScoreOf
  <2>4. S(x) \in Int BY <2>2, <2>3, ScoresScaled
  <2> QED BY <2>1, <2>2, <2>3, <2>4
<1>2. ASSUME NEW x \in E, NEW y \in E, x # y
      PROVE  x.seen[1] # y.seen[1] \/ x.seen[2] # y.seen[2]
  BY <1>1, <1>2
<1>3. ASSUME NEW x \in E, NEW y \in E
      PROVE  Beats(x, y) <=>
                \/ S(x) > S(y)
                \/ /\ S(x) = S(y)
                   /\ x.seen[1] < y.seen[1] \/ (x.seen[1] = y.seen[1] /\ x.seen[2] < y.seen[2])
  BY <1>1, ScoresScaled DEF Beats
<1>4. \A x, y \in E : <<x, y>> \in R <=> Beats(x, y) OBVIOUS
<1> HIDE DEF R, S
<1>5. \A x \in E : S(x) \in Int /\ x.seen[1] \in Int /\ x.seen[2] \in Int BY <1>1
<1>6. ASSUME NEW x \in E, NEW y \in E, x # y PROVE Beats(x, y) <=> ~ Beats(y, x)
  BY <1>2, <1>3, <1>5, <1>6
<1>7. ASSUME NEW x \in E, NEW y \in E, NEW z \in E, Beats(x, y), Beats(y, z) PROVE Beats(x, z)
  <2>1. /\ Beats(x, y) => \/ S(x) > S(y)
                         \/ /\ S(x) = S(y)
                            /\ \/ x.seen[1] < y.seen[1]
                               \/ x.seen[1] = y.seen[1] /\ x.seen[2] < y.seen[2]
        /\ Beats(y, z) => \/ S(y) > S(z)
                         \/ /\ S(y) = S(z)
                            /\ \/ y.seen[1] < z.seen[1]
                               \/ y.seen[1] = z.seen[1] /\ y.seen[2] < z.seen[2]
    BY <1>3
  <2>2. \/ S(x) > S(z)
        \/ /\ S(x) = S(z)
           /\ x.seen[1] < z.seen[1] \/ (x.seen[1] = z.seen[1] /\ x.seen[2] < z.seen[2])
    BY <1>5, <1>7, <2>1
  <2> QED BY <1>3, <2>2
<1>8. Orders(R, E) BY <1>4, <1>6, <1>7 DEF Orders
<1> QED BY <1>8 DEF R

(* At most two and two items. *)
LEMMA RankedItems ==
  ASSUME NEW l, NEW k, IsRanking(l), IsRanking(k)
  PROVE  /\ IsFiniteSet(ToSet(l) \cup ToSet(k)) /\ ToSet(l) \cup ToSet(k) \subseteq Int
         /\ Cardinality(ToSet(l) \cup ToSet(k)) \in 0 .. 4
<1> DEFINE A == {l[1], l[2]}
           B == A \cup {k[1]}
           C == B \cup {k[2]}
<1>1. ToSet(l) \cup ToSet(k) \subseteq C /\ ToSet(l) \cup ToSet(k) \subseteq Int
  BY SMTT(30) DEF ToSet, IsRanking
<1>2. IsFiniteSet(A) /\ Cardinality(A) \in 0 .. 2
  <2>1. IsFiniteSet({l[1]}) /\ Cardinality({l[1]}) = 1 BY FS_Singleton
  <2>2. A = {l[1]} \cup {l[2]} OBVIOUS
  <2> HIDE DEF A
  <2> QED BY <2>1, <2>2, FS_AddElement
<1> HIDE DEF A
<1>3. IsFiniteSet(B) /\ Cardinality(B) \in 0 .. 3 BY <1>2, FS_AddElement
<1> HIDE DEF B
<1>4. IsFiniteSet(C) /\ Cardinality(C) \in 0 .. 4 BY <1>3, FS_AddElement
<1> HIDE DEF C
<1>5. IsFiniteSet(ToSet(l) \cup ToSet(k)) /\ Cardinality(ToSet(l) \cup ToSet(k)) <= Cardinality(C)
  BY <1>1, <1>4, FS_Subset
<1>6. Cardinality(ToSet(l) \cup ToSet(k)) \in Nat BY <1>5, FS_CardinalityType
<1> QED BY <1>1, <1>4, <1>5, <1>6

(* One name for each: as many entries as items. *)
LEMMA EntriesCounted ==
  ASSUME NEW l, NEW k, NEW I, IsFiniteSet(I)
  PROVE  /\ IsFiniteSet({Entry(x, l, k) : x \in I})
         /\ Cardinality({Entry(x, l, k) : x \in I}) = Cardinality(I)
<1> DEFINE E == {Entry(x, l, k) : x \in I}
           f == [x \in I |-> Entry(x, l, k)]
<1>1. \A x, y : Entry(x, l, k) = Entry(y, l, k) => x = y BY DEF Entry
<1>2. f \in [I -> E] /\ \A e \in E : \E x \in I : f[x] = e OBVIOUS
<1>3. \A x, y \in I : f[x] = f[y] => x = y BY <1>1
<1> HIDE DEF f, E
<1>4. f \in Surjection(I, E) /\ f \in Injection(I, E)
  BY <1>2, <1>3 DEF Surjection, Injection, IsInjective
<1> QED BY <1>4, FS_Surjection DEF E

(* A short list is taken whole. *)
LEMMA TakenWhole ==
  ASSUME NEW S, NEW s \in Seq(S), NEW n \in Nat, Len(s) <= n
  PROVE  Take(s, n) = s
<1>1. SubSeq(s, 1, Len(s)) = s OBVIOUS
<1>2. Len(s) \in Nat OBVIOUS
<1>3. (IF n < Len(s) THEN n ELSE Len(s)) = Len(s) BY <1>2
<1> QED BY <1>1, <1>3 DEF Take

(* A fused list shows each item of either ranking once, and what both have  *)
(* above what one has.                                                     *)
LEMMA FusedCover ==
  ASSUME NEW l, NEW k, IsRanking(l), IsRanking(k)
  PROVE  LET fused == Take(rrf_fuse(<<l, k>>), 50)
             both == ToSet(l) \cap ToSet(k)
         IN  /\ Len(fused) = Cardinality(ToSet(fused))
             /\ ToSet(fused) = ToSet(l) \cup ToSet(k)
             /\ \A i, j \in DOMAIN fused : fused[i] \in both /\ fused[j] \notin both => i < j
<1> DEFINE I == ToSet(l) \cup ToSet(k)
           both == ToSet(l) \cap ToSet(k)
           E == {Entry(x, l, k) : x \in I}
           R == {p \in E \X E : Beats(p[1], p[2])}
           order == InOrder(E, R)
           n == Cardinality(E)
           s == [i \in DOMAIN order |-> order[i].item]
<1>1. rrf_fuse(<<l, k>>) = s BY FuseIs
<1>2. Orders(R, E) BY BeatsOrders
<1>3. IsFiniteSet(I) /\ I \subseteq Int /\ Cardinality(I) \in 0 .. 4 BY RankedItems
<1>4. IsFiniteSet(E) /\ n = Cardinality(I) BY <1>3, EntriesCounted
<1>5. \A x \in I : Entry(x, l, k).item = x /\ Entry(x, l, k).score = Score(x, <<l, k>>) BY DEF Entry
<1>6. \A x \in I : Score(x, <<l, k>>) \in IF x \in both THEN Twice ELSE Once BY ScoreOf
<1>7. \A e, f \in E : <<e, f>> \in R => Beats(e, f) OBVIOUS
<1>8. \A e \in E : e.item \in I /\ e = Entry(e.item, l, k) BY <1>5
<1>9. \A x \in I : Entry(x, l, k) \in E OBVIOUS
<1> HIDE DEF E, R, I, both
<1>10. /\ order \in [1 .. n -> E]
       /\ \A e \in E : \E i \in 1 .. n : order[i] = e
       /\ \A i, j \in 1 .. n : i < j => order[i] # order[j] /\ <<order[i], order[j]>> \in R
  BY <1>2, <1>4, Listed
<1> HIDE DEF order, n
<1>11. s \in [1 .. n -> Int] /\ \A i \in 1 .. n : s[i] = order[i].item /\ s[i] \in I
  BY <1>3, <1>8, <1>10
<1> HIDE DEF s
<1>12. n \in 0 .. 4 BY <1>3, <1>4
<1>13. s \in Seq(Int) /\ Len(s) = n /\ DOMAIN s = 1 .. n BY <1>11, <1>12
<1>14. Take(s, 50) = s BY <1>12, <1>13, TakenWhole
<1>15. ToSet(s) = I
  <2>1. ASSUME NEW x \in I PROVE \E i \in 1 .. n : s[i] = x
    <3>1. PICK i \in 1 .. n : order[i] = Entry(x, l, k) BY <1>9, <1>10
    <3>2. s[i] = x BY <1>5, <1>11, <3>1
    <3> QED BY <3>2
  <2> QED BY <1>11, <1>13, <2>1 DEF ToSet
<1>16. Len(s) = Cardinality(ToSet(s)) BY <1>4, <1>13, <1>15
<1>17. ASSUME NEW i \in 1 .. n, NEW j \in 1 .. n, s[i] \in both, s[j] \notin both PROVE i < j
  <2>1. i \in Int /\ j \in Int /\ i # j BY <1>17, <1>12
  <2>2. SUFFICES ASSUME j < i PROVE FALSE BY <2>1
  <2>3. order[i] \in E /\ order[j] \in E BY <1>10
  <2>4. Beats(order[j], order[i]) BY <1>7, <1>10, <2>2, <2>3
  <2>5. order[i].score \in Twice /\ order[j].score \in Once
    <3>1. order[i] = Entry(s[i], l, k) /\ order[j] = Entry(s[j], l, k) BY <1>8, <1>11, <2>3
    <3> QED BY <1>5, <1>6, <1>11, <1>17, <3>1
  <2>6. Scaled(order[i].score) > Scaled(order[j].score) BY <2>5, ScoresScaled
  <2>7. Scaled(order[i].score) \in Int /\ Scaled(order[j].score) \in Int BY <2>5, ScoresScaled
  <2>8. ~ (Scaled(order[j].score) > Scaled(order[i].score))
        /\ Scaled(order[j].score) # Scaled(order[i].score)
    BY <2>6, <2>7
  <2> QED BY <2>4, <2>5, <2>8, ScoresScaled DEF Beats
<1> QED BY <1>1, <1>13, <1>14, <1>15, <1>16, <1>17 DEF I, both

-----------------------------------------------------------------------------
(* The documents *)

(* The order a listing of the account shows them in. *)
Newest(u, a) ==
    {p \in Visible(u, a) \X Visible(u, a) : TRANSACTION_SORTS("date_desc", p[1], p[2])}

LEMMA DateFields == ASSUME NEW d \in Document
                    PROVE  /\ d.date[1] \in Int /\ d.date[2] \in Int /\ d.date[3] \in Int
                           /\ d.date = <<d.date[1], d.date[2], d.date[3]>>
                           /\ d.id \in Int /\ IsDate(d.date)
<1>1. d.id \in Int /\ d.date \in Dates BY DEF Document
<1>2. d.date \in Int \X (1 .. 12) \X (1 .. 31) /\ d.date[3] <= monthrange(d.date[1], d.date[2])
  BY <1>1 DEF Dates
<1>3. monthrange(d.date[1], d.date[2]) \in Int BY DEF monthrange
<1> QED BY <1>1, <1>2, <1>3 DEF IsDate

LEMMA NewestOrders == ASSUME DocsInv, NEW u, NEW a PROVE Orders(Newest(u, a), Visible(u, a))
<1> DEFINE V == Visible(u, a)
           R == Newest(u, a)
           Then(x, y) == NotAfter(y.date, x.date) /\ (x.date = y.date => x.id > y.id)
<1>1. \A x, y \in V : <<x, y>> \in R <=> Then(x, y) BY DEF Newest, TRANSACTION_SORTS
<1>2. \A x \in V : x \in Document /\ x \in docs BY DEF Visible, DocsInv
<1> HIDE DEF V, R
<1>3. ASSUME NEW x \in V, NEW y \in V
      PROVE  x.date = y.date <=> (x.date[1] = y.date[1] /\ x.date[2] = y.date[2] /\ x.date[3] = y.date[3])
  BY <1>2, DateFields
<1>4. \A x, y \in V : x # y => x.id # y.id BY <1>2 DEF DocsInv
<1>5. \A x \in V : x.id \in Int /\ x.date[1] \in Int /\ x.date[2] \in Int /\ x.date[3] \in Int
  BY <1>2, DateFields
<1>6. ASSUME NEW x \in V, NEW y \in V, x # y PROVE Then(x, y) <=> ~ Then(y, x)
  BY <1>3, <1>4, <1>5, <1>6 DEF NotAfter
<1>7. ASSUME NEW x \in V, NEW y \in V, NEW z \in V, Then(x, y), Then(y, z) PROVE Then(x, z)
  BY <1>3, <1>5, <1>7 DEF NotAfter
<1> HIDE DEF Then
<1>8. Orders(R, V) BY <1>1, <1>6, <1>7 DEF Orders
<1> QED BY <1>8 DEF R, V

(* What a search without a term answers. *)
LEMMA SearchAnswers ==
  ASSUME NEW u, NEW a, NEW limit \in 1 .. 500, NEW offset \in Nat
  PROVE  LET all == InOrder(Visible(u, a), Newest(u, a)) IN
         Query_search_transactions(u, a, "", limit, offset).items
            = Take(SubSeq(all, offset + 1, Len(all)), limit)
<1> DEFINE q == [[Listing(Unset, Unset, limit) EXCEPT !.search = "", !.offset = offset]
                    EXCEPT !.search = ""]
           r == [Listing(Unset, Unset, limit) EXCEPT !.search = "", !.offset = offset]
<1>1. /\ r.search = "" /\ r.from = Unset /\ r.to = Unset /\ r.category = Missing /\ r.type = ""
      /\ r.limit = limit /\ r.offset = offset /\ r.sort = "date_desc"
  BY DEF Listing
<1> HIDE DEF r
<1> DEFINE hits == {d \in _base_filters(u, a, r.from, r.to) :
                    /\ r.search = "" \/ d.merchant = r.search
                    /\ r.category = Missing \/ d.category = r.category
                    /\ r.type = "" \/ d.type = r.type}
           order == {p \in hits \X hits : TRANSACTION_SORTS(r.sort, p[1], p[2])}
           all == InOrder(hits, order)
<1>2. hits = Visible(u, a) BY <1>1 DEF _base_filters, Visible, Between
<1>3. order = Newest(u, a)
  <2> HIDE DEF hits
  <2> QED BY <1>1, <1>2 DEF Newest
<1>4. search_transactions(u, a, r).items = Take(SubSeq(all, r.offset + 1, Len(all)), r.limit)
  <2>1. all = Sorted(hits, LAMBDA x, y : TRANSACTION_SORTS(r.sort, x, y)) BY DEF Sorted
  <2> HIDE DEF all
  <2>2. search_transactions(u, a, r) =
           [total |-> Len(all), items |-> Take(SubSeq(all, r.offset + 1, Len(all)), r.limit)]
    BY <2>1, Zenon DEF search_transactions
  <2> HIDE DEF all
  <2> QED BY <2>2
<1>5. Query_search_transactions(u, a, "", limit, offset) = get_transactions(u, a, r)
  BY DEF Query_search_transactions, client_search_transactions, r
<1>6. get_transactions(u, a, r) = search_transactions(u, a, r)
  <2> HIDE DEF hits, order, all
  <2>a. r.limit = limit /\ r.offset = offset BY <1>1
  <2>0. r.limit \in 1 .. 500 /\ r.offset >= 0 BY <2>a
  <2>1. Ordered(r) BY <1>1 DEF Ordered
  <2> QED BY <2>0, <2>1 DEF get_transactions, SearchTransactions
<1> QED BY <1>1, <1>2, <1>3, <1>4, <1>5, <1>6

(* One more page than there are documents. *)
LEMMA Pages ==
  ASSUME NEW S, NEW n \in Nat, NEW s \in [1 .. n -> S]
  PROVE  /\ \A i \in 1 .. n : Take(SubSeq(s, i, n), 1) = <<s[i]>>
         /\ Take(SubSeq(s, n + 1, n), 1) = <<>>
<1>1. ASSUME NEW i \in 1 .. n PROVE Take(SubSeq(s, i, n), 1) = <<s[i]>>
  <2> DEFINE t == SubSeq(s, i, n)
  <2>1. /\ i \in Int /\ i <= n /\ \A j \in i .. n : s[j] \in S
        /\ 1 \in 1 .. (n - i + 1) /\ i + 1 - 1 = i
    OBVIOUS
  <2>2. t \in Seq(S) /\ Len(t) = n - i + 1 /\ t[1] = s[i] BY <2>1, SubSeqProperties
  <2> HIDE DEF t
  <2>3. (IF 1 < Len(t) THEN 1 ELSE Len(t)) = 1 /\ Len(t) >= 1 BY <2>1, <2>2
  <2>4. SubSeq(t, 1, 1) = <<t[1]>>
    <3>1. 1 \in 1 .. Len(t) BY <2>3
    <3>2. SubSeq(t, 1, 1) = <<t[1]>> \o SubSeq(t, 2, 1) BY <2>2, <3>1, SubSeqRecursiveFirst
    <3>3. SubSeq(t, 2, 1) = <<>> BY SubSeqEmpty
    <3>4. <<t[1]>> \in Seq({t[1]}) OBVIOUS
    <3> QED BY <3>2, <3>3, <3>4, ConcatEmptySeq
  <2>5. Take(t, 1) = <<s[i]>> BY <2>2, <2>3, <2>4 DEF Take
  <2> QED BY <2>5 DEF t
<1>2. Take(SubSeq(s, n + 1, n), 1) = <<>>
  <2> DEFINE t == SubSeq(s, n + 1, n)
  <2>1. t = <<>> BY SubSeqEmpty
  <2> HIDE DEF t
  <2>2. Len(t) = 0 /\ (IF 1 < Len(t) THEN 1 ELSE Len(t)) = 0 BY <2>1
  <2>3. SubSeq(t, 1, 0) = <<>> BY SubSeqEmpty
  <2>4. Take(t, 1) = <<>> BY <2>2, <2>3 DEF Take
  <2> QED BY <2>4 DEF t
<1> QED BY <1>1, <1>2

(* Every second ranking of some of the items, and the first two items. *)
LEMMA RankingsRank ==
  ASSUME NEW I \in SUBSET Int, NEW k \in Rankings(I)
  PROVE  IsRanking(k)
<1>1. CASE k \in {<<i>> : i \in I}
  <2>1. PICK i \in I : k = <<i>> BY <1>1
  <2> QED BY <2>1 DEF IsRanking
<1>2. CASE k \in {r \in I \X I : r[1] # r[2]}
  <2>1. k \in I \X I /\ k[1] # k[2] BY <1>2
  <2>2. k = <<k[1], k[2]>> BY <2>1
  <2>3. k[1] \in I /\ k[2] \in I BY <2>1
  <2>4. k[1] \in Int /\ k[2] \in Int BY <2>3
  <2>5. k \in Seq(Int)
    <3>1. \A a, b \in Int : <<a, b>> \in Seq(Int) OBVIOUS
    <3>2. <<k[1], k[2]>> \in Seq(Int) BY <2>4, <3>1
    <3> QED BY <2>2, <3>2
  <2>6. Len(k) = 2
    <3>1. Len(<<k[1], k[2]>>) = 2 OBVIOUS
    <3> QED BY <2>2, <3>1
  <2> QED BY <2>1, <2>5, <2>6 DEF IsRanking
<1> QED BY <1>1, <1>2 DEF Rankings

LEMMA InWindow == ASSUME NEW s, IsRanking(s) PROVE Take(s, RRF_WINDOW) = s
<1>1. s \in Seq(Int) /\ Len(s) \in {1, 2} BY DEF IsRanking
<1>2. Len(s) <= 50
  <2>1. CASE Len(s) = 1 BY <2>1
  <2>2. CASE Len(s) = 2 BY <2>2
  <2> QED BY <1>1, <2>1, <2>2
<1>3. RRF_WINDOW \in Nat /\ RRF_WINDOW = 50 BY DEF RRF_WINDOW
<1> QED BY <1>1, <1>2, <1>3, TakenWhole

(* What post_hybrid_search answers when it may. *)
LEMMA FusedAnswer ==
  ASSUME NEW u, NEW a, NEW l, NEW k, IsRanking(l), IsRanking(k)
  PROVE  post_hybrid_search(u, AllTime(a), <<l, k>>) = Take(rrf_fuse(<<l, k>>), 50)
<1> DEFINE q == AllTime(a)
           both == <<l, k>>
           taken == [c \in DOMAIN both |-> Take(both[c], RRF_WINDOW)]
<1>1. q.limit = 50 /\ q.from = Unset BY DEF AllTime
<1>2. taken = both
  <2>1. both[1] = l /\ both[2] = k /\ DOMAIN both = {1, 2} OBVIOUS
  <2>2. Take(l, RRF_WINDOW) = l /\ Take(k, RRF_WINDOW) = k BY InWindow
  <2>3. both \in Seq({l, k}) OBVIOUS
  <2> HIDE DEF both
  <2>4. both = [c \in DOMAIN both |-> both[c]] BY <2>3
  <2>5. \A c \in DOMAIN both : Take(both[c], RRF_WINDOW) = both[c] BY <2>1, <2>2
  <2> QED BY <2>4, <2>5
<1> HIDE DEF q
<1>3. hybrid_search_transactions(u, q, both) = Take(rrf_fuse(taken), q.limit)
  BY DEF hybrid_search_transactions
<1>4. Ordered(q) BY <1>1 DEF Ordered
<1> HIDE DEF both, taken
<1>5. post_hybrid_search(u, q, both) = hybrid_search_transactions(u, q, both)
  BY <1>1, <1>4 DEF post_hybrid_search, HybridSearch
<1>6. post_hybrid_search(u, q, both) = Take(rrf_fuse(both), 50) BY <1>1, <1>2, <1>3, <1>5
<1> QED BY <1>6 DEF q, both

LEMMA DocsPaged == ASSUME DocsInv, NEW u, NEW a PROVE PagesCover(u, a)
<1> DEFINE V == Visible(u, a)
           R == Newest(u, a)
           n == Cardinality(V)
           s == InOrder(V, R)
           p(i) == Page(u, a, i)
<1>1. V \subseteq docs /\ IsFiniteSet(V) BY FS_Subset DEF DocsInv, Visible
<1>2. \A d, e \in V : <<d, e>> \in R => NotAfter(e.date, d.date) BY DEF Newest, TRANSACTION_SORTS
<1>3. /\ n \in Nat /\ s \in [1 .. n -> V]
      /\ \A x \in V : \E i \in 1 .. n : s[i] = x
      /\ \A i, j \in 1 .. n : i < j => s[i] # s[j] /\ <<s[i], s[j]>> \in R
  BY <1>1, NewestOrders, Listed
<1>4. \A offset \in Nat : Query_search_transactions(u, a, "", 1, offset).items
                             = Take(SubSeq(s, offset + 1, Len(s)), 1)
  <2> SUFFICES ASSUME NEW offset \in Nat
               PROVE  Query_search_transactions(u, a, "", 1, offset).items
                        = Take(SubSeq(s, offset + 1, Len(s)), 1)
    OBVIOUS
  <2>1. PICK limit \in 1 .. 500 : limit = 1 OBVIOUS
  <2>2. Query_search_transactions(u, a, "", limit, offset).items
           = Take(SubSeq(s, offset + 1, Len(s)), limit)
    BY SearchAnswers
  <2> QED BY <2>1, <2>2
<1> HIDE DEF V, R, n, s
<1>5. ASSUME NEW i \in 1 .. (n + 1) PROVE p(i) = Take(SubSeq(s, i, n), 1)
  <2>1. i - 1 \in Nat /\ (i - 1) + 1 = i BY <1>3
  <2>2. Len(s) = n BY <1>3
  <2>3. p(i) = Take(SubSeq(s, (i - 1) + 1, Len(s)), 1) BY <1>4, <2>1 DEF Page
  <2> QED BY <2>1, <2>2, <2>3
<1> HIDE DEF p
<1>6. (\A i \in 1 .. n : p(i) = <<s[i]>>) /\ p(n + 1) = <<>>
  <2>1. (\A i \in 1 .. n : Take(SubSeq(s, i, n), 1) = <<s[i]>>) /\ Take(SubSeq(s, n + 1, n), 1) = <<>>
    BY <1>3, Pages
  <2>2. n + 1 \in 1 .. (n + 1) /\ \A i \in 1 .. n : i \in 1 .. (n + 1) BY <1>3
  <2> QED BY <1>5, <2>1, <2>2
<1>7. \A i \in 1 .. n : Len(p(i)) = 1 /\ p(i)[1] = s[i] BY <1>6
<1>8. {p(i)[1] : i \in 1 .. n} = V BY <1>3, <1>7
<1>9. \A i, j \in 1 .. n : i < j => NotAfter(p(j)[1].date, p(i)[1].date)
  <2>1. \A i, j \in 1 .. n : i < j => NotAfter(s[j].date, s[i].date) BY <1>2, <1>3
  <2> QED BY <1>7, <2>1
<1> QED BY <1>6, <1>7, <1>8, <1>9 DEF PagesCover, n, V, p

LEMMA DocsFused == ASSUME DocsInv, NEW u, NEW a, a # Missing PROVE FusionCovers(u, a)
<1> DEFINE found == {d.id : d \in HybridFilters(u, AllTime(a))}
<1>1. HybridFilters(u, AllTime(a)) = Visible(u, a) BY DEF HybridFilters, Visible, Between, AllTime
<1>2. found = {d.id : d \in Visible(u, a)} BY <1>1
<1>3. found \in SUBSET Int BY <1>2, DateFields DEF DocsInv, Visible
<1> HIDE DEF found
<1>4. ASSUME NEW l \in Rankings(found), NEW k \in Rankings(found)
      PROVE  LET both == ToSet(l) \cap ToSet(k)
                 fused == post_hybrid_search(u, AllTime(a), <<l, k>>)
             IN  /\ Len(fused) = Cardinality(ToSet(fused))
                 /\ ToSet(fused) = ToSet(l) \cup ToSet(k)
                 /\ \A i, j \in DOMAIN fused : fused[i] \in both /\ fused[j] \notin both => i < j
  <2>1. IsRanking(l) /\ IsRanking(k) BY <1>3, RankingsRank
  <2>2. post_hybrid_search(u, AllTime(a), <<l, k>>) = Take(rrf_fuse(<<l, k>>), 50)
    BY <2>1, FusedAnswer
  <2> QED BY <2>1, <2>2, FusedCover
<1> QED BY <1>2, <1>4 DEF FusionCovers, found

LEMMA DocsCover == DocsInv => SearchesCover
BY DocsPaged, DocsFused DEF SearchesCover

(* A search answers everything it should and nothing twice: whatever is    *)
(* indexed or tombstoned, the pages of an account's transactions show each *)
(* visible one once, newest first, and rrf_fuse puts everything either     *)
(* branch ranked into its answer once, what both ranked first.             *)
THEOREM SearchesComplete == Spec => []SearchesCover
<1>1. DashboardInv => SearchesCover BY DocsCover DEF DashboardInv
<1>2. QED BY <1>1, DashboardInvariance, PTL

-----------------------------------------------------------------------------
(* The budget calendar is consistent for every date and every start day:   *)
(* the two directions of the calculation, and the histogram's buckets,     *)
(* name the same month.                                                    *)

\* Every calendar month is long enough to hold every allowed start day.
LEMMA MonthIsLongEnough ==
  ASSUME NEW y \in Int, NEW m \in 1 .. 12
  PROVE  monthrange(y, m) \in MAX_START_DAY .. 31
  BY DEF monthrange, MAX_START_DAY

\* The start day used by every calculation lies between the two limits.
LEMMA ClampInRange ==
  ASSUME NEW s \in Int
  PROVE  _clamp_start_day(s) \in 1 .. 28
  BY DEF _clamp_start_day, MIN_START_DAY, MAX_START_DAY

\* Going to the next month and back is the identity, both ways.
LEMMA MonthsInverse ==
  ASSUME NEW y \in Int, NEW m \in 1 .. 12
  PROVE  /\ _prev_month(y, m)[1] \in Int /\ _prev_month(y, m)[2] \in 1 .. 12
         /\ _next_month(y, m)[1] \in Int /\ _next_month(y, m)[2] \in 1 .. 12
         /\ _next_month(_prev_month(y, m)[1], _prev_month(y, m)[2]) = <<y, m>>
         /\ _prev_month(_next_month(y, m)[1], _next_month(y, m)[2]) = <<y, m>>
  BY DEF _prev_month, _next_month

\* determine_budget_month and budget_period agree: a day lies in the period of
\* a budget month exactly when that month is the one the day is assigned to.
\* So every transaction is counted in one and only one budget month, whatever
\* the account's start day (even one outside 1..28, which is clamped).
THEOREM PeriodsPartitionDays ==
  ASSUME NEW ty \in Int, NEW tm \in 1 .. 12, NEW td \in 1 .. monthrange(ty, tm),
         NEW y \in Int, NEW m \in 1 .. 12, NEW s \in Int
  PROVE  InPeriod(<<ty, tm, td>>, budget_period(y, m, s))
           <=> determine_budget_month(<<ty, tm, td>>, s) = <<y, m>>
<1> DEFINE c == _clamp_start_day(s)
<1>1. c \in 1 .. 28 BY ClampInRange
<1>2. monthrange(ty, tm) \in 28 .. 31 /\ monthrange(y, m) \in 28 .. 31
  BY MonthIsLongEnough DEF MAX_START_DAY
<1>3. td \in 1 .. 31 BY <1>2
<1> HIDE DEF c
<1>4. CASE c = 1
  <2>1. budget_period(y, m, s) = <<<<y, m, 1>>, <<y, m, monthrange(y, m)>>>>
    BY <1>4 DEF budget_period, c
  <2>2. determine_budget_month(<<ty, tm, td>>, s) = <<ty, tm>>
    BY <1>4 DEF determine_budget_month, c
  <2>3. InPeriod(<<ty, tm, td>>, <<<<y, m, 1>>, <<y, m, monthrange(y, m)>>>>)
          <=> ty = y /\ tm = m
    <3>1. ASSUME ty = y, tm = m PROVE td <= monthrange(y, m)
      BY <3>1, <1>2, <1>3
    <3>2. QED BY <3>1, <1>2, <1>3 DEF InPeriod, NotAfter
  <2>4. QED BY <2>1, <2>2, <2>3
<1>5. CASE c # 1
  <2>1. budget_period(y, m, s)
          = <<<<_prev_month(y, m)[1], _prev_month(y, m)[2], c>>, <<y, m, c - 1>>>>
    BY <1>5 DEF budget_period, c
  <2>2. determine_budget_month(<<ty, tm, td>>, s)
          = IF td >= c THEN _next_month(ty, tm) ELSE <<ty, tm>>
    BY <1>5 DEF determine_budget_month, c
  <2>3. CASE m = 1
    <3>1. _prev_month(y, m) = <<y - 1, 12>> BY <2>3 DEF _prev_month
    <3>2. QED BY <1>1, <1>3, <1>5, <2>1, <2>2, <2>3, <3>1
              DEF InPeriod, NotAfter, _next_month
  <2>4. CASE m # 1
    <3>1. _prev_month(y, m) = <<y, m - 1>> BY <2>4 DEF _prev_month
    <3>2. QED BY <1>1, <1>3, <1>5, <2>1, <2>2, <2>4, <3>1
              DEF InPeriod, NotAfter, _next_month
  <2>5. QED BY <2>3, <2>4
<1>6. QED BY <1>4, <1>5

\* The bucket Elasticsearch puts a day in carries the label of the budget month
\* the rest of the system assigns that day to (expenses_by_month and
\* cashflow_by_month label buckets with histogram_bucket_to_budget_month).
THEOREM BucketsNameBudgetMonths ==
  ASSUME NEW ty \in Int, NEW tm \in 1 .. 12, NEW td \in 1 .. monthrange(ty, tm),
         NEW s \in 1 .. 28
  PROVE  histogram_bucket_to_budget_month(date_histogram(<<ty, tm, td>>, s), s)
           = determine_budget_month(<<ty, tm, td>>, s)
<1>1. _clamp_start_day(s) = s
  BY DEF _clamp_start_day, MIN_START_DAY, MAX_START_DAY
<1>2. td \in 1 .. 31 BY MonthIsLongEnough DEF MAX_START_DAY
<1>3. CASE td >= s
  BY <1>1, <1>2, <1>3 DEF histogram_bucket_to_budget_month, date_histogram,
                          determine_budget_month
<1>4. CASE td < s
  <2>1. date_histogram(<<ty, tm, td>>, s)
          = <<_prev_month(ty, tm)[1], _prev_month(ty, tm)[2], s>>
    BY <1>2, <1>4 DEF date_histogram
  <2>2. s # 1 BY <1>2, <1>4
  <2>3. determine_budget_month(<<ty, tm, td>>, s) = <<ty, tm>>
    BY <1>1, <1>2, <1>4 DEF determine_budget_month
  <2>4. histogram_bucket_to_budget_month(date_histogram(<<ty, tm, td>>, s), s)
          = _next_month(_prev_month(ty, tm)[1], _prev_month(ty, tm)[2])
    BY <1>1, <2>1, <2>2 DEF histogram_bucket_to_budget_month, determine_budget_month
  <2>5. QED BY <2>3, <2>4, MonthsInverse
<1>5. QED BY <1>2, <1>3, <1>4


-----------------------------------------------------------------------------
(* Months in a row *)

IsMonth(m) == m = <<m[1], m[2]>> /\ m[1] \in Int /\ m[2] \in 1 .. 12

Index(m) == 12 * m[1] + m[2]

(* A month's index names the month. *)
LEMMA MonthsIndexed ==
  ASSUME NEW m, NEW k, IsMonth(m), IsMonth(k), Index(m) = Index(k)
  PROVE  m = k
<1>1. m[1] = k[1] /\ m[2] = k[2] BY DEF IsMonth, Index
<1> QED BY <1>1 DEF IsMonth

(* determine_budget_month names a month. *)
LEMMA MonthOfDay ==
  ASSUME NEW d, IsDate(d), NEW s \in 1 .. 28
  PROVE  /\ IsMonth(determine_budget_month(d, s))
         /\ Index(determine_budget_month(d, s)) = 12 * d[1] + d[2] + (IF s # 1 /\ d[3] >= s THEN 1 ELSE 0)
<1>1. d[1] \in Int /\ d[2] \in 1 .. 12 BY DEF IsDate
<1>2. _clamp_start_day(s) = s BY DEF _clamp_start_day, MIN_START_DAY, MAX_START_DAY
<1>3. determine_budget_month(d, s) = IF s # 1 /\ d[3] >= s THEN _next_month(d[1], d[2]) ELSE <<d[1], d[2]>>
  BY <1>2 DEF determine_budget_month
<1>4. IsMonth(<<d[1], d[2]>>) /\ Index(<<d[1], d[2]>>) = 12 * d[1] + d[2] BY <1>1 DEF IsMonth, Index
<1>5. IsMonth(_next_month(d[1], d[2])) /\ Index(_next_month(d[1], d[2])) = 12 * d[1] + d[2] + 1
  BY <1>1 DEF IsMonth, Index, _next_month
<1> HIDE DEF IsMonth, Index
<1>6. CASE s # 1 /\ d[3] >= s BY <1>3, <1>5, <1>6
<1>7. CASE ~ (s # 1 /\ d[3] >= s) BY <1>1, <1>3, <1>4, <1>7
<1> QED BY <1>6, <1>7

(* A period runs from the first day of its month to the last. *)
LEMMA PeriodEnds ==
  ASSUME NEW d, IsDate(d), NEW m, IsMonth(m), NEW s \in 1 .. 28
  PROVE  LET p == budget_period(m[1], m[2], s) IN
         /\ NotAfter(p[1], d) <=> Index(m) <= Index(determine_budget_month(d, s))
         /\ NotAfter(d, p[2]) <=> Index(determine_budget_month(d, s)) <= Index(m)
<1> DEFINE y == m[1]
           k == m[2]
<1>1. /\ d[1] \in Int /\ d[2] \in 1 .. 12 /\ d[3] \in 1 .. monthrange(d[1], d[2])
      /\ y \in Int /\ k \in 1 .. 12
  BY DEF IsDate, IsMonth
<1>2. monthrange(d[1], d[2]) \in 28 .. 31 /\ monthrange(y, k) \in 28 .. 31
  BY <1>1, MonthIsLongEnough DEF MAX_START_DAY
<1>3. d[3] \in 1 .. 31 BY <1>1, <1>2
<1>4. Index(determine_budget_month(d, s)) = 12 * d[1] + d[2] + (IF s # 1 /\ d[3] >= s THEN 1 ELSE 0)
  BY MonthOfDay
<1>5. _clamp_start_day(s) = s BY DEF _clamp_start_day, MIN_START_DAY, MAX_START_DAY
<1>6. Index(m) = 12 * y + k BY DEF Index
<1>7. CASE s = 1
  <2>1. budget_period(y, k, s) = <<<<y, k, 1>>, <<y, k, monthrange(y, k)>>>>
    BY <1>5, <1>7 DEF budget_period
  <2>2. d[1] = y /\ d[2] = k => d[3] <= monthrange(y, k) BY <1>1, <1>2, <1>3
  <2> HIDE DEF y, k
  <2>3. Index(determine_budget_month(d, s)) = 12 * d[1] + d[2] BY <1>1, <1>4, <1>7
  <2>4. NotAfter(<<y, k, 1>>, d) <=> 12 * y + k <= 12 * d[1] + d[2]
    BY <1>1, <1>3 DEF NotAfter
  <2>5. NotAfter(d, <<y, k, monthrange(y, k)>>) <=> 12 * d[1] + d[2] <= 12 * y + k
    BY <1>1, <1>2, <1>3, <2>2 DEF NotAfter
  <2> QED BY <1>6, <2>1, <2>3, <2>4, <2>5 DEF y, k
<1>8. CASE s # 1
  <2> DEFINE q == _prev_month(y, k)
  <2>1. budget_period(y, k, s) = <<<<q[1], q[2], s>>, <<y, k, s - 1>>>>
    BY <1>5, <1>8 DEF budget_period
  <2>2. q[1] \in Int /\ q[2] \in 1 .. 12 /\ 12 * q[1] + q[2] = 12 * y + k - 1
    BY <1>1 DEF _prev_month
  <2> HIDE DEF y, k, q
  <2>3. NotAfter(<<q[1], q[2], s>>, d) <=> 12 * y + k <= Index(determine_budget_month(d, s))
    BY <1>1, <1>3, <1>4, <1>8, <2>2 DEF NotAfter
  <2>4. NotAfter(d, <<y, k, s - 1>>) <=> Index(determine_budget_month(d, s)) <= 12 * y + k
    BY <1>1, <1>3, <1>4, <1>8 DEF NotAfter
  <2> QED BY <1>6, <2>1, <2>3, <2>4 DEF y, k
<1> QED BY <1>7, <1>8

(* Going back n months. *)
LEMMA MonthsGoBack ==
  ASSUME NEW m, IsMonth(m), NEW n \in Nat
  PROVE  IsMonth(MonthsBack(m, n)) /\ Index(MonthsBack(m, n)) = Index(m) - n
<1> DEFINE i == 12 * m[1] + m[2] - 1 - n
<1>1. i \in Int BY DEF IsMonth
<1>2. MonthsBack(m, n) = <<i \div 12, (i % 12) + 1>> BY DEF MonthsBack
<1>3. Index(m) - n = i + 1 BY DEF Index, IsMonth
<1> HIDE DEF i
<1>4. i \div 12 \in Int /\ i % 12 \in 0 .. 11 /\ i = 12 * (i \div 12) + (i % 12) BY <1>1
<1>5. PICK v, w : v = i \div 12 /\ w = i % 12 OBVIOUS
<1>a. v \in Int /\ w \in 0 .. 11 /\ i = 12 * v + w BY <1>4, <1>5
<1>6. IsMonth(<<v, w + 1>>) /\ Index(<<v, w + 1>>) = i + 1 BY <1>a DEF IsMonth, Index
<1> QED BY <1>2, <1>3, <1>5, <1>6

(* _prev_month steps back by one. *)
LEMMA PreviousMonth == ASSUME NEW m, IsMonth(m)
                       PROVE  _prev_month(m[1], m[2]) = MonthsBack(m, 1)
<1> DEFINE q == _prev_month(m[1], m[2])
<1>1. m[1] \in Int /\ m[2] \in 1 .. 12 BY DEF IsMonth
<1>2. IsMonth(q) /\ Index(q) = Index(m) - 1
  <2>1. q = IF m[2] = 1 THEN <<m[1] - 1, 12>> ELSE <<m[1], m[2] - 1>> BY DEF _prev_month
  <2>2. CASE m[2] = 1
    <3>1. q = <<m[1] - 1, 12>> BY <2>1, <2>2
    <3>2. IsMonth(<<m[1] - 1, 12>>) /\ Index(<<m[1] - 1, 12>>) = 12 * (m[1] - 1) + 12
      BY <1>1 DEF IsMonth, Index
    <3> QED BY <1>1, <2>2, <3>1, <3>2 DEF Index
  <2>3. CASE m[2] # 1
    <3>1. q = <<m[1], m[2] - 1>> BY <2>1, <2>3
    <3>2. IsMonth(<<m[1], m[2] - 1>>) /\ Index(<<m[1], m[2] - 1>>) = 12 * m[1] + m[2] - 1
      BY <1>1, <2>3 DEF IsMonth, Index
    <3> QED BY <1>1, <3>1, <3>2 DEF Index
  <2> QED BY <2>2, <2>3
<1>3. IsMonth(MonthsBack(m, 1)) /\ Index(MonthsBack(m, 1)) = Index(m) - 1 BY MonthsGoBack
<1> HIDE DEF q
<1> QED BY <1>2, <1>3, MonthsIndexed DEF q

(* The first bucket a period's first day falls in starts on that day, and  *)
(* the last day's too.                                                     *)
LEMMA PeriodBuckets ==
  ASSUME NEW m, IsMonth(m), NEW s \in 1 .. 28
  PROVE  LET p == budget_period(m[1], m[2], s) IN
         /\ IsDate(p[1]) /\ IsDate(p[2])
         /\ p[1] = <<p[1][1], p[1][2], s>>
         /\ date_histogram(p[1], s) = p[1] /\ date_histogram(p[2], s) = p[1]
         /\ determine_budget_month(p[1], s) = m
<1> DEFINE y == m[1]
           k == m[2]
           q == _prev_month(y, k)
           p == budget_period(y, k, s)
<1>1. y \in Int /\ k \in 1 .. 12 /\ m = <<y, k>> BY DEF IsMonth
<1>2. _clamp_start_day(s) = s BY DEF _clamp_start_day, MIN_START_DAY, MAX_START_DAY
<1>3. monthrange(y, k) \in 28 .. 31 BY <1>1, MonthIsLongEnough DEF MAX_START_DAY
<1>4. q[1] \in Int /\ q[2] \in 1 .. 12 /\ _next_month(q[1], q[2]) = <<y, k>> BY <1>1, MonthsInverse
<1>5. monthrange(q[1], q[2]) \in 28 .. 31 BY <1>4, MonthIsLongEnough DEF MAX_START_DAY
<1> HIDE DEF q
<1>6. CASE s = 1
  <2>1. p = <<<<y, k, 1>>, <<y, k, monthrange(y, k)>>>> BY <1>2, <1>6 DEF budget_period
  <2> HIDE DEF y, k, p
  <2>2. p[1] = <<y, k, 1>> /\ p[2] = <<y, k, monthrange(y, k)>> BY <2>1
  <2>3. IsDate(p[1]) /\ IsDate(p[2]) BY <1>1, <1>3, <2>2 DEF IsDate
  <2>4. date_histogram(p[1], s) = <<y, k, 1>> /\ date_histogram(p[2], s) = <<y, k, 1>>
    BY <1>3, <1>6, <2>2 DEF date_histogram
  <2>5. determine_budget_month(p[1], s) = <<y, k>> BY <1>2, <1>6, <2>2 DEF determine_budget_month
  <2> QED BY <1>1, <1>6, <2>2, <2>3, <2>4, <2>5 DEF p, y, k
<1>7. CASE s # 1
  <2>1. p = <<<<q[1], q[2], s>>, <<y, k, s - 1>>>> BY <1>2, <1>7 DEF budget_period, q
  <2> HIDE DEF y, k, p
  <2>2. p[1] = <<q[1], q[2], s>> /\ p[2] = <<y, k, s - 1>> BY <2>1
  <2>3. IsDate(p[1]) /\ IsDate(p[2])
    <3>1. s \in 1 .. monthrange(q[1], q[2]) /\ s - 1 \in 1 .. monthrange(y, k) BY <1>3, <1>5, <1>7
    <3> QED BY <1>1, <1>4, <2>2, <3>1 DEF IsDate
  <2>4. date_histogram(p[1], s) = <<q[1], q[2], s>> BY <2>2 DEF date_histogram
  <2>5. date_histogram(p[2], s) = <<q[1], q[2], s>>
    <3>1. ~ (s - 1 >= s) OBVIOUS
    <3> QED BY <2>2, <3>1 DEF date_histogram, q
  <2>6. determine_budget_month(p[1], s) = _next_month(q[1], q[2])
    BY <1>2, <1>7, <2>2 DEF determine_budget_month
  <2> QED BY <1>1, <1>4, <2>2, <2>3, <2>4, <2>5, <2>6 DEF p, y, k
<1> QED BY <1>6, <1>7

(* A window's buckets are its months', whatever their number. *)
LEMMA WindowBuckets ==
  ASSUME NEW m, IsMonth(m), NEW n \in Nat, NEW s \in 1 .. 28
  PROVE  LET k == MonthsBack(m, n)
             from == budget_period(k[1], k[2], s)[1]
             to == budget_period(m[1], m[2], s)[2]
         IN  {histogram_bucket_to_budget_month(b, s) : b \in Buckets(from, to, s)}
                = {MonthsBack(m, j) : j \in 0 .. n}
<1> DEFINE k == MonthsBack(m, n)
           p == budget_period(k[1], k[2], s)
           q == budget_period(m[1], m[2], s)
           B == Buckets(p[1], q[2], s)
<1>1. IsMonth(k) /\ Index(k) = Index(m) - n BY MonthsGoBack
<1> HIDE DEF k
<1>a. /\ IsDate(p[1]) /\ p[1] = <<p[1][1], p[1][2], s>> /\ date_histogram(p[1], s) = p[1]
      /\ determine_budget_month(p[1], s) = k
  BY <1>1, PeriodBuckets
<1>b. /\ IsDate(q[1]) /\ q[1] = <<q[1][1], q[1][2], s>> /\ date_histogram(q[2], s) = q[1]
      /\ determine_budget_month(q[1], s) = m
  BY PeriodBuckets
<1> HIDE DEF p, q
<1>c. \A x, y : <<x, y, s>>[3] = s OBVIOUS
<1>2. /\ IsDate(p[1]) /\ p[1][3] = s /\ date_histogram(p[1], s) = p[1]
      /\ determine_budget_month(p[1], s) = k
  BY <1>a, <1>c
<1>3. /\ IsDate(q[1]) /\ q[1][3] = s /\ date_histogram(q[2], s) = q[1]
      /\ determine_budget_month(q[1], s) = m
  BY <1>b, <1>c
<1> DEFINE on == IF s = 1 THEN 0 ELSE 1
           From == p[1]
           Till == q[1]
<1>4. B = {b \in {<<y, w, s>> : y \in From[1] .. Till[1], w \in 1 .. 12} :
              NotAfter(From, b) /\ NotAfter(b, Till)}
  BY <1>2, <1>3 DEF Buckets
<1>5. /\ Index(k) = 12 * From[1] + From[2] + on /\ Index(m) = 12 * Till[1] + Till[2] + on
      /\ From[1] \in Int /\ From[2] \in 1 .. 12 /\ Till[1] \in Int /\ Till[2] \in 1 .. 12
      /\ From[3] = s /\ Till[3] = s
  <2>1. From[1] \in Int /\ From[2] \in 1 .. 12 /\ Till[1] \in Int /\ Till[2] \in 1 .. 12
    BY <1>2, <1>3 DEF IsDate
  <2>2. Index(k) = 12 * From[1] + From[2] + (IF s # 1 /\ From[3] >= s THEN 1 ELSE 0) BY <1>2, MonthOfDay
  <2>3. Index(m) = 12 * Till[1] + Till[2] + (IF s # 1 /\ Till[3] >= s THEN 1 ELSE 0) BY <1>3, MonthOfDay
  <2> HIDE DEF p, q
  <2> QED BY <1>2, <1>3, <2>1, <2>2, <2>3
<1>d. on \in {0, 1} OBVIOUS
<1>e. Index(k) \in Int /\ Index(m) \in Int BY <1>5
<1> HIDE DEF From, Till, B
<1>6. ASSUME NEW y \in Int, NEW w \in 1 .. 12
      PROVE  /\ IsMonth(determine_budget_month(<<y, w, s>>, s))
             /\ Index(determine_budget_month(<<y, w, s>>, s)) = 12 * y + w + on
  <2>1. IsDate(<<y, w, s>>)
    <3>1. monthrange(y, w) \in 28 .. 31 BY MonthIsLongEnough DEF MAX_START_DAY
    <3> QED BY <3>1 DEF IsDate
  <2>2. <<y, w, s>>[1] = y /\ <<y, w, s>>[2] = w /\ <<y, w, s>>[3] = s OBVIOUS
  <2> QED BY <2>1, <2>2, MonthOfDay
<1>7. ASSUME NEW b \in B
      PROVE  histogram_bucket_to_budget_month(b, s) \in {MonthsBack(m, j) : j \in 0 .. n}
  <2>1. PICK y \in From[1] .. Till[1], w \in 1 .. 12 : b = <<y, w, s>> BY <1>4
  <2> DEFINE h == determine_budget_month(b, s)
             j == Index(m) - Index(h)
  <2>0. y \in Int BY <1>5
  <2>2. y \in Int /\ IsMonth(h) /\ Index(h) = 12 * y + w + on BY <1>6, <2>0, <2>1
  <2>3. NotAfter(From, b) /\ NotAfter(b, Till) BY <1>4
  <2>4. b[1] = y /\ b[2] = w /\ b[3] = s BY <2>1
  <2>5. 12 * From[1] + From[2] <= 12 * y + w /\ 12 * y + w <= 12 * Till[1] + Till[2]
    BY <1>5, <2>2, <2>3, <2>4 DEF NotAfter
  <2>6. j \in 0 .. n
    <3> HIDE DEF h, on
    <3>1. Index(h) \in Int /\ Index(k) <= Index(h) /\ Index(h) <= Index(m) BY <1>5, <1>d, <2>2, <2>5
    <3> QED BY <1>1, <1>e, <3>1
  <2>7. IsMonth(MonthsBack(m, j)) /\ Index(MonthsBack(m, j)) = Index(m) - j BY <2>6, MonthsGoBack
  <2>8. Index(m) - j = Index(h) BY <1>5, <2>2
  <2> HIDE DEF h, j
  <2>9. MonthsBack(m, j) = h BY <2>2, <2>7, <2>8, MonthsIndexed
  <2> QED BY <2>6, <2>9 DEF histogram_bucket_to_budget_month, h
<1>8. ASSUME NEW j \in 0 .. n
      PROVE  \E b \in B : histogram_bucket_to_budget_month(b, s) = MonthsBack(m, j)
  <2> DEFINE h == MonthsBack(m, j)
             b == budget_period(h[1], h[2], s)[1]
  <2>1. IsMonth(h) /\ Index(h) = Index(m) - j BY MonthsGoBack
  <2> HIDE DEF h
  <2>2. IsDate(b) /\ b = <<b[1], b[2], s>> /\ determine_budget_month(b, s) = h BY <2>1, PeriodBuckets
  <2> HIDE DEF b
  <2>3. b[1] \in Int /\ b[2] \in 1 .. 12 BY <2>2 DEF IsDate
  <2>4. b[3] = s BY <2>2
  <2>5. Index(h) = 12 * b[1] + b[2] + on BY <1>6, <2>2, <2>3
  <2>6. 12 * From[1] + From[2] <= 12 * b[1] + b[2] /\ 12 * b[1] + b[2] <= 12 * Till[1] + Till[2]
    <3> HIDE DEF on
    <3>1. Index(k) <= Index(h) /\ Index(h) <= Index(m) BY <1>1, <1>e, <2>1
    <3> QED BY <1>5, <1>d, <2>3, <2>5, <3>1
  <2>7. NotAfter(From, b) /\ NotAfter(b, Till) BY SMTT(30), <1>5, <2>3, <2>4, <2>6 DEF NotAfter
  <2>8. b[1] \in From[1] .. Till[1] BY <1>5, <2>3, <2>6
  <2>9. b \in {<<y, w, s>> : y \in From[1] .. Till[1], w \in 1 .. 12} BY <2>2, <2>3, <2>8
  <2> QED BY <1>4, <2>2, <2>7, <2>9 DEF histogram_bucket_to_budget_month, h
<1>9. {histogram_bucket_to_budget_month(b, s) : b \in B} = {MonthsBack(m, j) : j \in 0 .. n}
  BY <1>7, <1>8
<1> QED BY <1>9 DEF B, p, q, k

-----------------------------------------------------------------------------
(* What the reports add up *)

(* The same sums, written with a function. *)
Magnitude == [d \in Document |-> AbsoluteValue(d.amount)]

(* The function gives what the reports sum, an integer. *)
LEMMA MagnitudeIs == ASSUME NEW d \in Document
                     PROVE  Magnitude[d] = AbsoluteValue(d.amount) /\ Magnitude[d] \in Int
<1>1. d.amount \in Int BY DEF Document
<1> QED BY <1>1 DEF Magnitude, AbsoluteValue

(* SumAbs is a sum of that function. *)
LEMMA SumAbsIs ==
  ASSUME NEW D \in SUBSET Document
  PROVE  SumAbs(D) = SumOver(Magnitude, D)
<1> DEFINE A(it) == [s \in SUBSET D |-> IF s = {} THEN 0
                                        ELSE AbsoluteValue(Pick(s).amount) + it[s \ {Pick(s)}]]
           B(it) == [s \in SUBSET D |-> Adding(Magnitude, it, s)]
<1>1. SumAbs(D) = (CHOOSE it : it = A(it))[D]
  BY DEF SumAbs, MapThenSumSet, MapThenFoldSet, Pick
<1>2. \A it : A(it) = B(it)
  <2>1. \A s \in SUBSET D : s # {} => Magnitude[Pick(s)] = AbsoluteValue(Pick(s).amount)
    BY PickIn, MagnitudeIs
  <2> QED BY <2>1 DEF Adding
<1> HIDE DEF A, B
<1>3. (CHOOSE it : it = A(it)) = (CHOOSE it : it = B(it)) BY <1>2
<1>4. SumOver(Magnitude, D) = (CHOOSE it : it = B(it))[D] BY DEF SumOver, Fold, B
<1> QED BY <1>1, <1>3, <1>4

(* Total_expenses of a list of rows, as the sum of a function. *)
LEMMA TotalIs ==
  ASSUME NEW rows
  PROVE  Total(rows) = SumOver([i \in DOMAIN rows |-> rows[i].amount], DOMAIN rows)
<1> DEFINE D == DOMAIN rows
           f == [i \in D |-> rows[i].amount]
           A(it) == [s \in SUBSET D |-> IF s = {} THEN 0
                                        ELSE rows[Pick(s)].amount + it[s \ {Pick(s)}]]
           B(it) == [s \in SUBSET D |-> Adding(f, it, s)]
<1>1. Total(rows) = (CHOOSE it : it = A(it))[D]
  BY DEF Total, MapThenSumSet, MapThenFoldSet, Pick
<1>2. \A it : A(it) = B(it)
  <2>1. \A s \in SUBSET D : s # {} => f[Pick(s)] = rows[Pick(s)].amount BY PickIn
  <2> HIDE DEF f, D
  <2> QED BY <2>1 DEF Adding
<1> HIDE DEF A, B
<1>3. (CHOOSE it : it = A(it)) = (CHOOSE it : it = B(it)) BY <1>2
<1>4. SumOver(f, D) = (CHOOSE it : it = B(it))[D] BY DEF SumOver, Fold, B
<1> QED BY <1>1, <1>3, <1>4

(* The changes of a comparison's rows, likewise, *)
LEMMA ChangesAdd ==
  ASSUME NEW rows
  PROVE  MapThenSumSet(LAMBDA i : rows[i].change, DOMAIN rows)
            = SumOver([i \in DOMAIN rows |-> rows[i].change], DOMAIN rows)
<1> DEFINE D == DOMAIN rows
           f == [i \in D |-> rows[i].change]
           A(it) == [s \in SUBSET D |-> IF s = {} THEN 0
                                        ELSE rows[Pick(s)].change + it[s \ {Pick(s)}]]
           B(it) == [s \in SUBSET D |-> Adding(f, it, s)]
<1>1. MapThenSumSet(LAMBDA i : rows[i].change, D) = (CHOOSE it : it = A(it))[D]
  BY DEF MapThenSumSet, MapThenFoldSet, Pick
<1>2. \A it : A(it) = B(it)
  <2>1. \A s \in SUBSET D : s # {} => f[Pick(s)] = rows[Pick(s)].change BY PickIn
  <2> HIDE DEF f, D
  <2> QED BY <2>1 DEF Adding
<1> HIDE DEF A, B
<1>3. (CHOOSE it : it = A(it)) = (CHOOSE it : it = B(it)) BY <1>2
<1>4. SumOver(f, D) = (CHOOSE it : it = B(it))[D] BY DEF SumOver, Fold, B
<1> QED BY <1>1, <1>3, <1>4

(* and the expenses and the income of the cash flow's rows. *)
LEMMA FlowAdds ==
  ASSUME NEW D
  PROVE  /\ MapThenSumSet(LAMBDA r : r.expenses, D) = SumOver([r \in D |-> r.expenses], D)
         /\ MapThenSumSet(LAMBDA r : r.income, D) = SumOver([r \in D |-> r.income], D)
<1>1. MapThenSumSet(LAMBDA r : r.expenses, D) = SumOver([r \in D |-> r.expenses], D)
  <2> DEFINE f == [r \in D |-> r.expenses]
             A(it) == [s \in SUBSET D |-> IF s = {} THEN 0
                                          ELSE Pick(s).expenses + it[s \ {Pick(s)}]]
             B(it) == [s \in SUBSET D |-> Adding(f, it, s)]
  <2>1. MapThenSumSet(LAMBDA r : r.expenses, D) = (CHOOSE it : it = A(it))[D]
    BY DEF MapThenSumSet, MapThenFoldSet, Pick
  <2>2. \A it : A(it) = B(it)
    <3>1. \A s \in SUBSET D : s # {} => f[Pick(s)] = Pick(s).expenses BY PickIn
    <3> HIDE DEF f
    <3> QED BY <3>1 DEF Adding
  <2> HIDE DEF A, B
  <2>3. (CHOOSE it : it = A(it)) = (CHOOSE it : it = B(it)) BY <2>2
  <2>4. SumOver(f, D) = (CHOOSE it : it = B(it))[D] BY DEF SumOver, Fold, B
  <2> QED BY <2>1, <2>3, <2>4
<1>2. MapThenSumSet(LAMBDA r : r.income, D) = SumOver([r \in D |-> r.income], D)
  <2> DEFINE f == [r \in D |-> r.income]
             A(it) == [s \in SUBSET D |-> IF s = {} THEN 0
                                          ELSE Pick(s).income + it[s \ {Pick(s)}]]
             B(it) == [s \in SUBSET D |-> Adding(f, it, s)]
  <2>1. MapThenSumSet(LAMBDA r : r.income, D) = (CHOOSE it : it = A(it))[D]
    BY DEF MapThenSumSet, MapThenFoldSet, Pick
  <2>2. \A it : A(it) = B(it)
    <3>1. \A s \in SUBSET D : s # {} => f[Pick(s)] = Pick(s).income BY PickIn
    <3> HIDE DEF f
    <3> QED BY <3>1 DEF Adding
  <2> HIDE DEF A, B
  <2>3. (CHOOSE it : it = A(it)) = (CHOOSE it : it = B(it)) BY <2>2
  <2>4. SumOver(f, D) = (CHOOSE it : it = B(it))[D] BY DEF SumOver, Fold, B
  <2> QED BY <2>1, <2>3, <2>4
<1> QED BY <1>1, <1>2

(* Documents add up to an integer, none of them to zero, and all of them   *)
(* to what their groups add up to.                                         *)
LEMMA AbsAdds ==
  ASSUME NEW D \in SUBSET Document, IsFiniteSet(D)
  PROVE  SumAbs(D) \in Int /\ (D = {} => SumAbs(D) = 0)
<1>1. \A d \in D : Magnitude[d] \in Int BY MagnitudeIs
<1>2. SumOver(Magnitude, D) \in Int BY <1>1, SumInt
<1>3. SumAbs(D) = SumOver(Magnitude, D) BY SumAbsIs
<1>4. D = {} => SumOver(Magnitude, D) = 0 BY SumEmpty
<1> QED BY <1>2, <1>3, <1>4

(* Documents grouped by a label add up to what the groups do. *)
LEMMA AbsGrouped ==
  ASSUME NEW D \in SUBSET Document, IsFiniteSet(D), NEW C, IsFiniteSet(C),
         NEW key, \A d \in D : key[d] \in C,
         NEW g, \A c \in C : g[c] = SumAbs(Having(D, key, c))
  PROVE  SumOver(g, C) = SumAbs(D)
<1>1. \A d \in D : Magnitude[d] \in Int BY MagnitudeIs
<1>2. \A c : Having(D, key, c) \in SUBSET Document BY DEF Having
<1>3. \A c \in C : g[c] = SumOver(Magnitude, Having(D, key, c)) BY <1>2, SumAbsIs
<1>4. SumOver(g, C) = SumOver(Magnitude, D) BY <1>1, <1>3, SumGrouped
<1> QED BY <1>4, SumAbsIs

(* A sorted list adds up to what its members do. *)
LEMMA ListAdds ==
  ASSUME NEW S, IsFiniteSet(S), NEW R, Orders(R, S), NEW f, \A x \in S : f[x] \in Int,
         NEW g, \A i \in 1 .. Cardinality(S) : g[i] = f[InOrder(S, R)[i]]
  PROVE  SumOver(g, 1 .. Cardinality(S)) = SumOver(f, S)
<1> DEFINE n == Cardinality(S)
           s == InOrder(S, R)
           I == 1 .. n
<1>1. /\ n \in Nat /\ s \in [1 .. n -> S]
      /\ \A x \in S : \E i \in 1 .. n : s[i] = x
      /\ \A i, j \in 1 .. n : i < j => s[i] # s[j] /\ <<s[i], s[j]>> \in R
  BY Listed
<1> HIDE DEF n, s
<1>2. IsFiniteSet(I) BY <1>1, FS_Interval
<1>3. Renames(s, I, S)
  <2>1. \A i, j \in I : s[i] = s[j] => i = j
    <3> SUFFICES ASSUME NEW i \in I, NEW j \in I, i # j PROVE s[i] # s[j] OBVIOUS
    <3>1. i < j \/ j < i OBVIOUS
    <3> QED BY <1>1, <3>1
  <2> QED BY <1>1, <2>1 DEF Renames
<1>4. \A i \in I : g[i] = f[s[i]] /\ g[i] \in Int BY <1>1 DEF n, s
<1> HIDE DEF I
<1>5. SumOver(g, I) = SumOver(f, S) BY <1>2, <1>3, <1>4, SumRenamed
<1> QED BY <1>5 DEF I, n

-----------------------------------------------------------------------------
(* Documents by month *)

(* The visible documents of the months from k to m. *)
From(u, a, k, m, s) ==
    {d \in Visible(u, a) : /\ Index(k) <= Index(determine_budget_month(d.date, s))
                           /\ Index(determine_budget_month(d.date, s)) <= Index(m)}

OfMonth(D, m, s) == {d \in D : determine_budget_month(d.date, s) = m}

Month(u, a, m, s) == {d \in Visible(u, a) : determine_budget_month(d.date, s) = m}

(* The documents a query may see are finitely many, and well-formed. *)
LEMMA VisibleFinite == ASSUME DocsInv, NEW u, NEW a
                       PROVE  Visible(u, a) \in SUBSET Document /\ IsFiniteSet(Visible(u, a))
<1>1. Visible(u, a) \subseteq docs BY DEF Visible
<1> QED BY <1>1, FS_Subset DEF DocsInv

(* Both ends of a budget_period are dates, so a window always filters. *)
LEMMA PeriodThere ==
  ASSUME NEW m, IsMonth(m), NEW s \in 1 .. 28
  PROVE  LET p == budget_period(m[1], m[2], s) IN
         p[1] # Unset /\ p[2] # Unset /\ IsDate(p[1]) /\ IsDate(p[2])
<1> DEFINE p == budget_period(m[1], m[2], s)
<1>1. \A x, y, z : <<x, y, z>> # <<>> OBVIOUS
<1>2. \A x, y : <<x, y>>[1] = x /\ <<x, y>>[2] = y OBVIOUS
<1>3. p[1] # Unset /\ p[2] # Unset
  <2>1. CASE _clamp_start_day(s) = 1
    <3>1. p = <<<<m[1], m[2], 1>>, <<m[1], m[2], monthrange(m[1], m[2])>>>>
      BY <2>1 DEF budget_period
    <3> HIDE DEF p
    <3> QED BY <1>1, <1>2, <3>1 DEF Unset
  <2>2. CASE _clamp_start_day(s) # 1
    <3> DEFINE q == _prev_month(m[1], m[2])
               c == _clamp_start_day(s)
    <3>1. p = <<<<q[1], q[2], c>>, <<m[1], m[2], c - 1>>>>
      BY <2>2 DEF budget_period
    <3> HIDE DEF p, q, c
    <3> QED BY <1>1, <1>2, <3>1 DEF Unset
  <2> QED BY <2>1, <2>2
<1> QED BY <1>3, PeriodBuckets

(* The window of some months shows exactly their documents, *)
LEMMA WindowShows ==
  ASSUME DocsInv, NEW u, NEW a, NEW k, IsMonth(k), NEW m, IsMonth(m), NEW s \in 1 .. 28
  PROVE  _base_filters(u, a, budget_period(k[1], k[2], s)[1], budget_period(m[1], m[2], s)[2])
            = From(u, a, k, m, s)
<1> DEFINE from == budget_period(k[1], k[2], s)[1]
           to == budget_period(m[1], m[2], s)[2]
<1>1. from # Unset /\ to # Unset BY PeriodThere
<1>2. \A d \in docs : IsDate(d.date) BY DateFields DEF DocsInv
<1>3. ASSUME NEW d \in docs
      PROVE  /\ NotAfter(from, d.date) <=> Index(k) <= Index(determine_budget_month(d.date, s))
             /\ NotAfter(d.date, to) <=> Index(determine_budget_month(d.date, s)) <= Index(m)
  BY <1>2, PeriodEnds
<1> HIDE DEF from, to
<1>4. _base_filters(u, a, from, to) = From(u, a, k, m, s)
  BY <1>1, <1>3 DEF _base_filters, From, Visible, Between
<1> QED BY <1>4 DEF from, to

(* and one month's those of the month. *)
LEMMA MonthShows ==
  ASSUME DocsInv, NEW u, NEW a, NEW m, IsMonth(m), NEW s \in 1 .. 28
  PROVE  /\ From(u, a, m, m, s) = Month(u, a, m, s)
         /\ \A k : IsMonth(k) /\ Index(k) <= Index(m) => Month(u, a, m, s) \subseteq From(u, a, k, m, s)
         /\ \A k : IsMonth(k) /\ Index(m) <= Index(k) => Month(u, a, m, s) \subseteq From(u, a, m, k, s)
<1>1. \A d \in Visible(u, a) : IsDate(d.date) BY DateFields DEF DocsInv, Visible
<1>2. ASSUME NEW d \in Visible(u, a)
      PROVE  /\ IsMonth(determine_budget_month(d.date, s))
             /\ Index(determine_budget_month(d.date, s)) \in Int
  <2>1. IsMonth(determine_budget_month(d.date, s)) BY <1>1, MonthOfDay
  <2> QED BY <2>1 DEF IsMonth, Index
<1>3. Index(m) \in Int BY DEF IsMonth, Index
<1>4. \A d \in Visible(u, a) : Index(determine_budget_month(d.date, s)) = Index(m)
                                 <=> determine_budget_month(d.date, s) = m
  BY <1>2, MonthsIndexed
<1> QED BY <1>2, <1>3, <1>4 DEF From, Month

(* A bucket's label is the month. *)
LEMMA BucketIsMonth ==
  ASSUME NEW d \in Document, NEW s \in 1 .. 28
  PROVE  BudgetMonth(d, s) = determine_budget_month(d.date, s)
<1>1. d.date = <<d.date[1], d.date[2], d.date[3]>> /\ IsDate(d.date) BY DateFields
<1>2. PICK y \in Int, w \in 1 .. 12, k \in 1 .. monthrange(d.date[1], d.date[2]) :
         d.date = <<y, w, k>> /\ y = d.date[1] /\ w = d.date[2]
  BY <1>1 DEF IsDate
<1>3. k \in 1 .. monthrange(y, w) BY <1>2
<1>4. histogram_bucket_to_budget_month(date_histogram(<<y, w, k>>, s), s)
           = determine_budget_month(<<y, w, k>>, s)
  BY <1>3, BucketsNameBudgetMonths
<1> QED BY <1>2, <1>4 DEF BudgetMonth

(* The three months of the dashboard: what they show is what each shows.   *)
LastThree(now) == {MonthsBack(now, n) : n \in 0 .. 2}

(* The window of the dashboard is that of its three months. *)
LEMMA MonthsOfWindow ==
  ASSUME DocsInv, NEW u, NEW a, NEW now, IsMonth(now), NEW s \in 1 .. 28
  PROVE  /\ \A m \in LastThree(now) :
               /\ IsMonth(m)
               /\ OfMonth(From(u, a, MonthsBack(now, 2), now, s), m, s) = Month(u, a, m, s)
         /\ \A d \in From(u, a, MonthsBack(now, 2), now, s) :
               determine_budget_month(d.date, s) \in LastThree(now)
         /\ IsFiniteSet(LastThree(now))
<1> DEFINE W == From(u, a, MonthsBack(now, 2), now, s)
           M == {MonthsBack(now, n) : n \in 0 .. 2}
<1>1. \A n \in 0 .. 2 : IsMonth(MonthsBack(now, n)) /\ Index(MonthsBack(now, n)) = Index(now) - n
  BY MonthsGoBack
<1>2. Index(now) \in Int BY DEF IsMonth, Index
<1>3. \A d \in Visible(u, a) : IsDate(d.date) BY DateFields DEF DocsInv, Visible
<1>4. ASSUME NEW d \in Visible(u, a)
      PROVE  /\ IsMonth(determine_budget_month(d.date, s))
             /\ Index(determine_budget_month(d.date, s)) \in Int
  <2>1. IsMonth(determine_budget_month(d.date, s)) BY <1>3, MonthOfDay
  <2> QED BY <2>1 DEF IsMonth, Index
<1>5. ASSUME NEW m \in M
      PROVE  IsMonth(m) /\ {d \in W : determine_budget_month(d.date, s) = m} = Month(u, a, m, s)
  <2>1. PICK n \in 0 .. 2 : m = MonthsBack(now, n) OBVIOUS
  <2>2. Index(m) = Index(now) - n BY <1>1, <2>1
  <2>3. Index(MonthsBack(now, 2)) <= Index(m) /\ Index(m) <= Index(now)
    <3>1. Index(MonthsBack(now, 2)) = Index(now) - 2 BY <1>1
    <3> QED BY <1>2, <2>2, <3>1
  <2> QED BY <1>1, <2>1, <2>3 DEF From, Month
<1>6. ASSUME NEW d \in W PROVE determine_budget_month(d.date, s) \in M
  <2> DEFINE h == determine_budget_month(d.date, s)
             n == Index(now) - Index(h)
  <2>0. d \in Visible(u, a) BY DEF From
  <2>1. IsMonth(h) /\ Index(h) \in Int BY <1>4, <2>0
  <2>2. Index(MonthsBack(now, 2)) <= Index(h) /\ Index(h) <= Index(now) BY DEF From
  <2> HIDE DEF h
  <2>3. Index(MonthsBack(now, 2)) = Index(now) - 2 BY <1>1
  <2>4. n \in 0 .. 2 /\ Index(now) - n = Index(h) BY <1>2, <2>1, <2>2, <2>3
  <2> HIDE DEF n
  <2>5. MonthsBack(now, n) = h BY <1>1, <2>1, <2>4, MonthsIndexed
  <2> QED BY <2>4, <2>5 DEF h
<1>7. IsFiniteSet(M)
  <2>1. M = {MonthsBack(now, 0)} \cup {MonthsBack(now, 1)} \cup {MonthsBack(now, 2)}
    <3>1. 0 .. 2 = {0, 1, 2} OBVIOUS
    <3> QED BY <3>1
  <2>2. \A x, y, z : IsFiniteSet({x} \cup {y} \cup {z})
    <3> TAKE x, y, z
    <3>1. IsFiniteSet({x}) /\ IsFiniteSet({y}) /\ IsFiniteSet({z}) BY FS_Singleton
    <3>2. IsFiniteSet({x} \cup {y}) BY <3>1, FS_Union
    <3> QED BY <3>1, <3>2, FS_Union
  <2>3. IsFiniteSet({MonthsBack(now, 0)} \cup {MonthsBack(now, 1)} \cup {MonthsBack(now, 2)}) BY <2>2
  <2> QED BY <2>1, <2>3, Zenon
<1> QED BY <1>5, <1>6, <1>7 DEF LastThree, OfMonth

-----------------------------------------------------------------------------
(* The cash flow of the dashboard *)

Now(s) == determine_budget_month(Today, s)

Shown(s) == LastThree(Now(s))

(* The row of documents under a label. *)
RowOf(D, m) == [month |-> m, income |-> SumAbs(Incomes(D)), expenses |-> SumAbs(Expenses(D)),
                net |-> SumAbs(Incomes(D)) - SumAbs(Expenses(D))]

FlowRow(u, a, m, s) == RowOf(Month(u, a, m, s), m)

(* The current budget month is a month, and today is a day. *)
LEMMA NowIsMonth == ASSUME NEW s \in 1 .. 28 PROVE IsMonth(Now(s)) /\ IsDate(Today)
<1>1. Today \in Int \X (1 .. 12) \X (1 .. 31) /\ Today[3] <= monthrange(Today[1], Today[2])
  BY DocumentsAssumption DEF Dates
<1>2. monthrange(Today[1], Today[2]) \in Int BY DEF monthrange
<1>3. IsDate(Today) BY <1>1, <1>2 DEF IsDate
<1> QED BY <1>3, MonthOfDay DEF Now

(* cashflow_by_month has a row for each of the three months, and each row
   tells the sums of its month's documents. *)
LEMMA FlowIs ==
  ASSUME DocsInv, NEW u, NEW a, NEW s \in 1 .. 28
  PROVE  Query_cashflow_by_month(u, a, 3, s) = {FlowRow(u, a, m, s) : m \in Shown(s)}
<1> DEFINE now == Now(s)
           old == MonthsBack(now, 2)
           from == budget_period(old[1], old[2], s)[1]
           to == budget_period(now[1], now[2], s)[2]
           D == _base_filters(u, a, from, to)
           B == Buckets(from, to, s)
           W == From(u, a, old, now, s)
           row(m) == RowOf({d \in D : BudgetMonth(d, s) = m}, m)
<1>1. IsMonth(now) BY NowIsMonth
<1>2. Query_cashflow_by_month(u, a, 3, s) = cashflow_by_month(u, a, from, to, s)
  <2>1. 3 \in 1 .. 60 /\ s \in 0 .. 28 /\ s # 0 /\ 3 - 1 = 2 OBVIOUS
  <2>2. _resolve_budget_start_day(u, a, s) = s BY <2>1 DEF _resolve_budget_start_day
  <2>3. get_cashflow(u, a, 3, s) = CashflowByMonth(u, a, 3, s) BY <2>1 DEF get_cashflow
  <2>4. CashflowByMonth(u, a, 3, s) = cashflow_by_month(u, a, from, to, s)
    BY <2>1, <2>2 DEF CashflowByMonth, Now
  <2> QED BY <2>3, <2>4 DEF Query_cashflow_by_month, get_cashflow_by_month
<1>3. cashflow_by_month(u, a, from, to, s)
        = {row(histogram_bucket_to_budget_month(b, s)) : b \in B}
  BY DEF cashflow_by_month, RowOf
<1>4. {histogram_bucket_to_budget_month(b, s) : b \in B} = Shown(s)
  <2>1. 2 \in Nat OBVIOUS
  <2> QED BY <1>1, <2>1, WindowBuckets DEF Shown, LastThree
<1>5. IsMonth(old) /\ D = W
  <2>1. IsMonth(old)
    <3>1. 2 \in Nat OBVIOUS
    <3> QED BY <1>1, <3>1, MonthsGoBack
  <2> HIDE DEF now, old
  <2> QED BY <1>1, <2>1, WindowShows DEF D
<1>6. ASSUME NEW m \in Shown(s)
      PROVE  {d \in D : BudgetMonth(d, s) = m} = Month(u, a, m, s)
  <2>1. W \in SUBSET Document BY VisibleFinite DEF From
  <2>2. OfMonth(W, m, s) = Month(u, a, m, s)
    <3>1. m \in LastThree(now) BY DEF Shown
    <3> HIDE DEF now
    <3> QED BY <1>1, <3>1, MonthsOfWindow
  <2> HIDE DEF W, D, now, old
  <2>3. \A d \in W : BudgetMonth(d, s) = determine_budget_month(d.date, s) BY <2>1, BucketIsMonth
  <2>4. {d \in W : BudgetMonth(d, s) = m} = OfMonth(W, m, s) BY <2>3 DEF OfMonth
  <2> QED BY <1>5, <2>2, <2>4
<1>7. \A m \in Shown(s) : row(m) = FlowRow(u, a, m, s) BY <1>6, Zenon DEF FlowRow
<1> HIDE DEF row, B
<1>8. {row(histogram_bucket_to_budget_month(b, s)) : b \in B} = {FlowRow(u, a, m, s) : m \in Shown(s)}
  <2>1. {row(histogram_bucket_to_budget_month(b, s)) : b \in B} = {row(m) : m \in Shown(s)}
    <3>1. \A b \in B : histogram_bucket_to_budget_month(b, s) \in Shown(s) BY <1>4
    <3>2. \A m \in Shown(s) : \E b \in B : m = histogram_bucket_to_budget_month(b, s) BY <1>4
    <3> QED BY <3>1, <3>2
  <2> QED BY <1>7, <2>1
<1> QED BY <1>2, <1>3, <1>8

-----------------------------------------------------------------------------
(* Windows of months *)

FirstDay(k, s) == budget_period(k[1], k[2], s)[1]

LastDay(m, s) == budget_period(m[1], m[2], s)[2]

(* A window of months starts no later than it ends, and both dates are given. *)
LEMMA WindowDates ==
  ASSUME NEW k, IsMonth(k), NEW m, IsMonth(m), Index(k) <= Index(m), NEW s \in 1 .. 28, NEW x
  PROVE  /\ NotAfter(FirstDay(k, s), LastDay(m, s))
         /\ FirstDay(k, s) # Unset /\ LastDay(m, s) # Unset
         /\ Or(FirstDay(k, s), x) = FirstDay(k, s) /\ Or(LastDay(m, s), x) = LastDay(m, s)
<1>1. FirstDay(k, s) # Unset /\ LastDay(m, s) # Unset BY PeriodThere DEF FirstDay, LastDay
<1>2. IsDate(FirstDay(k, s)) /\ determine_budget_month(FirstDay(k, s), s) = k BY PeriodBuckets DEF FirstDay
<1>3. NotAfter(FirstDay(k, s), LastDay(m, s)) <=> Index(determine_budget_month(FirstDay(k, s), s)) <= Index(m)
  BY <1>2, PeriodEnds DEF LastDay
<1> QED BY <1>1, <1>2, <1>3 DEF Or

(* What an overview of a window adds up. *)
LEMMA OverviewIs ==
  ASSUME DocsInv, NEW u, NEW a, NEW k, IsMonth(k), NEW m, IsMonth(m), Index(k) <= Index(m),
         NEW s \in 1 .. 28
  PROVE  LET r == get_financial_overview(u, a, FirstDay(k, s), LastDay(m, s))
             W == From(u, a, k, m, s)
         IN  /\ r.income = SumAbs(Incomes(W))
             /\ r.expenses = SumAbs(Expenses(W))
             /\ r.by_category = _buckets_to_category_expenses(_category_breakdown_aggs(Expenses(W)))
<1> DEFINE D == _base_filters(u, a, FirstDay(k, s), LastDay(m, s))
           W == From(u, a, k, m, s)
           r == get_financial_overview(u, a, FirstDay(k, s), LastDay(m, s))
<1>1. D = W BY WindowShows DEF FirstDay, LastDay
<1>2. r = financial_overview(u, a, FirstDay(k, s), LastDay(m, s))
  <2>1. \A x : Or(FirstDay(k, s), x) = FirstDay(k, s) /\ Or(LastDay(m, s), x) = LastDay(m, s) BY WindowDates
  <2>2. NotAfter(FirstDay(k, s), LastDay(m, s)) BY WindowDates
  <2> QED BY <2>1, <2>2 DEF get_financial_overview, get_overview, FinancialOverview
<1>3. financial_overview(u, a, FirstDay(k, s), LastDay(m, s)) =
        [income |-> SumAbs(Incomes(D)), expenses |-> SumAbs(Expenses(D)),
         net |-> SumAbs(Incomes(D)) - SumAbs(Expenses(D)),
         by_category |-> _buckets_to_category_expenses(_category_breakdown_aggs(Expenses(D))),
         balance |-> SumAbs(Incomes(D)) - SumAbs(Expenses(D)) + SumRaw(D \ (Incomes(D) \cup Expenses(D))),
         average |-> <<30 * SumAbs(Expenses(D)), months_in_period(FirstDay(k, s), LastDay(m, s))>>]
  BY DEF financial_overview
<1> HIDE DEF D, W, r
<1>4. /\ r.income = SumAbs(Incomes(D)) /\ r.expenses = SumAbs(Expenses(D))
      /\ r.by_category = _buckets_to_category_expenses(_category_breakdown_aggs(Expenses(D)))
  BY <1>2, <1>3
<1> QED BY <1>1, <1>4, Zenon DEF W, r

(* The rows by month of a window. *)
MonthRows(D, s) == {[month |-> h, expenses |-> SumAbs(OfMonth(D, h, s))] :
                        h \in {determine_budget_month(d.date, s) : d \in D}}

(* expenses_by_month has a row for each month with expenses in the window. *)
LEMMA RowsByMonth ==
  ASSUME DocsInv, NEW u, NEW a, NEW k, IsMonth(k), NEW m, IsMonth(m), Index(k) <= Index(m),
         NEW s \in 1 .. 28
  PROVE  Query_expenses_by_month(u, a, FirstDay(k, s), LastDay(m, s), s)
            = MonthRows(Expenses(From(u, a, k, m, s)), s)
<1> DEFINE from == FirstDay(k, s)
           to == LastDay(m, s)
           D == Expenses(_base_filters(u, a, from, to))
           W == Expenses(From(u, a, k, m, s))
<1>1. D = W BY WindowShows DEF FirstDay, LastDay
<1>2. Query_expenses_by_month(u, a, from, to, s) = expenses_by_month(u, a, from, to, s)
  <2>1. \A x : Or(from, x) = from /\ Or(to, x) = to BY WindowDates
  <2>2. NotAfter(from, to) BY WindowDates
  <2>3. s \in 0 .. 28 /\ s # 0 OBVIOUS
  <2>4. _resolve_budget_start_day(u, a, s) = s BY <2>3 DEF _resolve_budget_start_day
  <2> HIDE DEF from, to
  <2>5. ExpensesByMonth(u, a, from, to, s) = expenses_by_month(u, a, from, to, s)
    BY <2>1, <2>2, <2>4 DEF ExpensesByMonth
  <2> QED BY <2>3, <2>5 DEF Query_expenses_by_month, get_expenses_by_month, get_expenses
<1>3. expenses_by_month(u, a, from, to, s) =
        {[month |-> h, expenses |-> SumAbs({d \in D : BudgetMonth(d, s) = h})] :
            h \in {BudgetMonth(d, s) : d \in D}}
  BY DEF expenses_by_month
<1>4. W \in SUBSET Document BY VisibleFinite DEF From, Expenses
<1> HIDE DEF D, W, from, to
<1>5. \A d \in W : BudgetMonth(d, s) = determine_budget_month(d.date, s) BY <1>4, BucketIsMonth
<1>6. \A h : {d \in W : BudgetMonth(d, s) = h} = OfMonth(W, h, s) BY <1>5 DEF OfMonth
<1>7. {BudgetMonth(d, s) : d \in W} = {determine_budget_month(d.date, s) : d \in W} BY <1>5
<1>8. expenses_by_month(u, a, from, to, s) =
        {[month |-> h, expenses |-> SumAbs({d \in W : BudgetMonth(d, s) = h})] :
            h \in {BudgetMonth(d, s) : d \in W}}
  BY <1>1, <1>3, Zenon
<1>9. \A h : SumAbs({d \in W : BudgetMonth(d, s) = h}) = SumAbs(OfMonth(W, h, s)) BY <1>6, Zenon
<1>10. {[month |-> h, expenses |-> SumAbs({d \in W : BudgetMonth(d, s) = h})] :
            h \in {BudgetMonth(d, s) : d \in W}}
     = {[month |-> h, expenses |-> SumAbs(OfMonth(W, h, s))] :
            h \in {determine_budget_month(d.date, s) : d \in W}}
  <2> DEFINE X(h) == SumAbs({d \in W : BudgetMonth(d, s) = h})
             Y(h) == SumAbs(OfMonth(W, h, s))
             L == {BudgetMonth(d, s) : d \in W}
             M == {determine_budget_month(d.date, s) : d \in W}
  <2>1. L = M BY <1>7
  <2>2. \A h : X(h) = Y(h) BY <1>9
  <2> HIDE DEF X, Y, L, M
  <2>3. {[month |-> h, expenses |-> X(h)] : h \in L} = {[month |-> h, expenses |-> Y(h)] : h \in M}
    BY <2>1, <2>2
  <2> QED BY <2>3 DEF X, Y, L, M
<1> QED BY <1>2, <1>8, <1>10 DEF W, from, to, MonthRows

-----------------------------------------------------------------------------
(* The months of the dashboard agree *)

Window(u, a, s) == From(u, a, MonthsBack(Now(s), 2), Now(s), s)

(* Any of a window's documents are finitely many. *)
LEMMA WindowFinite ==
  ASSUME DocsInv, NEW u, NEW a, NEW k, NEW m, NEW s, NEW D, D \subseteq From(u, a, k, m, s)
  PROVE  D \in SUBSET Document /\ IsFiniteSet(D)
<1>1. D \subseteq Visible(u, a) BY DEF From
<1> QED BY <1>1, VisibleFinite, FS_Subset

(* What the months of a window add up to is what the window does. *)
LEMMA MonthsAdd ==
  ASSUME DocsInv, NEW u, NEW a, NEW s \in 1 .. 28, NEW D, D \subseteq Window(u, a, s),
         NEW g, \A m \in Shown(s) : g[m] = SumAbs(OfMonth(D, m, s))
  PROVE  SumOver(g, Shown(s)) = SumAbs(D)
<1> DEFINE key == [d \in D |-> determine_budget_month(d.date, s)]
<1>1. D \in SUBSET Document /\ IsFiniteSet(D) BY WindowFinite DEF Window
<1>2. IsFiniteSet(Shown(s)) /\ \A d \in D : key[d] \in Shown(s)
  BY NowIsMonth, MonthsOfWindow DEF Shown, Window
<1>3. \A m : Having(D, key, m) = OfMonth(D, m, s) BY DEF Having, OfMonth
<1> HIDE DEF key
<1>4. \A m \in Shown(s) : g[m] = SumAbs(Having(D, key, m)) BY <1>3
<1> QED BY <1>1, <1>2, <1>4, AbsGrouped

(* Expenses and income of a month are the month's part of the window's. *)
LEMMA Parts ==
  ASSUME DocsInv, NEW u, NEW a, NEW s \in 1 .. 28, NEW m \in Shown(s)
  PROVE  /\ OfMonth(Expenses(Window(u, a, s)), m, s) = Expenses(Month(u, a, m, s))
         /\ OfMonth(Incomes(Window(u, a, s)), m, s) = Incomes(Month(u, a, m, s))
<1>1. OfMonth(Window(u, a, s), m, s) = Month(u, a, m, s)
  BY NowIsMonth, MonthsOfWindow DEF Shown, Window
<1> DEFINE W == Window(u, a, s)
<1> HIDE DEF W
<1>2. /\ OfMonth(Expenses(W), m, s) = Expenses(OfMonth(W, m, s))
      /\ OfMonth(Incomes(W), m, s) = Incomes(OfMonth(W, m, s))
  BY DEF OfMonth, Expenses, Incomes
<1> QED BY <1>1, <1>2 DEF W

(* The rows of the cash flow add up to what the window's documents do. *)
LEMMA FlowTotals ==
  ASSUME DocsInv, NEW u, NEW a, NEW s \in 1 .. 28
  PROVE  LET flow == Query_cashflow_by_month(u, a, 3, s) IN
         /\ MapThenSumSet(LAMBDA r : r.expenses, flow) = SumAbs(Expenses(Window(u, a, s)))
         /\ MapThenSumSet(LAMBDA r : r.income, flow) = SumAbs(Incomes(Window(u, a, s)))
<1> DEFINE flow == Query_cashflow_by_month(u, a, 3, s)
           M == Shown(s)
           b == [m \in M |-> FlowRow(u, a, m, s)]
           spent == [m \in M |-> SumAbs(Expenses(Month(u, a, m, s)))]
           earned == [m \in M |-> SumAbs(Incomes(Month(u, a, m, s)))]
           E == Expenses(Window(u, a, s))
           I == Incomes(Window(u, a, s))
<1>1. flow = {FlowRow(u, a, m, s) : m \in M} BY FlowIs
<1>2. \A m \in M : /\ FlowRow(u, a, m, s).month = m
                   /\ FlowRow(u, a, m, s).expenses = spent[m]
                   /\ FlowRow(u, a, m, s).income = earned[m]
  BY DEF FlowRow, RowOf
<1>3. E \subseteq Window(u, a, s) /\ I \subseteq Window(u, a, s) BY DEF Expenses, Incomes
<1>4. IsFiniteSet(M) BY NowIsMonth, MonthsOfWindow DEF Shown
<1>5. ASSUME NEW m \in M
      PROVE  /\ spent[m] = SumAbs(OfMonth(E, m, s)) /\ spent[m] \in Int
             /\ earned[m] = SumAbs(OfMonth(I, m, s)) /\ earned[m] \in Int
  <2>1. spent[m] = SumAbs(OfMonth(E, m, s)) /\ earned[m] = SumAbs(OfMonth(I, m, s)) BY Parts
  <2>2. OfMonth(E, m, s) \subseteq Window(u, a, s) /\ OfMonth(I, m, s) \subseteq Window(u, a, s)
    BY <1>3 DEF OfMonth
  <2> HIDE DEF spent, earned, E, I
  <2>3. /\ OfMonth(E, m, s) \in SUBSET Document /\ IsFiniteSet(OfMonth(E, m, s))
        /\ OfMonth(I, m, s) \in SUBSET Document /\ IsFiniteSet(OfMonth(I, m, s))
    BY <2>2, WindowFinite DEF Window
  <2>4. SumAbs(OfMonth(E, m, s)) \in Int /\ SumAbs(OfMonth(I, m, s)) \in Int BY <2>3, AbsAdds
  <2> QED BY <2>1, <2>4
<1> HIDE DEF flow, M, spent, earned, E, I
<1>6. Renames(b, M, flow)
  <2>1. \A m \in M : b[m] = FlowRow(u, a, m, s) OBVIOUS
  <2>2. b \in [M -> flow] BY <1>1
  <2> HIDE DEF b
  <2>3. \A m, k \in M : b[m] = b[k] => m = k BY <1>2, <2>1
  <2>4. \A z \in flow : \E m \in M : b[m] = z BY <1>1, <2>1
  <2> QED BY <2>2, <2>3, <2>4 DEF Renames
<1>7. SumOver(spent, M) = SumAbs(E) /\ SumOver(earned, M) = SumAbs(I) BY <1>3, <1>5, MonthsAdd DEF M
<1> DEFINE f == [r \in flow |-> r.expenses]
           h == [r \in flow |-> r.income]
<1>8. \A m \in M : spent[m] = f[b[m]] /\ earned[m] = h[b[m]]
  <2>1. \A m \in M : FlowRow(u, a, m, s) \in flow BY <1>1
  <2> QED BY <1>2, <2>1
<1> HIDE DEF b, f, h
<1>9. SumOver(spent, M) = SumOver(f, flow) /\ SumOver(earned, M) = SumOver(h, flow)
  BY <1>4, <1>5, <1>6, <1>8, SumRenamed
<1>10. /\ MapThenSumSet(LAMBDA r : r.expenses, flow) = SumOver(f, flow)
       /\ MapThenSumSet(LAMBDA r : r.income, flow) = SumOver(h, flow)
  BY FlowAdds DEF f, h
<1> QED BY <1>7, <1>9, <1>10 DEF flow, E, I

(* The months the dashboard shows, and those before them, are months. *)
LEMMA NowShown ==
  ASSUME NEW s \in 1 .. 28
  PROVE  LET now == Now(s) old == MonthsBack(now, 2) IN
         /\ IsMonth(now) /\ IsMonth(old) /\ Index(old) <= Index(now)
         /\ \A m \in Shown(s) : IsMonth(m) /\ \A n \in Nat : IsMonth(MonthsBack(m, n))
<1> DEFINE now == Now(s)
           old == MonthsBack(now, 2)
<1>1. IsMonth(now) BY NowIsMonth
<1> HIDE DEF now
<1>2. IsMonth(old) /\ Index(old) = Index(now) - 2 BY <1>1, MonthsGoBack
<1>3. Index(now) \in Int BY <1>1 DEF Index, IsMonth
<1>4. \A n \in 0 .. 2 : n \in Nat OBVIOUS
<1>5. \A m \in Shown(s) : IsMonth(m) BY <1>1, <1>4, MonthsGoBack DEF Shown, LastThree, now
<1> HIDE DEF old
<1>6. Index(old) <= Index(now) BY <1>2, <1>3
<1>7. \A m \in Shown(s) : \A n \in Nat : IsMonth(MonthsBack(m, n)) BY <1>5, MonthsGoBack
<1> QED BY <1>1, <1>2, <1>5, <1>6, <1>7 DEF now, old

(* The overview, the cash flow and the expenses by month of the dashboard
   agree on the last three months. *)
LEMMA MonthsShown == ASSUME DocsInv, NEW u, NEW a, NEW s \in 1 .. 28 PROVE MonthsAgree(u, a, s)
<1> DEFINE now == Now(s)
           old == MonthsBack(now, 2)
           W == Window(u, a, s)
           E == Expenses(W)
           flow == Query_cashflow_by_month(u, a, 3, s)
           months == Query_expenses_by_month(u, a, FirstDay(old, s), LastDay(now, s), s)
           all == Query_financial_overview(u, a, FirstDay(old, s), LastDay(now, s))
<1>1. IsMonth(now) /\ IsMonth(old) /\ Index(old) <= Index(now) BY NowShown
<1>2. flow = {FlowRow(u, a, m, s) : m \in Shown(s)} BY FlowIs
<1>3. \A m \in Shown(s) : /\ FlowRow(u, a, m, s).month = m
                          /\ FlowRow(u, a, m, s).expenses = SumAbs(Expenses(Month(u, a, m, s)))
  BY DEF FlowRow, RowOf
<1>4. months = {[month |-> h, expenses |-> SumAbs(OfMonth(E, h, s))] :
                   h \in {determine_budget_month(d.date, s) : d \in E}}
  <2> HIDE DEF now, old
  <2>1. Query_expenses_by_month(u, a, FirstDay(old, s), LastDay(now, s), s)
           = MonthRows(Expenses(From(u, a, old, now, s)), s)
    BY <1>1, RowsByMonth
  <2> QED BY <2>1 DEF Window, now, old, MonthRows
<1>5. all.expenses = SumAbs(E) /\ all.income = SumAbs(Incomes(W))
  <2> HIDE DEF now, old
  <2>1. /\ get_financial_overview(u, a, FirstDay(old, s), LastDay(now, s)).income
             = SumAbs(Incomes(From(u, a, old, now, s)))
        /\ get_financial_overview(u, a, FirstDay(old, s), LastDay(now, s)).expenses
             = SumAbs(Expenses(From(u, a, old, now, s)))
    BY <1>1, OverviewIs
  <2> QED BY <2>1 DEF Window, now, old, Query_financial_overview
<1>6. Query_period_overview(u, a, now, s) =
         [is_current |-> TRUE, result |-> Query_current_month_overview(u, a, s)]
  BY DEF Query_period_overview, Query_current_month_overview, Now
<1>7. {r.month : r \in flow} = {MonthsBack(now, n) : n \in 0 .. 2}
  <2>1. {r.month : r \in flow} = Shown(s) BY <1>2, <1>3
  <2> QED BY <2>1 DEF Shown, LastThree
<1>8. {r.month : r \in months} \subseteq {r.month : r \in flow}
  <2>1. \A d \in E : determine_budget_month(d.date, s) \in Shown(s)
    BY NowIsMonth, MonthsOfWindow DEF Shown, Window, Expenses
  <2>2. {r.month : r \in flow} = Shown(s) BY <1>2, <1>3
  <2> HIDE DEF E, months, flow
  <2>3. \A r \in months : \E d \in E : r.month = determine_budget_month(d.date, s) BY <1>4
  <2> QED BY <2>1, <2>2, <2>3
<1>9. \A r \in flow : r.expenses # 0 => [month |-> r.month, expenses |-> r.expenses] \in months
  <2> SUFFICES ASSUME NEW r \in flow, r.expenses # 0
               PROVE  [month |-> r.month, expenses |-> r.expenses] \in months
    OBVIOUS
  <2>1. PICK m \in Shown(s) : r = FlowRow(u, a, m, s) BY <1>2
  <2>2. r.month = m /\ r.expenses = SumAbs(Expenses(Month(u, a, m, s))) BY <1>3, <2>1
  <2>3. OfMonth(E, m, s) = Expenses(Month(u, a, m, s)) BY Parts
  <2>4. OfMonth(E, m, s) # {}
    <3>1. OfMonth(E, m, s) \subseteq W BY DEF OfMonth, Expenses
    <3>2. OfMonth(E, m, s) \in SUBSET Document /\ IsFiniteSet(OfMonth(E, m, s))
      BY <3>1, WindowFinite DEF Window
    <3> HIDE DEF E
    <3>3. OfMonth(E, m, s) = {} => SumAbs(OfMonth(E, m, s)) = 0 BY <3>2, AbsAdds
    <3>4. SumAbs(OfMonth(E, m, s)) # 0 BY <2>2, <2>3
    <3> QED BY <3>3, <3>4
  <2>5. m \in {determine_budget_month(d.date, s) : d \in E} BY <2>4 DEF OfMonth
  <2> HIDE DEF E, months
  <2>6. [month |-> m, expenses |-> SumAbs(OfMonth(E, m, s))] \in months BY <1>4, <2>5
  <2> QED BY <2>2, <2>3, <2>6
<1>10. /\ MapThenSumSet(LAMBDA r : r.expenses, flow) = all.expenses
       /\ MapThenSumSet(LAMBDA r : r.income, flow) = all.income
  <2>1. /\ MapThenSumSet(LAMBDA r : r.expenses, flow) = SumAbs(E)
        /\ MapThenSumSet(LAMBDA r : r.income, flow) = SumAbs(Incomes(W))
    BY FlowTotals
  <2> QED BY <1>5, <2>1
<1> QED BY <1>6, <1>7, <1>8, <1>9, <1>10, Zenon DEF MonthsAgree, FirstDay, LastDay, Now

-----------------------------------------------------------------------------
(* Lists of rows *)

(* There are no more labels than documents. *)
LEMMA LabelsCounted ==
  ASSUME DocsInv, NEW D, D \subseteq docs, NEW key
  PROVE  /\ IsFiniteSet({key[d] : d \in D})
         /\ Cardinality({key[d] : d \in D}) <= Cardinality(docs)
         /\ Cardinality(docs) \in Nat /\ Cardinality({key[d] : d \in D}) \in Nat
<1> DEFINE C == {key[d] : d \in D}
           k == [d \in D |-> key[d]]
<1>1. IsFiniteSet(docs) /\ IsFiniteSet(D) /\ Cardinality(D) <= Cardinality(docs)
  BY FS_Subset DEF DocsInv
<1>2. Cardinality(docs) \in Nat /\ Cardinality(D) \in Nat BY <1>1, FS_CardinalityType
<1>3. k \in Surjection(D, C)
  <2>1. k \in [D -> C] OBVIOUS
  <2>2. \A c \in C : \E d \in D : k[d] = c OBVIOUS
  <2> HIDE DEF k, C
  <2> QED BY <2>1, <2>2 DEF Surjection
<1> HIDE DEF C, k
<1>4. IsFiniteSet(C) /\ Cardinality(C) <= Cardinality(D) BY <1>1, <1>3, FS_Surjection
<1>5. Cardinality(C) \in Nat BY <1>4, FS_CardinalityType
<1> QED BY <1>1, <1>2, <1>4, <1>5 DEF C

(* A list of rows, one per label, of which the limit cuts none off, adds   *)
(* up to what the labels do.                                               *)
LEMMA RowsAdd ==
  ASSUME NEW C, IsFiniteSet(C), NEW row, NEW B, Renames(row, C, B), NEW R, Orders(R, B),
         NEW n \in Nat, Cardinality(C) <= n,
         NEW value, NEW f, \A c \in C : value[c] \in Int /\ f[row[c]] = value[c]
  PROVE  /\ Take(InOrder(B, R), n) = InOrder(B, R)
         /\ DOMAIN InOrder(B, R) = 1 .. Cardinality(B)
         /\ \A g : (\A i \in 1 .. Cardinality(B) : g[i] = f[InOrder(B, R)[i]])
                      => SumOver(g, 1 .. Cardinality(B)) = SumOver(value, C)
<1> DEFINE s == InOrder(B, R)
           N == Cardinality(B)
<1>1. row \in Surjection(C, B) BY DEF Renames, Surjection
<1>2. IsFiniteSet(B) /\ N <= Cardinality(C) BY <1>1, FS_Surjection
<1>3. N \in Nat /\ s \in [1 .. N -> B] BY <1>2, Listed
<1>4. Cardinality(C) \in Nat BY FS_CardinalityType
<1>5. Take(s, n) = s
  <2> HIDE DEF s, N
  <2>1. s \in Seq(B) /\ Len(s) = N BY <1>3
  <2>2. Len(s) <= n BY <1>2, <1>3, <1>4, <2>1
  <2> QED BY <2>1, <2>2, TakenWhole
<1>6. \A r \in B : f[r] \in Int
  <2>1. \A r \in B : \E c \in C : row[c] = r BY DEF Renames
  <2> QED BY <2>1
<1>7. SumOver(value, C) = SumOver(f, B)
  <2>1. \A c \in C : value[c] = f[row[c]] /\ value[c] \in Int OBVIOUS
  <2> QED BY <2>1, SumRenamed
<1>8. ASSUME NEW g, \A i \in 1 .. N : g[i] = f[s[i]] PROVE SumOver(g, 1 .. N) = SumOver(f, B)
  BY <1>2, <1>6, <1>8, ListAdds
<1>9. DOMAIN s = 1 .. N BY <1>3
<1> QED BY <1>5, <1>7, <1>8, <1>9

Labels(D, key) == {key[d] : d \in D}

(* What the documents of each label add up to. *)
LEMMA GroupsAdd ==
  ASSUME DocsInv, NEW D, D \subseteq docs, NEW key, NEW C, IsFiniteSet(C), Labels(D, key) \subseteq C,
         NEW value, \A c \in C : value[c] = SumAbs(Having(D, key, c))
  PROVE  SumOver(value, C) = SumAbs(D) /\ \A c \in C : value[c] \in Int
<1>1. D \in SUBSET Document /\ IsFiniteSet(D) BY FS_Subset DEF DocsInv
<1>2. \A d \in D : key[d] \in C BY DEF Labels
<1>3. ASSUME NEW c \in C PROVE value[c] \in Int
  <2>1. Having(D, key, c) \in SUBSET Document /\ IsFiniteSet(Having(D, key, c))
    <3>1. Having(D, key, c) \subseteq D BY DEF Having
    <3> QED BY <1>1, <3>1, FS_Subset
  <2>2. SumAbs(Having(D, key, c)) \in Int BY <2>1, AbsAdds
  <2> QED BY <2>2
<1>4. SumOver(value, C) = SumAbs(D) BY <1>1, <1>2, AbsGrouped
<1> QED BY <1>3, <1>4

(* A sorted list of a row for each label adds up to all of them. *)
LEMMA GroupsListed ==
  ASSUME DocsInv, NEW D, D \subseteq docs, NEW key, NEW row, NEW B, Renames(row, Labels(D, key), B),
         \A c \in Labels(D, key) : row[c].amount = SumAbs(Having(D, key, c)),
         NEW R, Orders(R, B), NEW n, n = Cardinality(docs)
  PROVE  LET rows == Take(InOrder(B, R), n) IN
         \A g : (\A i \in DOMAIN rows : g[i] = rows[i].amount) => SumOver(g, DOMAIN rows) = SumAbs(D)
<1> DEFINE C == Labels(D, key)
           value == [c \in C |-> SumAbs(Having(D, key, c))]
           f == [r \in B |-> r.amount]
           s == InOrder(B, R)
           rows == Take(s, n)
<1>1. IsFiniteSet(C) /\ Cardinality(C) <= n /\ n \in Nat BY LabelsCounted DEF Labels
<1>2. SumOver(value, C) = SumAbs(D) /\ \A c \in C : value[c] \in Int
  <2>1. \A c \in C : value[c] = SumAbs(Having(D, key, c)) OBVIOUS
  <2>2. Labels(D, key) \subseteq C OBVIOUS
  <2> HIDE DEF value, C
  <2> QED BY <1>1, <2>1, <2>2, GroupsAdd
<1>3. \A c \in C : row[c].amount = value[c] /\ row[c] \in B BY DEF Renames
<1>4. Renames(row, C, B) OBVIOUS
<1> HIDE DEF C, value
<1>5. \A c \in C : value[c] \in Int /\ f[row[c]] = value[c] BY <1>2, <1>3
<1> HIDE DEF f
<1>6. /\ rows = s /\ DOMAIN s = 1 .. Cardinality(B)
      /\ \A g : (\A i \in 1 .. Cardinality(B) : g[i] = f[s[i]])
                   => SumOver(g, 1 .. Cardinality(B)) = SumOver(value, C)
  BY <1>1, <1>4, <1>5, RowsAdd
<1>7. \A i \in DOMAIN s : f[s[i]] = s[i].amount
  <2>1. IsFiniteSet(B)
    <3>1. row \in Surjection(C, B) BY <1>4 DEF Renames, Surjection
    <3> QED BY <1>1, <3>1, FS_Surjection
  <2>2. s \in [1 .. Cardinality(B) -> B] BY <2>1, Listed
  <2> QED BY <2>2 DEF f
<1> HIDE DEF s, rows
<1>8. ASSUME NEW g, \A i \in DOMAIN rows : g[i] = rows[i].amount PROVE SumOver(g, DOMAIN rows) = SumAbs(D)
  <2>1. \A i \in 1 .. Cardinality(B) : g[i] = f[s[i]] BY <1>6, <1>7, <1>8
  <2>2. SumOver(g, 1 .. Cardinality(B)) = SumOver(value, C) BY <1>6, <2>1
  <2>3. DOMAIN rows = 1 .. Cardinality(B) BY <1>6
  <2> QED BY <1>2, <2>2, <2>3
<1> QED BY <1>8 DEF rows, s

Category(D) == [d \in D |-> d.category]

(* The categories of some documents are the labels of their groups. *)
LEMMA CategoryLabels ==
  ASSUME DocsInv, NEW D, D \subseteq docs
  PROVE  /\ Labels(D, Category(docs)) = {d.category : d \in D} /\ Labels(D, Category(docs)) \subseteq Int
         /\ \A c : Having(D, Category(docs), c) = {d \in D : d.category = c}
<1>1. \A d \in D : d.category \in Int /\ Category(docs)[d] = d.category BY DEF DocsInv, Document, Category
<1> QED BY <1>1 DEF Labels, Having

(* A breakdown of few enough categories leaves none out. *)
LEMMA AllBuckets ==
  ASSUME DocsInv, NEW D, D \subseteq docs, AllListed(D)
  PROVE  _category_breakdown_aggs(D) = CategorySums(D)
<1> DEFINE C == {d.category : d \in D}
           X(c) == [category |-> c, amount |-> SumAbs({d \in D : d.category = c})]
           row == [c \in C |-> X(c)]
           B == CategorySums(D)
           Before(x) == {y \in B : BucketsBefore(y, x)}
<1>1. IsFiniteSet(C) /\ Cardinality(C) <= BreakdownSize
  <2>1. C = Labels(D, Category(docs)) BY CategoryLabels
  <2>2. IsFiniteSet(C) BY <2>1, LabelsCounted DEF Labels
  <2> QED BY <2>2 DEF AllListed
<1>2. \A c \in C : X(c).category = c OBVIOUS
<1>3. B = {X(c) : c \in C} BY DEF CategorySums
<1> HIDE DEF X, C, B
<1>4. row \in Surjection(C, B) BY <1>3 DEF Surjection
<1>5. IsFiniteSet(B) /\ Cardinality(B) <= Cardinality(C) BY <1>1, <1>4, FS_Surjection
<1>6. ASSUME NEW x \in B PROVE Cardinality(Before(x)) < BreakdownSize
  <2>1. x.category \in Int /\ x.amount \in Int
    <3>1. PICK c \in C : x = X(c) BY <1>3
    <3>2. c \in Int BY CategoryLabels DEF C
    <3>3. SumAbs({d \in D : d.category = c}) \in Int
      <4> DEFINE G == {d \in D : d.category = c}
      <4>1. IsFiniteSet(G) /\ G \in SUBSET Document BY FS_Subset DEF DocsInv
      <4> HIDE DEF G
      <4>2. SumAbs(G) \in Int BY <4>1, AbsAdds
      <4> QED BY <4>2 DEF G
    <3> QED BY <3>1, <3>2, <3>3 DEF X
  <2>2. x \notin Before(x) BY <2>1 DEF BucketsBefore
  <2>3. Before(x) \subseteq B OBVIOUS
  <2> HIDE DEF Before
  <2>4. /\ Cardinality(Before(x)) <= Cardinality(B)
        /\ Cardinality(Before(x)) # Cardinality(B)
    BY <1>5, <2>2, <2>3, FS_Subset
  <2>5. /\ Cardinality(B) \in Nat /\ Cardinality(C) \in Nat
        /\ Cardinality(Before(x)) \in Nat /\ BreakdownSize \in Nat
    BY <1>1, <1>5, <2>3, FS_Subset, FS_CardinalityType, DocumentsAssumption
  <2> QED BY <1>1, <1>5, <2>4, <2>5
<1> QED BY <1>6 DEF _category_breakdown_aggs, B

(* The breakdown by category, which adds up to all of it. *)
LEMMA BreakdownAdds ==
  ASSUME DocsInv, NEW D, D \subseteq docs, AllListed(D), NEW n, n = Cardinality(docs)
  PROVE  LET rows == Take(_buckets_to_category_expenses(_category_breakdown_aggs(D)), n) IN
         \A g : (\A i \in DOMAIN rows : g[i] = rows[i].amount) => SumOver(g, DOMAIN rows) = SumAbs(D)
<1> DEFINE key == Category(docs)
           C == Labels(D, key)
           row == [c \in C |-> [category |-> c, amount |-> SumAbs(Having(D, key, c))]]
           B == _category_breakdown_aggs(D)
           R == {p \in B \X B : p[1].amount > p[2].amount
                                  \/ (p[1].amount = p[2].amount /\ p[1].category < p[2].category)}
<1>1. /\ C = {d.category : d \in D} /\ C \subseteq Int
      /\ \A c : Having(D, key, c) = {d \in D : d.category = c}
  BY CategoryLabels
<1>2. B = {row[c] : c \in C}
  <2>1. B = {[category |-> c, amount |-> SumAbs({d \in D : d.category = c})] : c \in {d.category : d \in D}}
    BY AllBuckets DEF CategorySums
  <2> DEFINE X(c) == SumAbs({d \in D : d.category = c})
             L == {d.category : d \in D}
             Y(c) == SumAbs(Having(D, key, c))
  <2>2. L = C /\ \A c : X(c) = Y(c) BY <1>1, Zenon
  <2>3. \A c \in C : row[c] = [category |-> c, amount |-> Y(c)] OBVIOUS
  <2> HIDE DEF X, Y, L, C, B, row
  <2>4. B = {[category |-> c, amount |-> X(c)] : c \in L} BY <2>1 DEF X, L
  <2> QED BY <2>2, <2>3, <2>4
<1>3. \A c \in C : row[c].category = c /\ row[c].amount = SumAbs(Having(D, key, c)) OBVIOUS
<1>4. row \in [C -> B] BY <1>2
<1>5. \A c \in C : row[c].amount \in Int
  <2> DEFINE value == [c \in C |-> SumAbs(Having(D, key, c))]
  <2>1. \A c \in C : value[c] = SumAbs(Having(D, key, c)) OBVIOUS
  <2>2. IsFiniteSet(C) BY LabelsCounted DEF Labels
  <2>3. Labels(D, key) \subseteq C OBVIOUS
  <2> HIDE DEF value, C, key, row
  <2>4. \A c \in C : value[c] \in Int BY <2>1, <2>2, <2>3, GroupsAdd
  <2> QED BY <1>3, <2>1, <2>4
<1> HIDE DEF C, row, B
<1>6. Renames(row, C, B)
  <2>1. \A c, k \in C : row[c] = row[k] => c = k BY <1>3
  <2>2. \A z \in B : \E c \in C : row[c] = z BY <1>2
  <2> QED BY <1>4, <2>1, <2>2 DEF Renames
<1>7. Orders(R, B)
  <2>1. \A x \in B : x.category \in Int /\ x.amount \in Int BY <1>1, <1>2, <1>3, <1>5
  <2>2. \A x, y \in B : x # y => x.category # y.category BY <1>2, <1>3
  <2> DEFINE Then(x, y) == x.amount > y.amount \/ (x.amount = y.amount /\ x.category < y.category)
  <2>3. \A x, y \in B : <<x, y>> \in R <=> Then(x, y) OBVIOUS
  <2> HIDE DEF R
  <2>4. ASSUME NEW x \in B, NEW y \in B, x # y PROVE Then(x, y) <=> ~ Then(y, x) BY <2>1, <2>2, <2>4
  <2>5. ASSUME NEW x \in B, NEW y \in B, NEW z \in B, Then(x, y), Then(y, z) PROVE Then(x, z)
    BY <2>1, <2>5
  <2> HIDE DEF Then
  <2> QED BY <2>3, <2>4, <2>5 DEF Orders
<1>8. _buckets_to_category_expenses(B) = InOrder(B, R)
  BY DEF _buckets_to_category_expenses, BucketsBefore, Sorted
<1> HIDE DEF R, key
<1> DEFINE rows == Take(InOrder(B, R), n)
<1>9. \A g : (\A i \in DOMAIN rows : g[i] = rows[i].amount) => SumOver(g, DOMAIN rows) = SumAbs(D)
  <2>1. Renames(row, Labels(D, key), B) BY <1>6 DEF C
  <2>2. \A c \in Labels(D, key) : row[c].amount = SumAbs(Having(D, key, c)) BY <1>3 DEF C
  <2> QED BY <1>7, <2>1, <2>2, GroupsListed
<1> HIDE DEF rows
<1>10. Take(_buckets_to_category_expenses(B), n) = rows BY <1>8 DEF rows
<1> QED BY <1>9, <1>10, Zenon DEF B

(* The largest of finitely many integers is one of them. *)
LEMMA MaxIs ==
  ASSUME NEW S \in SUBSET Int, IsFiniteSet(S), S # {}
  PROVE  Max(S) \in S
<1> DEFINE Q == {s \in SUBSET S : s = {} \/ \E x \in s : \A y \in s : x >= y}
<1>1. ASSUME NEW s \in SUBSET S, \A x \in s : s \ {x} \in Q PROVE s \in Q
  <2>1. CASE s = {} BY <2>1
  <2>2. CASE s # {}
    <3>1. PICK w : w \in s BY <2>2
    <3>2. s \ {w} \in Q BY <1>1, <3>1
    <3>3. CASE s \ {w} = {} BY <3>1, <3>3
    <3>4. CASE s \ {w} # {}
      <4>1. PICK x \in s \ {w} : \A y \in s \ {w} : x >= y BY <3>2, <3>4
      <4>2. x \in Int /\ w \in Int /\ \A y \in s : y \in Int BY <3>1
      <4>3. CASE x >= w
        <5>1. \A y \in s : x >= y BY <4>1, <4>3
        <5> QED BY <4>1, <5>1
      <4>4. CASE w >= x
        <5>1. \A y \in s : w >= y BY <4>1, <4>2, <4>4
        <5> QED BY <3>1, <5>1
      <4> QED BY <4>2, <4>3, <4>4
    <3> QED BY <3>3, <3>4
  <2> QED BY <2>1, <2>2
<1> HIDE DEF Q
<1>2. Q \in SUBSET (SUBSET S) BY DEF Q
<1>3. Q = SUBSET S BY <1>1, <1>2, SubsetInduction
<1>4. S \in Q BY <1>3
<1>5. \E x \in S : \A y \in S : x >= y BY <1>4 DEF Q
<1> QED BY <1>5 DEF Max

Merchant(D) == [d \in D |-> d.merchant]

(* The merchants of some documents are the labels of their groups. *)
LEMMA MerchantLabels ==
  ASSUME DocsInv, NEW D, D \subseteq docs
  PROVE  /\ Labels(D, Merchant(docs)) = {d.merchant : d \in D}
         /\ \A c : Having(D, Merchant(docs), c) = {d \in D : d.merchant = c}
<1>1. \A d \in D : Merchant(docs)[d] = d.merchant BY DEF Merchant
<1> QED BY <1>1 DEF Labels, Having

(* The latest document of each merchant is another one. *)
Latest(D) == Max({d.id : d \in D})

(* Two merchants have different latest documents, which orders them where
   their sums are the same. *)
LEMMA FirstsDiffer ==
  ASSUME DocsInv, NEW D, D \subseteq docs, NEW key,
         NEW first, \A c \in Labels(D, key) : first[c] = Latest(Having(D, key, c))
  PROVE  \A c, k \in Labels(D, key) : first[c] \in Int /\ (first[c] = first[k] => c = k)
<1>1. ASSUME NEW c \in Labels(D, key)
      PROVE  \E d \in D : key[d] = c /\ first[c] = d.id /\ d.id \in Int
  <2> DEFINE S == {d.id : d \in Having(D, key, c)}
  <2>1. S \in SUBSET Int
    <3>1. \A d \in D : d.id \in Int BY DateFields DEF DocsInv
    <3> QED BY <3>1 DEF Having
  <2>2. S # {} BY DEF Labels, Having
  <2>3. IsFiniteSet(S)
    <3> DEFINE id == [d \in docs |-> d.id]
               H == Having(D, key, c)
    <3>1. H \subseteq docs BY DEF Having
    <3>2. S = {id[d] : d \in H} BY <3>1
    <3> HIDE DEF id, H, S
    <3>3. IsFiniteSet({id[d] : d \in H}) BY <3>1, LabelsCounted
    <3> QED BY <3>2, <3>3
  <2>4. first[c] = Max(S) BY DEF Latest
  <2> HIDE DEF S
  <2>5. Max(S) \in S BY <2>1, <2>2, <2>3, MaxIs
  <2>6. first[c] \in S /\ first[c] \in Int BY <2>1, <2>4, <2>5
  <2> QED BY <2>6 DEF S, Having
<1>2. ASSUME NEW c \in Labels(D, key), NEW k \in Labels(D, key), first[c] = first[k] PROVE c = k
  <2>1. PICK d \in D : key[d] = c /\ first[c] = d.id BY <1>1
  <2>2. PICK e \in D : key[e] = k /\ first[k] = e.id BY <1>1
  <2>3. d = e BY <1>2, <2>1, <2>2 DEF DocsInv
  <2> QED BY <2>1, <2>2, <2>3
<1> QED BY <1>1, <1>2

(* Top_merchants cuts none off when its limit is the number of documents, and
   then its rows add up to all the expenses. *)
LEMMA MerchantsAdd ==
  ASSUME DocsInv, NEW u, NEW a, NEW from, NEW to, NEW D,
         D = HasKeyword(Expenses(_base_filters(u, a, from, to))), NEW n, n = Cardinality(docs)
  PROVE  Total(top_merchants(u, a, from, to, n)) = SumAbs(D)
<1>0. D \subseteq docs BY DEF HasKeyword, Expenses, _base_filters
<1> DEFINE key == Merchant(docs)
           C == Labels(D, key)
           row == [c \in C |-> [merchant |-> c, amount |-> SumAbs(Having(D, key, c)),
                                count |-> Cardinality(Having(D, key, c)),
                                first |-> Max({d.id : d \in Having(D, key, c)})]]
           B == {[merchant |-> w, amount |-> SumAbs({d \in D : d.merchant = w}),
                  count |-> Cardinality({d \in D : d.merchant = w}),
                  first |-> Max({d.id : d \in {e \in D : e.merchant = w}})] : w \in {d.merchant : d \in D}}
           R == {p \in B \X B : p[1].amount > p[2].amount
                                  \/ (p[1].amount = p[2].amount /\ p[1].first > p[2].first)}
<1>1. /\ C = {d.merchant : d \in D}
      /\ \A c : Having(D, key, c) = {d \in D : d.merchant = c}
  BY <1>0, MerchantLabels
<1>2. B = {row[c] : c \in C}
  <2> DEFINE X(c) == {d \in D : d.merchant = c}
             L == {d.merchant : d \in D}
             Y(c) == Having(D, key, c)
  <2>1. L = C /\ \A c : X(c) = Y(c) BY <1>1
  <2>2. \A c \in C : row[c] = [merchant |-> c, amount |-> SumAbs(Y(c)), count |-> Cardinality(Y(c)),
                               first |-> Max({d.id : d \in Y(c)})]
    OBVIOUS
  <2>3. B = {[merchant |-> w, amount |-> SumAbs(X(w)), count |-> Cardinality(X(w)),
              first |-> Max({d.id : d \in X(w)})] : w \in L}
    OBVIOUS
  <2> HIDE DEF X, Y, L, C, B, row
  <2> DEFINE F(Z, c) == [merchant |-> c, amount |-> SumAbs(Z), count |-> Cardinality(Z),
                         first |-> Max({d.id : d \in Z})]
  <2>4. \A c \in C : row[c] = F(Y(c), c) BY <2>2
  <2>5. B = {F(X(w), w) : w \in L} BY <2>3
  <2> HIDE DEF F
  <2>6. \A c : F(X(c), c) = F(Y(c), c) BY <2>1
  <2> QED BY <2>1, <2>4, <2>5, <2>6
<1>3. \A c \in C : /\ row[c].merchant = c /\ row[c].amount = SumAbs(Having(D, key, c))
                   /\ row[c].first = Max({d.id : d \in Having(D, key, c)})
  OBVIOUS
<1>4. row \in [C -> B] BY <1>2
<1>5. \A c \in C : row[c].amount \in Int
  <2> DEFINE value == [c \in C |-> SumAbs(Having(D, key, c))]
  <2>1. \A c \in C : value[c] = SumAbs(Having(D, key, c)) OBVIOUS
  <2>2. IsFiniteSet(C) BY <1>0, LabelsCounted DEF Labels
  <2>3. Labels(D, key) \subseteq C OBVIOUS
  <2> HIDE DEF value, C, key, row
  <2>4. \A c \in C : value[c] \in Int BY <1>0, <2>1, <2>2, <2>3, GroupsAdd
  <2> QED BY ZenonT(40), <1>3, <2>1, <2>4
<1>6. \A c, k \in C : row[c].first \in Int /\ (row[c].first = row[k].first => c = k)
  <2> DEFINE first == [c \in C |-> row[c].first]
  <2>1. \A c \in C : first[c] = Latest(Having(D, key, c)) BY DEF Latest
  <2>2. \A c \in C : first[c] = row[c].first OBVIOUS
  <2> HIDE DEF first, row, B, R, key
  <2>3. \A c, k \in C : first[c] \in Int /\ (first[c] = first[k] => c = k)
    BY <1>0, <2>1, FirstsDiffer
  <2> HIDE DEF C
  <2> QED BY <2>2, <2>3
<1> HIDE DEF C, row, B
<1>7. Renames(row, C, B)
  <2>1. \A c, k \in C : row[c] = row[k] => c = k BY <1>3
  <2>2. \A z \in B : \E c \in C : row[c] = z BY <1>2
  <2> QED BY <1>4, <2>1, <2>2 DEF Renames
<1>8. Orders(R, B)
  <2>1. \A x \in B : x.first \in Int /\ x.amount \in Int BY <1>2, <1>5, <1>6
  <2>2. \A x, y \in B : x # y => x.first # y.first BY <1>2, <1>6
  <2> DEFINE Then(x, y) == x.amount > y.amount \/ (x.amount = y.amount /\ x.first > y.first)
  <2>3. \A x, y \in B : <<x, y>> \in R <=> Then(x, y) OBVIOUS
  <2> HIDE DEF R
  <2>4. ASSUME NEW x \in B, NEW y \in B, x # y PROVE Then(x, y) <=> ~ Then(y, x) BY <2>1, <2>2, <2>4
  <2>5. ASSUME NEW x \in B, NEW y \in B, NEW z \in B, Then(x, y), Then(y, z) PROVE Then(x, z)
    BY <2>1, <2>5
  <2> HIDE DEF Then
  <2> QED BY <2>3, <2>4, <2>5 DEF Orders
<1> DEFINE rows == Take(InOrder(B, R), n)
<1>9. top_merchants(u, a, from, to, n) = rows BY DEF top_merchants, Sorted, B
<1> HIDE DEF R, key
<1>10. \A g : (\A i \in DOMAIN rows : g[i] = rows[i].amount) => SumOver(g, DOMAIN rows) = SumAbs(D)
  <2>1. Renames(row, Labels(D, key), B) BY <1>7 DEF C
  <2>2. \A c \in Labels(D, key) : row[c].amount = SumAbs(Having(D, key, c)) BY <1>3 DEF C
  <2> QED BY <1>0, <1>8, <2>1, <2>2, GroupsListed
<1> HIDE DEF rows
<1> DEFINE g == [i \in DOMAIN rows |-> rows[i].amount]
<1>11. Total(rows) = SumOver(g, DOMAIN rows) BY TotalIs
<1>12. \A i \in DOMAIN rows : g[i] = rows[i].amount OBVIOUS
<1> HIDE DEF g
<1>13. SumOver(g, DOMAIN rows) = SumAbs(D) BY <1>10, <1>12
<1> QED BY <1>9, <1>11, <1>13

-----------------------------------------------------------------------------
(* The comparison of a month with the one before *)

DeltaRow(N, T, c) ==
    LET current == AmountIn(bucket_map(N), c)
        previous == AmountIn(bucket_map(T), c)
    IN  [category |-> c, current |-> current, previous |-> previous, change |-> current - previous]

Deltas(N, T) == {DeltaRow(N, T, c) : c \in DOMAIN bucket_map(N) \cup DOMAIN bucket_map(T)}

Larger(x, z) == \/ AbsoluteValue(x.change) > AbsoluteValue(z.change)
                \/ AbsoluteValue(x.change) = AbsoluteValue(z.change) /\ x.category < z.category

ByChange(B) == {p \in B \X B : Larger(p[1], p[2])}

(* _compare_periods sums the months it compares, and lists a row for each
   category of either. *)
LEMMA ComparisonIs ==
  ASSUME DocsInv, NEW u, NEW a, NEW m, IsMonth(m), NEW s \in 1 .. 28
  PROVE  LET N == Expenses(Month(u, a, m, s))
             T == Expenses(Month(u, a, MonthsBack(m, 1), s))
         IN  get_month_comparison(u, a, m, s)
                = [current |-> SumAbs(N), previous |-> SumAbs(T),
                   deltas |-> InOrder(Deltas(N, T), ByChange(Deltas(N, T)))]
<1> DEFINE b == MonthsBack(m, 1)
           now == budget_period(m[1], m[2], s)
           then == budget_period(b[1], b[2], s)
           D == Expenses(_base_filters(u, a, then[1], now[2]))
           W == Expenses(From(u, a, b, m, s))
           N == Expenses(Month(u, a, m, s))
           T == Expenses(Month(u, a, b, s))
           PN == {d \in D : InPeriod(d.date, now)}
           PT == {d \in D : InPeriod(d.date, then)}
<1>1. IsMonth(b) /\ Index(b) = Index(m) - 1 /\ Index(m) \in Int
  BY MonthsGoBack DEF Index, IsMonth
<1>2. _prev_month(m[1], m[2]) = b BY PreviousMonth
<1> HIDE DEF b
<1>3. D = W BY <1>1, WindowShows
<1>4. ASSUME NEW d \in Visible(u, a)
      PROVE  /\ InPeriod(d.date, now) <=> determine_budget_month(d.date, s) = m
             /\ InPeriod(d.date, then) <=> determine_budget_month(d.date, s) = b
  <2> DEFINE h == determine_budget_month(d.date, s)
  <2>1. IsDate(d.date) BY DateFields DEF DocsInv, Visible
  <2>2. IsMonth(h) BY <2>1, MonthOfDay
  <2>3. /\ NotAfter(now[1], d.date) <=> Index(m) <= Index(h)
        /\ NotAfter(d.date, now[2]) <=> Index(h) <= Index(m)
        /\ NotAfter(then[1], d.date) <=> Index(b) <= Index(h)
        /\ NotAfter(d.date, then[2]) <=> Index(h) <= Index(b)
    BY <1>1, <2>1, PeriodEnds
  <2> HIDE DEF h, now, then
  <2>4. Index(h) \in Int /\ Index(b) \in Int BY <1>1, <2>2 DEF Index, IsMonth
  <2>5. (Index(h) = Index(m) <=> h = m) /\ (Index(h) = Index(b) <=> h = b)
    BY <1>1, <2>2, MonthsIndexed
  <2>6. /\ InPeriod(d.date, now) <=> h = m
        /\ InPeriod(d.date, then) <=> h = b
    BY <1>1, <2>3, <2>4, <2>5 DEF InPeriod
  <2> QED BY <2>6 DEF h
<1>5. PN = N /\ PT = T
  <2>1. Month(u, a, m, s) \subseteq From(u, a, b, m, s) /\ Month(u, a, b, s) \subseteq From(u, a, b, m, s)
    <3>1. Index(b) <= Index(m) BY <1>1
    <3> QED BY <1>1, <3>1, MonthShows
  <2>2. From(u, a, b, m, s) \subseteq Visible(u, a) BY DEF From
  <2> HIDE DEF D, now, then
  <2> QED BY <1>3, <1>4, <2>1, <2>2 DEF Expenses, Month
<1>6. month_comparison(u, a, m[1], m[2], s) =
        [current |-> SumAbs(PN), previous |-> SumAbs(PT),
         deltas |-> InOrder(Deltas(PN, PT), ByChange(Deltas(PN, PT)))]
  BY SMTT(30), <1>2 DEF month_comparison, Sorted, Deltas, DeltaRow, ByChange, Larger
<1>7. get_month_comparison(u, a, m, s) = month_comparison(u, a, m[1], m[2], s)
  <2>1. s \in 0 .. 28 /\ s # 0 OBVIOUS
  <2>2. _resolve_budget_start_day(u, a, s) = s BY <2>1 DEF _resolve_budget_start_day
  <2>3. m[2] \in 1 .. 12 BY DEF IsMonth
  <2> QED BY <2>1, <2>2, <2>3 DEF get_month_comparison, get_comparison, MonthComparison
<1> HIDE DEF PN, PT, N, T
<1>8. get_month_comparison(u, a, m, s) = [current |-> SumAbs(N), previous |-> SumAbs(T),
         deltas |-> InOrder(Deltas(N, T), ByChange(Deltas(N, T)))]
  BY <1>5, <1>6, <1>7
<1> QED BY <1>8 DEF N, T, b

(* A category that has documents has its sum, any other nothing. *)
LEMMA AmountListed ==
  ASSUME DocsInv, NEW D, D \subseteq docs, AllListed(D)
  PROVE  /\ DOMAIN bucket_map(D) = {d.category : d \in D}
         /\ \A c : AmountIn(bucket_map(D), c) = SumAbs({d \in D : d.category = c})
<1> DEFINE C == {d.category : d \in D}
           X(c) == SumAbs({d \in D : d.category = c})
<1>1. {x.category : x \in _category_breakdown_aggs(D)} = C
  <2> DEFINE row(c) == [category |-> c, amount |-> X(c)]
             B == _category_breakdown_aggs(D)
  <2>1. B = {row(c) : c \in C} BY AllBuckets DEF CategorySums
  <2>2. \A c : row(c).category = c OBVIOUS
  <2> HIDE DEF row, C, B
  <2>3. \A x \in B : x.category \in C BY <2>1, <2>2
  <2>4. \A c \in C : \E x \in B : x.category = c BY <2>1, <2>2
  <2> QED BY <2>3, <2>4 DEF B
<1>2. bucket_map(D) = [c \in C |-> X(c)] BY <1>1 DEF bucket_map
<1>3. ASSUME NEW c, c \notin C PROVE X(c) = 0
  <2> DEFINE G == {d \in D : d.category = c}
  <2>1. G = {} BY <1>3
  <2>2. IsFiniteSet({}) /\ {} \in SUBSET Document BY FS_EmptySet
  <2> HIDE DEF G
  <2>3. SumAbs(G) = 0 BY <2>1, <2>2, AbsAdds
  <2> QED BY <2>3 DEF G
<1> HIDE DEF X
<1>4. \A c : AmountIn(bucket_map(D), c) = X(c) BY <1>2, <1>3 DEF AmountIn
<1> QED BY <1>2, <1>4 DEF X

(* The changes of its categories add up to the change. *)
LEMMA DeltasAdd ==
  ASSUME DocsInv, NEW N, N \subseteq docs, AllListed(N), NEW T, T \subseteq docs, AllListed(T),
         NEW n, n = Cardinality(docs)
  PROVE  LET rows == Take(InOrder(Deltas(N, T), ByChange(Deltas(N, T))), n) IN
         SumOver([i \in DOMAIN rows |-> rows[i].change], DOMAIN rows) = SumAbs(N) - SumAbs(T)
<1> DEFINE key == Category(docs)
           D == N \cup T
           C == Labels(D, key)
           B == Deltas(N, T)
           R == ByChange(B)
           current == [c \in C |-> SumAbs(Having(N, key, c))]
           previous == [c \in C |-> SumAbs(Having(T, key, c))]
           value == [c \in C |-> current[c] - previous[c]]
           row == [c \in C |-> DeltaRow(N, T, c)]
           f == [r \in B |-> r.change]
           s == InOrder(B, R)
           rows == Take(s, n)
<1>0. D \subseteq docs OBVIOUS
<1>1. IsFiniteSet(C) /\ Cardinality(C) <= n /\ n \in Nat BY <1>0, LabelsCounted DEF Labels
<1>2. C = {d.category : d \in D} /\ C \subseteq Int BY <1>0, CategoryLabels
<1>3. \A c : /\ Having(N, key, c) = {d \in N : d.category = c}
             /\ Having(T, key, c) = {d \in T : d.category = c}
  BY CategoryLabels
<1>4. Labels(N, key) \subseteq C /\ Labels(T, key) \subseteq C BY DEF Labels
<1>5. \A c \in C : /\ current[c] = SumAbs(Having(N, key, c)) /\ previous[c] = SumAbs(Having(T, key, c))
                   /\ value[c] = current[c] - previous[c]
  OBVIOUS
<1>6. ASSUME NEW c \in C
      PROVE  row[c].category = c /\ row[c].change = value[c]
  <2>1. SumAbs(Having(N, key, c)) = SumAbs({d \in N : d.category = c}) BY <1>3, Zenon
  <2>2. SumAbs(Having(T, key, c)) = SumAbs({d \in T : d.category = c}) BY <1>3, Zenon
  <2>3. DeltaRow(N, T, c).category = c
        /\ DeltaRow(N, T, c).change = SumAbs({d \in N : d.category = c}) - SumAbs({d \in T : d.category = c})
    BY AmountListed DEF DeltaRow
  <2>4. row[c] = DeltaRow(N, T, c) OBVIOUS
  <2> HIDE DEF row, value, current, previous, C
  <2> QED BY <1>5, <2>1, <2>2, <2>3, <2>4
<1>7. B = {row[c] : c \in C}
  <2>1. B = {DeltaRow(N, T, c) : c \in {d.category : d \in D}}
    <3>1. /\ DOMAIN bucket_map(N) = {d.category : d \in N}
          /\ DOMAIN bucket_map(T) = {d.category : d \in T}
      BY AmountListed
    <3>2. DOMAIN bucket_map(N) \cup DOMAIN bucket_map(T) = {d.category : d \in D} BY <3>1
    <3> QED BY <3>2 DEF Deltas
  <2>2. \A c \in C : row[c] = DeltaRow(N, T, c) OBVIOUS
  <2> HIDE DEF B, C, row, D
  <2> QED BY <1>2, <2>1, <2>2
<1>8. row \in [C -> B] BY <1>7
<1> HIDE DEF C, B, current, previous, value, row, key, D
<1>9. SumOver(current, C) = SumAbs(N) /\ SumOver(previous, C) = SumAbs(T)
      /\ \A c \in C : current[c] \in Int /\ previous[c] \in Int
  <2>1. SumOver(current, C) = SumAbs(N) /\ \A c \in C : current[c] \in Int
    <3>1. \A c \in C : current[c] = SumAbs(Having(N, key, c)) BY <1>5
    <3> QED BY <1>1, <1>4, <3>1, GroupsAdd
  <2>2. SumOver(previous, C) = SumAbs(T) /\ \A c \in C : previous[c] \in Int
    <3>1. \A c \in C : previous[c] = SumAbs(Having(T, key, c)) BY <1>5
    <3> QED BY <1>1, <1>4, <3>1, GroupsAdd
  <2> QED BY <2>1, <2>2
<1>10. SumOver(value, C) = SumOver(current, C) - SumOver(previous, C) BY <1>1, <1>5, <1>9, SumMinus
<1>11. \A c \in C : value[c] \in Int BY <1>5, <1>9
<1>12. Renames(row, C, B)
  <2>1. \A c, k \in C : row[c] = row[k] => c = k BY <1>6
  <2>2. \A z \in B : \E c \in C : row[c] = z BY <1>7
  <2> QED BY <1>8, <2>1, <2>2 DEF Renames
<1>13. Orders(R, B)
  <2>1. \A x \in B : x.category \in Int /\ AbsoluteValue(x.change) \in Int
    <3>1. \A x \in B : x.category \in Int /\ x.change \in Int BY <1>2, <1>6, <1>7, <1>11
    <3> QED BY <3>1 DEF AbsoluteValue
  <2>2. \A x, y \in B : x # y => x.category # y.category BY <1>6, <1>7
  <2>3. \A x, y \in B : <<x, y>> \in R <=> Larger(x, y) BY DEF ByChange
  <2> HIDE DEF R
  <2>4. ASSUME NEW x \in B, NEW y \in B, x # y PROVE Larger(x, y) <=> ~ Larger(y, x)
    BY <2>1, <2>2, <2>4 DEF Larger
  <2>5. ASSUME NEW x \in B, NEW y \in B, NEW z \in B, Larger(x, y), Larger(y, z) PROVE Larger(x, z)
    BY <2>1, <2>5 DEF Larger
  <2> QED BY <2>3, <2>4, <2>5 DEF Orders
<1> HIDE DEF R, f
<1>14. \A c \in C : value[c] \in Int /\ f[row[c]] = value[c] BY <1>6, <1>8, <1>11 DEF f
<1>15. /\ rows = s /\ DOMAIN s = 1 .. Cardinality(B)
       /\ \A g : (\A i \in 1 .. Cardinality(B) : g[i] = f[s[i]])
                    => SumOver(g, 1 .. Cardinality(B)) = SumOver(value, C)
  BY <1>1, <1>12, <1>13, <1>14, RowsAdd
<1>16. \A i \in DOMAIN s : f[s[i]] = s[i].change
  <2>1. IsFiniteSet(B)
    <3>1. row \in Surjection(C, B) BY <1>12 DEF Renames, Surjection
    <3> QED BY <1>1, <3>1, FS_Surjection
  <2>2. s \in [1 .. Cardinality(B) -> B] BY <1>13, <2>1, Listed
  <2> QED BY <2>2 DEF f
<1> HIDE DEF s, rows
<1> DEFINE g == [i \in DOMAIN rows |-> rows[i].change]
<1>17. SumOver(g, DOMAIN rows) = SumAbs(N) - SumAbs(T)
  <2>1. \A i \in 1 .. Cardinality(B) : g[i] = f[s[i]] BY <1>15, <1>16
  <2> HIDE DEF g
  <2>2. SumOver(g, 1 .. Cardinality(B)) = SumOver(value, C) BY <1>15, <2>1
  <2>3. DOMAIN rows = 1 .. Cardinality(B) BY <1>15
  <2> QED BY <1>9, <1>10, <2>2, <2>3
<1> QED BY <1>17 DEF rows, s, R, B

-----------------------------------------------------------------------------
(* The transactions of a month *)

(* A page of transactions as large as the index lists the month's documents. *)
LEMMA MonthListed ==
  ASSUME DocsInv, NEW u, NEW a, NEW m, IsMonth(m), NEW s \in 1 .. 28,
         NEW n \in 1 .. 500, n = Cardinality(docs)
  PROVE  ToSet(Query_transactions(u, a, m, n, s)) = Month(u, a, m, s)
<1> DEFINE from == FirstDay(m, s)
           to == LastDay(m, s)
           r == Listing(from, to, n)
           M == Month(u, a, m, s)
           hits == {d \in _base_filters(u, a, r.from, r.to) :
                    /\ r.search = "" \/ d.merchant = r.search
                    /\ r.category = Missing \/ d.category = r.category
                    /\ r.type = "" \/ d.type = r.type}
           order == {p \in hits \X hits : TRANSACTION_SORTS(r.sort, p[1], p[2])}
           R == {p \in M \X M : TRANSACTION_SORTS("date_desc", p[1], p[2])}
           all == InOrder(hits, order)
           list == InOrder(M, R)
<1>1. Query_transactions(u, a, m, n, s) = get_transactions(u, a, r).items
  BY DEF Query_transactions, list_transactions, FirstDay, LastDay
<1>2. /\ r.search = "" /\ r.from = from /\ r.to = to /\ r.category = Missing /\ r.type = ""
      /\ r.limit = n /\ r.offset = 0 /\ r.sort = "date_desc"
  BY DEF Listing
<1>a. Index(m) \in Int BY DEF Index, IsMonth
<1>3. NotAfter(from, to) BY <1>a, WindowDates
<1>4. _base_filters(u, a, from, to) = M
  <2>1. From(u, a, m, m, s) = M BY MonthShows
  <2> QED BY <2>1, WindowShows DEF FirstDay, LastDay
<1> HIDE DEF r, from, to, M
<1>5. hits = M BY <1>2, <1>4
<1>6. order = R
  <2> HIDE DEF hits
  <2> QED BY ZenonT(40), <1>2, <1>5
<1>7. search_transactions(u, a, r).items = Take(SubSeq(all, r.offset + 1, Len(all)), r.limit)
  <2>1. all = Sorted(hits, LAMBDA x, y : TRANSACTION_SORTS(r.sort, x, y)) BY DEF Sorted
  <2> HIDE DEF all
  <2>2. search_transactions(u, a, r) =
           [total |-> Len(all), items |-> Take(SubSeq(all, r.offset + 1, Len(all)), r.limit)]
    BY <2>1, Zenon DEF search_transactions
  <2> HIDE DEF all
  <2> QED BY <2>2
<1>8. get_transactions(u, a, r) = search_transactions(u, a, r)
  <2> HIDE DEF hits, order, all
  <2>0. r.limit = n /\ r.offset = 0 BY <1>2
  <2>1. r.limit \in 1 .. 500 /\ r.offset >= 0 BY <2>0
  <2>2. Ordered(r) BY <1>2, <1>3 DEF Ordered
  <2> QED BY <2>1, <2>2 DEF get_transactions, SearchTransactions
<1>9. M \subseteq Visible(u, a) BY DEF M, Month
<1>10. Orders(R, M)
  <2>1. Orders(Newest(u, a), Visible(u, a)) BY NewestOrders
  <2>2. \A x, y \in M : <<x, y>> \in R <=> <<x, y>> \in Newest(u, a) BY <1>9 DEF Newest
  <2> HIDE DEF R
  <2> QED BY <1>9, <2>1, <2>2 DEF Orders
<1> DEFINE k == Cardinality(M)
<1>11. IsFiniteSet(M) /\ k <= n /\ k \in Nat
  <2>1. M \subseteq docs BY <1>9 DEF Visible
  <2>2. IsFiniteSet(M) /\ k <= n BY <2>1, FS_Subset DEF DocsInv
  <2> QED BY <2>2, FS_CardinalityType
<1>12. /\ list \in [1 .. k -> M] /\ \A x \in M : \E i \in 1 .. k : list[i] = x
  <2> HIDE DEF R
  <2> QED BY <1>10, <1>11, Listed
<1>13. all = list BY <1>5, <1>6, Zenon
<1> HIDE DEF all, list, k, hits, order, R
<1>14. Take(SubSeq(list, 1, Len(list)), n) = list
  <2>1. list \in Seq(M) /\ Len(list) = k BY <1>11, <1>12
  <2>2. SubSeq(list, 1, Len(list)) = list BY <2>1
  <2>3. n \in Nat /\ Len(list) <= n BY <1>11, <2>1
  <2> QED BY <2>1, <2>2, <2>3, TakenWhole
<1>15. Query_transactions(u, a, m, n, s) = list
  <2>1. 0 + 1 = 1 OBVIOUS
  <2> QED BY <1>1, <1>2, <1>7, <1>8, <1>13, <1>14, <2>1
<1>16. ToSet(list) = M BY <1>11, <1>12 DEF ToSet
<1> QED BY <1>15, <1>16 DEF M

-----------------------------------------------------------------------------
(* One month *)

(* Every answer about a month the dashboard shows agrees with its row of the
   cash flow. *)
LEMMA MonthShown ==
  ASSUME DocsInv, docs # {}, NEW u, NEW a, NEW s \in 1 .. 28,
         NEW row \in Query_cashflow_by_month(u, a, 3, s)
  PROVE  MonthAgrees(u, a, row, Query_cashflow_by_month(u, a, 3, s), s)
<1> DEFINE m == row.month
           b == MonthsBack(m, 1)
           D == Month(u, a, m, s)
           N == Expenses(D)
           T == Expenses(Month(u, a, b, s))
           n == Cardinality(docs)
           shown == get_financial_overview(u, a, FirstDay(m, s), LastDay(m, s))
           compared == Query_month_comparison(u, a, m, n, s)
           flow == Query_cashflow_by_month(u, a, 3, s)
<1>1. flow = {FlowRow(u, a, k, s) : k \in Shown(s)} BY FlowIs
<1>2. \A k : /\ FlowRow(u, a, k, s).month = k
             /\ FlowRow(u, a, k, s).expenses = SumAbs(Expenses(Month(u, a, k, s)))
             /\ FlowRow(u, a, k, s).income = SumAbs(Incomes(Month(u, a, k, s)))
  BY DEF FlowRow, RowOf
<1>3. PICK k \in Shown(s) : row = FlowRow(u, a, k, s) BY <1>1
<1>4. m = k /\ row.expenses = SumAbs(N) /\ row.income = SumAbs(Incomes(D)) BY <1>2, <1>3
<1>5. IsMonth(m) /\ Index(m) \in Int
  <2>1. IsMonth(m) BY <1>4, NowShown
  <2> HIDE DEF m
  <2> QED BY <2>1 DEF Index, IsMonth
<1>6. N \subseteq docs /\ T \subseteq docs BY DEF Expenses, Month, Visible
<1>7. n \in Nat /\ n >= 1
  <2>1. IsFiniteSet(docs) BY DEF DocsInv
  <2>2. n \in Nat BY <2>1, FS_CardinalityType
  <2>3. n # 0 BY <2>1, FS_EmptySet
  <2> QED BY <2>2, <2>3
<1> HIDE DEF m, n
<1>8. From(u, a, m, m, s) = D BY <1>5, MonthShows
<1>9. /\ shown.income = SumAbs(Incomes(D)) /\ shown.expenses = SumAbs(N)
      /\ shown.by_category = _buckets_to_category_expenses(_category_breakdown_aggs(N))
  <2>1. Index(m) <= Index(m) BY <1>5
  <2>2. /\ shown.income = SumAbs(Incomes(From(u, a, m, m, s)))
        /\ shown.expenses = SumAbs(Expenses(From(u, a, m, m, s)))
        /\ shown.by_category =
              _buckets_to_category_expenses(_category_breakdown_aggs(Expenses(From(u, a, m, m, s))))
    BY <1>5, <2>1, OverviewIs
  <2> QED BY <1>8, <2>2
<1> DEFINE all == InOrder(Deltas(N, T), ByChange(Deltas(N, T)))
           deltas == Take(all, n)
<1>10. compared.current = SumAbs(N) /\ compared.previous = SumAbs(T) /\ compared.deltas = deltas
  <2>1. get_month_comparison(u, a, m, s) = [current |-> SumAbs(N), previous |-> SumAbs(T), deltas |-> all]
    BY <1>5, ComparisonIs
  <2> HIDE DEF all, N, T, b
  <2> QED BY <2>1 DEF Query_month_comparison
<1>11. \A r \in flow : r.month = b => compared.previous = r.expenses
  <2>1. \A r \in flow : r.expenses = SumAbs(Expenses(Month(u, a, r.month, s))) BY <1>1, <1>2
  <2> HIDE DEF flow, compared
  <2> QED BY <1>10, <2>1
<1>12. AllListed(N) /\ AllListed(T) =>
         MapThenSumSet(LAMBDA i : compared.deltas[i].change, DOMAIN compared.deltas)
            = compared.current - compared.previous
  <2> HAVE AllListed(N) /\ AllListed(T)
  <2> DEFINE Changes(rows) == SumOver([i \in DOMAIN rows |-> rows[i].change], DOMAIN rows)
             answered == compared.deltas
  <2>1. MapThenSumSet(LAMBDA i : answered[i].change, DOMAIN answered) = Changes(answered) BY ChangesAdd
  <2>2. Changes(deltas) = SumAbs(N) - SumAbs(T) BY <1>6, DeltasAdd DEF n
  <2>3. answered = deltas BY <1>10
  <2> HIDE DEF Changes, deltas, answered
  <2>4. MapThenSumSet(LAMBDA i : answered[i].change, DOMAIN answered) = SumAbs(N) - SumAbs(T)
    BY <2>1, <2>2, <2>3
  <2> QED BY <1>10, <2>4 DEF answered
<1>13. AllListed(N) => Total(Query_top_spending_categories(u, a, m, n, s)) = shown.expenses
  <2> HAVE AllListed(N)
  <2> DEFINE rows == Take(_buckets_to_category_expenses(_category_breakdown_aggs(N)), n)
             top == [i \in DOMAIN rows |->
                       [category |-> rows[i].category, amount |-> rows[i].amount,
                        share |-> <<100 * rows[i].amount, Max({1, shown.expenses})>>]]
             g == [i \in DOMAIN top |-> top[i].amount]
  <2>1. Query_top_spending_categories(u, a, m, n, s) = top
    <3>1. Take(shown.by_category, n) = rows BY <1>9
    <3> HIDE DEF rows
    <3> QED BY <3>1, Zenon DEF Query_top_spending_categories, FirstDay, LastDay
  <2>2. DOMAIN top = DOMAIN rows /\ \A i \in DOMAIN rows : g[i] = rows[i].amount OBVIOUS
  <2>3. \A h : (\A i \in DOMAIN rows : h[i] = rows[i].amount) => SumOver(h, DOMAIN rows) = SumAbs(N)
    BY <1>6, BreakdownAdds DEF n
  <2> HIDE DEF rows
  <2>4. Total(top) = SumOver(g, DOMAIN top) BY TotalIs
  <2> HIDE DEF g
  <2>5. SumOver(g, DOMAIN rows) = SumAbs(N) BY <2>2, <2>3
  <2>6. SumOver(g, DOMAIN top) = SumAbs(N) BY <2>2, <2>5
  <2> HIDE DEF top, shown, N
  <2> QED BY <1>9, <2>1, <2>4, <2>6
<1>14. n <= 100 =>
         Total(get_top_merchants(u, a, FirstDay(m, s), LastDay(m, s), n)) = SumAbs(HasKeyword(N))
  <2> SUFFICES ASSUME n <= 100
               PROVE  Total(get_top_merchants(u, a, FirstDay(m, s), LastDay(m, s), n))
                         = SumAbs(HasKeyword(N))
    OBVIOUS
  <2> DEFINE from == FirstDay(m, s)
             to == LastDay(m, s)
  <2>1. get_top_merchants(u, a, from, to, n) = top_merchants(u, a, from, to, n)
    <3>1. Index(m) <= Index(m) BY <1>5
    <3>2. \A x : Or(from, x) = from /\ Or(to, x) = to BY <1>5, <3>1, WindowDates
    <3>3. NotAfter(from, to) BY <1>5, <3>1, WindowDates
    <3>4. n \in 1 .. 100 BY <1>7
    <3> HIDE DEF from, to
    <3> QED BY <3>2, <3>3, <3>4 DEF get_top_merchants, TopMerchants
  <2>2. Expenses(_base_filters(u, a, from, to)) = N BY <1>5, <1>8, WindowShows DEF FirstDay, LastDay
  <2> HIDE DEF from, to, N
  <2>3. HasKeyword(N) = HasKeyword(Expenses(_base_filters(u, a, from, to))) BY <2>2
  <2>4. Total(top_merchants(u, a, from, to, n)) = SumAbs(HasKeyword(N)) BY <2>3, MerchantsAdd DEF n
  <2> QED BY <2>1, <2>4 DEF from, to
<1>15. n <= 500 => ToSet(Query_transactions(u, a, m, n, s)) = _base_filters(u, a, FirstDay(m, s), LastDay(m, s))
  <2> SUFFICES ASSUME n <= 500
               PROVE  ToSet(Query_transactions(u, a, m, n, s)) = _base_filters(u, a, FirstDay(m, s), LastDay(m, s))
    OBVIOUS
  <2>1. n \in 1 .. 500 BY <1>7
  <2>2. ToSet(Query_transactions(u, a, m, n, s)) = D BY ZenonT(30), <1>5, <2>1, MonthListed DEF n
  <2>3. _base_filters(u, a, FirstDay(m, s), LastDay(m, s)) = D BY <1>5, <1>8, WindowShows DEF FirstDay, LastDay
  <2> QED BY <2>2, <2>3
<1>16. shown.expenses = row.expenses /\ shown.income = row.income /\ shown.expenses = compared.current
  <2> HIDE DEF shown, compared, N
  <2> QED BY <1>4, <1>9, <1>10
<1>17. /\ Expenses(_base_filters(u, a, FirstDay(m, s), LastDay(m, s))) = N
       /\ Expenses(_base_filters(u, a, FirstDay(b, s), LastDay(b, s))) = T
  <2>1. IsMonth(b) BY <1>5, MonthsGoBack DEF Index, IsMonth
  <2>2. From(u, a, b, b, s) = Month(u, a, b, s) BY <2>1, MonthShows
  <2> QED BY <1>5, <1>8, <2>1, <2>2, WindowShows DEF FirstDay, LastDay
<1> DEFINE spent == Expenses(_base_filters(u, a, FirstDay(m, s), LastDay(m, s)))
           before == Expenses(_base_filters(u, a, FirstDay(b, s), LastDay(b, s)))
<1>18. /\ AllListed(spent) /\ AllListed(before) =>
            MapThenSumSet(LAMBDA i : compared.deltas[i].change, DOMAIN compared.deltas)
               = compared.current - compared.previous
       /\ AllListed(spent) => Total(Query_top_spending_categories(u, a, m, n, s)) = shown.expenses
       /\ n <= 100 => Total(get_top_merchants(u, a, FirstDay(m, s), LastDay(m, s), n))
                         = SumAbs(HasKeyword(spent))
  BY <1>12, <1>13, <1>14, <1>17, Zenon
<1> QED BY <1>11, <1>15, <1>16, <1>18, Zenon DEF MonthAgrees, FirstDay, LastDay, m, n, b

(* Whatever documents, accounts and start days the invariant allows, the
   answers agree. *)
LEMMA DocsAgree == ASSUME DocsInv, AccountsInv PROVE ReportsAgree
<1> SUFFICES ASSUME NEW a \in {d.account : d \in docs}, NEW day \in _get_budget_start_day(a)
             PROVE  LET u == account_owner(a)
                        flow == Query_cashflow_by_month(u, a, 3, day) IN
                    /\ MonthsAgree(u, a, day)
                    /\ \A row \in flow : MonthAgrees(u, a, row, flow, day)
  BY DEF ReportsAgree
<1>1. docs # {} /\ a \in Opened BY DEF DocsInv
<1>2. IsAccount(accounts[a])
  BY <1>1 DEF AccountsInv, Opened, account_exists, get_by_id
<1>3. day \in 1 .. 28
  <2>1. accounts[a].start \in 1 .. 28 BY <1>2 DEF IsAccount
  <2> QED BY <2>1 DEF _get_budget_start_day, AccountClient_get_budget_start_day
<1>4. PICK u : u = account_owner(a) OBVIOUS
<1>5. MonthsAgree(u, a, day) BY <1>3, MonthsShown
<1>6. \A row \in Query_cashflow_by_month(u, a, 3, day) :
        MonthAgrees(u, a, row, Query_cashflow_by_month(u, a, 3, day), day)
  BY <1>1, <1>3, MonthShown
<1> QED BY <1>4, <1>5, <1>6

(* The dashboard's answers agree in every reachable state, for any documents
   projected, owners, start days and day the questions are asked on: overview,
   cash flow, breakdowns, comparison and list filter by date ranges or by
   calendar buckets, and yet add up to the same.  A breakdown or a comparison
   does so when no month has more categories than BreakdownSize, the merchants
   up to the descriptions without a keyword, and the list and the merchants
   within the 500 and 100 rows their routes allow. *)
THEOREM AnswersAgree == Spec => []ReportsAgree
<1>1. DashboardInv => ReportsAgree BY DocsAgree DEF DashboardInv
<1>2. QED BY <1>1, DashboardInvariance, PTL

=============================================================================
