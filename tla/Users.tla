------------------------------- MODULE Users -------------------------------
(***************************************************************************)
(* user-service: registration, login and the two profile changes.  bcrypt  *)
(* runs in a worker thread between a call's reads and its write, so other  *)
(* calls commit in between; the unique constraints on username and email   *)
(* decide at the write.  A password hash stands for its password.          *)
(***************************************************************************)
EXTENDS Platform

CONSTANTS
    UserIds,      \* the serial of users
    Usernames,
    Emails,
    Passwords,
    Clients,      \* calls user-service can be serving at once
    StoredUsers   \* rows users starts with, of users who are signed in

ASSUME UserAssumption == UserIds \subseteq Nat \ {0}

(* The rows users starts with satisfy its unique constraints. *)
ASSUME StoredUsersAssumption ==
    /\ DOMAIN StoredUsers \subseteq UserIds
    /\ StoredUsers \in [DOMAIN StoredUsers ->
                          [username : Usernames, email : Emails, password : Passwords]]
    /\ \A u, v \in DOMAIN StoredUsers :
          \/ StoredUsers[u].username = StoredUsers[v].username
          \/ StoredUsers[u].email = StoredUsers[v].email
          => u = v

VARIABLES
    users,     \* id -> its row
    serving,   \* client -> the call between its reads and its write
    tokens     \* ids a token has been issued for

userVars == <<users, serving, tokens>>

NoUser == [username |-> 0]

Idle == [op |-> "idle"]

UserRow == [username : Usernames, email : Emails, password : Passwords]

find_by_id(u) == users[u] # NoUser

Registered == {u \in UserIds : find_by_id(u)}

find_by_username(name) == {u \in Registered : users[u].username = name}

find_by_email(email) == {u \in Registered : users[u].email = email}

find_credentials_by_id(u) == users[u].password

get_user(u) == find_by_id(u)

(* GET /users/{id}, for the services that hold the internal key. *)
get_user_by_id(u) == get_user(u)

Serve(c, call) == serving' = [serving EXCEPT ![c] = call]

Stored(c, table) == users' = table /\ Serve(c, Idle)

update_password(c, u, pw) == Stored(c, [users EXCEPT ![u].password = pw])

update_username(c, u, name) == Stored(c, [users EXCEPT ![u].username = name])

-----------------------------------------------------------------------------
(* register *)

RegisterChecks(c, name, email, pw) ==
    /\ serving[c] = Idle
    /\ find_by_email(email) = {} /\ find_by_username(name) = {}
    /\ Serve(c, [op |-> "register", username |-> name, email |-> email, password |-> pw])
    /\ UNCHANGED <<bus, users, tokens>>

(* unique=True on username and on email: no other row has either. *)
ConstraintsHold(u, row) ==
    find_by_username(row.username) \cup find_by_email(row.email) \subseteq {u}

insert_user(c, u, row) ==
    /\ u \notin Registered /\ \A v \in UserIds \ Registered : u <= v
    /\ Stored(c, [users EXCEPT ![u] = row])

(* A lost race is the 409 of a taken name, and leaves nothing. *)
register(c) ==
    LET call == serving[c]
        row == [username |-> call.username, email |-> call.email, password |-> call.password]
    IN  /\ call.op = "register"
        /\ \/ \E u \in UserIds :
                 /\ ConstraintsHold(u, row)
                 /\ insert_user(c, u, row)
                 /\ Emit({[type |-> "user.created", user |-> u]})
           \/ ~ ConstraintsHold(0, row) /\ Serve(c, Idle) /\ UNCHANGED <<bus, users>>
        /\ UNCHANGED tokens

-----------------------------------------------------------------------------
(* login, change_password, change_username *)

(* The identifier is a username or an email; a token names the row's id. *)
login(identifier, pw) ==
    LET found == IF identifier \in Emails THEN find_by_email(identifier)
                 ELSE find_by_username(identifier)
    IN  /\ \E u \in found : users[u].password = pw /\ tokens' = tokens \cup {u}
        /\ UNCHANGED <<bus, users, serving>>

PasswordChecks(c, u, current, new) ==
    /\ serving[c] = Idle /\ find_credentials_by_id(u) = current
    /\ Serve(c, [op |-> "password", user |-> u, password |-> new])
    /\ UNCHANGED <<bus, users, tokens>>

change_password(c) ==
    /\ serving[c].op = "password"
    /\ update_password(c, serving[c].user, serving[c].password)
    /\ UNCHANGED <<bus, tokens>>

(* A name left as it is is answered without a write, before the check. *)
UsernameChecks(c, u, name) ==
    /\ serving[c] = Idle /\ users[u].username # name /\ find_by_username(name) = {}
    /\ Serve(c, [op |-> "username", user |-> u, username |-> name])
    /\ UNCHANGED <<bus, users, tokens>>

change_username(c) ==
    LET call == serving[c]
        row == [users[call.user] EXCEPT !.username = call.username]
    IN  /\ call.op = "username"
        /\ \/ ConstraintsHold(call.user, row) /\ update_username(c, call.user, call.username)
           \/ ~ ConstraintsHold(call.user, row) /\ Serve(c, Idle) /\ UNCHANGED users
        /\ UNCHANGED <<bus, tokens>>

(* An error or a crash before the commit. *)
CallLost(c) ==
    /\ Fault /\ serving[c] # Idle /\ Serve(c, Idle)
    /\ UNCHANGED <<bus, users, tokens>>

-----------------------------------------------------------------------------
(* Routes: a profile change takes its user from the token. *)

post_register ==
    \E c \in Clients, name \in Usernames, email \in Emails, pw \in Passwords :
        RegisterChecks(c, name, email, pw)

post_login == \E identifier \in Usernames \cup Emails, pw \in Passwords : login(identifier, pw)

change_my_password ==
    \E c \in Clients, u \in tokens, old, new \in Passwords : PasswordChecks(c, u, old, new)

change_my_username ==
    \E c \in Clients, u \in tokens, name \in Usernames : UsernameChecks(c, u, name)

UsersInit ==
    /\ users = [u \in UserIds |-> IF u \in DOMAIN StoredUsers THEN StoredUsers[u] ELSE NoUser]
    /\ serving = [c \in Clients |-> Idle]
    /\ tokens = DOMAIN StoredUsers

UsersNext ==
    \/ Request /\ (post_register \/ post_login \/ change_my_password \/ change_my_username)
    \/ \E c \in Clients : Background /\ (register(c) \/ change_password(c) \/ change_username(c))
    \/ \E c \in Clients : CallLost(c)

-----------------------------------------------------------------------------

(* Two users never share a username or an email, though a registration and *)
(* a rename check first and write a quarter of a second later, and each    *)
(* user was announced.                                                     *)
IdentitiesDistinct ==
    \A u \in Registered :
        /\ find_by_username(users[u].username) = {u} /\ find_by_email(users[u].email) = {u}
        /\ u \in DOMAIN StoredUsers \/ [type |-> "user.created", user |-> u] \in bus

=============================================================================
