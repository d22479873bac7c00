----------------------------- MODULE BankConnect -----------------------------
(***************************************************************************)
(* banking-service: connecting an account to a bank and disconnecting it.  *)
(* The user leaves for the bank with a state; the bank sends the browser   *)
(* back to the callback, which has no token, so the state alone says whose *)
(* account it is.  The callback consumes the state in one transaction,     *)
(* asks the bank for a session, and stores the connections in another.     *)
(* Consent dates are left out; the running syncs of a connection are       *)
(* SyncClaim's.                                                            *)
(***************************************************************************)
EXTENDS Accounts, FiniteSetsExt

CONSTANTS
    States,          \* the states authorizations get, in turn
    Uids,            \* accounts at the bank
    ConnectionIds,
    Callbacks        \* callbacks that can be in progress at once

VARIABLES
    pending,      \* pending_authorizations: state -> its row
    asked,        \* history: state -> the account and user who left with it
    returning,    \* callback -> what it has read
    connections,  \* bank_connections: id -> its row
    leaving       \* connections a disconnect is about to mark

bankVars == <<pending, asked, returning, connections, leaving>>

Nothing == [account |-> 0]

NotThere == [at |-> "nowhere"]

-----------------------------------------------------------------------------
(* pending_authorizations *)

save_pending(s, a, u) ==
    pending' = [pending EXCEPT ![s] =
        [account |-> a, user |-> u, consumed |-> FALSE, expired |-> FALSE]]

(* Mutant of Consumable: consumed_at is not looked at. *)
ConsumableAgain(s) == pending[s] # Nothing /\ ~ pending[s].expired

Consumable(s) == pending[s] # Nothing /\ ~ pending[s].consumed /\ ~ pending[s].expired

cleanup_expired(rows) ==
    [s \in States |-> IF rows[s] # Nothing /\ rows[s].expired THEN Nothing ELSE rows[s]]

consume(s) == pending' = cleanup_expired([pending EXCEPT ![s].consumed = TRUE])

(* PENDING_AUTH_TTL_MINUTES go by. *)
TimeOut(s) ==
    /\ pending[s] # Nothing /\ ~ pending[s].expired
    /\ pending' = [pending EXCEPT ![s].expired = TRUE]
    /\ UNCHANGED <<bus, asked, returning, connections, leaving>>

-----------------------------------------------------------------------------
(* bank_connections *)

Live(k) == connections[k] # Nothing /\ connections[k].status # "disconnected"

get_active_by_uid(uid, a) ==
    {k \in ConnectionIds : Live(k) /\ connections[k].uid = uid /\ connections[k].account = a}

list_by_account(a) == {k \in ConnectionIds : connections[k] # Nothing /\ connections[k].account = a}

update_status(row, status) == [row EXCEPT !.status = status]

update_consent(row, session) == [row EXCEPT !.session = session]

Reconnected(row, session) == update_consent(update_status(row, "active"), session)

NewConnection(call, uid) ==
    [account |-> call.account, user |-> call.user, uid |-> uid,
     session |-> call.state, status |-> "active"]

ConnectionCreatedEvent(k, row) ==
    [type |-> "bank.connection.created", connection |-> k, account |-> row.account, user |-> row.user]

-----------------------------------------------------------------------------
(* Connecting *)

_verify_account_access(a, u) == a \in Opened /\ account_owner(a) = u

list_connections(a, u) == IF _verify_account_access(a, u) THEN list_by_account(a) ELSE {}

(* Enable Banking answers with a state nobody has had. *)
start_authorization(s) == s = Min({t \in States : asked[t] = Nothing})

start_connect(s, a, u) ==
    /\ _verify_account_access(a, u) /\ start_authorization(s)
    /\ save_pending(s, a, u)
    /\ asked' = [asked EXCEPT ![s] = [account |-> a, user |-> u]]
    /\ UNCHANGED <<bus, returning, connections, leaving>>

start_bank_connection ==
    \E s \in {t \in States : asked[t] = Nothing}, u \in tokens, a \in AccountIds : start_connect(s, a, u)

(* An unknown, expired or consumed state redirects with an error. *)
bank_callback(i, s) ==
    /\ returning[i] = NotThere /\ Consumable(s)
    /\ consume(s)
    /\ returning' = [returning EXCEPT ![i] =
          [at |-> "session", state |-> s, account |-> pending[s].account, user |-> pending[s].user]]
    /\ UNCHANGED <<bus, asked, connections, leaving>>

(* The bank's session lists the accounts consented to; each is looked up.  *)
(* Two live connections of one bank account make scalar_one_or_none raise. *)
create_session(i) ==
    LET call == returning[i] IN
    /\ call.at = "session"
    /\ \E uids \in SUBSET Uids \ {{}} :
          LET found == [uid \in uids |-> get_active_by_uid(uid, call.account)] IN
          IF \E uid \in uids : Cardinality(found[uid]) > 1
          THEN returning' = [returning EXCEPT ![i] = NotThere]
          ELSE returning' = [returning EXCEPT ![i] =
                   [at |-> "store", state |-> call.state, account |-> call.account,
                    user |-> call.user, found |-> found]]
    /\ UNCHANGED <<bus, pending, asked, connections, leaving>>

(* One transaction: each bank account refreshes the connection found or    *)
(* gets a new one, and is announced.                                       *)
complete_connect(i) ==
    LET call == returning[i] IN
    /\ call.at = "store"
    /\ \E into \in [DOMAIN call.found -> ConnectionIds] :
          LET row(uid) == IF call.found[uid] = {} THEN NewConnection(call, uid)
                          ELSE Reconnected(connections[into[uid]], call.state)
              Named(k) == CHOOSE uid \in DOMAIN into : into[uid] = k
              written == {into[uid] : uid \in DOMAIN into}
          IN  /\ \A uid \in DOMAIN into :
                    IF call.found[uid] = {} THEN connections[into[uid]] = Nothing
                    ELSE into[uid] \in call.found[uid]
              /\ Cardinality(written) = Cardinality(DOMAIN into)
              /\ connections' = [k \in ConnectionIds |->
                    IF k \in written THEN row(Named(k)) ELSE connections[k]]
              /\ Emit({ConnectionCreatedEvent(k, row(Named(k))) : k \in written})
    /\ returning' = [returning EXCEPT ![i] = NotThere]
    /\ UNCHANGED <<pending, asked, leaving>>

(* The bank refuses the code or does not answer, or the process dies: the  *)
(* state stays consumed, and the user starts over.                         *)
CallbackFails(i) ==
    /\ Fault /\ returning[i] # NotThere
    /\ returning' = [returning EXCEPT ![i] = NotThere]
    /\ UNCHANGED <<bus, pending, asked, connections, leaving>>

-----------------------------------------------------------------------------
(* Disconnecting: the remote session is deleted as well as it goes. *)

disconnect_bank ==
    /\ \E k \in ConnectionIds :
          /\ connections[k] # Nothing /\ connections[k].user \in tokens
          /\ leaving' = leaving \cup {k}
    /\ UNCHANGED <<bus, pending, asked, returning, connections>>

disconnect(k) ==
    /\ k \in leaving
    /\ connections' = [connections EXCEPT ![k] = update_status(@, "disconnected")]
    /\ Emit({[type |-> "bank.connection.disconnected", connection |-> k]})
    /\ leaving' = leaving \ {k}
    /\ UNCHANGED <<pending, asked, returning>>

BankInit ==
    /\ pending = [s \in States |-> Nothing] /\ asked = [s \in States |-> Nothing]
    /\ returning = [i \in Callbacks |-> NotThere]
    /\ connections = [k \in ConnectionIds |-> Nothing] /\ leaving = {}

BankNext ==
    \/ Request /\ (start_bank_connection \/ disconnect_bank)
    \/ Background /\ \E i \in Callbacks, s \in States : bank_callback(i, s)
    \/ Background /\ \E i \in Callbacks : create_session(i) \/ complete_connect(i)
    \/ Background /\ \E s \in States : TimeOut(s)
    \/ Background /\ \E k \in ConnectionIds : disconnect(k)
    \/ \E i \in Callbacks : CallbackFails(i)

-----------------------------------------------------------------------------

(* A connection belongs to the account and the user who left for the bank  *)
(* with the state its session answers, who finds it in the list, and one   *)
(* authorization stores a bank account once, however often and whenever    *)
(* the browser calls back, beside other callbacks and disconnects.         *)
ConnectedAsAsked ==
    \A k \in ConnectionIds : connections[k] # Nothing =>
        LET row == connections[k] IN
        /\ [account |-> row.account, user |-> row.user] = asked[row.session]
        /\ k \in list_connections(row.account, row.user)
        /\ \A j \in ConnectionIds \ {k} : connections[j] # Nothing =>
              <<connections[j].session, connections[j].uid>> # <<row.session, row.uid>>

=============================================================================
