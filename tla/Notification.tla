---------------------------- MODULE Notification ----------------------------
(***************************************************************************)
(* notification-service: the consumer that turns five kinds of event into  *)
(* notifications, and the requests on a user's feed.  A source key is the  *)
(* tuple the code formats into a string: the kind of occasion and the      *)
(* fields that tell one occasion from another.  The broker may deliver an  *)
(* event any number of times, in any order, and twice at once when a       *)
(* connection is lost while a handler runs; a handler that fails changes   *)
(* nothing and its delivery comes back.                                    *)
(***************************************************************************)
EXTENDS Platform, FiniteSets, Bags

CONSTANTS
    Accounts, Owner,   \* the accounts, and the user each belongs to
    Events,            \* the events other services publish
    NoticeWorkers      \* handlers that can run at once

(* The events the consumer's queue is bound to. *)
ROUTING_KEYS ==
    {"bank.sync.completed", "goal.updated", "goal.reached", "budget.month_closed",
     "budget.line_threshold_crossed"}

ASSUME EventsAssumption == \A e \in Events : e.type \in ROUTING_KEYS

VARIABLES
    accounts,     \* accounts that account-service still knows
    notices,      \* notification id -> its row
    noticing,     \* worker -> the delivery it handles
    mails         \* the source keys of the mails sent, a bag

noticeVars == <<platform, accounts, notices, noticing, mails>>

-----------------------------------------------------------------------------
(* What an event becomes *)

(* Quiet is a scheduled sync with nothing to report. *)
should_notify_bank_sync(e) ==
    ~ e.scheduled \/ e.imported > 0 \/ e.errors > 0 \/ e.skipped > 0

build_bank_sync_completed(e) ==
    [type |-> "bank_sync_completed", news |-> e.imported > 0, failures |-> e.errors > 0]

build_goal_reached(e) == [type |-> "goal_reached", goal |-> e.goal, target |-> e.target]

build_budget_month_closed(e) ==
    [type |-> "budget_month_closed", period |-> e.period, surplus |-> e.surplus]

build_budget_line_threshold_crossed(e) ==
    [type |-> "budget_threshold_crossed", category |-> e.category, overspent |-> e.threshold >= 100]

Ignored == [status |-> "ignored"]

Create(user, content, key) ==
    [status |-> "create", user |-> user, content |-> content, key |-> key]

get_owner_user_id(a) == IF a \in accounts THEN {Owner[a]} ELSE {}

(* The owner of an account that is gone has no feed: the event is dropped. *)
CreateForOwner(a, content, key) ==
    IF get_owner_user_id(a) = {} THEN Ignored
    ELSE Create(CHOOSE u \in get_owner_user_id(a) : TRUE, content, key)

(* A new run of the same connection has another correlation id. *)
handle_bank_sync_completed(e) ==
    IF should_notify_bank_sync(e)
    THEN Create(e.user, build_bank_sync_completed(e), <<e.type, e.connection, e.correlation>>)
    ELSE Ignored

(* goal.updated carries amounts only: a goal is reached when they say so.  *)
handle_goal_updated(e) ==
    IF e.target <= 0 \/ e.current < e.target THEN Ignored
    ELSE Create(e.user, build_goal_reached(e), <<"goal.reached", e.goal>>)

(* The key is the one of goal.updated: one goal is reached once. *)
handle_goal_reached(e) ==
    CreateForOwner(e.account, build_goal_reached(e), <<"goal.reached", e.goal>>)

handle_budget_month_closed(e) ==
    CreateForOwner(e.account, build_budget_month_closed(e), <<e.type, e.account, e.period>>)

handle_budget_line_threshold_crossed(e) ==
    CreateForOwner(e.account, build_budget_line_threshold_crossed(e),
                   <<e.type, e.account, e.period, e.category, e.threshold>>)

_dispatch(e) ==
    CASE e.type = "bank.sync.completed" -> handle_bank_sync_completed(e)
      [] e.type = "goal.updated" -> handle_goal_updated(e)
      [] e.type = "goal.reached" -> handle_goal_reached(e)
      [] e.type = "budget.month_closed" -> handle_budget_month_closed(e)
      [] e.type = "budget.line_threshold_crossed" -> handle_budget_line_threshold_crossed(e)

-----------------------------------------------------------------------------
(* The table *)

NotificationRow(result) ==
    [user |-> result.user, content |-> result.content, key |-> result.key,
     read |-> FALSE, dismissed |-> FALSE]

source_key_exists(key) == \E i \in DOMAIN notices : notices[i].key = key

Feed(u) == {i \in DOMAIN notices : notices[i].user = u /\ ~ notices[i].dismissed}

list_for_user(u, unread_only) == {i \in Feed(u) : unread_only => ~ notices[i].read}

unread_count(u) == Cardinality({i \in Feed(u) : ~ notices[i].read})

-----------------------------------------------------------------------------
(* The consumer *)

NoDelivery == [status |-> "none"]

Handler(w, state) == noticing' = [noticing EXCEPT ![w] = state]

(* The handler up to the check of source_key; what is ignored, dropped or  *)
(* already there is acknowledged and changes nothing.                      *)
NoticeArrives(w) ==
    \E e \in Events :
        LET result == _dispatch(e) IN
        /\ noticing[w] = NoDelivery
        /\ result.status = "create" /\ ~ source_key_exists(result.key)
        /\ Handler(w, result)
        /\ UNCHANGED <<bus, accounts, notices, mails>> /\ Background

(* An id no row has; which one does not matter. *)
AddedNotice(result) ==
    LET id == <<result.key, Cardinality({i \in DOMAIN notices : notices[i].key = result.key})>> IN
    notices' = [i \in DOMAIN notices \cup {id} |->
                   IF i \in DOMAIN notices THEN notices[i] ELSE NotificationRow(result)]

(* Mutant of NoticeSaved: the insert relies on the check before it. *)
NoticeSavedAnyway(w) ==
    /\ noticing[w].status = "create"
    /\ AddedNotice(noticing[w])
    /\ Handler(w, [status |-> "mail", key |-> noticing[w].key])
    /\ UNCHANGED <<bus, accounts, mails>> /\ Background

(* The insert; the unique source_key turns a lost race into a duplicate,   *)
(* which is acknowledged and mails nothing.                                *)
NoticeSaved(w) ==
    /\ noticing[w].status = "create"
    /\ IF source_key_exists(noticing[w].key)
       THEN Handler(w, NoDelivery) /\ UNCHANGED notices
       ELSE /\ AddedNotice(noticing[w])
            /\ Handler(w, [status |-> "mail", key |-> noticing[w].key])
    /\ UNCHANGED <<bus, accounts, mails>> /\ Background

(* After the commit, and best effort: sent or not, the delivery is done. *)
_send_email_best_effort(w) ==
    /\ noticing[w].status = "mail"
    /\ mails' \in {mails, mails (+) SetToBag({noticing[w].key})}
    /\ Handler(w, NoDelivery)
    /\ UNCHANGED <<bus, accounts, notices>> /\ Background

NoticeLost(w) ==
    /\ Fault /\ noticing[w] # NoDelivery
    /\ Handler(w, NoDelivery)
    /\ UNCHANGED <<bus, accounts, notices, mails>>

-----------------------------------------------------------------------------
(* The feed.  A row that is dismissed is gone: no request finds it, though *)
(* it stays in the table and its key with it.                              *)

mark_read(u, i) ==
    /\ i \in Feed(u)
    /\ notices' = [notices EXCEPT ![i].read = TRUE]

(* Mutant of mark_all_read: every row of the user is touched. *)
mark_every_row_read(u) ==
    notices' = [i \in DOMAIN notices |->
        IF notices[i].user = u THEN [notices[i] EXCEPT !.read = TRUE] ELSE notices[i]]

mark_all_read(u) ==
    notices' = [i \in DOMAIN notices |->
        IF i \in Feed(u) THEN [notices[i] EXCEPT !.read = TRUE] ELSE notices[i]]

(* Dismissing twice finds no row the second time. *)
dismiss(u, i) ==
    /\ i \in Feed(u)
    /\ notices' = [notices EXCEPT ![i].dismissed = TRUE]

Users == {Owner[a] : a \in Accounts}

FeedRoute == Request /\ UNCHANGED <<bus, accounts, noticing, mails>>

post_read(u, i) == FeedRoute /\ mark_read(u, i)

post_read_all(u) == FeedRoute /\ mark_all_read(u)

remove_notification(u, i) == FeedRoute /\ dismiss(u, i)

AccountDeleted(a) ==
    /\ Fault /\ a \in accounts
    /\ accounts' = accounts \ {a}
    /\ UNCHANGED <<bus, notices, noticing, mails>>

-----------------------------------------------------------------------------

NoticeInit ==
    /\ PlatformInit /\ accounts = Accounts
    /\ notices = <<>> /\ mails = EmptyBag
    /\ noticing = [w \in NoticeWorkers |-> NoDelivery]

NoticeNext ==
    \/ \E u \in Users :
          \/ post_read_all(u)
          \/ \E i \in DOMAIN notices : post_read(u, i) \/ remove_notification(u, i)
    \/ \E a \in Accounts : AccountDeleted(a)
    \/ \E w \in NoticeWorkers :
          NoticeArrives(w) \/ NoticeSaved(w) \/ _send_email_best_effort(w) \/ NoticeLost(w)

NoticeSpec == NoticeInit /\ [][NoticeNext]_noticeVars

-----------------------------------------------------------------------------
SameGoal(c, d) == c.type = "goal_reached" /\ d.type = "goal_reached" /\ c.goal = d.goal

(* One occasion gives one notification and at most one mail, however often *)
(* the event is delivered, however two handlers interleave, and whether    *)
(* the alert worker emits it again after the user dismissed it: a row that *)
(* is dismissed stays, and its key with it.  A goal is reached once, by an *)
(* edit or by a month's surplus.                                           *)
NotifiedOnce ==
    /\ \A i, j \in DOMAIN notices :
          \/ notices[i].key = notices[j].key
          \/ SameGoal(notices[i].content, notices[j].content)
          => i = j
    /\ \A k \in DOMAIN mails : mails[k] = 1 /\ source_key_exists(k)

(* A dismissed notification never comes back and is never marked read, and *)
(* the number on the badge is the number of unread notifications that the  *)
(* list shows: both reads and both writes agree on what is gone.           *)
GoneStaysGone ==
    /\ [][\A i \in DOMAIN notices : notices[i].dismissed =>
             i \in DOMAIN notices' /\ notices'[i] = notices[i]]_noticeVars
    /\ [](\A u \in Users : unread_count(u) = Cardinality(list_for_user(u, TRUE)))

=============================================================================
