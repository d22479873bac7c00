------------------------------ MODULE Taxonomy ------------------------------
(***************************************************************************)
(* The categories and subcategories: categorization-service owns them and  *)
(* announces every change; transaction-service keeps a read copy for names *)
(* and for checking a user's choice.  The events of one change reach one   *)
(* queue in the order they were committed.  Two faults disturb it: the     *)
(* publisher sends an event again, and a delivery that failed goes to the  *)
(* end of the queue.  Display order and category type are left out: the    *)
(* read copy and the rule engine do not use them.                          *)
(***************************************************************************)
EXTENDS Platform, SequencesExt

CONSTANTS
    CategoryIds, SubIds,   \* ids the tables can give out, in this order
    Names, SubNames,
    StoredCategories, StoredSubs,  \* the seeded rows
    FallbackKey,           \* the subcategory seeded as shopping_unspecified
    MaxTaxonomyEdits       \* bound: changes of the taxonomy

ASSUME TaxonomyAssumption ==
    /\ CategoryIds \subseteq Nat \ {0} /\ SubIds \subseteq Nat \ {0} /\ FallbackKey \in SubIds
    /\ DOMAIN StoredCategories \subseteq CategoryIds /\ DOMAIN StoredSubs \subseteq SubIds
    /\ StoredCategories = [c \in DOMAIN StoredCategories |-> StoredCategories[c]]
    /\ StoredSubs = [s \in DOMAIN StoredSubs |-> StoredSubs[s]]

VARIABLES
    categories,      \* id -> name
    subcategories,   \* id -> name and parent
    log,             \* the events of the taxonomy, in the order of their commits
    queue,           \* transaction_service.taxonomy_sync: indices into log
    inbox,           \* its rows of processed_events
    copyCategories, copySubs,   \* the read copy of transaction-service
    disturbed        \* history: a delivery was put back behind later ones

taxonomyVars == <<categories, subcategories, log, queue, inbox, copyCategories, copySubs, disturbed>>

masterVars == <<categories, subcategories, log, queue>>

-----------------------------------------------------------------------------
(* Tables *)

SubCategoryRow(name, parent) == [name |-> name, parent |-> parent]

find_category(c) == c \in DOMAIN categories

find_subcategory(s) == s \in DOMAIN subcategories

(* The partial unique index on the name of an active category agrees. *)
find_by_name(name) == {c \in DOMAIN categories : categories[c] = name}

find_by_category_id(c) == {s \in DOMAIN subcategories : subcategories[s].parent = c}

find_by_name_and_category(name, c) ==
    {s \in find_by_category_id(c) : subcategories[s].name = name}

(* An id is never given out twice, not even that of a deleted row. *)
NextId(ids, table, key) ==
    LET used == DOMAIN table \cup {i \in ids : \E n \in DOMAIN log : log[n].key = <<key, i>>} IN
    {i \in ids \ used : \A j \in ids : j < i => j \in used}

(* uow.outbox.add: the event is published when the change commits. *)
Announce(type, key, row) ==
    /\ Len(log) < MaxTaxonomyEdits
    /\ log' = Append(log, [type |-> type, key |-> key, row |-> row])
    /\ queue' = Append(queue, Len(log) + 1)

(* The reads that the forms of the user interface offer. *)
list_categories == DOMAIN categories

list_subcategories(c) == find_by_category_id(c)

Without(f, x) == [y \in DOMAIN f \ {x} |-> f[y]]

-----------------------------------------------------------------------------
(* Categories *)

insert_category(c, name) == categories' = With(categories, c, name)

write_category(c, name) == categories' = [categories EXCEPT ![c] = name]

(* The foreign key of subcategories refuses what the check below overlooks. *)
remove_category(c) == categories' = Without(categories, c)

create_category(name) ==
    /\ find_by_name(name) = {}
    /\ \E c \in NextId(CategoryIds, categories, "category") :
          /\ insert_category(c, name)
          /\ Announce("category.created", <<"category", c>>, name)
    /\ UNCHANGED subcategories

update_category(c, name) ==
    /\ find_category(c)
    /\ name # categories[c] => find_by_name(name) = {}
    /\ write_category(c, name)
    /\ Announce("category.updated", <<"category", c>>, name)
    /\ UNCHANGED subcategories

delete_category(c) ==
    /\ find_category(c)
    /\ find_by_category_id(c) = {}
    /\ remove_category(c)
    /\ Announce("category.deleted", <<"category", c>>, categories[c])
    /\ UNCHANGED subcategories

-----------------------------------------------------------------------------
(* Subcategories *)

FALLBACK_SUBCATEGORY_NAME == "Anden"

insert_subcategory(s, row) == subcategories' = With(subcategories, s, row)

write_subcategory(s, row) == subcategories' = [subcategories EXCEPT ![s] = row]

remove_subcategory(s) == subcategories' = Without(subcategories, s)

create_subcategory(c, name) ==
    /\ find_category(c)
    /\ find_by_name_and_category(name, c) = {}
    /\ \E s \in NextId(SubIds, subcategories, "sub") :
          /\ insert_subcategory(s, SubCategoryRow(name, c))
          /\ Announce("subcategory.created", <<"sub", s>>, SubCategoryRow(name, c))
    /\ UNCHANGED categories

(* A new name, another parent, or both. *)
update_subcategory(s, name, c) ==
    /\ find_subcategory(s) /\ find_category(c)
    /\ find_by_name_and_category(name, c) \subseteq {s}
    /\ write_subcategory(s, SubCategoryRow(name, c))
    /\ Announce("subcategory.updated", <<"sub", s>>, SubCategoryRow(name, c))
    /\ UNCHANGED categories

(* referenced: merchants or rules name it.  The fallback is known by name. *)
delete_subcategory(s, referenced) ==
    /\ find_subcategory(s)
    /\ subcategories[s].name # FALLBACK_SUBCATEGORY_NAME
    /\ ~ referenced
    /\ remove_subcategory(s)
    /\ Announce("subcategory.deleted", <<"sub", s>>, subcategories[s])
    /\ UNCHANGED categories

-----------------------------------------------------------------------------
(* The read copy: taxonomy_sync_consumer *)

(* Self-healing: an update of a row never seen creates it. *)
_upsert_category(e) ==
    copyCategories' = With(copyCategories, e.key[2], e.row) /\ UNCHANGED copySubs

_delete_category(e) ==
    copyCategories' = Without(copyCategories, e.key[2]) /\ UNCHANGED copySubs

_upsert_subcategory(e) ==
    copySubs' = With(copySubs, e.key[2], e.row) /\ UNCHANGED copyCategories

_delete_subcategory(e) ==
    copySubs' = Without(copySubs, e.key[2]) /\ UNCHANGED copyCategories

_dispatch(e) ==
    \/ e.type \in {"category.created", "category.updated"} /\ _upsert_category(e)
    \/ e.type = "category.deleted" /\ _delete_category(e)
    \/ e.type \in {"subcategory.created", "subcategory.updated"} /\ _upsert_subcategory(e)
    \/ e.type = "subcategory.deleted" /\ _delete_subcategory(e)

(* Mutant of _is_duplicate: the inbox is not looked at. *)
never_duplicate(m) == FALSE

_is_duplicate(m) == m \in inbox

(* One transaction: the row of the copy and the row of the inbox. *)
SyncHandles ==
    /\ queue # <<>>
    /\ IF _is_duplicate(Head(queue))
       THEN UNCHANGED <<inbox, copyCategories, copySubs>>
       ELSE _dispatch(log[Head(queue)]) /\ inbox' = inbox \cup {Head(queue)}
    /\ queue' = Tail(queue)
    /\ UNCHANGED <<bus, categories, subcategories, log, disturbed>> /\ Background

(* The handler fails and the consumer base publishes the message again.    *)
SyncFails ==
    /\ Fault /\ Len(queue) > 0
    /\ queue' = Append(Tail(queue), Head(queue))
    /\ disturbed' = (disturbed \/ Len(queue) > 1)
    /\ UNCHANGED <<bus, categories, subcategories, log, inbox, copyCategories, copySubs>>

(* The outbox publisher stops between the publication and marking it. *)
PublishedAgain ==
    /\ Fault
    /\ \E m \in inbox : queue' = Append(queue, m)
    /\ UNCHANGED <<bus, categories, subcategories, log, inbox, copyCategories, copySubs, disturbed>>

-----------------------------------------------------------------------------

TaxonomyInit ==
    /\ categories = StoredCategories /\ subcategories = StoredSubs
    /\ log = <<>> /\ queue = <<>> /\ inbox = {}
    /\ copyCategories = StoredCategories /\ copySubs = StoredSubs
    /\ disturbed = FALSE

SyncNext == SyncHandles \/ SyncFails \/ PublishedAgain

(* The read copy catches up: with nothing left in the queue it equals the  *)
(* master, whatever the publisher repeated, as long as no failed delivery  *)
(* was put back behind a later one.                                        *)
CopyFollowsMaster ==
    queue = <<>> /\ ~ disturbed => copyCategories = categories /\ copySubs = subcategories

=============================================================================
