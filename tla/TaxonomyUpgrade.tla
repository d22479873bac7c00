-------------------------- MODULE TaxonomyUpgrade --------------------------
(***************************************************************************)
(* Installing the target taxonomy in categorization-service, and telling   *)
(* transaction-service's read copy about it.  Migration 008 gives the      *)
(* target rows fixed ids; where rows users made already have those ids it  *)
(* cannot run, and an operator runs the bootstrap instead, which takes ids *)
(* above everything given out and notes them in a ledger.  Migration 009   *)
(* completes and checks the ledger.  Every run is one transaction, so what *)
(* fails leaves nothing.  A semantic key and its public id are one-to-one: *)
(* the key stands for both.  Names and the schema changes are left out.    *)
(***************************************************************************)
EXTENDS Platform, SequencesExt, FiniteSetsExt

CONSTANTS
    ParentKeys, ChildKeys,   \* TAXONOMY_DEFINITIONS in order, by kind
    ParentOf,                \* child key -> parent key
    LegacyTable,             \* the rows seeded before the target taxonomy
    FixedStart,              \* kind -> the first id migration 008 gives out
    Floor,                   \* kind -> the first id past the published ones
    OperatorRuns,            \* the run ids of bootstraps and repairs
    MaxInstalls,             \* bound: migrations, bootstraps and repairs
    MaxOperations            \* bound: requests and scans, an installation counting as two

Kinds == {"category", "subcategory"}

NoKey == "none"

NoParent == 0

NoLedger == <<>>

LedgerRows(l) == IF l = NoLedger THEN {} ELSE l[1]

Keys == [category |-> ParentKeys, subcategory |-> ChildKeys]

AllKeys == ToSet(ParentKeys) \cup ToSet(ChildKeys)

ASSUME UpgradeAssumption ==
    /\ ParentOf \in [ToSet(ChildKeys) -> ToSet(ParentKeys)] /\ NoKey \notin AllKeys
    /\ ToSet(ParentKeys) \cap ToSet(ChildKeys) = {}
    /\ LegacyTable = [kind \in Kinds |-> LegacyTable[kind]]
    /\ \A kind \in Kinds : \A i \in DOMAIN LegacyTable[kind] :
          LegacyTable[kind][i] = [key |-> NoKey, parent |-> LegacyTable[kind][i].parent, active |-> TRUE]
    /\ \A kind \in Kinds : FixedStart[kind] + Len(Keys[kind]) <= Floor[kind]

VARIABLES
    revision,      \* alembic_version
    table,         \* kind -> id -> key, parent and lifecycle
    sequence,      \* kind -> the last id its sequence gave out
    ledger,        \* taxonomy_surrogate_allocations: none, or its rows
    outbox,        \* the ids of the version 3 rows of outbox_events
    globalRules,   \* the generations of system rules in force
    copy,          \* transaction-service: kind -> id -> its read copy
    processed,     \* transaction-service: correlation ids it has handled
    reinstalled,   \* history: a downgrade was followed by another install
    installs, operations

installVars ==
    <<revision, table, sequence, ledger, outbox, globalRules, copy, processed, reinstalled>>

upgradeVars == <<installVars, installs, operations>>

Costs(n) == operations' = operations + n /\ operations' <= MaxOperations

Counted == Costs(1)

Install == installs < MaxInstalls /\ installs' = installs + 1 /\ Costs(2) /\ Background

Node(key, parent, active) == [key |-> key, parent |-> parent, active |-> active]

(* What a deletion announces. *)
Gone == Node("gone", NoParent, FALSE)

IdsOf(nodes, key) == {i \in DOMAIN nodes : nodes[i].key = key}

Keyed(kind) == {i \in DOMAIN table[kind] : table[kind][i].key # NoKey}

Rest(f, S) == [x \in DOMAIN f \ S |-> f[x]]

-----------------------------------------------------------------------------
(* Events: the full state of one row, under an id made from its purpose. *)

TaxonomyEvent(id, kind, i, node) == [id |-> id, kind |-> kind, node |-> i, state |-> node]

(* INSERT ... ON CONFLICT (id) DO NOTHING *)
Announced(events) ==
    LET new == {e \in events : e.id \notin outbox} IN
    Emit(new) /\ outbox' = outbox \cup {e.id : e \in new}

-----------------------------------------------------------------------------
(* Installing *)

collision_free_start(maximum, value, floor) == Max({maximum, value, floor - 1}) + 1

_next_start(kind) ==
    collision_free_start(Max(DOMAIN table[kind] \cup {0}), sequence[kind], Floor[kind])

allocate_surrogates(keys, start) ==
    [k \in ToSet(keys) |-> start + (CHOOSE n \in DOMAIN keys : keys[n] = k) - 1]

FixedIds == [kind \in Kinds |-> allocate_surrogates(Keys[kind], FixedStart[kind])]

FreeIds == [kind \in Kinds |-> allocate_surrogates(Keys[kind], _next_start(kind))]

TargetNode(ids, kind, k) ==
    Node(k, IF kind = "category" THEN NoParent ELSE ids.category[ParentOf[k]], TRUE)

TargetRows(ids, kind) ==
    [i \in Range(ids[kind]) |->
        TargetNode(ids, kind, CHOOSE k \in DOMAIN ids[kind] : ids[kind][k] = i)]

(* Mutant of _insert_snapshot_events: the ids of the migration are sent.   *)
FixedSnapshotEvents(ids) ==
    Announced(UNION {{TaxonomyEvent(<<"taxonomy-v1", k>>, kind, FixedIds[kind][k],
                                    TargetNode(FixedIds, kind, k)) : k \in DOMAIN ids[kind]} : kind \in Kinds})

_insert_snapshot_events(ids) ==
    Announced(UNION {{TaxonomyEvent(<<"taxonomy-v1", k>>, kind, ids[kind][k],
                                    TargetNode(ids, kind, k)) : k \in DOMAIN ids[kind]} : kind \in Kinds})

(* Every row without a key is deprecated, also those that users made; the  *)
(* seeded rules replace the global ones; each sequence is set to the       *)
(* highest id its table has.  A primary key that is taken fails it all.    *)
_seed_target(ids) ==
    /\ \A kind \in Kinds : Range(ids[kind]) \cap DOMAIN table[kind] = {}
    /\ table' = [kind \in Kinds |->
           Merged(TargetRows(ids, kind),
                  [i \in DOMAIN table[kind] |->
                      [table[kind][i] EXCEPT !.active = @ /\ table[kind][i].key # NoKey]])]
    /\ globalRules' = {"seeded"}
    /\ sequence' = [kind \in Kinds |-> Max(DOMAIN table'[kind])]
    /\ _insert_snapshot_events(ids)
    /\ reinstalled' = (reinstalled \/ \E e \in bus : e.id[1] = "taxonomy-v1")

upgrade_008 ==
    /\ revision = "007" /\ revision' = "008"
    /\ _seed_target(FixedIds)
    /\ UNCHANGED <<ledger, copy, processed>> /\ Install

LedgerRow(kind, k, i, run) == [kind |-> kind, key |-> k, id |-> i, run |-> run]

_record_allocations(ids, run) ==
    UNION {{LedgerRow(kind, k, ids[kind][k], run) : k \in DOMAIN ids[kind]} : kind \in Kinds}

(* The rows with a key are the allocated ones, and all of them are active; *)
(* the seeded rules are in force, and every row has its event.             *)
_validate_postconditions(ids) ==
    /\ globalRules' = {"seeded"} /\ Cardinality(outbox') = Cardinality(AllKeys)
    /\ \A kind \in Kinds :
        /\ {i \in DOMAIN table'[kind] : table'[kind][i].key # NoKey} = Range(ids[kind])
        /\ \A k \in DOMAIN ids[kind] :
              table'[kind][ids[kind][k]].key = k /\ table'[kind][ids[kind][k]].active

(* CREATE TABLE fails where a ledger is left.  At a later revision the     *)
(* command only reports the ledger, or that another run owns it.           *)
bootstrap(run) ==
    /\ revision = "007" /\ revision' = "008"
    /\ ledger = NoLedger
    /\ _seed_target(FreeIds)
    /\ ledger' = <<_record_allocations(FreeIds, run)>>
    /\ _validate_postconditions(FreeIds)
    /\ UNCHANGED <<copy, processed>> /\ Install

-----------------------------------------------------------------------------
(* Migration 009, and the way back *)

LedgerMatches(rows) ==
    \A kind \in Kinds : \A k \in ToSet(Keys[kind]) :
        \E r \in rows : r.kind = kind /\ r.key = k /\ IdsOf(table[kind], k) = {r.id}

upgrade_009 ==
    /\ revision = "008" /\ revision' = "009"
    /\ LET old == LedgerRows(ledger)
           new == UNION {{LedgerRow(kind, table[kind][i].key, i, "alembic-008") : i \in Keyed(kind)} : kind \in Kinds}
       IN ledger' = <<old \cup {r \in new : \A o \in old : o.kind # r.kind \/ o.key # r.key}>>
    /\ LedgerMatches(LedgerRows(ledger'))
    /\ sequence' = [kind \in Kinds |-> Max(DOMAIN table[kind])]
    /\ UNCHANGED <<bus, table, outbox, globalRules, copy, processed, reinstalled>> /\ Install

(* referenced: a categorization result names a target row.                 *)
downgrade_009(referenced) ==
    /\ revision = "009" /\ revision' = "008"
    /\ ~ referenced
    /\ ledger' = NoLedger
    /\ UNCHANGED <<bus, table, sequence, outbox, globalRules, copy, processed, reinstalled>> /\ Install

(* The foreign keys refuse it while a row made by users lies under a       *)
(* target row, or a rule that is not seeded names one.  Events already     *)
(* published are not taken back, and a ledger stays.                       *)
downgrade_008(referenced, ruled) ==
    /\ revision = "008" /\ revision' = "007"
    /\ ~ referenced /\ ~ ruled
    /\ \A i \in DOMAIN table.subcategory \ Keyed("subcategory") :
          table.subcategory[i].parent \notin Keyed("category")
    /\ table' = [kind \in Kinds |->
           [i \in DOMAIN table[kind] \ Keyed(kind) |-> [table[kind][i] EXCEPT !.active = TRUE]]]
    /\ outbox' = {}
    /\ globalRules' = {"legacy"}
    /\ UNCHANGED <<bus, sequence, ledger, copy, processed, reinstalled>> /\ Install

-----------------------------------------------------------------------------
(* A repair announces every row that has a key again, once per run id. *)

enqueue_repair(run) ==
    /\ revision # "007"
    /\ Announced(UNION {{TaxonomyEvent(<<run, table[kind][i].key>>, kind, i, table[kind][i])
                            : i \in Keyed(kind)} : kind \in Kinds})
    /\ UNCHANGED <<revision, table, sequence, ledger, globalRules, copy, processed, reinstalled>>
    /\ Install

-----------------------------------------------------------------------------
(* The users' edits of categories and subcategories.  Their events carry   *)
(* neither a key nor a lifecycle, whatever the row has.  A new name leaves *)
(* the row as it is here; Taxonomy has moves, and deletions of leaves.     *)

Legacy(parent) == Node(NoKey, parent, FALSE)

UserCreates(kind) ==
    LET i == sequence[kind] + 1 IN
    /\ Request /\ Counted
    /\ i \notin DOMAIN table[kind]
    /\ sequence' = [sequence EXCEPT ![kind] = i]
    /\ \E p \in IF kind = "category" THEN {NoParent} ELSE DOMAIN table.category :
          /\ table' = [table EXCEPT ![kind] = With(@, i, Node(NoKey, p, TRUE))]
          /\ Emit({TaxonomyEvent(<<"created", kind, i, requests>>, kind, i, Legacy(p))})
    /\ UNCHANGED <<revision, ledger, outbox, globalRules, copy, processed, reinstalled, installs>>

UserUpdates(kind, i) ==
    /\ Request /\ Counted
    /\ i \in DOMAIN table[kind]
    /\ Emit({TaxonomyEvent(<<"updated", kind, i, requests>>, kind, i, Legacy(table[kind][i].parent))})
    /\ UNCHANGED <<installVars, installs>>

UserDeletesCategory(i) ==
    /\ Request /\ Counted
    /\ i \in DOMAIN table.category
    /\ \A s \in DOMAIN table.subcategory : table.subcategory[s].parent # i
    /\ table' = [table EXCEPT !.category = Rest(@, {i})]
    /\ Emit({TaxonomyEvent(<<"deleted", "category", i, requests>>, "category", i, Gone)})
    /\ UNCHANGED <<revision, sequence, ledger, outbox, globalRules, copy, processed, reinstalled, installs>>

-----------------------------------------------------------------------------
(* transaction-service: taxonomy_sync_consumer, in whatever order retries  *)
(* leave.  The unique index on a copy's key fails a delivery that would    *)
(* give a key to a second row.                                             *)

SyncsCopy(e) ==
    /\ e.kind \in Kinds /\ e.id \notin processed
    /\ \/ /\ e.state = Gone
          /\ copy' = [copy EXCEPT ![e.kind] = Rest(@, {e.node})]
       \/ /\ e.state # Gone
          /\ e.state.key # NoKey => IdsOf(copy[e.kind], e.state.key) \subseteq {e.node}
          /\ copy' = [copy EXCEPT ![e.kind] = With(@, e.node, e.state)]
    /\ processed' = processed \cup {e.id}
    /\ UNCHANGED <<bus, revision, table, sequence, ledger, outbox, globalRules, reinstalled, installs, operations>> /\ Background

-----------------------------------------------------------------------------

UpgradeInit ==
    /\ revision = "007" /\ table = LegacyTable /\ ledger = NoLedger /\ outbox = {}
    /\ sequence = [kind \in Kinds |-> Max(DOMAIN LegacyTable[kind])]
    /\ globalRules = {"legacy"}
    /\ copy = LegacyTable /\ processed = {} /\ reinstalled = FALSE /\ installs = 0 /\ operations = 0

UpgradeNext(referenced, ruled) ==
    \/ upgrade_008 \/ upgrade_009
    \/ downgrade_009(referenced) \/ downgrade_008(referenced, ruled)
    \/ \E run \in OperatorRuns : bootstrap(run) \/ enqueue_repair(run)
    \/ \E kind \in Kinds : UserCreates(kind) \/ \E i \in DOMAIN table[kind] : UserUpdates(kind, i)
    \/ \E i \in DOMAIN table.category : UserDeletesCategory(i)
    \/ \E e \in bus : SyncsCopy(e)
=============================================================================
