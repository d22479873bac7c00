------------------------------- MODULE Ledger -------------------------------
(***************************************************************************)
(* transaction-service: the transactions a user enters, imports, edits and *)
(* deletes, and the consumer of transaction.categorized.  Rows are read    *)
(* without a lock and written at the commit, and a session writes only the *)
(* columns that differ from what it read: an edit and a categorisation of  *)
(* one row that overlap leave columns of both.  0 stands for NULL, and for *)
(* the ids the engine reports when it has no fallback.  The names of the   *)
(* category and subcategory, kept in the row for display, are left out.    *)
(***************************************************************************)
EXTENDS Rules

CONSTANTS
    TxIds,      \* ids the transactions table can give out, in this order
    SentPairs,  \* pairs of category and subcategory that callers enter rows with
    SentTiers   \* and the tiers, "none" among them, which stands for "fallback" too

(* The route checks of neither id of a pair that it exists, or belongs to  *)
(* the other; a tier is any text, and "manual" pins the row.               *)
ASSUME LedgerAssumption ==
    /\ TxIds \subseteq Nat \ {0}
    /\ SentPairs \subseteq Nat \X Nat

VARIABLES
    transactions,   \* id -> row
    importing,      \* rows of the CSV file in progress that were found new
    editing,        \* the edit of a row in progress
    categorizing,   \* the delivery of transaction.categorized in progress
    categorized,    \* transactions of the deliveries in processed_events
    parents,        \* history: the pairs of category and subcategory there ever were
    overlapped      \* history: transactions two sessions worked on at once

ledgerVars == <<transactions, importing, editing, categorizing, categorized, overlapped>>

-----------------------------------------------------------------------------
(* The table *)

(* sent keeps, for the properties, the pair of category and subcategory    *)
(* that whoever entered the row sent and the row was stored with.          *)
TransactionRow(d, c, s, tier, sent) ==
    [state |-> "live", description |-> d, category |-> c, sub |-> s, tier |-> tier, sent |-> sent]

NoPair == <<0, 0>>

(* Every read of a request filters the tombstones. *)
find_by_id(t) == t \in DOMAIN transactions /\ transactions[t].state = "live"

TransactionCreatedEvent(t, row) ==
    [type |-> "transaction.created", tx |-> t, description |-> row.description]

TransactionUpdatedEvent(t) == [type |-> "transaction.updated", tx |-> t]

TransactionCategorizedEvent(t, r) ==
    [type |-> "transaction.categorized", tx |-> t, category |-> r.category, sub |-> r.sub,
     tier |-> r.tier]

TransactionCategoryCorrectedEvent(id, row) ==
    [type |-> "transaction.category_corrected", id |-> id, description |-> row.description,
     sub |-> row.sub]

TransactionDeletedEvent(t) == [type |-> "transaction.deleted", tx |-> t]

NextTx == {t \in TxIds \ DOMAIN transactions : \A u \in TxIds : u < t => u \in DOMAIN transactions}

create(t, row) == transactions' = With(transactions, t, row)

bulk_create(t, row) == transactions' = With(transactions, t, row)

tombstone(t) == transactions' = [transactions EXCEPT ![t].state = "deleted"]

(* The columns a session changed, over the row as it now is. *)
Flushed(t, read, new) ==
    [transactions EXCEPT ![t] =
        [f \in DOMAIN @ |-> IF new[f] = read[f] THEN @[f] ELSE new[f]]]

NoSession == [tx |-> 0]

(* A commit on a row that another session has read and not yet written. *)
Overlap(t, other) == overlapped' = IF other.tx = t THEN overlapped \cup {t} ELSE overlapped

-----------------------------------------------------------------------------
(* Entering a transaction *)

Unreachable == [tier |-> "none"]

(* The client: an answer, or none when it times out or fails.  It is not   *)
(* asked about a row that comes with a tier.                               *)
categorize(d, tier) ==
    IF tier = "none" THEN categorize_single(d) \cup {Unreachable} ELSE {Unreachable}

(* The suggestion's subcategory, where it does not contradict the caller's *)
(* category; its tier in any case.                                         *)
Entered(d, choice, tier, r) ==
    IF r = Unreachable THEN TransactionRow(d, choice[1], choice[2], tier, choice)
    ELSE IF choice[1] \in {0, r.category} THEN TransactionRow(d, r.category, r.sub, r.tier, NoPair)
    ELSE TransactionRow(d, choice[1], choice[2], r.tier, choice)

create_transaction(d, choice, tier) ==
    \E r \in categorize(d, tier), t \in NextTx :
        /\ create(t, Entered(d, choice, tier, r))
        /\ Emit({TransactionCreatedEvent(t, Entered(d, choice, tier, r))})

post_transaction(d, choice, tier) ==
    /\ Request /\ create_transaction(d, choice, tier)
    /\ UNCHANGED <<importing, editing, categorizing, categorized, overlapped>>

(* A row of a file is known by its description here: date and amount, the  *)
(* rest of its dedup key, are the same.                                    *)
find_existing_dedup_keys(ds) ==
    {d \in ds : \E t \in DOMAIN transactions : find_by_id(t) /\ transactions[t].description = d}

import_csv(d) == importing' = {d} \ find_existing_dedup_keys({d}) /\ importing' # {}

post_csv(d) ==
    /\ Request /\ importing = {} /\ import_csv(d)
    /\ UNCHANGED <<bus, transactions, editing, categorizing, categorized, overlapped>>

(* bulk_create, in a transaction after the one that looked for duplicates. *)
CsvCommits ==
    /\ \E d \in importing, t \in NextTx :
          /\ bulk_create(t, TransactionRow(d, 0, 0, "none", NoPair))
          /\ Emit({TransactionCreatedEvent(t, transactions'[t])})
          /\ importing' = importing \ {d}
    /\ UNCHANGED <<editing, categorizing, categorized, overlapped>> /\ Background

-----------------------------------------------------------------------------
(* Editing and deleting *)

Unset == -1

(* Mutant of Edited: a subcategory of the former category stays. *)
EditedKeepingSub(read, c, s) ==
    [read EXCEPT !.category = IF c = Unset THEN @ ELSE c,
                 !.sub = IF s = Unset THEN @ ELSE s,
                 !.tier = IF c = Unset /\ s = Unset THEN @ ELSE "manual"]

(* The row an edit asks for, from the row it read.  Another category drops *)
(* the subcategory; either field pins the choice as manual.                *)
Edited(read, c, s) ==
    [read EXCEPT !.category = IF c = Unset THEN @ ELSE c,
                 !.sub = IF s # Unset THEN s
                         ELSE IF c \in {Unset, read.category} THEN @ ELSE 0,
                 !.tier = IF c = Unset /\ s = Unset THEN @ ELSE "manual"]

(* A subcategory must be in the read copy, under the row's new category. *)
Validated(row, s) == s \in {Unset, 0} \/ (s \in DOMAIN copySubs /\ copySubs[s].parent = row.category)

(* update_transaction up to its flush. *)
EditReads(t, c, s) ==
    LET new == Edited(transactions[t], c, s) IN
    /\ find_by_id(t)
    /\ Validated(new, s)
    /\ editing' = [tx |-> t, id |-> requests', read |-> transactions[t], new |-> new,
                   correction |-> c # Unset \/ s # Unset]

put_transaction(t, c, s) ==
    /\ Request /\ editing = NoSession /\ EditReads(t, c, s)
    /\ UNCHANGED <<bus, transactions, importing, categorizing, categorized, overlapped>>

(* A correction that results in a category is worth learning from. *)
CorrectedEvents(row) ==
    IF editing.correction /\ row.category # 0
    THEN {TransactionCategoryCorrectedEvent(editing.id, row)}
    ELSE {}

EditCommits ==
    LET t == editing.tx IN
    /\ t # 0
    /\ transactions' = Flushed(t, editing.read, editing.new)
    /\ Overlap(t, categorizing)
    /\ Emit(CorrectedEvents(transactions'[t]) \cup {TransactionUpdatedEvent(t)})
    /\ editing' = NoSession
    /\ UNCHANGED <<importing, categorizing, categorized>> /\ Background

(* A tombstone stays, so that a late delivery can tell it from a row that  *)
(* is not yet committed.                                                   *)
delete_transaction(t) ==
    /\ find_by_id(t)
    /\ tombstone(t)
    /\ Emit({TransactionDeletedEvent(t)})

remove_transaction(t) ==
    /\ Request /\ delete_transaction(t)
    /\ UNCHANGED <<importing, editing, categorizing, categorized, overlapped>>

-----------------------------------------------------------------------------
(* transaction.created at the worker: one transaction with its inbox row,  *)
(* of which the event it emits is the trace.                               *)
CategorizationRuns ==
    \E e \in bus :
        /\ e.type = "transaction.created"
        /\ \A f \in bus : f.type = "transaction.categorized" => f.tx # e.tx
        /\ \E r \in _categorize(e.description) : Emit({TransactionCategorizedEvent(e.tx, r)})
        /\ UNCHANGED <<transactions, importing, editing, categorizing, categorized, overlapped>>
        /\ Background

-----------------------------------------------------------------------------
(* transaction.categorized *)

(* Mutant of _apply_categorization: a manual choice is not looked for. *)
apply_to_any_row(row, e) ==
    [row EXCEPT !.category = e.category, !.sub = e.sub, !.tier = e.tier]

_apply_categorization(row, e) ==
    IF row.tier = "manual" THEN row
    ELSE [row EXCEPT !.category = e.category, !.sub = e.sub, !.tier = e.tier]

InInbox(e) == e.tx \in categorized

(* A tombstone and a delivery in the inbox are acknowledged. *)
CategorizedReads ==
    \E e \in bus :
        /\ e.type = "transaction.categorized" /\ categorizing = NoSession
        /\ ~ InInbox(e) /\ find_by_id(e.tx)
        /\ categorizing' = [tx |-> e.tx, read |-> transactions[e.tx],
                            new |-> _apply_categorization(transactions[e.tx], e)]
        /\ UNCHANGED <<bus, transactions, importing, editing, categorized, overlapped>> /\ Background

CategorizedCommits ==
    LET t == categorizing.tx IN
    /\ t # 0
    /\ transactions' = Flushed(t, categorizing.read, categorizing.new)
    /\ Overlap(t, editing)
    /\ categorized' = categorized \cup {t}
    /\ categorizing' = NoSession
    /\ UNCHANGED <<bus, importing, editing>> /\ Background

(* A crash before the commit: the delivery comes back. *)
CategorizedLost ==
    /\ Fault /\ categorizing # NoSession
    /\ categorizing' = NoSession
    /\ UNCHANGED <<bus, transactions, importing, editing, categorized, overlapped>>

-----------------------------------------------------------------------------

LedgerInit ==
    /\ transactions = <<>> /\ importing = {} /\ categorized = {} /\ overlapped = {}
    /\ editing = NoSession /\ categorizing = NoSession
    /\ parents = {<<StoredSubs[s].parent, s>> : s \in DOMAIN StoredSubs}

=============================================================================
