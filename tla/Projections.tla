---------------------------- MODULE Projections ----------------------------
(***************************************************************************)
(* The write side of analytics-service: domain events arrive on one queue  *)
(* per domain and are folded into Elasticsearch documents by scripts that  *)
(* compare timestamps.  There is no inbox: a message may be delivered      *)
(* again, late, or after a newer one, so a queue is a set from which any   *)
(* message may be taken.  Handlers of different queues run interleaved at  *)
(* their awaits (every queue has prefetch_count=1).                        *)
(*                                                                         *)
(* A second worker embeds the text of transaction documents from the same  *)
(* events on a queue of its own, and two command-line tools write into the *)
(* live index.  Timestamps are the order in which events happened.         *)
(***************************************************************************)
EXTENDS BudgetPeriod, FiniteSets, Sequences, TLC

CONSTANTS
  Transactions,      \* transaction ids (positive integers)
  CorePayloads,      \* "created", "updated" -> [core, category, subcategory, manual]
  Categorizations,   \* [category, subcategory] pairs the pipeline may choose
  Categories, Subcategories, Accounts, Goals,   \* ids of the other documents
  Names,             \* "created", "updated" -> the names of the taxonomy
  StartDays, Amounts,   \* what an account or a goal shows
  MAX_RETRIES,
  MaxEvents,         \* bound: events that happen
  MaxEntityEvents,   \* bound: those of them not about transactions
  MaxDisturbances    \* bound: failures, crashes, repeated messages, tool writes

VARIABLES
  history,    \* the events in the order they happened; the place is the timestamp
  rows,       \* transaction id -> the category of its row at transaction-service
  queue,      \* queue -> set of [ts, retries]
  working,    \* queue -> the handler between two awaits, or Idle
  docs,       \* transaction id -> its document
  store,      \* <<kind, id>> -> its document (taxonomy, accounts, goals)
  dead,       \* <<queue, timestamp>> in a dead-letter queue
  tool,       \* the backfill tool between its read and its write, or Idle
  seen,       \* history variable: timestamps of the events applied
  behind,     \* history variable: documents changed with no newer updated_at
  crossed,    \* history variable: see CategorizedAtOwner and handle_categorized
  disturbances

projectionVars == <<history, rows, queue, working, docs, store, dead, tool, seen,
                    behind, crossed, disturbances>>

ASSUME ProjectionAssumption ==
  /\ IsFiniteSet(Transactions)
  /\ \A type \in {"created", "updated"} :
       \A p \in CorePayloads[type] : IsDate(p.core.date)
  /\ MAX_RETRIES \in Nat /\ MaxEvents \in Nat /\ MaxEntityEvents \in Nat
  /\ MaxDisturbances \in Nat

Idle == [state |-> "idle"]
null == -1                    \* a timestamp or a vector that is not there
BACKFILL_EVENT_TS == 0

QUEUE_BINDINGS ==
  [transactions |-> {"transaction"}, accounts |-> {"account"},
   taxonomy |-> {"category", "subcategory"}, goals |-> {"goal"}]

Queues == DOMAIN QUEUE_BINDINGS \cup {"embeddings"}

\* The queues a published event reaches: its own and, for transactions, the
\* embedding worker's.
Bound(event) ==
  {q \in DOMAIN QUEUE_BINDINGS : event.of \in QUEUE_BINDINGS[q]}
    \cup (IF event.of = "transaction" THEN {"embeddings"} ELSE {})

FullStateDocs ==
  ({"category"} \X Categories) \cup ({"subcategory"} \X Subcategories)
    \cup ({"account"} \X Accounts) \cup ({"goal"} \X Goals)

NoCore == [user |-> 0, account |-> 0, amount |-> 0, type |-> "", date |-> <<0, 1, 1>>,
           description |-> 0]

\* The document a scripted upsert starts from when there is none.
NoDocument ==
  [exists |-> FALSE, is_deleted |-> FALSE, core |-> NoCore, category |-> 0,
   category_name |-> 0, subcategory |-> 0, subcategory_name |-> 0,
   core_event_ts |-> null, categorization_event_ts |-> null, updated_at |-> 0,
   vector |-> <<>>, embedding_event_ts |-> null]

NoState == [exists |-> FALSE, is_deleted |-> FALSE, data |-> 0, event_ts |-> null]

----------------------------------------------------------------------------
(***************************************************************************)
(* The producers, as their contracts describe them.  An event carries full *)
(* state and the time it happened; its outbox publishes it some time later *)
(* and possibly again.                                                     *)
(***************************************************************************)
Among(stamps, kind, id) ==
  {e \in {history[n] : n \in stamps} : e.of = kind /\ e.id = id}

About(kind, id) == Among(DOMAIN history, kind, id)

CoreAmong(events) == {e \in events : e.type \in {"created", "updated"}}
CategorizedAmong(events) == {e \in events : e.type = "categorized"}

NewestOf(events) == CHOOSE e \in events : \A f \in events : f.ts <= e.ts

Alive(kind, id) == /\ About(kind, id) # {}
                   /\ \A e \in About(kind, id) : e.type # "deleted"

\* The name a taxonomy entity has at its owner, 0 when it has none.
CurrentName(kind, id) == IF Alive(kind, id) THEN NewestOf(About(kind, id)).data ELSE 0

MoreEvents == Len(history) < MaxEvents

Happens(event) ==
  /\ history' = Append(history, event)
  /\ queue' = [q \in Queues |-> IF q \in Bound(event)
                                THEN queue[q] \cup {[ts |-> event.ts, retries |-> 0]}
                                ELSE queue[q]]
  /\ UNCHANGED <<working, docs, store, dead, tool, seen, behind, crossed, disturbances>>

EventOf(kind, id, type, data) ==
  [of |-> kind, id |-> id, type |-> type, ts |-> Len(history) + 1, data |-> data]

\* The category of a row at transaction-service; categorized says that the
\* row's transaction.categorized has been consumed.  An edit of the category
\* pins the row as manual, any other edit leaves it as it is.
NoRow == [category |-> 0, subcategory |-> 0, manual |-> FALSE, categorized |-> FALSE]

Chosen(row, p) ==
  [category |-> p.category, subcategory |-> p.subcategory, manual |-> p.manual,
   categorized |-> row.categorized]

\* The event of a created or updated row carries the row's category.
CoreEvent(t, type, p, row) ==
  EventOf("transaction", t, type,
          [core |-> p.core, category |-> row.category, subcategory |-> row.subcategory,
           category_name |-> CurrentName("category", row.category)])

RowHappens(t, type, p, row) ==
  /\ Happens(CoreEvent(t, type, p, row))
  /\ rows' = [rows EXCEPT ![t] = row]

\* A created transaction is categorised once.
TransactionHappens ==
  /\ MoreEvents
  /\ \E t \in Transactions :
    \/ \E p \in CorePayloads["created"] :
         /\ About("transaction", t) = {}
         /\ RowHappens(t, "created", p, Chosen(NoRow, p))
    \/ \E p \in CorePayloads["updated"] :
         /\ Alive("transaction", t)
         /\ RowHappens(t, "updated", p, IF p.manual THEN Chosen(rows[t], p) ELSE rows[t])
    \/ \E p \in Categorizations :
         /\ About("transaction", t) # {} /\ CategorizedAmong(About("transaction", t)) = {}
         /\ Happens(EventOf("transaction", t, "categorized", p
              @@ [category_name |-> CurrentName("category", p.category),
                  subcategory_name |-> CurrentName("subcategory", p.subcategory)]))
         /\ UNCHANGED rows
    \/ /\ Alive("transaction", t)
       /\ Happens(EventOf("transaction", t, "deleted", 0))
       /\ UNCHANGED rows

\* transaction-service consumes the categorisation too, on a queue of its own,
\* and keeps a manual choice.  Its inbox drops the copies, and a deleted row is
\* none of its business.  The two services do not always take the same side:
\* where the choice kept was made before the categorisation, and where the
\* categorisation replaces what a later edit carried, the row and the newest
\* event differ for good.
CategorizedAtOwner ==
  \E t \in {x \in Transactions : ~rows[x].categorized} :
  \E e \in CategorizedAmong(About("transaction", t)) :
    LET newest == NewestOf(CoreAmong(About("transaction", t)))
        kept == IF rows[t].manual THEN rows[t] ELSE e.data IN
    /\ Alive("transaction", t)
    /\ rows' = [rows EXCEPT ![t] =
         [category |-> kept.category, subcategory |-> kept.subcategory,
          manual |-> rows[t].manual, categorized |-> TRUE]]
    /\ crossed' = IF rows[t].manual <=> newest.ts < e.ts THEN crossed \cup {t} ELSE crossed
    /\ UNCHANGED <<history, queue, working, docs, store, dead, tool, seen, behind, disturbances>>

FullState(kind, type) ==
  CASE kind \in {"category", "subcategory"} -> Names[type]
    [] kind = "account" -> StartDays
    [] kind = "goal" -> Amounts

EntityHappens ==
  /\ MoreEvents /\ UNCHANGED rows
  /\ Cardinality({n \in DOMAIN history : history[n].of # "transaction"}) < MaxEntityEvents
  /\ \E d \in FullStateDocs :
       \/ /\ About(d[1], d[2]) = {}
          /\ \E x \in FullState(d[1], "created") : Happens(EventOf(d[1], d[2], "created", x))
       \/ /\ Alive(d[1], d[2])
          /\ \E x \in FullState(d[1], "updated") : Happens(EventOf(d[1], d[2], "updated", x))
       \/ /\ Alive(d[1], d[2]) /\ d[1] # "account"
          /\ Happens(EventOf(d[1], d[2], "deleted", NewestOf(About(d[1], d[2])).data))

----------------------------------------------------------------------------
(***************************************************************************)
(* The scripts, as functions from a document to a document.  A document    *)
(* they leave alone is Elasticsearch's noop.                               *)
(***************************************************************************)

guarded_full_state_upsert(doc, data, is_deleted, event_ts) ==
  IF doc.is_deleted \/ event_ts < doc.event_ts
  THEN doc
  ELSE [exists |-> TRUE, is_deleted |-> is_deleted, data |-> data, event_ts |-> event_ts]

\* Whether the update was applied: the script wrote, even the same values.
Applied(doc, event_ts) == ~doc.is_deleted /\ event_ts >= doc.event_ts

upsert_category(category_id, name, is_deleted, event_ts) ==
  [store EXCEPT ![<<"category", category_id>>] =
     guarded_full_state_upsert(@, name, is_deleted, event_ts)]

upsert_subcategory(subcategory_id, name, is_deleted, event_ts) ==
  [store EXCEPT ![<<"subcategory", subcategory_id>>] =
     guarded_full_state_upsert(@, name, is_deleted, event_ts)]

upsert_account(account_id, budget_start_day, event_ts) ==
  [store EXCEPT ![<<"account", account_id>>] =
     guarded_full_state_upsert(@, budget_start_day, FALSE, event_ts)]

upsert_goal(goal_id, current_amount, event_ts) ==
  [store EXCEPT ![<<"goal", goal_id>>] =
     guarded_full_state_upsert(@, current_amount, FALSE, event_ts)]

mark_goal_deleted(goal_id) ==
  [store EXCEPT ![<<"goal", goal_id>>] = [@ EXCEPT !.exists = TRUE, !.is_deleted = TRUE]]

\* A mutant: an older core event takes the category fields as well.
core_script_unguarded(doc, p, subcategory_name, event_ts) ==
  IF doc.is_deleted \/ event_ts < doc.core_event_ts
  THEN doc
  ELSE [doc EXCEPT !.exists = TRUE, !.core = p.core, !.core_event_ts = event_ts,
                   !.updated_at = event_ts, !.category = p.category,
                   !.category_name = p.category_name, !.subcategory = p.subcategory,
                   !.subcategory_name = subcategory_name]

_CORE_SCRIPT(doc, p, subcategory_name, event_ts) ==
  LET written == [doc EXCEPT !.exists = TRUE, !.core = p.core,
                             !.core_event_ts = event_ts, !.updated_at = event_ts]
  IN  IF doc.is_deleted \/ event_ts < doc.core_event_ts
      THEN doc
      ELSE IF event_ts < doc.categorization_event_ts
      THEN written
      ELSE [written EXCEPT !.category = p.category, !.category_name = p.category_name,
                           !.subcategory = p.subcategory,
                           !.subcategory_name = subcategory_name]

_CATEGORIZATION_SCRIPT(doc, p, event_ts) ==
  IF doc.is_deleted \/ event_ts < doc.categorization_event_ts
  THEN doc
  ELSE [doc EXCEPT !.exists = TRUE, !.category = p.category,
                   !.category_name = p.category_name, !.subcategory = p.subcategory,
                   !.subcategory_name = p.subcategory_name,
                   !.categorization_event_ts = event_ts, !.updated_at = event_ts]

_DELETE_SCRIPT(doc, event_ts) ==
  [doc EXCEPT !.exists = TRUE, !.is_deleted = TRUE, !.updated_at = event_ts]

_EMBEDDING_SCRIPT(doc, vector, event_ts) ==
  IF ~doc.exists \/ doc.is_deleted \/ event_ts < doc.embedding_event_ts
  THEN doc
  ELSE [doc EXCEPT !.vector = vector, !.embedding_event_ts = event_ts]

upsert_core(t, p, subcategory_name, event_ts) ==
  [docs EXCEPT ![t] = _CORE_SCRIPT(@, p, subcategory_name, event_ts)]

apply_categorization(t, p, event_ts) ==
  [docs EXCEPT ![t] = _CATEGORIZATION_SCRIPT(@, p, event_ts)]

mark_deleted(t, event_ts) == [docs EXCEPT ![t] = _DELETE_SCRIPT(@, event_ts)]

update_embedding(t, vector, event_ts) ==
  [docs EXCEPT ![t] = _EMBEDDING_SCRIPT(@, vector, event_ts)]

get_subcategory_name(subcategory_id) ==
  IF <<"subcategory", subcategory_id>> \in FullStateDocs
       /\ store[<<"subcategory", subcategory_id>>].exists
       /\ ~store[<<"subcategory", subcategory_id>>].is_deleted
  THEN store[<<"subcategory", subcategory_id>>].data
  ELSE 0

\* update_by_query over the transactions that carry the renamed entity's id.
propagate_category_rename(category_id, name) ==
  [t \in Transactions |-> IF docs[t].exists /\ docs[t].category = category_id
                          THEN [docs[t] EXCEPT !.category_name = name] ELSE docs[t]]

propagate_subcategory_rename(subcategory_id, name) ==
  [t \in Transactions |-> IF docs[t].exists /\ docs[t].subcategory = subcategory_id
                          THEN [docs[t] EXCEPT !.subcategory_name = name] ELSE docs[t]]

\* What an embedding is computed from: everything the prose of a document
\* mentions.
build_embedding_text(doc) ==
  <<doc.core.type, doc.core.amount, doc.core.description, doc.core.date,
    doc.category_name, doc.subcategory_name>>

\* History variable: documents a write changed without moving updated_at
\* forward, which the embedding worker cannot notice.
Unnoticed(new) ==
  {t \in Transactions : /\ new[t] # docs[t]
                        /\ \/ new[t].updated_at < docs[t].updated_at
                           \/ /\ new[t].updated_at = docs[t].updated_at
                              /\ build_embedding_text(new[t]) # build_embedding_text(docs[t])}

----------------------------------------------------------------------------
(***************************************************************************)
(* Both workers' _on_message: what happens to the message after the        *)
(* handler.  An acknowledgement lost to a crash leaves it in the queue.    *)
(***************************************************************************)
Disturbance ==
  disturbances < MaxDisturbances /\ disturbances' = disturbances + 1

Process(q) == IF q = "embeddings" THEN {"embeddings"} ELSE DOMAIN QUEUE_BINDINGS

StopProcess(q) == [r \in Queues |-> IF r \in Process(q) THEN Idle ELSE working[r]]

Acked(q, m) ==
  \/ /\ queue' = [queue EXCEPT ![q] = @ \ {m}]
     /\ working' = [working EXCEPT ![q] = Idle]
     /\ UNCHANGED disturbances
  \/ /\ Disturbance
     /\ working' = StopProcess(q)
     /\ UNCHANGED queue

\* A mutant: the message will be acknowledged and its copy is never published.
RepublishDropped(q, m) == UNCHANGED queue

\* The projection worker republishes to the topic exchange, so the copy also
\* reaches the embedding queue; the embedding worker only to its own queue.
_republish(q, m) ==
  LET again == [m EXCEPT !.retries = @ + 1]
      to == IF q = "embeddings" THEN {q} ELSE Bound(history[m.ts])
  IN  queue' = [r \in Queues |-> queue[r] \cup (IF r \in to THEN {again} ELSE {})]

\* The copy is published first and the message acknowledged after it, in
\* another call; at the limit one nack moves it to the dead-letter queue.
Rejected(q, m) ==
  IF m.retries < MAX_RETRIES
  THEN /\ _republish(q, m)
       /\ working' = [working EXCEPT ![q] = [state |-> "republished", message |-> m]]
       /\ UNCHANGED dead
  ELSE /\ queue' = [queue EXCEPT ![q] = @ \ {m}]
       /\ working' = [working EXCEPT ![q] = Idle]
       /\ dead' = dead \cup {<<q, m.ts>>}

\* A crash between the two leaves the message and its copy.
RepublishAcked ==
  \E q \in Queues :
    /\ working[q].state = "republished"
    /\ Acked(q, working[q].message)
    /\ UNCHANGED <<history, rows, crossed, docs, store, dead, tool, seen, behind>>

\* A handler raises: Elasticsearch or Ollama is unavailable.
HandlerFails ==
  /\ Disturbance
  /\ \E q \in Queues : \E m \in queue[q] :
    /\ working[q] # Idle => working[q].message = m
    /\ working[q].state # "republished"
    /\ Rejected(q, m)
    /\ UNCHANGED <<history, rows, crossed, docs, store, tool, seen, behind>>

\* A worker dies between two awaits; the broker delivers its messages again.
WorkerCrashes ==
  \E q \in Queues :
    /\ working[q] # Idle
    /\ Disturbance
    /\ working' = StopProcess(q)
    /\ UNCHANGED <<history, rows, crossed, queue, docs, store, dead, tool, seen, behind>>

----------------------------------------------------------------------------
(***************************************************************************)
(* The projectors.                                                         *)
(***************************************************************************)
WrittenBy(event, new) ==
  /\ docs' = new
  /\ seen' = seen \cup {event.ts}
  /\ behind' = behind \cup Unnoticed(new)

\* handle_created_or_updated first asks the taxonomy index for the name...
NameLookedUp ==
  \E m \in queue["transactions"] :
    LET e == history[m.ts] IN
    /\ working["transactions"] = Idle
    /\ e.type \in {"created", "updated"}
    /\ working' = [working EXCEPT !["transactions"] =
         [state |-> "named", message |-> m,
          name |-> IF e.data.subcategory = 0 THEN 0
                   ELSE get_subcategory_name(e.data.subcategory)]]
    /\ UNCHANGED <<history, rows, crossed, queue, docs, store, dead, tool, seen, behind, disturbances>>

\* ...and then writes the document with the name it was given.
handle_created_or_updated ==
  LET w == working["transactions"] IN
  /\ w.state = "named"
  /\ LET e == history[w.message.ts] IN
       WrittenBy(e, upsert_core(e.id, e.data, w.name, e.ts))
  /\ Acked("transactions", w.message)
  /\ UNCHANGED <<history, rows, crossed, store, dead, tool>>

\* The script looks at no core timestamp: a categorisation that comes after a
\* newer edit replaces the category the edit carried.
handle_categorized ==
  \E m \in queue["transactions"] :
    LET e == history[m.ts] IN
    /\ working["transactions"] = Idle
    /\ e.type = "categorized"
    /\ WrittenBy(e, apply_categorization(e.id, e.data, e.ts))
    /\ crossed' = IF docs[e.id].core_event_ts > e.ts THEN crossed \cup {e.id} ELSE crossed
    /\ Acked("transactions", m)
    /\ UNCHANGED <<history, rows, store, dead, tool>>

handle_deleted ==
  \E m \in queue["transactions"] :
    LET e == history[m.ts] IN
    /\ working["transactions"] = Idle
    /\ e.type = "deleted"
    /\ WrittenBy(e, mark_deleted(e.id, e.ts))
    /\ Acked("transactions", m)
    /\ UNCHANGED <<history, rows, crossed, store, dead, tool>>

\* An applied rename is followed by a rewrite of the transactions' names.
TaxonomyUpserted(m, new, applied) ==
  /\ working["taxonomy"] = Idle
  /\ store' = new
  /\ seen' = seen \cup {m.ts}
  /\ IF applied /\ history[m.ts].type = "updated"
     THEN /\ working' = [working EXCEPT !["taxonomy"] = [state |-> "upserted", message |-> m]]
          /\ UNCHANGED <<queue, disturbances>>
     ELSE Acked("taxonomy", m)
  /\ UNCHANGED <<history, rows, crossed, docs, dead, tool, behind>>

handle_category ==
  \E m \in queue["taxonomy"] :
    LET e == history[m.ts] IN
    /\ e.of = "category"
    /\ TaxonomyUpserted(m, upsert_category(e.id, e.data, e.type = "deleted", e.ts),
                        Applied(store[<<"category", e.id>>], e.ts))

handle_subcategory ==
  \E m \in queue["taxonomy"] :
    LET e == history[m.ts] IN
    /\ e.of = "subcategory"
    /\ TaxonomyUpserted(m, upsert_subcategory(e.id, e.data, e.type = "deleted", e.ts),
                        Applied(store[<<"subcategory", e.id>>], e.ts))

RenamePropagated ==
  LET w == working["taxonomy"] IN
  /\ w.state = "upserted"
  /\ LET e == history[w.message.ts]
         new == IF e.of = "category" THEN propagate_category_rename(e.id, e.data)
                ELSE propagate_subcategory_rename(e.id, e.data)
     IN  docs' = new /\ behind' = behind \cup Unnoticed(new)
  /\ Acked("taxonomy", w.message)
  /\ UNCHANGED <<history, rows, crossed, store, dead, tool, seen>>

AccountProjected ==
  \E m \in queue["accounts"] :
    /\ working["accounts"] = Idle
    /\ LET e == history[m.ts] IN store' = upsert_account(e.id, e.data, e.ts)
    /\ seen' = seen \cup {m.ts}
    /\ Acked("accounts", m)
    /\ UNCHANGED <<history, rows, crossed, docs, dead, tool, behind>>

GoalProjected ==
  \E m \in queue["goals"] :
    /\ working["goals"] = Idle
    /\ LET e == history[m.ts] IN
         store' = IF e.type = "deleted" THEN mark_goal_deleted(e.id)
                  ELSE upsert_goal(e.id, e.data, e.ts)
    /\ seen' = seen \cup {m.ts}
    /\ Acked("goals", m)
    /\ UNCHANGED <<history, rows, crossed, docs, dead, tool, behind>>

----------------------------------------------------------------------------
(***************************************************************************)
(* The embedding worker: read the document, ask Ollama, write the vector.  *)
(***************************************************************************)

\* A mutant: the worker embeds whatever the document says now.
never_stale(doc, event_ts) == ~doc.exists

\* StaleProjectionError: the document does not reflect the event yet.
StaleProjection(doc, event_ts) == ~doc.exists \/ doc.updated_at < event_ts

DocumentRead ==
  \E m \in queue["embeddings"] :
    LET e == history[m.ts]
        doc == docs[e.id] IN
    /\ working["embeddings"] = Idle
    /\ e.type # "deleted"
    /\ ~doc.is_deleted /\ ~StaleProjection(doc, e.ts)
    /\ working' = [working EXCEPT !["embeddings"] =
         [state |-> "read", message |-> m, text |-> build_embedding_text(doc),
          updated_at |-> doc.updated_at]]
    /\ UNCHANGED <<history, rows, crossed, queue, docs, store, dead, tool, seen, behind, disturbances>>

EmbeddingRetried ==
  \E m \in queue["embeddings"] :
    LET e == history[m.ts]
        doc == docs[e.id] IN
    /\ working["embeddings"] = Idle
    /\ e.type # "deleted"
    /\ ~doc.is_deleted /\ StaleProjection(doc, e.ts)
    /\ Rejected("embeddings", m)
    /\ UNCHANGED <<history, rows, crossed, docs, store, tool, seen, behind, disturbances>>

\* Deletions, and events about a deleted document, are only acknowledged.
EmbeddingIgnored ==
  \E m \in queue["embeddings"] :
    /\ working["embeddings"] = Idle
    /\ history[m.ts].type = "deleted" \/ docs[history[m.ts].id].is_deleted
    /\ Acked("embeddings", m)
    /\ UNCHANGED <<history, rows, crossed, docs, store, dead, tool, seen, behind>>

VectorWritten ==
  LET w == working["embeddings"] IN
  /\ w.state = "read"
  /\ docs' = update_embedding(history[w.message.ts].id, w.text, w.updated_at)
  /\ Acked("embeddings", w.message)
  /\ UNCHANGED <<history, rows, crossed, store, dead, tool, seen, behind>>

----------------------------------------------------------------------------
(***************************************************************************)
(* The two tools.  backfill copies the source services' current rows with  *)
(* timestamp 0; backfill_embeddings fills vectors of documents without.    *)
(***************************************************************************)
SourceRow(t) ==
  [core |-> NewestOf(CoreAmong(About("transaction", t))).data.core,
   category |-> rows[t].category,
   category_name |-> CurrentName("category", rows[t].category),
   subcategory |-> rows[t].subcategory,
   subcategory_name |-> CurrentName("subcategory", rows[t].subcategory)]

ToolFree == tool = Idle /\ Disturbance

ToolReads(next) ==
  /\ tool' = next
  /\ UNCHANGED <<history, rows, crossed, queue, working, docs, store, dead, seen, behind>>

BackfillReads ==
  /\ ToolFree
  /\ \/ \E t \in Transactions :
       /\ Alive("transaction", t)
       /\ ToolReads([state |-> "row", id |-> t, row |-> SourceRow(t)])
     \/ \E d \in FullStateDocs :
       /\ Alive(d[1], d[2])
       /\ ToolReads([state |-> "entity", id |-> d, row |-> NewestOf(About(d[1], d[2])).data])

ToolDone == tool' = Idle /\ UNCHANGED disturbances

_backfill_transactions ==
  /\ tool # Idle /\ tool.state = "row"
  /\ LET new == upsert_core(tool.id, tool.row, tool.row.subcategory_name, BACKFILL_EVENT_TS)
     IN  docs' = new /\ behind' = behind \cup Unnoticed(new)
  /\ ToolDone
  /\ UNCHANGED <<history, rows, crossed, queue, working, store, dead, seen>>

_backfill_entity ==
  /\ tool # Idle /\ tool.state = "entity"
  /\ store' = [store EXCEPT ![tool.id] =
       guarded_full_state_upsert(@, tool.row, FALSE, BACKFILL_EVENT_TS)]
  /\ ToolDone
  /\ UNCHANGED <<history, rows, crossed, queue, working, docs, dead, seen, behind>>

EmbeddingToolReads ==
  /\ ToolFree
  /\ \E t \in Transactions :
    /\ docs[t].exists /\ ~docs[t].is_deleted
    /\ docs[t].vector = <<>>
    /\ ToolReads([state |-> "vector", id |-> t, row |-> build_embedding_text(docs[t]),
                  updated_at |-> docs[t].updated_at])

EmbeddingToolWrites ==
  /\ tool # Idle /\ tool.state = "vector"
  /\ docs' = update_embedding(tool.id, tool.row, tool.updated_at)
  /\ ToolDone
  /\ UNCHANGED <<history, rows, crossed, queue, working, store, dead, seen, behind>>

----------------------------------------------------------------------------
ProjectionInit ==
  /\ history = <<>> /\ rows = [t \in Transactions |-> NoRow] /\ crossed = {}
  /\ queue = [q \in Queues |-> {}]
  /\ working = [q \in Queues |-> Idle]
  /\ docs = [t \in Transactions |-> NoDocument]
  /\ store = [d \in FullStateDocs |-> NoState]
  /\ dead = {} /\ tool = Idle /\ seen = {} /\ behind = {}
  /\ disturbances = 0

ProjectionNext ==
  \/ TransactionHappens \/ EntityHappens \/ CategorizedAtOwner
  \/ RepublishAcked \/ HandlerFails \/ WorkerCrashes
  \/ NameLookedUp \/ handle_created_or_updated \/ handle_categorized \/ handle_deleted
  \/ handle_category \/ handle_subcategory \/ RenamePropagated
  \/ AccountProjected \/ GoalProjected
  \/ DocumentRead \/ EmbeddingRetried \/ EmbeddingIgnored \/ VectorWritten
  \/ BackfillReads \/ _backfill_transactions \/ _backfill_entity
  \/ EmbeddingToolReads \/ EmbeddingToolWrites

ProjectionSpec == ProjectionInit /\ [][ProjectionNext]_projectionVars

----------------------------------------------------------------------------
Seen(kind, id) == Among(seen, kind, id)

\* Accounts, goals and taxonomy: whatever the order, number and delay of its
\* deliveries, a document shows the newest event it received, a deletion is
\* final, and what the backfill tool copied shows only where no live event
\* has been received.
EntitiesNewest ==
  \A d \in FullStateDocs :
    LET S == Seen(d[1], d[2]) IN
      S # {} => /\ store[d].is_deleted <=> \E e \in S : e.type = "deleted"
                /\ ~store[d].is_deleted => store[d].data = NewestOf(S).data

\* Transactions: the core fields come from the newest created/updated event
\* received, and the category from an event no older than any categorization
\* received.
TransactionsNewest ==
  \A t \in Transactions :
    LET S == Seen("transaction", t)
        C == CoreAmong(S)
        K == CategorizedAmong(S)
    IN  /\ docs[t].is_deleted <=> \E e \in S : e.type = "deleted"
        /\ ~docs[t].is_deleted /\ C # {} => docs[t].core = NewestOf(C).data.core
        /\ ~docs[t].is_deleted /\ C \cup K # {} =>
             \E e \in C \cup K : /\ docs[t].category = e.data.category
                                 /\ docs[t].subcategory = e.data.subcategory
                                 /\ \A k \in K : k.ts <= e.ts

\* The read models converge on the newest events (ADR-004): the timestamp
\* guards of every script together, over handlers, retries, redeliveries and
\* backfills in any order.
NewestWins == EntitiesNewest /\ TransactionsNewest

Quiet ==
  /\ \A q \in Queues : queue[q] = {} /\ working[q] = Idle
  /\ tool = Idle /\ dead = {}

\* The reconciliation tool reads the live rows of transaction-service and the
\* live documents, each as facts.
TransactionFact(t, core, category) ==
  [transaction_id |-> t, user_id |-> core.user, account_id |-> core.account,
   category_id |-> category, tx_date |-> core.date, amount |-> core.amount]

load_postgres ==
  {TransactionFact(t, NewestOf(CoreAmong(About("transaction", t))).data.core, rows[t].category) :
     t \in {x \in Transactions : Alive("transaction", x)}}

load_elasticsearch ==
  {TransactionFact(t, docs[t].core, docs[t].category) : t \in
     {x \in Transactions : docs[x].exists /\ ~docs[x].is_deleted}}

\* None missing, extra or different; the counts and sums by group follow.
reconcile(source, projected) == source \ projected = {} /\ projected \ source = {}

\* transaction-service has consumed the categorisations of its rows.
OwnerQuiet ==
  \A t \in Transactions :
    Alive("transaction", t) /\ CategorizedAmong(About("transaction", t)) # {} => rows[t].categorized

\* The facts, but for the category of a transaction whose categorisation
\* crossed one of its edits.
Uncrossed(facts) ==
  {IF f.transaction_id \in crossed THEN [f EXCEPT !.category_id = 0] ELSE f : f \in facts}

\* Once every message is handled and none was given up, the reconciliation
\* tool finds nothing to report: no event was lost on the way, however often
\* a handler failed, a worker died, before or after it had republished its
\* message, a copy came late or a backfill ran.  The one difference it may
\* report is the category of a transaction of which a categorisation and an
\* edit overtook one another at one of the two services.
Reconciles ==
  Quiet /\ OwnerQuiet => reconcile(Uncrossed(load_postgres), Uncrossed(load_elasticsearch))

\* Once every message is handled and none was given up, the vector of a live
\* transaction describes the document as it is, although the embedding worker
\* runs on a queue of its own and takes its time: except for a document whose
\* text changed without updated_at moving forward (a rename, or an event that
\* arrived after a newer one), which the worker has no way to notice.
VectorFollows ==
  Quiet => \A t \in Transactions :
             /\ Seen("transaction", t) # {}
             /\ ~docs[t].is_deleted
             /\ t \notin behind
             => docs[t].vector = build_embedding_text(docs[t])
=============================================================================
