--------------------------- MODULE DeliveryProofs ---------------------------
(***************************************************************************)
(* Proofs about how an event leaves its service and what a service makes   *)
(* of it: the outbox (every copy of an event is accounted for, whatever    *)
(* the entries, publishers, batch size, retry limit and backoff), and      *)
(* analytics-service's projections, for any number of events, entities,    *)
(* failures and retries.                                                   *)
(***************************************************************************)
EXTENDS Outbox, Projections, FiniteSetTheorems, TLAPS

-----------------------------------------------------------------------------
(* The outbox                                                              *)

(* The backoff is a natural number: a cap that is one, or less than it. *)
LEMMA BackoffNat == \A n \in Nat : ComputeBackoff(n) \in Nat
<1> TAKE n \in Nat
<1> DEFINE d == 2 ^ n * BackoffBase
<1>1. ComputeBackoff(n) = IF d \in 0..BackoffCap THEN d ELSE BackoffCap BY DEF ComputeBackoff
<1> HIDE DEF d
<1> QED BY <1>1, BoundsAssumption

(* What record_failure writes is a row that is failed or dead. *)
LEMMA FailureRow ==
    ASSUME NEW r \in Row
    PROVE  RecordFailure(r) \in Row /\ RecordFailure(r).status \in {"failed", "dead"}
<1>1. r.attempts \in Nat /\ r.wait \in Nat BY DEF Row
<1>2. r.attempts + 1 \in Nat BY <1>1
<1>3. ComputeBackoff(r.attempts) \in Nat BY <1>1, BackoffNat
<1> QED BY <1>1, <1>2, <1>3 DEF RecordFailure, Row, OutboxStatus

LEMMA InitOutboxInv == Init => OutboxInv
BY NoneAssumption DEF Init, OutboxInv, TypeOK, LockedUnchanged, CopiesAccounted, Marked, Absent, Row, OutboxStatus

LEMMA NextOutboxInv == OutboxInv /\ [Next]_vars => OutboxInv'
<1> SUFFICES ASSUME OutboxInv, [Next]_vars PROVE OutboxInv' OBVIOUS
<1> USE DEF OutboxInv
<1>1. ASSUME NEW e \in Entries, Add(e) PROVE OutboxInv'
  <2> DEFINE n == Cardinality({f \in Entries : made[f] # 0})
  <2>1. n \in Nat BY EntriesAssumption, FS_Subset, FS_CardinalityType
  <2> HIDE DEF n
  <2>2. 1 + n \in Nat /\ 1 + n # 0 BY <2>1
  <2>3. made' = [made EXCEPT ![e] = 1 + n] BY <1>1 DEF Add, n
  <2>4. TypeOK' BY <1>1, <2>2, <2>3 DEF Add, TypeOK, Row, OutboxStatus
  <2>5. LockedUnchanged' BY <1>1, <2>2, <2>3 DEF Add, LockedUnchanged, IsPending, TypeOK
  <2>6. CopiesAccounted' BY <1>1 DEF Add, LockedUnchanged, IsPending, CopiesAccounted, Marked, TypeOK
  <2> QED BY <2>4, <2>5, <2>6
<1>2. ASSUME NEW w \in Workers, FetchPending(w) PROVE OutboxInv'
  <2>1. TypeOK' BY <1>2 DEF FetchPending, TypeOK
  <2>2. LockedUnchanged' BY <1>2 DEF FetchPending, LockedUnchanged, IsPending, TypeOK, Fetched, Fetchable
  <2>3. CopiesAccounted' BY <1>2 DEF FetchPending, CopiesAccounted, Marked, TypeOK, Fetched, Fetchable, IsPending
  <2> QED BY <2>1, <2>2, <2>3
<1>3. ASSUME NEW w \in Workers, NEW e \in Entries, Publish(w, e) PROVE OutboxInv'
  <2> DEFINE r == [draft[e] EXCEPT !.status = "published", !.wait = PurgeAfter]
  <2>0. draft' = [draft EXCEPT ![e] = r]
    <3>1. draft[e] \in Row BY DEF TypeOK
    <3> QED BY <1>3, <3>1 DEF Publish, TypeOK, Row
  <2>4. r \in Row BY BoundsAssumption DEF TypeOK, Row, OutboxStatus
  <2> HIDE DEF r
  <2>5. draft' \in [Entries -> Row] BY <2>0, <2>4 DEF TypeOK
  <2>6. copies' \in [Entries -> Nat] BY <1>3 DEF Publish, TypeOK
  <2>7. tried' \subseteq Entries BY <1>3 DEF Publish, TypeOK
  <2>1. TypeOK'
    <3>1. UNCHANGED <<row, made, holder, strays, faults>> BY <1>3 DEF Publish
    <3> QED BY <3>1, <2>5, <2>6, <2>7 DEF TypeOK
  <2>2. LockedUnchanged' BY <1>3 DEF Publish, LockedUnchanged, IsPending, TypeOK
  <2>3. CopiesAccounted' BY <1>3, NoneAssumption DEF Publish, IsNext, Held, LockedUnchanged, IsPending, CopiesAccounted, Marked, TypeOK
  <2> QED BY <2>1, <2>2, <2>3
<1>4. ASSUME NEW w \in Workers, NEW e \in Entries, PublishFails(w, e) PROVE OutboxInv'
  <2>1. TypeOK' BY <1>4, FailureRow DEF PublishFails, TypeOK
  <2>2. LockedUnchanged' BY <1>4, FailureRow DEF PublishFails, LockedUnchanged, IsPending, TypeOK
  <2>3. CopiesAccounted' BY <1>4, FailureRow, NoneAssumption DEF PublishFails, IsNext, Held, LockedUnchanged, IsPending, CopiesAccounted, Marked, TypeOK
  <2> QED BY <2>1, <2>2, <2>3
<1>5. ASSUME NEW w \in Workers, Commit(w) PROVE OutboxInv'
  <2>1. TypeOK' BY <1>5 DEF Commit, Release, TypeOK
  <2>2. LockedUnchanged' BY <1>5, NoneAssumption DEF Commit, Release, LockedUnchanged, IsPending, TypeOK
  <2>3. CopiesAccounted'
    <3> SUFFICES ASSUME NEW e \in Entries
                 PROVE  copies'[e] = strays'[e] + (IF Marked(e)' THEN 1 ELSE 0)
      BY DEF CopiesAccounted
    <3>0. copies' = copies /\ strays' = strays BY <1>5 DEF Commit
    <3>1. CASE holder[e] = w
      <4>1. e \in tried /\ holder[e] # None BY <1>5, <3>1, NoneAssumption DEF Commit, Held
      <4>2. row'[e] = draft[e] /\ holder'[e] = None BY <1>5, <3>1 DEF Commit, Release
      <4>3. row[e].status \in {"pending", "failed"} BY <4>1 DEF LockedUnchanged, IsPending
      <4>4. draft[e].status # "purged" BY <4>1 DEF LockedUnchanged
      <4>5. Marked(e)' <=> Marked(e) BY <4>1, <4>2, <4>3, <4>4 DEF Marked
      <4> QED BY <3>0, <4>5 DEF CopiesAccounted
    <3>2. CASE holder[e] # w
      <4>1. row'[e] = row[e] /\ holder'[e] = holder[e] /\ tried' = tried /\ draft' = draft
        BY <1>5, <3>2 DEF Commit, Release
      <4>2. Marked(e)' <=> Marked(e) BY <4>1 DEF Marked
      <4> QED BY <3>0, <4>2 DEF CopiesAccounted
    <3> QED BY <3>1, <3>2
  <2> QED BY <2>1, <2>2, <2>3
<1>6. ASSUME NEW w \in Workers, Crash(w) PROVE OutboxInv'
  <2>1. TypeOK' BY <1>6 DEF Crash, Release, TypeOK
  <2>2. LockedUnchanged' BY <1>6, NoneAssumption DEF Crash, Release, LockedUnchanged, IsPending, TypeOK
  <2>3. CopiesAccounted' BY <1>6, NoneAssumption DEF Crash, Release, Held, LockedUnchanged, IsPending, CopiesAccounted, Marked, TypeOK
  <2> QED BY <2>1, <2>2, <2>3
<1>7. ASSUME Purge PROVE OutboxInv'
  <2>1. TypeOK' BY <1>7 DEF Purge, Purgeable, TypeOK, Row
  <2>2. LockedUnchanged' BY <1>7 DEF Purge, Purgeable, LockedUnchanged, IsPending, TypeOK
  <2>3. CopiesAccounted' BY <1>7 DEF Purge, Purgeable, CopiesAccounted, Marked, TypeOK, Row
  <2> QED BY <2>1, <2>2, <2>3
<1>8. ASSUME Tick PROVE OutboxInv'
  <2> DEFINE r(e) == [row[e] EXCEPT !.wait = @ - 1]
  <2>0. ASSUME NEW e \in Entries, row[e].wait > 0 PROVE r(e) \in Row
    <3>1. row[e] \in Row /\ row[e].wait \in Nat BY DEF TypeOK, Row
    <3>2. row[e].wait - 1 \in Nat BY <2>0, <3>1
    <3> QED BY <3>1, <3>2 DEF Row
  <2>4. row' = [e \in Entries |-> IF row[e].wait > 0 THEN r(e) ELSE row[e]] BY <1>8 DEF Tick
  <2> HIDE DEF r
  <2>1. TypeOK' BY <1>8, <2>0, <2>4 DEF Tick, TypeOK
  <2>2. LockedUnchanged' BY <1>8 DEF Tick, LockedUnchanged, IsPending, TypeOK
  <2>3. CopiesAccounted' BY <1>8 DEF Tick, CopiesAccounted, Marked, TypeOK, Row
  <2> QED BY <2>1, <2>2, <2>3
<1>9. CASE UNCHANGED vars
  BY <1>9 DEF vars, TypeOK, LockedUnchanged, CopiesAccounted, IsPending, Marked
<1> QED BY <1>1, <1>2, <1>3, <1>4, <1>5, <1>6, <1>7, <1>8, <1>9 DEF Next

(* At the broker there is one copy of an event for its mark and one for each
   fault that lost a mark, in every reachable state. *)
THEOREM CopiesKept == Spec => []CopiesAccounted
<1>1. OutboxInv => CopiesAccounted BY DEF OutboxInv
<1> QED BY <1>1, InitOutboxInv, NextOutboxInv, PTL DEF Spec

-----------------------------------------------------------------------------
(* The projections: the inductive invariant.  Read models are compared     *)
(* with the events they received, S: what a document shows, it was told by *)
(* the newest of them.                                                     *)

Fields ==
  {"exists", "is_deleted", "core", "category", "category_name", "subcategory",
   "subcategory_name", "core_event_ts", "categorization_event_ts", "updated_at",
   "vector", "embedding_event_ts"}

IsNewest(e, S) == e \in S /\ \A f \in S : f.ts <= e.ts

Deleted(S) == \E e \in S : e.type = "deleted"

CoreFollows(doc, S) ==
  \/ CoreAmong(S) = {} /\ doc.core_event_ts \in {null, BACKFILL_EVENT_TS}
  \/ \E e \in CoreAmong(S) : /\ IsNewest(e, CoreAmong(S))
                        /\ doc.core_event_ts = e.ts /\ doc.core = e.data.core

CategorizationFollows(doc, S) ==
  \/ CategorizedAmong(S) = {} /\ doc.categorization_event_ts = null
  \/ \E e \in CategorizedAmong(S) : /\ IsNewest(e, CategorizedAmong(S))
                               /\ doc.categorization_event_ts = e.ts

CategoryFollows(doc, S) ==
  CoreAmong(S) \cup CategorizedAmong(S) # {} =>
    \E e \in CoreAmong(S) \cup CategorizedAmong(S) :
      /\ doc.category = e.data.category /\ doc.subcategory = e.data.subcategory
      /\ \A k \in CategorizedAmong(S) : k.ts <= e.ts

DocOK(doc, S) ==
  /\ doc = [f \in Fields |-> doc[f]]
  /\ S # {} => doc.exists
  /\ doc.is_deleted <=> Deleted(S)
  /\ ~doc.is_deleted => /\ CoreFollows(doc, S)
                        /\ CategorizationFollows(doc, S)
                        /\ CategoryFollows(doc, S)

EntityOK(doc, S) ==
  /\ "exists" \in DOMAIN doc /\ "is_deleted" \in DOMAIN doc
  /\ doc.is_deleted <=> Deleted(S)
  /\ ~doc.is_deleted =>
       \/ S = {} /\ doc.event_ts \in {null, BACKFILL_EVENT_TS}
       \/ \E e \in S : IsNewest(e, S) /\ doc.event_ts = e.ts /\ doc.data = e.data

Kinds == {"transaction", "category", "subcategory", "account", "goal"}
Types == {"created", "updated", "categorized", "deleted"}

(* What the producers guarantee: a deleted entity has no later events (a   *)
(* deleted transaction may still be categorised), accounts are not deleted *)
(* and only transactions are categorised.                                  *)
EventOK(n) ==
  LET e == history[n] IN
  /\ e.ts = n
  /\ e.of \in Kinds /\ e.type \in Types
  /\ e.of = "account" => e.type # "deleted"
  /\ e.of # "transaction" /\ e.type = "deleted" =>
       \A m \in DOMAIN history : history[m].of = e.of /\ history[m].id = e.id => m <= n

HistoryOK ==
  /\ \E E : history \in Seq(E)
  /\ \A n \in DOMAIN history : EventOK(n)
  /\ seen \subseteq DOMAIN history

QueuesOK ==
  /\ queue = [q \in Queues |-> queue[q]]
  /\ \A q \in Queues : \A m \in queue[q] :
       /\ m = [ts |-> m.ts, retries |-> m.retries] /\ m.retries \in Nat
       /\ m.ts \in DOMAIN history
       /\ q \in Bound(history[m.ts])

(* A republished message is acknowledged while its copy waits.             *)
CopyWaits(q, m) == \E x \in queue[q] : x # m /\ x.ts = m.ts

WorkingOK ==
  /\ working = [q \in Queues |-> working[q]]
  /\ working["transactions"].state = "named" =>
       LET n == working["transactions"].message.ts IN
       /\ n \in DOMAIN history
       /\ history[n].of = "transaction" /\ history[n].type \in {"created", "updated"}
  /\ \A q \in Queues : working[q].state = "republished" => CopyWaits(q, working[q].message)

DocsOK ==
  /\ docs = [t \in Transactions |-> docs[t]]
  /\ \A t \in Transactions : DocOK(docs[t], Seen("transaction", t))

StoreOK ==
  /\ store = [d \in FullStateDocs |-> store[d]]
  /\ \A d \in FullStateDocs : EntityOK(store[d], Seen(d[1], d[2]))

ProjectionInv == HistoryOK /\ QueuesOK /\ WorkingOK /\ DocsOK /\ StoreOK

-----------------------------------------------------------------------------
(* What each script writes *)

Whole(doc) == doc = [f \in Fields |-> doc[f]]

SameCategory(new, doc) == new.category = doc.category /\ new.subcategory = doc.subcategory

CoreWritten(new, p, ts) == new.core = p.core /\ new.core_event_ts = ts

LEMMA CoreScript ==
  ASSUME NEW doc, Whole(doc), NEW p, NEW name, NEW ts
  PROVE  LET new == _CORE_SCRIPT(doc, p, name, ts) IN
         /\ Whole(new)
         /\ doc.is_deleted \/ ts < doc.core_event_ts => new = doc
         /\ ~(doc.is_deleted \/ ts < doc.core_event_ts) =>
              /\ new.exists /\ ~new.is_deleted
              /\ CoreWritten(new, p, ts)
              /\ new.categorization_event_ts = doc.categorization_event_ts
              /\ ts < doc.categorization_event_ts => SameCategory(new, doc)
              /\ ~(ts < doc.categorization_event_ts) => SameCategory(new, p)
<1> DEFINE written == [doc EXCEPT !.exists = TRUE, !.core = p.core, !.core_event_ts = ts,
                                  !.updated_at = ts]
           both == [written EXCEPT !.category = p.category, !.category_name = p.category_name,
                                   !.subcategory = p.subcategory, !.subcategory_name = name]
           new == _CORE_SCRIPT(doc, p, name, ts)
<1>1. /\ Whole(written) /\ written.exists = TRUE
      /\ written.is_deleted = doc.is_deleted
      /\ CoreWritten(written, p, ts) /\ SameCategory(written, doc)
      /\ written.categorization_event_ts = doc.categorization_event_ts
  BY DEF Whole, Fields, CoreWritten, SameCategory
<1>2. new = IF doc.is_deleted \/ ts < doc.core_event_ts THEN doc
            ELSE IF ts < doc.categorization_event_ts THEN written ELSE both
  BY DEF _CORE_SCRIPT
<1> HIDE DEF written
<1>3. /\ Whole(both) /\ both.exists = written.exists
      /\ both.is_deleted = written.is_deleted
      /\ both.core = written.core /\ both.core_event_ts = written.core_event_ts
      /\ both.categorization_event_ts = written.categorization_event_ts
      /\ SameCategory(both, p)
  BY <1>1 DEF Whole, Fields, SameCategory
<1> HIDE DEF new, both
<1>4. CASE doc.is_deleted \/ ts < doc.core_event_ts BY <1>2, <1>4 DEF new
<1>5. CASE ~(doc.is_deleted \/ ts < doc.core_event_ts) /\ ts < doc.categorization_event_ts
  BY <1>1, <1>2, <1>5 DEF new
<1>6. CASE ~(doc.is_deleted \/ ts < doc.core_event_ts) /\ ~(ts < doc.categorization_event_ts)
  BY <1>1, <1>2, <1>3, <1>6 DEF CoreWritten, new
<1>7. QED BY <1>4, <1>5, <1>6

LEMMA CategorizationScript ==
  ASSUME NEW doc, Whole(doc), NEW p, NEW ts
  PROVE  LET new == _CATEGORIZATION_SCRIPT(doc, p, ts) IN
         /\ Whole(new)
         /\ doc.is_deleted \/ ts < doc.categorization_event_ts => new = doc
         /\ ~(doc.is_deleted \/ ts < doc.categorization_event_ts) =>
              /\ new.exists /\ ~new.is_deleted
              /\ CoreWritten(new, doc, doc.core_event_ts)
              /\ new.categorization_event_ts = ts
              /\ SameCategory(new, p)
<1> DEFINE both == [doc EXCEPT !.exists = TRUE, !.category = p.category,
                     !.category_name = p.category_name, !.subcategory = p.subcategory,
                     !.subcategory_name = p.subcategory_name,
                     !.categorization_event_ts = ts, !.updated_at = ts]
           new == _CATEGORIZATION_SCRIPT(doc, p, ts)
<1>1. /\ Whole(both) /\ both.exists = TRUE /\ both.is_deleted = doc.is_deleted
      /\ both.core = doc.core /\ both.core_event_ts = doc.core_event_ts
      /\ both.categorization_event_ts = ts /\ SameCategory(both, p)
  BY DEF Whole, Fields, SameCategory
<1>2. new = IF doc.is_deleted \/ ts < doc.categorization_event_ts THEN doc ELSE both
  BY DEF _CATEGORIZATION_SCRIPT
<1> HIDE DEF new, both
<1>3. CASE doc.is_deleted \/ ts < doc.categorization_event_ts BY <1>2, <1>3 DEF new
<1>4. CASE ~(doc.is_deleted \/ ts < doc.categorization_event_ts)
  BY <1>1, <1>2, <1>4 DEF new, CoreWritten
<1>5. QED BY <1>3, <1>4

LEMMA DeleteScript ==
  ASSUME NEW doc, Whole(doc), NEW ts
  PROVE  LET new == _DELETE_SCRIPT(doc, ts) IN Whole(new) /\ new.exists /\ new.is_deleted
BY DEF _DELETE_SCRIPT, Whole, Fields

(* What no script but these three touches. *)
Kept(new, doc) ==
  /\ new.exists = doc.exists /\ new.is_deleted = doc.is_deleted
  /\ CoreWritten(new, doc, doc.core_event_ts)
  /\ new.categorization_event_ts = doc.categorization_event_ts
  /\ SameCategory(new, doc)

LEMMA OtherScripts ==
  ASSUME NEW doc, Whole(doc), NEW x, NEW ts
  PROVE  /\ Whole(_EMBEDDING_SCRIPT(doc, x, ts)) /\ Kept(_EMBEDDING_SCRIPT(doc, x, ts), doc)
         /\ Whole([doc EXCEPT !.category_name = x]) /\ Kept([doc EXCEPT !.category_name = x], doc)
         /\ Whole([doc EXCEPT !.subcategory_name = x])
         /\ Kept([doc EXCEPT !.subcategory_name = x], doc)
<1> DEFINE new == [doc EXCEPT !.vector = x, !.embedding_event_ts = ts]
<1>1. Whole(new) /\ Kept(new, doc) BY DEF Whole, Fields, Kept, CoreWritten, SameCategory
<1>2. Kept(doc, doc) BY DEF Kept, CoreWritten, SameCategory
<1>3. _EMBEDDING_SCRIPT(doc, x, ts) = doc \/ _EMBEDDING_SCRIPT(doc, x, ts) = new
  BY DEF _EMBEDDING_SCRIPT
<1> HIDE DEF new
<1>4. Whole(_EMBEDDING_SCRIPT(doc, x, ts)) /\ Kept(_EMBEDDING_SCRIPT(doc, x, ts), doc)
  BY <1>1, <1>2, <1>3
<1>5. Whole([doc EXCEPT !.category_name = x]) /\ Kept([doc EXCEPT !.category_name = x], doc)
  BY DEF Whole, Fields, Kept, CoreWritten, SameCategory
<1>6. /\ Whole([doc EXCEPT !.subcategory_name = x])
      /\ Kept([doc EXCEPT !.subcategory_name = x], doc)
  BY DEF Whole, Fields, Kept, CoreWritten, SameCategory
<1>7. QED BY <1>4, <1>5, <1>6

-----------------------------------------------------------------------------
(* A document that was told by the newest stays so *)

Stamped(S) == \A e \in S : e.ts \in Nat /\ e.ts >= 1

LEMMA KeptIsOK ==
  ASSUME NEW S, NEW doc, NEW new, DocOK(doc, S), Whole(new), Kept(new, doc)
  PROVE  DocOK(new, S)
BY DEF DocOK, Whole, Kept, CoreWritten, SameCategory, CoreFollows, CategorizationFollows,
       CategoryFollows

LEMMA CoreEventKeepsDoc ==
  ASSUME NEW S, NEW e, Stamped(S \cup {e}), e.type \in {"created", "updated"},
         NEW doc, DocOK(doc, S), NEW name
  PROVE  DocOK(_CORE_SCRIPT(doc, e.data, name, e.ts), S \cup {e})
<1> DEFINE new == _CORE_SCRIPT(doc, e.data, name, e.ts)
           T == S \cup {e}
<1>1. Whole(doc) BY DEF DocOK, Whole
<1>2. /\ CoreAmong(T) = CoreAmong(S) \cup {e} /\ CategorizedAmong(T) = CategorizedAmong(S)
      /\ Deleted(T) <=> Deleted(S)
  BY DEF CoreAmong, CategorizedAmong, Deleted
<1>3. /\ \A f \in T : f.ts \in Nat /\ f.ts >= 1
      /\ CoreAmong(S) \subseteq T /\ CategorizedAmong(S) \subseteq T /\ e \in T
  BY DEF Stamped, CoreAmong, CategorizedAmong
<1> HIDE DEF T
<1>4. CASE doc.is_deleted
  <2>1. new = doc BY <1>1, <1>4, CoreScript
  <2>2. S # {} BY <1>4 DEF DocOK, Deleted
  <2>3. QED BY <2>1, <2>2, <1>2, <1>4 DEF DocOK, T
<1>5. CASE ~doc.is_deleted /\ e.ts < doc.core_event_ts
  <2>1. new = doc BY <1>1, <1>5, CoreScript
  <2>2. PICK c \in CoreAmong(S) : /\ IsNewest(c, CoreAmong(S))
                             /\ doc.core_event_ts = c.ts /\ doc.core = c.data.core
    BY <1>3, <1>5 DEF DocOK, CoreFollows, null, BACKFILL_EVENT_TS
  <2>3. CoreFollows(doc, T)
    BY <1>2, <1>3, <1>5, <2>2 DEF CoreFollows, IsNewest
  <2>4. CategorizationFollows(doc, T) /\ CategoryFollows(doc, T)
    BY <1>2, <1>5, <2>2 DEF DocOK, CategorizationFollows, CategoryFollows
  <2>5. QED BY <2>1, <2>2, <2>3, <2>4, <1>2, <1>3, <1>5 DEF DocOK, T
<1>6. CASE ~doc.is_deleted /\ ~(e.ts < doc.core_event_ts)
  <2>1. /\ Whole(new) /\ new.exists /\ ~new.is_deleted
        /\ new.core = e.data.core /\ new.core_event_ts = e.ts
        /\ new.categorization_event_ts = doc.categorization_event_ts
        /\ e.ts < doc.categorization_event_ts => SameCategory(new, doc)
        /\ ~(e.ts < doc.categorization_event_ts) => SameCategory(new, e.data)
    BY <1>1, <1>6, CoreScript DEF CoreWritten
  <2> HIDE DEF new
  <2>2. CoreFollows(new, T)
    BY <2>1, <1>2, <1>3, <1>6 DEF DocOK, CoreFollows, IsNewest, null, BACKFILL_EVENT_TS
  <2>3. CategorizationFollows(new, T)
    BY <2>1, <1>2, <1>6 DEF DocOK, CategorizationFollows
  <2>4. CategoryFollows(new, T)
    <3>1. CASE e.ts < doc.categorization_event_ts
      <4>1. CategorizedAmong(S) # {}
        BY <3>1, <1>3, <1>6 DEF DocOK, CategorizationFollows, null
      <4>2. QED BY <4>1, <3>1, <2>1, <1>2, <1>6 DEF DocOK, CategoryFollows, SameCategory
    <3>2. CASE ~(e.ts < doc.categorization_event_ts)
      <4>1. \A k \in CategorizedAmong(S) : k.ts <= e.ts
        BY <3>2, <1>3, <1>6 DEF DocOK, CategorizationFollows, IsNewest
      <4>2. QED BY <4>1, <3>2, <2>1, <1>2 DEF CategoryFollows, SameCategory
    <3>3. QED BY <3>1, <3>2
  <2>5. QED BY <2>1, <2>2, <2>3, <2>4, <1>2, <1>6 DEF DocOK, Whole, new, T
<1>7. QED BY <1>4, <1>5, <1>6 DEF T

LEMMA CategorizedEventKeepsDoc ==
  ASSUME NEW S, NEW e, Stamped(S \cup {e}), e.type = "categorized", NEW doc, DocOK(doc, S)
  PROVE  DocOK(_CATEGORIZATION_SCRIPT(doc, e.data, e.ts), S \cup {e})
<1> DEFINE new == _CATEGORIZATION_SCRIPT(doc, e.data, e.ts)
           T == S \cup {e}
<1>1. Whole(doc) BY DEF DocOK, Whole
<1>2. /\ CoreAmong(T) = CoreAmong(S) /\ CategorizedAmong(T) = CategorizedAmong(S) \cup {e}
      /\ Deleted(T) <=> Deleted(S)
  BY DEF CoreAmong, CategorizedAmong, Deleted
<1>3. /\ \A f \in T : f.ts \in Nat /\ f.ts >= 1
      /\ CoreAmong(S) \subseteq T /\ CategorizedAmong(S) \subseteq T /\ e \in T
  BY DEF Stamped, CoreAmong, CategorizedAmong
<1>4. CASE doc.is_deleted
  <2>1. new = doc BY <1>1, <1>4, CategorizationScript
  <2>2. S # {} BY <1>4 DEF DocOK, Deleted
  <2>3. QED BY <2>1, <2>2, <1>2, <1>4 DEF DocOK
<1> HIDE DEF T
<1>5. CASE ~doc.is_deleted /\ e.ts < doc.categorization_event_ts
  <2>1. new = doc BY <1>1, <1>5, CategorizationScript
  <2>2. PICK c \in CategorizedAmong(S) : /\ IsNewest(c, CategorizedAmong(S))
                                    /\ doc.categorization_event_ts = c.ts
    BY <1>3, <1>5 DEF DocOK, CategorizationFollows, null
  <2>3. CategorizationFollows(doc, T)
    BY <1>2, <1>3, <1>5, <2>2 DEF CategorizationFollows, IsNewest
  <2>4. CoreFollows(doc, T) BY <1>2, <1>5 DEF DocOK, CoreFollows
  <2>5. CategoryFollows(doc, T)
    <3>1. PICK w \in CoreAmong(S) \cup CategorizedAmong(S) :
            /\ doc.category = w.data.category /\ doc.subcategory = w.data.subcategory
            /\ \A k \in CategorizedAmong(S) : k.ts <= w.ts
      BY <2>2, <1>5 DEF DocOK, CategoryFollows
    <3>2. e.ts <= w.ts BY <3>1, <2>2, <1>3, <1>5
    <3>3. QED BY <3>1, <3>2, <1>2 DEF CategoryFollows
  <2>6. S # {} BY <2>2 DEF CategorizedAmong
  <2>7. QED BY <2>1, <2>3, <2>4, <2>5, <2>6, <1>2, <1>5 DEF DocOK, T
<1>6. CASE ~doc.is_deleted /\ ~(e.ts < doc.categorization_event_ts)
  <2>1. /\ Whole(new) /\ new.exists /\ ~new.is_deleted
        /\ new.core = doc.core /\ new.core_event_ts = doc.core_event_ts
        /\ new.categorization_event_ts = e.ts /\ SameCategory(new, e.data)
    BY <1>1, <1>6, CategorizationScript DEF CoreWritten
  <2> HIDE DEF new
  <2>2. CoreFollows(new, T) BY <2>1, <1>2, <1>6 DEF DocOK, CoreFollows
  <2>3. \A k \in CategorizedAmong(T) : k.ts <= e.ts
    BY <1>2, <1>3, <1>6 DEF DocOK, CategorizationFollows, IsNewest
  <2>4. CategorizationFollows(new, T)
    BY <2>1, <2>3, <1>2 DEF CategorizationFollows, IsNewest
  <2>5. CategoryFollows(new, T)
    BY <2>1, <2>3, <1>2 DEF CategoryFollows, SameCategory
  <2>6. QED BY <2>1, <2>2, <2>4, <2>5, <1>2, <1>6 DEF DocOK, Whole, new, T
<1>7. QED BY <1>4, <1>5, <1>6 DEF T

LEMMA DeletedEventKeepsDoc ==
  ASSUME NEW S, NEW e, e.type = "deleted", NEW doc, DocOK(doc, S)
  PROVE  DocOK(_DELETE_SCRIPT(doc, e.ts), S \cup {e})
<1>1. Whole(doc) BY DEF DocOK, Whole
<1>2. Deleted(S \cup {e}) BY DEF Deleted
<1>3. QED BY <1>1, <1>2, DeleteScript DEF DocOK, Whole

(* The backfill tool's timestamp loses to every live event. *)
LEMMA BackfillKeepsDoc ==
  ASSUME NEW S, Stamped(S), NEW doc, DocOK(doc, S), NEW src, NEW name
  PROVE  DocOK(_CORE_SCRIPT(doc, src, name, BACKFILL_EVENT_TS), S)
<1> DEFINE new == _CORE_SCRIPT(doc, src, name, BACKFILL_EVENT_TS)
<1>0. \A f \in CoreAmong(S) \cup CategorizedAmong(S) : f.ts \in Nat /\ f.ts >= 1
  BY DEF CoreAmong, CategorizedAmong, Stamped
<1>1. Whole(doc) BY DEF DocOK, Whole
<1>2. CASE doc.is_deleted \/ BACKFILL_EVENT_TS < doc.core_event_ts
  BY <1>1, <1>2, CoreScript
<1>3. CASE ~(doc.is_deleted \/ BACKFILL_EVENT_TS < doc.core_event_ts)
  <2>1. /\ Whole(new) /\ new.exists /\ ~new.is_deleted /\ new.core_event_ts = BACKFILL_EVENT_TS
        /\ new.categorization_event_ts = doc.categorization_event_ts
        /\ BACKFILL_EVENT_TS < doc.categorization_event_ts => SameCategory(new, doc)
    BY <1>1, <1>3, CoreScript DEF CoreWritten
  <2> HIDE DEF new
  <2>2. CoreAmong(S) = {}
    BY <1>0, <1>3 DEF DocOK, CoreFollows, BACKFILL_EVENT_TS
  <2>3. CoreFollows(new, S) BY <2>1, <2>2 DEF CoreFollows
  <2>4. CategorizationFollows(new, S)
    BY <2>1, <1>3 DEF DocOK, CategorizationFollows
  <2>5. CategoryFollows(new, S)
    <3>1. CASE BACKFILL_EVENT_TS < doc.categorization_event_ts
      BY <3>1, <2>1, <1>3 DEF DocOK, CategoryFollows, SameCategory
    <3>2. CASE ~(BACKFILL_EVENT_TS < doc.categorization_event_ts)
      <4>1. CategorizedAmong(S) = {}
        BY <3>2, <1>0, <1>3 DEF DocOK, CategorizationFollows, BACKFILL_EVENT_TS
      <4>2. QED BY <4>1, <2>2 DEF CategoryFollows
    <3>3. QED BY <3>1, <3>2
  <2>6. QED BY <2>1, <2>3, <2>4, <2>5, <1>3 DEF DocOK, Whole, new
<1>4. QED BY <1>2, <1>3

-----------------------------------------------------------------------------
(* The same for the documents with full state *)

LEMMA EntityEventKeepsDoc ==
  ASSUME NEW S, NEW e, Stamped(S \cup {e}), NEW doc, EntityOK(doc, S), NEW deleted,
         deleted <=> e.type = "deleted",
         e.type = "deleted" => \A f \in S : f.ts <= e.ts
  PROVE  EntityOK(guarded_full_state_upsert(doc, e.data, deleted, e.ts), S \cup {e})
<1> DEFINE T == S \cup {e}
           written == [exists |-> TRUE, is_deleted |-> deleted, data |-> e.data,
                       event_ts |-> e.ts]
           new == guarded_full_state_upsert(doc, e.data, deleted, e.ts)
<1>1. /\ \A f \in T : f.ts \in Nat /\ f.ts >= 1
      /\ Deleted(T) <=> Deleted(S) \/ e.type = "deleted"
      /\ S \subseteq T /\ e \in T /\ \A f \in T : f \in S \/ f = e
  BY DEF Stamped, Deleted
<1> HIDE DEF T
<1>2. CASE doc.is_deleted \/ e.ts < doc.event_ts
  <2>1. new = doc BY <1>2 DEF guarded_full_state_upsert
  <2>2. CASE doc.is_deleted BY <2>1, <2>2, <1>1 DEF EntityOK, T
  <2>3. CASE ~doc.is_deleted /\ e.ts < doc.event_ts
    <3>1. PICK f \in S : IsNewest(f, S) /\ doc.event_ts = f.ts /\ doc.data = f.data
      BY <2>3, <1>1 DEF EntityOK, null, BACKFILL_EVENT_TS
    <3>2. e.type # "deleted" BY <3>1, <2>3, <1>1
    <3>3. IsNewest(f, T) BY <3>1, <2>3, <1>1 DEF IsNewest
    <3>4. QED BY <2>1, <2>3, <3>1, <3>2, <3>3, <1>1 DEF EntityOK, T
  <2>4. QED BY <1>2, <2>2, <2>3
<1>3. CASE ~(doc.is_deleted \/ e.ts < doc.event_ts)
  <2>1. new = written BY <1>3 DEF guarded_full_state_upsert
  <2>2. /\ "exists" \in DOMAIN written /\ "is_deleted" \in DOMAIN written
        /\ written.is_deleted <=> e.type = "deleted"
        /\ written.data = e.data /\ written.event_ts = e.ts
    OBVIOUS
  <2> HIDE DEF written
  <2>3. IsNewest(e, T) BY <1>1, <1>3 DEF EntityOK, IsNewest
  <2>4. ~Deleted(S) BY <1>3 DEF EntityOK
  <2>5. EntityOK(written, T) BY <2>2, <2>3, <2>4, <1>1 DEF EntityOK
  <2>6. QED BY <2>1, <2>5 DEF T
<1>4. QED BY <1>2, <1>3

LEMMA EntityDeletionKeepsDoc ==
  ASSUME NEW S, NEW e, e.type = "deleted", NEW doc, EntityOK(doc, S)
  PROVE  EntityOK([doc EXCEPT !.exists = TRUE, !.is_deleted = TRUE], S \cup {e})
<1>1. Deleted(S \cup {e}) BY DEF Deleted
<1>2. QED BY <1>1 DEF EntityOK

LEMMA EntityBackfillKeepsDoc ==
  ASSUME NEW S, Stamped(S), NEW doc, EntityOK(doc, S), NEW src
  PROVE  EntityOK(guarded_full_state_upsert(doc, src, FALSE, BACKFILL_EVENT_TS), S)
<1> DEFINE written == [exists |-> TRUE, is_deleted |-> FALSE, data |-> src,
                       event_ts |-> BACKFILL_EVENT_TS]
           new == guarded_full_state_upsert(doc, src, FALSE, BACKFILL_EVENT_TS)
<1>1. CASE doc.is_deleted \/ BACKFILL_EVENT_TS < doc.event_ts
  BY <1>1 DEF guarded_full_state_upsert
<1>2. CASE ~(doc.is_deleted \/ BACKFILL_EVENT_TS < doc.event_ts)
  <2>1. new = written BY <1>2 DEF guarded_full_state_upsert
  <2>2. /\ "exists" \in DOMAIN written /\ "is_deleted" \in DOMAIN written
        /\ ~written.is_deleted /\ written.event_ts = BACKFILL_EVENT_TS
    OBVIOUS
  <2> HIDE DEF written
  <2>3. S = {} BY <1>2 DEF EntityOK, Stamped, BACKFILL_EVENT_TS
  <2>4. EntityOK(written, S) BY <2>2, <2>3 DEF EntityOK, Deleted
  <2>5. QED BY <2>1, <2>4
<1>3. QED BY <1>1, <1>2

-----------------------------------------------------------------------------
(* The events a document has been told *)

LEMMA SeenIsStamped ==
  ASSUME HistoryOK
  PROVE  /\ history \in Seq({history[n] : n \in DOMAIN history})
         /\ Len(history) \in Nat /\ DOMAIN history = 1 .. Len(history)
         /\ \A n \in DOMAIN history : n \in Nat /\ n >= 1 /\ EventOK(n)
         /\ \A kind, id : Stamped(Seen(kind, id))
         /\ \A kind, id : \A e \in Seen(kind, id) :
              e.ts \in seen /\ e = history[e.ts] /\ e.of = kind /\ e.id = id
<1>1. PICK E : history \in Seq(E) BY DEF HistoryOK
<1>2. Len(history) \in Nat /\ DOMAIN history = 1 .. Len(history) BY <1>1
<1>3. history \in Seq({history[n] : n \in DOMAIN history}) BY <1>1
<1>4. \A n \in DOMAIN history : n \in Nat /\ n >= 1 /\ EventOK(n) BY <1>2 DEF HistoryOK
<1>5. \A kind, id : \A e \in Seen(kind, id) :
        e.ts \in seen /\ e = history[e.ts] /\ e.of = kind /\ e.id = id
  BY DEF HistoryOK, EventOK, Seen, Among
<1>6. \A kind, id : Stamped(Seen(kind, id)) BY <1>4, <1>5 DEF HistoryOK, Stamped
<1>7. QED BY <1>2, <1>3, <1>4, <1>5, <1>6

LEMMA SeenKept ==
  ASSUME UNCHANGED <<history, seen>>
  PROVE  \A kind, id : Seen(kind, id)' = Seen(kind, id)
BY DEF Seen, Among

LEMMA SeenGrows ==
  ASSUME NEW n, history' = history, seen' = seen \cup {n}
  PROVE  \A kind, id : Seen(kind, id)' =
           IF history[n].of = kind /\ history[n].id = id
           THEN Seen(kind, id) \cup {history[n]} ELSE Seen(kind, id)
BY DEF Seen, Among

LEMMA HistoryKept ==
  ASSUME HistoryOK, history' = history, NEW n \in DOMAIN history,
         seen' = seen \/ seen' = seen \cup {n}
  PROVE  HistoryOK'
BY DEF HistoryOK, EventOK

-----------------------------------------------------------------------------
(* The steps, by what they do to the queues, the handlers and the documents *)

LEMMA QueuesKept ==
  ASSUME QueuesOK, UNCHANGED <<history, queue>>
  PROVE  QueuesOK'
BY DEF QueuesOK, Bound

LEMMA MessageTaken ==
  ASSUME QueuesOK, history' = history, NEW q, NEW m, queue' = [queue EXCEPT ![q] = @ \ {m}]
  PROVE  QueuesOK'
<1>1. \A r \in Queues : queue'[r] \subseteq queue[r] BY DEF QueuesOK
<1>2. queue' = [r \in Queues |-> queue'[r]] BY DEF QueuesOK
<1>3. QED BY <1>1, <1>2 DEF QueuesOK, Bound

LEMMA MessageRepublished ==
  ASSUME QueuesOK, history' = history, NEW q \in Queues, NEW m \in queue[q], _republish(q, m)
  PROVE  /\ QueuesOK'
         /\ \A r \in Queues : queue[r] \subseteq queue'[r]
         /\ CopyWaits(q, m)'
<1> DEFINE again == [m EXCEPT !.retries = @ + 1]
           to == IF q = "embeddings" THEN {q} ELSE Bound(history[m.ts])
<1>1. /\ again = [ts |-> again.ts, retries |-> again.retries] /\ again.ts = m.ts
      /\ again.retries = m.retries + 1 /\ m.retries \in Nat
      /\ m.ts \in DOMAIN history /\ q \in Bound(history[m.ts])
  BY DEF QueuesOK
<1>2. queue' = [r \in Queues |-> queue[r] \cup (IF r \in to THEN {again} ELSE {})]
  BY DEF _republish
<1>3. to \subseteq Bound(history[m.ts]) /\ q \in to BY <1>1
<1> HIDE DEF again, to
<1>4. \A r \in Queues : \A x \in queue'[r] : x \in queue[r] \/ (x = again /\ r \in to)
  BY <1>2
<1>5. queue' = [r \in Queues |-> queue'[r]] BY <1>2
<1>6. QueuesOK'
  <2>1. ASSUME NEW r \in Queues, NEW x \in queue'[r]
        PROVE  /\ x = [ts |-> x.ts, retries |-> x.retries] /\ x.retries \in Nat
               /\ x.ts \in DOMAIN history
               /\ r \in Bound(history[x.ts])
    <3>1. CASE x \in queue[r] BY <3>1 DEF QueuesOK
    <3>2. CASE x = again /\ r \in to BY <1>1, <1>3, <3>2
    <3>3. QED BY <1>4, <3>1, <3>2
  <2>2. QED BY <1>5, <2>1 DEF QueuesOK, Bound
<1>7. \A r \in Queues : queue[r] \subseteq queue'[r] BY <1>2
<1>8. again \in queue'[q] /\ again # m BY <1>1, <1>2, <1>3
<1>9. QED BY <1>1, <1>6, <1>7, <1>8 DEF CopyWaits

LEMMA WorkingKept ==
  ASSUME WorkingOK, history' = history, working' = [q \in Queues |-> working'[q]],
         \/ working'["transactions"] = working["transactions"]
         \/ working'["transactions"].state # "named",
         \A q \in Queues : \/ working'[q].state # "republished"
                           \/ working'[q] = working[q] /\ queue[q] \subseteq queue'[q]
  PROVE  WorkingOK'
<1>1. ASSUME NEW q \in Queues, working'[q].state = "republished"
      PROVE  CopyWaits(q, working[q].message)'
  BY <1>1 DEF WorkingOK, CopyWaits
<1>2. (working["transactions"].state = "named" =>
         LET n == working["transactions"].message.ts IN
         /\ n \in DOMAIN history
         /\ history[n].of = "transaction" /\ history[n].type \in {"created", "updated"})'
  BY DEF WorkingOK
<1>3. QED BY <1>1, <1>2 DEF WorkingOK

LEMMA WorkerStops ==
  ASSUME WorkingOK, UNCHANGED <<history, queue>>, NEW q, working' = StopProcess(q)
  PROVE  WorkingOK'
<1>1. "transactions" \in Queues BY DEF Queues, QUEUE_BINDINGS
<1>2. \A r \in Queues : working'[r] = working[r] \/ working'[r] = Idle BY DEF StopProcess
<1>3. Idle.state # "republished" /\ Idle.state # "named" BY DEF Idle
<1>4. working' = [r \in Queues |-> working'[r]] BY DEF StopProcess
<1>5. QED BY <1>1, <1>2, <1>3, <1>4, WorkingKept

LEMMA WorkerMoves ==
  ASSUME WorkingOK, history' = history, NEW q, NEW x, working' = [working EXCEPT ![q] = x],
         x.state # "republished", q = "transactions" => x.state # "named",
         \A r \in Queues : r # q => queue[r] \subseteq queue'[r]
  PROVE  WorkingOK'
<1>1. "transactions" \in Queues BY DEF Queues, QUEUE_BINDINGS
<1>2. working' = [r \in Queues |-> working'[r]] BY DEF WorkingOK
<1>3. \A r \in Queues : working'[r] = IF r = q THEN x ELSE working[r] BY DEF WorkingOK
<1>4. QED BY <1>1, <1>2, <1>3, WorkingKept

LEMMA MessageAcked ==
  ASSUME QueuesOK, WorkingOK, history' = history, NEW q, NEW m, Acked(q, m)
  PROVE  QueuesOK' /\ WorkingOK'
<1>1. CASE queue' = [queue EXCEPT ![q] = @ \ {m}] /\ working' = [working EXCEPT ![q] = Idle]
  <2>1. Idle.state # "republished" /\ Idle.state # "named" BY DEF Idle
  <2>2. \A r \in Queues : r # q => queue[r] \subseteq queue'[r] BY <1>1 DEF QueuesOK
  <2>3. QED BY <1>1, <2>1, <2>2, MessageTaken, WorkerMoves
<1>2. CASE working' = StopProcess(q) /\ queue' = queue
  BY <1>2, QueuesKept, WorkerStops
<1>3. QED BY <1>1, <1>2 DEF Acked

LEMMA MessageRejected ==
  ASSUME QueuesOK, WorkingOK, history' = history, NEW q \in Queues, NEW m \in queue[q],
         Rejected(q, m)
  PROVE  QueuesOK' /\ WorkingOK'
<1>1. CASE /\ _republish(q, m)
           /\ working' = [working EXCEPT ![q] = [state |-> "republished", message |-> m]]
  <2> DEFINE w == [state |-> "republished", message |-> m]
  <2>1. /\ QueuesOK' /\ \A r \in Queues : queue[r] \subseteq queue'[r]
        /\ CopyWaits(q, m)'
    BY <1>1, MessageRepublished
  <2>2. w.state = "republished" /\ w.message = m OBVIOUS
  <2> HIDE DEF w
  <2>3. working' = [r \in Queues |-> IF r = q THEN w ELSE working[r]]
    BY <1>1 DEF WorkingOK, w
  <2>4. \A r \in Queues : working'[r] = IF r = q THEN w ELSE working[r] BY <2>3
  <2>5. ASSUME NEW r \in Queues, working'[r].state = "republished"
        PROVE  CopyWaits(r, working[r].message)'
    <3>1. CASE r = q
      <4>1. working'[r].message = m BY <2>2, <2>4, <3>1
      <4>2. QED BY <2>1, <3>1, <4>1 DEF CopyWaits
    <3>2. CASE r # q
      <4>1. working'[r] = working[r] BY <2>4, <3>2
      <4>2. CopyWaits(r, working[r].message) BY <2>5, <4>1 DEF WorkingOK
      <4>3. QED BY <2>1, <4>1, <4>2 DEF CopyWaits
    <3>3. QED BY <3>1, <3>2
  <2>6. (working["transactions"].state = "named" =>
           LET n == working["transactions"].message.ts IN
           /\ n \in DOMAIN history
           /\ history[n].of = "transaction" /\ history[n].type \in {"created", "updated"})'
    <3>1. "transactions" \in Queues BY DEF Queues, QUEUE_BINDINGS
    <3>2. QED BY <2>2, <2>4, <3>1 DEF WorkingOK
  <2>7. working' = [r \in Queues |-> working'[r]] BY <2>3
  <2>8. WorkingOK' BY <2>5, <2>6, <2>7 DEF WorkingOK
  <2>9. QED BY <2>1, <2>8
<1>2. CASE /\ queue' = [queue EXCEPT ![q] = @ \ {m}]
           /\ working' = [working EXCEPT ![q] = Idle]
  <2>1. Idle.state # "republished" /\ Idle.state # "named" BY DEF Idle
  <2>2. \A r \in Queues : r # q => queue[r] \subseteq queue'[r] BY <1>2 DEF QueuesOK
  <2>3. QED BY <1>2, <2>1, <2>2, MessageTaken, WorkerMoves
<1>3. QED BY <1>1, <1>2 DEF Rejected

LEMMA DocsKept ==
  ASSUME DocsOK, UNCHANGED <<docs, history, seen>>
  PROVE  DocsOK'
BY SeenKept DEF DocsOK

LEMMA StoreKept ==
  ASSUME StoreOK, UNCHANGED <<store, history, seen>>
  PROVE  StoreOK'
BY SeenKept DEF StoreOK

(* An event about a transaction is folded into its document. *)
LEMMA DocWritten ==
  ASSUME HistoryOK, DocsOK, NEW n \in DOMAIN history, history[n].of = "transaction",
         history' = history, seen' = seen \cup {n},
         NEW new, docs' = [docs EXCEPT ![history[n].id] = new],
         history[n].id \in Transactions =>
           DocOK(new, Seen("transaction", history[n].id) \cup {history[n]})
  PROVE  DocsOK'
<1>1. docs' = [t \in Transactions |-> docs'[t]] BY DEF DocsOK
<1>2. ASSUME NEW t \in Transactions PROVE DocOK(docs'[t], Seen("transaction", t)')
  <2>1. CASE t = history[n].id
    <3>1. docs'[t] = new BY <2>1 DEF DocsOK
    <3>2. Seen("transaction", t)' = Seen("transaction", t) \cup {history[n]}
      BY <2>1, SeenGrows
    <3>3. QED BY <2>1, <3>1, <3>2
  <2>2. CASE t # history[n].id
    <3>1. docs'[t] = docs[t] BY <2>2 DEF DocsOK
    <3>2. Seen("transaction", t)' = Seen("transaction", t) BY <2>2, SeenGrows
    <3>3. QED BY <3>1, <3>2 DEF DocsOK
  <2>3. QED BY <2>1, <2>2
<1>3. QED BY <1>1, <1>2 DEF DocsOK

(* An event about something else is nothing to the transactions' documents. *)
LEMMA DocsUntold ==
  ASSUME HistoryOK, DocsOK, NEW n, history[n].of # "transaction",
         UNCHANGED <<history, docs>>, seen' = seen \cup {n}
  PROVE  DocsOK'
<1>1. \A t \in Transactions : Seen("transaction", t)' = Seen("transaction", t) BY SeenGrows
<1>2. QED BY <1>1 DEF DocsOK

LEMMA EntityIDs ==
  \A d \in FullStateDocs : /\ d = <<d[1], d[2]>>
                           /\ d[1] \in {"category", "subcategory", "account", "goal"}
BY DEF FullStateDocs

LEMMA StoreWritten ==
  ASSUME HistoryOK, StoreOK, NEW n \in DOMAIN history,
         history' = history, seen' = seen \cup {n},
         NEW new, store' = [store EXCEPT ![<<history[n].of, history[n].id>>] = new],
         <<history[n].of, history[n].id>> \in FullStateDocs =>
           EntityOK(new, Seen(history[n].of, history[n].id) \cup {history[n]})
  PROVE  StoreOK'
<1>1. store' = [d \in FullStateDocs |-> store'[d]] BY DEF StoreOK
<1>2. ASSUME NEW d \in FullStateDocs PROVE EntityOK(store'[d], Seen(d[1], d[2])')
  <2>0. d = <<d[1], d[2]>> BY EntityIDs
  <2>1. CASE d[1] = history[n].of /\ d[2] = history[n].id
    <3>1. store'[d] = new BY <2>0, <2>1 DEF StoreOK
    <3>2. Seen(d[1], d[2])' = Seen(d[1], d[2]) \cup {history[n]} BY <2>1, SeenGrows
    <3>3. QED BY <2>0, <2>1, <3>1, <3>2
  <2>2. CASE ~(d[1] = history[n].of /\ d[2] = history[n].id)
    <3>1. store'[d] = store[d] BY <2>0, <2>2 DEF StoreOK
    <3>2. Seen(d[1], d[2])' = Seen(d[1], d[2]) BY <2>2, SeenGrows
    <3>3. QED BY <3>1, <3>2 DEF StoreOK
  <2>3. QED BY <2>1, <2>2
<1>3. QED BY <1>1, <1>2 DEF StoreOK

LEMMA StoreUntold ==
  ASSUME HistoryOK, StoreOK, NEW n, history[n].of = "transaction",
         UNCHANGED <<history, store>>, seen' = seen \cup {n}
  PROVE  StoreOK'
<1>1. \A d \in FullStateDocs : Seen(d[1], d[2])' = Seen(d[1], d[2])
  BY SeenGrows, EntityIDs
<1>2. QED BY <1>1 DEF StoreOK

(* A write that no event causes. *)
LEMMA DocRewritten ==
  ASSUME DocsOK, UNCHANGED <<history, seen>>, docs' = [t \in Transactions |-> docs'[t]],
         \A t \in Transactions : docs'[t] = docs[t] \/ DocOK(docs'[t], Seen("transaction", t))
  PROVE  DocsOK'
BY SeenKept DEF DocsOK

LEMMA EntityRewritten ==
  ASSUME StoreOK, UNCHANGED <<history, seen>>, store' = [d \in FullStateDocs |-> store'[d]],
         \A d \in FullStateDocs : store'[d] = store[d] \/ EntityOK(store'[d], Seen(d[1], d[2]))
  PROVE  StoreOK'
BY SeenKept DEF StoreOK

-----------------------------------------------------------------------------
(* The actions *)

LEMMA BoundTo ==
  ASSUME NEW e
  PROVE  /\ "transactions" \in Bound(e) => e.of = "transaction"
         /\ "accounts" \in Bound(e) => e.of = "account"
         /\ "goals" \in Bound(e) => e.of = "goal"
         /\ "taxonomy" \in Bound(e) => e.of \in {"category", "subcategory"}
BY DEF Bound, QUEUE_BINDINGS

LEMMA QueueNames ==
  Queues = {"transactions", "accounts", "taxonomy", "goals", "embeddings"}
BY DEF Queues, QUEUE_BINDINGS

LEMMA Appended ==
  ASSUME HistoryOK, NEW e, history' = Append(history, e)
  PROVE  /\ DOMAIN history' = DOMAIN history \cup {Len(history) + 1}
         /\ Len(history) + 1 \notin DOMAIN history
         /\ history'[Len(history) + 1] = e
         /\ \A n \in DOMAIN history : history'[n] = history[n] /\ n < Len(history) + 1
         /\ \E E : history' \in Seq(E)
<1> DEFINE H == {history[n] : n \in DOMAIN history}
<1>1. history \in Seq(H) /\ Len(history) \in Nat /\ DOMAIN history = 1 .. Len(history)
  BY SeenIsStamped
<1> HIDE DEF H
<1>2. history \in Seq(H \cup {e}) BY <1>1
<1>3. history' \in Seq(H \cup {e}) BY <1>2
<1>4. QED BY <1>1, <1>2, <1>3

LEMMA EventHappens ==
  ASSUME ProjectionInv, NEW kind \in Kinds, NEW id, NEW type \in Types, NEW data,
         kind = "account" => type # "deleted",
         kind # "transaction" => About(kind, id) = {} \/ Alive(kind, id),
         Happens(EventOf(kind, id, type, data))
  PROVE  ProjectionInv'
<1> DEFINE e == EventOf(kind, id, type, data)
           N == Len(history) + 1
<1>1. e.of = kind /\ e.id = id /\ e.type = type /\ e.ts = N BY DEF EventOf
<1>2. /\ history' = Append(history, e)
      /\ queue' = [q \in Queues |-> IF q \in Bound(e)
                                    THEN queue[q] \cup {[ts |-> e.ts, retries |-> 0]}
                                    ELSE queue[q]]
      /\ UNCHANGED <<working, docs, store, seen>>
  BY DEF Happens
<1>3. /\ DOMAIN history' = DOMAIN history \cup {N} /\ N \notin DOMAIN history
      /\ history'[N] = e
      /\ \A n \in DOMAIN history : history'[n] = history[n] /\ n < N
      /\ \E E : history' \in Seq(E)
  BY <1>2, Appended DEF ProjectionInv
<1>4. /\ \A n \in DOMAIN history : n \in Nat /\ EventOK(n)
      /\ N \in Nat /\ seen \subseteq DOMAIN history
  BY SeenIsStamped DEF ProjectionInv, HistoryOK
<1> HIDE DEF e, N
<1>5. ASSUME NEW n \in DOMAIN history, history[n].of = kind, history[n].id = id,
             kind # "transaction"
      PROVE  history[n].type # "deleted"
  BY <1>5 DEF About, Among, Alive
<1>6. HistoryOK'
  <2>1. ASSUME NEW n \in DOMAIN history' PROVE EventOK(n)'
    <3>1. CASE n \in DOMAIN history
      BY <3>1, <1>1, <1>3, <1>4, <1>5 DEF EventOK
    <3>2. CASE n = N
      BY <3>2, <1>1, <1>3, <1>4 DEF EventOK
    <3>3. QED BY <3>1, <3>2, <1>3
  <2>2. QED BY <2>1, <1>2, <1>3, <1>4 DEF HistoryOK
<1>7. QueuesOK'
  <2> DEFINE copy == [ts |-> e.ts, retries |-> 0]
  <2>1. queue' = [q \in Queues |-> queue'[q]] BY <1>2
  <2>2. /\ copy = [ts |-> copy.ts, retries |-> copy.retries] /\ copy.ts = N
        /\ copy.retries \in Nat
    BY <1>1
  <2> HIDE DEF copy
  <2>3. ASSUME NEW q \in Queues, NEW m \in queue'[q]
        PROVE  m \in queue[q] \/ (m = copy /\ q \in Bound(e))
    BY <1>2 DEF copy
  <2>4. QED BY <2>1, <2>2, <2>3, <1>3 DEF ProjectionInv, QueuesOK, Bound
<1>8. WorkingOK'
  <2>1. \A q \in Queues : queue[q] \subseteq queue'[q] BY <1>2
  <2>2. \A q \in Queues : working'[q].state = "republished" => CopyWaits(q, working[q].message)'
    BY <1>2, <2>1 DEF ProjectionInv, WorkingOK, CopyWaits
  <2>3. (working["transactions"].state = "named" =>
           LET n == working["transactions"].message.ts IN
           /\ n \in DOMAIN history
           /\ history[n].of = "transaction" /\ history[n].type \in {"created", "updated"})'
    BY <1>2, <1>3 DEF ProjectionInv, WorkingOK
  <2>4. working' = [q \in Queues |-> working'[q]] BY <1>2 DEF ProjectionInv, WorkingOK
  <2>5. QED BY <2>2, <2>3, <2>4 DEF WorkingOK
<1>9. \A k, i : Seen(k, i)' = Seen(k, i)
  BY <1>2, <1>3, <1>4 DEF Seen, Among
<1>10. DocsOK' /\ StoreOK' BY <1>2, <1>9 DEF ProjectionInv, DocsOK, StoreOK
<1>11. QED BY <1>6, <1>7, <1>8, <1>10 DEF ProjectionInv

LEMMA ProducersKeepInv ==
  ASSUME ProjectionInv, TransactionHappens \/ EntityHappens
  PROVE  ProjectionInv'
<1>1. CASE TransactionHappens
  <2>1. PICK t \in Transactions :
          \/ \E x : Happens(EventOf("transaction", t, "created", x))
          \/ \E x : Happens(EventOf("transaction", t, "updated", x))
          \/ \E x : Happens(EventOf("transaction", t, "categorized", x))
          \/ Happens(EventOf("transaction", t, "deleted", 0))
    <3> DEFINE chosen(p) == p @@ [category_name |-> CurrentName("category", p.category),
                                  subcategory_name |-> CurrentName("subcategory", p.subcategory)]
               told(p, r) == [core |-> p.core, category |-> r.category,
                              subcategory |-> r.subcategory,
                              category_name |-> CurrentName("category", r.category)]
    <3>1. PICK t \in Transactions :
            \/ \E p, r : Happens(EventOf("transaction", t, "created", told(p, r)))
            \/ \E p, r : Happens(EventOf("transaction", t, "updated", told(p, r)))
            \/ \E p \in Categorizations :
                 Happens(EventOf("transaction", t, "categorized", chosen(p)))
            \/ Happens(EventOf("transaction", t, "deleted", 0))
      BY <1>1 DEF TransactionHappens, RowHappens, CoreEvent
    <3> HIDE DEF told, chosen
    <3>2. QED BY <3>1
  <2>2. PICK type, data : type \in Types /\ Happens(EventOf("transaction", t, type, data))
    BY <2>1 DEF Types
  <2>3. QED BY ZenonT(40), <2>2, EventHappens DEF Kinds, Happens
<1>2. CASE EntityHappens
  <2> DEFINE Possible(d, type, data) ==
               /\ About(d[1], d[2]) = {} \/ Alive(d[1], d[2])
               /\ d[1] = "account" => type # "deleted"
               /\ Happens(EventOf(d[1], d[2], type, data))
  <2>1. PICK d \in FullStateDocs :
          \/ \E x : Possible(d, "created", x)
          \/ \E x : Possible(d, "updated", x)
          \/ Possible(d, "deleted", NewestOf(About(d[1], d[2])).data)
    <3>1. PICK d \in FullStateDocs :
            \/ /\ About(d[1], d[2]) = {}
               /\ \E x \in FullState(d[1], "created") : Happens(EventOf(d[1], d[2], "created", x))
            \/ /\ Alive(d[1], d[2])
               /\ \E x \in FullState(d[1], "updated") : Happens(EventOf(d[1], d[2], "updated", x))
            \/ /\ Alive(d[1], d[2]) /\ d[1] # "account"
               /\ Happens(EventOf(d[1], d[2], "deleted", NewestOf(About(d[1], d[2])).data))
      BY <1>2 DEF EntityHappens
    <3>2. QED BY <3>1
  <2>2. PICK type, data :
            /\ type \in Types
            /\ About(d[1], d[2]) = {} \/ Alive(d[1], d[2])
            /\ d[1] = "account" => type # "deleted"
            /\ Happens(EventOf(d[1], d[2], type, data))
    BY <2>1 DEF Types
  <2>3. d[1] \in Kinds BY EntityIDs DEF Kinds
  <2>4. QED BY <2>2, <2>3, EventHappens DEF Happens
<1>3. QED BY <1>1, <1>2

(* A failed handler, a dead worker and a name looked up write nothing. *)
LEMMA NothingWritten ==
  ASSUME ProjectionInv, UNCHANGED <<history, docs, store, seen>>, QueuesOK', WorkingOK'
  PROVE  ProjectionInv'
<1>1. HistoryOK' BY DEF ProjectionInv, HistoryOK, EventOK
<1>2. QED BY <1>1, DocsKept, StoreKept DEF ProjectionInv

LEMMA WorkersKeepInv ==
  ASSUME ProjectionInv,
         \/ CategorizedAtOwner \/ RepublishAcked \/ HandlerFails \/ WorkerCrashes
         \/ NameLookedUp \/ DocumentRead \/ EmbeddingRetried \/ EmbeddingIgnored
  PROVE  ProjectionInv'
<1>1. CASE HandlerFails
  <2>0. PICK q \in Queues : \E m \in queue[q] : Rejected(q, m) /\ UNCHANGED <<history, docs, store, seen>>
    BY <1>1 DEF HandlerFails
  <2>1. PICK m \in queue[q] : Rejected(q, m) /\ UNCHANGED <<history, docs, store, seen>>
    BY <2>0
  <2>2. QueuesOK' /\ WorkingOK' BY <2>1, MessageRejected DEF ProjectionInv, Rejected, _republish
  <2>3. QED BY <2>1, <2>2, NothingWritten
<1>2. CASE WorkerCrashes
  <2>1. PICK q : working' = StopProcess(q)
    BY <1>2 DEF WorkerCrashes
  <2>2. UNCHANGED <<history, docs, store, seen, queue>> BY <1>2 DEF WorkerCrashes
  <2>3. QueuesOK' /\ WorkingOK' BY <2>1, <2>2, WorkerStops, QueuesKept DEF ProjectionInv
  <2>4. QED BY <2>2, <2>3, NothingWritten
<1>3. CASE NameLookedUp
  <2> DEFINE name(m) == IF history[m.ts].data.subcategory = 0 THEN 0
                        ELSE get_subcategory_name(history[m.ts].data.subcategory)
  <2>1. PICK m \in queue["transactions"] :
          /\ history[m.ts].type \in {"created", "updated"}
          /\ working' = [working EXCEPT !["transactions"] =
                           [state |-> "named", message |-> m, name |-> name(m)]]
    BY <1>3 DEF NameLookedUp
  <2> HIDE DEF name
  <2>2. UNCHANGED <<history, docs, store, seen, queue>> BY <1>3 DEF NameLookedUp
  <2>3. m.ts \in DOMAIN history /\ history[m.ts].of = "transaction"
    BY BoundTo, QueueNames DEF ProjectionInv, QueuesOK
  <2>4. working' = [q \in Queues |-> working'[q]]
    BY <2>1 DEF ProjectionInv, WorkingOK
  <2>5. /\ working'["transactions"].message = m /\ working'["transactions"].state = "named"
        /\ \A q \in Queues \ {"transactions"} : working'[q] = working[q]
    BY <2>1, QueueNames DEF ProjectionInv, WorkingOK
  <2>6. \A q \in Queues : working'[q].state = "republished" => CopyWaits(q, working[q].message)'
    BY <2>2, <2>5 DEF ProjectionInv, WorkingOK, CopyWaits
  <2>9. WorkingOK' BY <2>1, <2>2, <2>3, <2>4, <2>5, <2>6 DEF WorkingOK
  <2>7. QueuesOK' BY <2>2, QueuesKept DEF ProjectionInv
  <2>8. QED BY <2>2, <2>7, <2>9, NothingWritten
<1>4. CASE DocumentRead
  <2>1. PICK x : working' = [working EXCEPT !["embeddings"] = x] /\ x.state = "read"
    <3>1. PICK m, text, at :
            working' = [working EXCEPT !["embeddings"] =
              [state |-> "read", message |-> m, text |-> text, updated_at |-> at]]
      BY <1>4 DEF DocumentRead
    <3>2. [state |-> "read", message |-> m, text |-> text, updated_at |-> at].state = "read"
      OBVIOUS
    <3>3. QED BY <3>1, <3>2
  <2>2. UNCHANGED <<history, docs, store, seen, queue>> BY <1>4 DEF DocumentRead
  <2>3. QueuesOK' /\ WorkingOK' BY <2>1, <2>2, WorkerMoves, QueuesKept DEF ProjectionInv
  <2>4. QED BY <2>2, <2>3, NothingWritten
<1>5. CASE EmbeddingRetried
  <2>1. PICK m \in queue["embeddings"] : Rejected("embeddings", m)
    BY <1>5 DEF EmbeddingRetried
  <2>2. UNCHANGED <<history, docs, store, seen>> BY <1>5 DEF EmbeddingRetried
  <2>3. QueuesOK' /\ WorkingOK'
    BY <2>1, <2>2, MessageRejected, QueueNames DEF ProjectionInv, Rejected, _republish
  <2>4. QED BY <2>2, <2>3, NothingWritten
<1>6. CASE EmbeddingIgnored
  <2>1. PICK m : Acked("embeddings", m)
    BY <1>6 DEF EmbeddingIgnored
  <2>2. UNCHANGED <<history, docs, store, seen>> BY <1>6 DEF EmbeddingIgnored
  <2>3. QueuesOK' /\ WorkingOK' BY <2>1, <2>2, MessageAcked DEF ProjectionInv, Acked
  <2>4. QED BY <2>2, <2>3, NothingWritten
<1>7. CASE RepublishAcked
  <2>1. PICK q : Acked(q, working[q].message) BY <1>7 DEF RepublishAcked
  <2>2. UNCHANGED <<history, docs, store, seen>> BY <1>7 DEF RepublishAcked
  <2>3. QueuesOK' /\ WorkingOK' BY <2>1, <2>2, MessageAcked DEF ProjectionInv, Acked
  <2>4. QED BY <2>2, <2>3, NothingWritten
<1>8. CASE CategorizedAtOwner
  <2>1. UNCHANGED <<history, docs, store, seen, queue, working>> BY <1>8 DEF CategorizedAtOwner
  <2>2. QueuesOK' /\ WorkingOK'
    BY <2>1, QueuesKept DEF ProjectionInv, WorkingOK, CopyWaits
  <2>3. QED BY <2>1, <2>2, NothingWritten
<1>9. QED BY <1>1, <1>2, <1>3, <1>4, <1>5, <1>6, <1>7, <1>8

(* A handler of a transaction's event writes what its script returns. *)
LEMMA TransactionProjected ==
  ASSUME ProjectionInv, NEW m, NEW n \in DOMAIN history, history[n].of = "transaction",
         UNCHANGED <<history, store>>, seen' = seen \cup {n}, Acked("transactions", m),
         NEW new, docs' = [docs EXCEPT ![history[n].id] = new],
         history[n].id \in Transactions =>
           DocOK(new, Seen("transaction", history[n].id) \cup {history[n]})
  PROVE  ProjectionInv'
<1>1. HistoryOK' BY HistoryKept DEF ProjectionInv
<1>2. QueuesOK' /\ WorkingOK' BY MessageAcked DEF ProjectionInv, Acked
<1>3. DocsOK' BY DocWritten DEF ProjectionInv
<1>4. StoreOK' BY StoreUntold DEF ProjectionInv
<1>5. QED BY <1>1, <1>2, <1>3, <1>4 DEF ProjectionInv

LEMMA TransactionHandlersKeepInv ==
  ASSUME ProjectionInv,
         handle_created_or_updated \/ handle_categorized \/ handle_deleted
  PROVE  ProjectionInv'
<1>0. ASSUME NEW n \in DOMAIN history
      PROVE  /\ history[n].ts = n
             /\ history[n].id \in Transactions =>
                  DocOK(docs[history[n].id], Seen("transaction", history[n].id))
             /\ Stamped(Seen("transaction", history[n].id) \cup {history[n]})
  BY SeenIsStamped DEF ProjectionInv, EventOK, DocsOK, Stamped
<1>1. CASE handle_created_or_updated
  <2> DEFINE w == working["transactions"]
             n == w.message.ts
             e == history[n]
             new == _CORE_SCRIPT(docs[e.id], e.data, w.name, e.ts)
  <2>1. /\ n \in DOMAIN history /\ e.of = "transaction"
        /\ e.type \in {"created", "updated"}
    <3>1. w.state = "named" BY <1>1 DEF handle_created_or_updated
    <3>2. QED BY <3>1 DEF ProjectionInv, WorkingOK
  <2>2. /\ docs' = [docs EXCEPT ![e.id] = new] /\ seen' = seen \cup {n}
        /\ Acked("transactions", w.message) /\ UNCHANGED <<history, store>>
    BY <1>1, <1>0, <2>1 DEF handle_created_or_updated, WrittenBy, upsert_core
  <2>3. e.id \in Transactions => DocOK(new, Seen("transaction", e.id) \cup {e})
    BY <2>1, <1>0, CoreEventKeepsDoc
  <2> HIDE DEF new
  <2>4. QED BY <2>1, <2>2, <2>3, TransactionProjected DEF Acked
<1>2. CASE handle_categorized
  <2>1. PICK m \in queue["transactions"] :
          LET e == history[m.ts] IN
          /\ e.type = "categorized"
          /\ WrittenBy(e, apply_categorization(e.id, e.data, e.ts))
          /\ Acked("transactions", m)
          /\ UNCHANGED <<history, store>>
    BY <1>2 DEF handle_categorized
  <2> DEFINE e == history[m.ts]
             new == _CATEGORIZATION_SCRIPT(docs[e.id], e.data, e.ts)
  <2>2. m.ts \in DOMAIN history /\ e.of = "transaction"
    BY BoundTo, QueueNames DEF ProjectionInv, QueuesOK
  <2>3. /\ docs' = [docs EXCEPT ![e.id] = new] /\ seen' = seen \cup {m.ts}
        /\ Acked("transactions", m) /\ UNCHANGED <<history, store>>
    BY <1>2, <1>0, <2>1, <2>2 DEF WrittenBy, apply_categorization
  <2>4. e.id \in Transactions => DocOK(new, Seen("transaction", e.id) \cup {e})
    BY <2>1, <2>2, <1>0, CategorizedEventKeepsDoc
  <2> HIDE DEF new
  <2>5. QED BY <2>2, <2>3, <2>4, TransactionProjected DEF Acked
<1>3. CASE handle_deleted
  <2>1. PICK m \in queue["transactions"] :
          LET e == history[m.ts] IN
          /\ e.type = "deleted"
          /\ WrittenBy(e, mark_deleted(e.id, e.ts))
          /\ Acked("transactions", m)
          /\ UNCHANGED <<history, store>>
    BY <1>3 DEF handle_deleted
  <2> DEFINE e == history[m.ts]
             new == _DELETE_SCRIPT(docs[e.id], e.ts)
  <2>2. m.ts \in DOMAIN history /\ e.of = "transaction"
    BY BoundTo, QueueNames DEF ProjectionInv, QueuesOK
  <2>3. /\ docs' = [docs EXCEPT ![e.id] = new] /\ seen' = seen \cup {m.ts}
        /\ Acked("transactions", m) /\ UNCHANGED <<history, store>>
    BY <1>3, <1>0, <2>1, <2>2 DEF WrittenBy, mark_deleted
  <2>4. e.id \in Transactions => DocOK(new, Seen("transaction", e.id) \cup {e})
    BY <2>1, <2>2, <1>0, DeletedEventKeepsDoc
  <2> HIDE DEF new
  <2>5. QED BY <2>2, <2>3, <2>4, TransactionProjected DEF Acked
<1>4. QED BY <1>1, <1>2, <1>3

(* A handler of another event writes what the guarded upsert returns. *)
LEMMA EntityProjected ==
  ASSUME ProjectionInv, NEW n \in DOMAIN history, history[n].of # "transaction",
         UNCHANGED <<history, docs>>, seen' = seen \cup {n}, QueuesOK', WorkingOK',
         NEW new, store' = [store EXCEPT ![<<history[n].of, history[n].id>>] = new],
         <<history[n].of, history[n].id>> \in FullStateDocs =>
           EntityOK(new, Seen(history[n].of, history[n].id) \cup {history[n]})
  PROVE  ProjectionInv'
<1>1. HistoryOK' BY HistoryKept DEF ProjectionInv
<1>2. DocsOK' BY DocsUntold DEF ProjectionInv
<1>3. StoreOK' BY StoreWritten DEF ProjectionInv
<1>4. QED BY <1>1, <1>2, <1>3 DEF ProjectionInv

LEMMA EntityTold ==
  ASSUME ProjectionInv, NEW n \in DOMAIN history, history[n].of # "transaction",
         <<history[n].of, history[n].id>> \in FullStateDocs
  PROVE  LET e == history[n]
             S == Seen(e.of, e.id) IN
         /\ e.ts = n /\ Stamped(S \cup {e})
         /\ EntityOK(store[<<e.of, e.id>>], S)
         /\ e.type = "deleted" => \A f \in S : f.ts <= e.ts
<1> DEFINE e == history[n]
           S == Seen(e.of, e.id)
<1>1. EventOK(n) /\ n \in Nat /\ n >= 1 /\ Stamped(S) BY SeenIsStamped DEF ProjectionInv
<1>2. \A f \in S : f.ts \in seen /\ f = history[f.ts] /\ f.of = e.of /\ f.id = e.id
  BY SeenIsStamped DEF ProjectionInv
<1>3. seen \subseteq DOMAIN history BY DEF ProjectionInv, HistoryOK
<1>4. EntityOK(store[<<e.of, e.id>>], S) BY DEF ProjectionInv, StoreOK
<1> HIDE DEF S
<1>5. e.type = "deleted" => \A f \in S : f.ts <= e.ts BY <1>1, <1>2, <1>3 DEF EventOK
<1>6. e.ts = n /\ Stamped(S \cup {e}) BY <1>1 DEF EventOK, Stamped
<1>7. QED BY <1>4, <1>5, <1>6 DEF S

LEMMA TaxonomyKept ==
  ASSUME QueuesOK, WorkingOK, NEW m, NEW new, NEW applied, TaxonomyUpserted(m, new, applied)
  PROVE  /\ QueuesOK' /\ WorkingOK'
         /\ store' = new /\ seen' = seen \cup {m.ts} /\ UNCHANGED <<history, docs>>
<1>1. store' = new /\ seen' = seen \cup {m.ts} /\ UNCHANGED <<history, docs>>
  BY DEF TaxonomyUpserted
<1>2. CASE Acked("taxonomy", m) BY <1>1, <1>2, MessageAcked DEF Acked
<1>3. CASE /\ working' = [working EXCEPT !["taxonomy"] = [state |-> "upserted", message |-> m]]
           /\ UNCHANGED queue
  <2> DEFINE w == [state |-> "upserted", message |-> m]
  <2>1. w.state # "republished" OBVIOUS
  <2> HIDE DEF w
  <2>2. working' = [working EXCEPT !["taxonomy"] = w] BY <1>3 DEF w
  <2>3. QED BY <1>1, <1>3, <2>1, <2>2, WorkerMoves, QueuesKept
<1>4. QED BY <1>1, <1>2, <1>3 DEF TaxonomyUpserted

LEMMA EntityHandlersKeepInv ==
  ASSUME ProjectionInv,
         handle_category \/ handle_subcategory \/ AccountProjected \/ GoalProjected
  PROVE  ProjectionInv'
<1>0. ASSUME NEW q, NEW m \in queue[q], q \in Queues
      PROVE  m.ts \in DOMAIN history /\ history[m.ts].ts = m.ts /\ q \in Bound(history[m.ts])
  BY <1>0 DEF ProjectionInv, QueuesOK, HistoryOK, EventOK
<1>1. CASE handle_category
  <2>1. PICK m \in queue["taxonomy"] :
          LET e == history[m.ts] IN
          /\ e.of = "category"
          /\ TaxonomyUpserted(m, upsert_category(e.id, e.data, e.type = "deleted", e.ts),
                              Applied(store[<<"category", e.id>>], e.ts))
    BY <1>1 DEF handle_category
  <2> DEFINE e == history[m.ts]
             deleted == e.type = "deleted"
             new == guarded_full_state_upsert(store[<<e.of, e.id>>], e.data, deleted, e.ts)
  <2>2. /\ QueuesOK' /\ WorkingOK' /\ seen' = seen \cup {m.ts} /\ UNCHANGED <<history, docs>>
        /\ store' = upsert_category(e.id, e.data, deleted, e.ts)
    BY <2>1, TaxonomyKept DEF ProjectionInv, TaxonomyUpserted, Acked
  <2>3. store' = [store EXCEPT ![<<e.of, e.id>>] = new]
    BY <2>1, <2>2 DEF upsert_category
  <2>4. m.ts \in DOMAIN history BY <1>0, QueueNames
  <2>5. <<e.of, e.id>> \in FullStateDocs => EntityOK(new, Seen(e.of, e.id) \cup {e})
    BY <2>1, <2>4, EntityTold, EntityEventKeepsDoc
  <2> HIDE DEF new
  <2>6. QED BY <2>1, <2>2, <2>3, <2>4, <2>5, EntityProjected
<1>2. CASE handle_subcategory
  <2>1. PICK m \in queue["taxonomy"] :
          LET e == history[m.ts] IN
          /\ e.of = "subcategory"
          /\ TaxonomyUpserted(m, upsert_subcategory(e.id, e.data, e.type = "deleted", e.ts),
                              Applied(store[<<"subcategory", e.id>>], e.ts))
    BY <1>2 DEF handle_subcategory
  <2> DEFINE e == history[m.ts]
             deleted == e.type = "deleted"
             new == guarded_full_state_upsert(store[<<e.of, e.id>>], e.data, deleted, e.ts)
  <2>2. /\ QueuesOK' /\ WorkingOK' /\ seen' = seen \cup {m.ts} /\ UNCHANGED <<history, docs>>
        /\ store' = upsert_subcategory(e.id, e.data, deleted, e.ts)
    BY <2>1, TaxonomyKept DEF ProjectionInv, TaxonomyUpserted, Acked
  <2>3. store' = [store EXCEPT ![<<e.of, e.id>>] = new]
    BY <2>1, <2>2 DEF upsert_subcategory
  <2>4. m.ts \in DOMAIN history BY <1>0, QueueNames
  <2>5. <<e.of, e.id>> \in FullStateDocs => EntityOK(new, Seen(e.of, e.id) \cup {e})
    BY <2>1, <2>4, EntityTold, EntityEventKeepsDoc
  <2> HIDE DEF new
  <2>6. QED BY <2>1, <2>2, <2>3, <2>4, <2>5, EntityProjected
<1>3. CASE AccountProjected
  <2>1. PICK m \in queue["accounts"] :
          /\ LET e == history[m.ts] IN store' = upsert_account(e.id, e.data, e.ts)
          /\ seen' = seen \cup {m.ts}
          /\ Acked("accounts", m)
          /\ UNCHANGED <<history, docs>>
    BY <1>3 DEF AccountProjected
  <2> DEFINE e == history[m.ts]
             new == guarded_full_state_upsert(store[<<e.of, e.id>>], e.data, FALSE, e.ts)
  <2>2. QueuesOK' /\ WorkingOK' BY <2>1, MessageAcked DEF ProjectionInv, Acked
  <2>3. m.ts \in DOMAIN history /\ e.of = "account" BY <1>0, QueueNames, BoundTo
  <2>4. e.type # "deleted" BY <2>3 DEF ProjectionInv, HistoryOK, EventOK
  <2>5. store' = [store EXCEPT ![<<e.of, e.id>>] = new]
    BY <2>1, <2>3 DEF upsert_account
  <2>6. <<e.of, e.id>> \in FullStateDocs => EntityOK(new, Seen(e.of, e.id) \cup {e})
    BY <2>3, <2>4, EntityTold, EntityEventKeepsDoc
  <2> HIDE DEF new
  <2>7. QED BY <2>1, <2>2, <2>3, <2>5, <2>6, EntityProjected
<1>4. CASE GoalProjected
  <2>1. PICK m \in queue["goals"] :
          /\ LET e == history[m.ts] IN
               store' = IF e.type = "deleted" THEN mark_goal_deleted(e.id)
                        ELSE upsert_goal(e.id, e.data, e.ts)
          /\ seen' = seen \cup {m.ts}
          /\ Acked("goals", m)
          /\ UNCHANGED <<history, docs>>
    BY <1>4 DEF GoalProjected
  <2> DEFINE e == history[m.ts]
             doc == store[<<e.of, e.id>>]
             gone == [doc EXCEPT !.exists = TRUE, !.is_deleted = TRUE]
             written == guarded_full_state_upsert(doc, e.data, FALSE, e.ts)
  <2>2. QueuesOK' /\ WorkingOK' BY <2>1, MessageAcked DEF ProjectionInv, Acked
  <2>3. m.ts \in DOMAIN history /\ e.of = "goal" BY <1>0, QueueNames, BoundTo
  <2>4. CASE e.type = "deleted"
    <3>1. store' = [store EXCEPT ![<<e.of, e.id>>] = gone]
      BY <2>1, <2>3, <2>4 DEF mark_goal_deleted
    <3>2. <<e.of, e.id>> \in FullStateDocs => EntityOK(gone, Seen(e.of, e.id) \cup {e})
      BY <2>3, <2>4, EntityTold, EntityDeletionKeepsDoc
    <3> HIDE DEF gone
    <3>3. QED BY <2>1, <2>2, <2>3, <3>1, <3>2, EntityProjected
  <2>5. CASE e.type # "deleted"
    <3>1. store' = [store EXCEPT ![<<e.of, e.id>>] = written]
      BY <2>1, <2>3, <2>5 DEF upsert_goal
    <3>2. <<e.of, e.id>> \in FullStateDocs => EntityOK(written, Seen(e.of, e.id) \cup {e})
      BY <2>3, <2>5, EntityTold, EntityEventKeepsDoc
    <3> HIDE DEF written
    <3>3. QED BY <2>1, <2>2, <2>3, <3>1, <3>2, EntityProjected
  <2>6. QED BY <2>4, <2>5
<1>5. QED BY <1>1, <1>2, <1>3, <1>4

(* A rename, a vector and a backfill add no event to what was seen. *)
LEMMA NobodyTold ==
  ASSUME ProjectionInv, UNCHANGED <<history, seen>>, QueuesOK', WorkingOK', DocsOK', StoreOK'
  PROVE  ProjectionInv'
BY DEF ProjectionInv, HistoryOK, EventOK

LEMMA RewritesKeepInv ==
  ASSUME ProjectionInv, RenamePropagated \/ VectorWritten \/ EmbeddingToolWrites
  PROVE  ProjectionInv'
<1>0. ASSUME NEW t \in Transactions
      PROVE  DocOK(docs[t], Seen("transaction", t)) /\ Whole(docs[t])
  BY DEF ProjectionInv, DocsOK, DocOK, Whole
<1>1. CASE RenamePropagated
  <2> DEFINE w == working["taxonomy"]
             e == history[w.message.ts]
             category(t) == [docs[t] EXCEPT !.category_name = e.data]
             subcategory(t) == [docs[t] EXCEPT !.subcategory_name = e.data]
  <2>1. /\ Acked("taxonomy", w.message) /\ UNCHANGED <<history, store, seen>>
        /\ \/ docs' = propagate_category_rename(e.id, e.data)
           \/ docs' = propagate_subcategory_rename(e.id, e.data)
    BY <1>1 DEF RenamePropagated
  <2>2. QueuesOK' /\ WorkingOK' BY <2>1, MessageAcked DEF ProjectionInv, Acked
  <2>3. /\ docs' = [t \in Transactions |-> docs'[t]]
        /\ \A t \in Transactions : \/ docs'[t] = docs[t]
                                   \/ docs'[t] = category(t) \/ docs'[t] = subcategory(t)
    <3>1. CASE docs' = propagate_category_rename(e.id, e.data)
      BY <3>1 DEF propagate_category_rename
    <3>2. CASE docs' = propagate_subcategory_rename(e.id, e.data)
      BY <3>2 DEF propagate_subcategory_rename
    <3>3. QED BY <2>1, <3>1, <3>2
  <2>4. \A t \in Transactions : docs'[t] = docs[t] \/ DocOK(docs'[t], Seen("transaction", t))
    <3>1. ASSUME NEW t \in Transactions
          PROVE  /\ Whole(category(t)) /\ Kept(category(t), docs[t])
                 /\ Whole(subcategory(t)) /\ Kept(subcategory(t), docs[t])
      BY <1>0, OtherScripts
    <3> HIDE DEF category, subcategory
    <3>2. QED BY <1>0, <2>3, <3>1, KeptIsOK
  <2>5. DocsOK' BY <2>1, <2>3, <2>4, DocRewritten DEF ProjectionInv
  <2>6. StoreOK' BY <2>1, StoreKept DEF ProjectionInv
  <2>7. QED BY <2>1, <2>2, <2>5, <2>6, NobodyTold
<1>2. ASSUME NEW t, NEW x, NEW ts, docs' = update_embedding(t, x, ts), UNCHANGED <<history, seen>>
      PROVE  DocsOK'
  <2>1. /\ docs' = [u \in Transactions |-> docs'[u]]
        /\ \A u \in Transactions : \/ docs'[u] = docs[u]
                                   \/ docs'[u] = _EMBEDDING_SCRIPT(docs[u], x, ts)
    BY <1>2 DEF update_embedding, ProjectionInv, DocsOK
  <2>2. \A u \in Transactions : docs'[u] = docs[u] \/ DocOK(docs'[u], Seen("transaction", u))
    BY <1>0, <2>1, OtherScripts, KeptIsOK
  <2>3. QED BY <1>2, <2>1, <2>2, DocRewritten DEF ProjectionInv
<1>3. CASE VectorWritten
  <2> DEFINE w == working["embeddings"]
  <2>1. /\ docs' = update_embedding(history[w.message.ts].id, w.text, w.updated_at)
        /\ Acked("embeddings", w.message) /\ UNCHANGED <<history, store, seen>>
    BY <1>3 DEF VectorWritten
  <2>2. QueuesOK' /\ WorkingOK' BY <2>1, MessageAcked DEF ProjectionInv, Acked
  <2>3. DocsOK' BY <2>1, <1>2
  <2>4. StoreOK' BY <2>1, StoreKept DEF ProjectionInv
  <2>5. QED BY <2>1, <2>2, <2>3, <2>4, NobodyTold
<1>4. CASE EmbeddingToolWrites
  <2>1. /\ docs' = update_embedding(tool.id, tool.row, tool.updated_at)
        /\ UNCHANGED <<history, queue, working, store, seen>>
    BY <1>4 DEF EmbeddingToolWrites
  <2>2. QueuesOK' /\ WorkingOK' BY <2>1, QueuesKept DEF ProjectionInv, WorkingOK, CopyWaits
  <2>3. DocsOK' BY <2>1, <1>2
  <2>4. StoreOK' BY <2>1, StoreKept DEF ProjectionInv
  <2>5. QED BY <2>1, <2>2, <2>3, <2>4, NobodyTold
<1>5. QED BY <1>1, <1>3, <1>4

LEMMA ToolsKeepInv ==
  ASSUME ProjectionInv,
         \/ BackfillReads \/ EmbeddingToolReads \/ _backfill_transactions \/ _backfill_entity
  PROVE  ProjectionInv'
<1>1. CASE BackfillReads \/ EmbeddingToolReads
  <2>1. UNCHANGED <<history, queue, working, docs, store, seen>>
    BY <1>1 DEF BackfillReads, EmbeddingToolReads, ToolReads
  <2>2. QueuesOK' /\ WorkingOK' BY <2>1, QueuesKept DEF ProjectionInv, WorkingOK, CopyWaits
  <2>3. QED BY <2>1, <2>2, NothingWritten
<1>2. CASE _backfill_transactions
  <2>1. /\ docs' = upsert_core(tool.id, tool.row, tool.row.subcategory_name, BACKFILL_EVENT_TS)
        /\ UNCHANGED <<history, queue, working, store, seen>>
    BY <1>2 DEF _backfill_transactions
  <2>2. QueuesOK' /\ WorkingOK' BY <2>1, QueuesKept DEF ProjectionInv, WorkingOK, CopyWaits
  <2>3. /\ docs' = [u \in Transactions |-> docs'[u]]
        /\ \A u \in Transactions :
             \/ docs'[u] = docs[u]
             \/ docs'[u] = _CORE_SCRIPT(docs[u], tool.row, tool.row.subcategory_name,
                                        BACKFILL_EVENT_TS)
    BY <2>1 DEF upsert_core, ProjectionInv, DocsOK
  <2>4. \A u \in Transactions : /\ DocOK(docs[u], Seen("transaction", u))
                                /\ Stamped(Seen("transaction", u))
    BY SeenIsStamped DEF ProjectionInv, DocsOK
  <2>5. \A u \in Transactions : docs'[u] = docs[u] \/ DocOK(docs'[u], Seen("transaction", u))
    BY <2>3, <2>4, BackfillKeepsDoc
  <2>6. DocsOK' BY <2>1, <2>3, <2>5, DocRewritten DEF ProjectionInv
  <2>7. StoreOK' BY <2>1, StoreKept DEF ProjectionInv
  <2>8. QED BY <2>1, <2>2, <2>6, <2>7, NobodyTold
<1>3. CASE _backfill_entity
  <2>1. /\ store' = [store EXCEPT ![tool.id] =
             guarded_full_state_upsert(@, tool.row, FALSE, BACKFILL_EVENT_TS)]
        /\ UNCHANGED <<history, queue, working, docs, seen>>
    BY <1>3 DEF _backfill_entity
  <2>2. QueuesOK' /\ WorkingOK' BY <2>1, QueuesKept DEF ProjectionInv, WorkingOK, CopyWaits
  <2>3. /\ store' = [d \in FullStateDocs |-> store'[d]]
        /\ \A d \in FullStateDocs :
             \/ store'[d] = store[d]
             \/ store'[d] = guarded_full_state_upsert(store[d], tool.row, FALSE, BACKFILL_EVENT_TS)
    BY <2>1 DEF ProjectionInv, StoreOK
  <2>4. \A d \in FullStateDocs : EntityOK(store[d], Seen(d[1], d[2])) /\ Stamped(Seen(d[1], d[2]))
    BY SeenIsStamped DEF ProjectionInv, StoreOK
  <2>5. \A d \in FullStateDocs : store'[d] = store[d] \/ EntityOK(store'[d], Seen(d[1], d[2]))
    BY ZenonT(40), <2>3, <2>4, EntityBackfillKeepsDoc
  <2>6. StoreOK' BY <2>1, <2>3, <2>5, EntityRewritten DEF ProjectionInv
  <2>7. DocsOK' BY <2>1, DocsKept DEF ProjectionInv
  <2>8. QED BY <2>1, <2>2, <2>6, <2>7, NobodyTold
<1>4. QED BY <1>1, <1>2, <1>3

-----------------------------------------------------------------------------
(* The read models show the newest *)

LEMMA InitProjection == ProjectionInit => ProjectionInv
<1> SUFFICES ASSUME ProjectionInit PROVE ProjectionInv OBVIOUS
<1>1. \A kind, id : Seen(kind, id) = {} BY DEF ProjectionInit, Seen, Among
<1>2. HistoryOK
  <2>1. history = <<>> /\ seen = {} BY DEF ProjectionInit
  <2>2. history \in Seq({}) /\ DOMAIN history = {} BY <2>1
  <2>3. QED BY <2>1, <2>2 DEF HistoryOK
<1>3. QueuesOK BY DEF ProjectionInit, QueuesOK
<1>4. WorkingOK BY QueueNames DEF ProjectionInit, WorkingOK, Idle
<1>5. DocOK(NoDocument, {})
  BY DEF DocOK, NoDocument, Fields, Deleted, CoreAmong, CategorizedAmong, CoreFollows,
         CategorizationFollows, CategoryFollows
<1>6. EntityOK(NoState, {}) BY DEF EntityOK, NoState, Deleted
<1>7. DocsOK BY <1>1, <1>5 DEF ProjectionInit, DocsOK
<1>8. StoreOK BY <1>1, <1>6 DEF ProjectionInit, StoreOK
<1>9. QED BY <1>2, <1>3, <1>4, <1>7, <1>8 DEF ProjectionInv

LEMMA NextProjection == ProjectionInv /\ [ProjectionNext]_projectionVars => ProjectionInv'
<1> SUFFICES ASSUME ProjectionInv, [ProjectionNext]_projectionVars PROVE ProjectionInv'
  OBVIOUS
<1>1. CASE UNCHANGED projectionVars
  <2>1. UNCHANGED <<history, queue, working, docs, store, seen>>
    BY <1>1 DEF projectionVars
  <2>2. QueuesOK' /\ WorkingOK' BY <2>1, QueuesKept DEF ProjectionInv, WorkingOK, CopyWaits
  <2>3. QED BY <2>1, <2>2, NothingWritten
<1>2. QED BY <1>1, ProducersKeepInv, WorkersKeepInv, TransactionHandlersKeepInv,
            EntityHandlersKeepInv, RewritesKeepInv, ToolsKeepInv DEF ProjectionNext

THEOREM ProjectionInvariance == ProjectionSpec => []ProjectionInv
BY InitProjection, NextProjection, PTL DEF ProjectionSpec

(* Events are told apart by their timestamps, so the newest is the newest. *)
LEMMA NewestIs ==
  ASSUME HistoryOK, NEW S, \A f \in S : f = history[f.ts] /\ f.ts \in Nat, NEW e, IsNewest(e, S)
  PROVE  NewestOf(S) = e
<1> DEFINE P(x) == x \in S /\ \A f \in S : f.ts <= x.ts
<1>1. P(e) BY DEF IsNewest
<1>2. \A x : P(x) => x = e
  <2>1. SUFFICES ASSUME NEW x, P(x) PROVE x = e OBVIOUS
  <2>2. x.ts = e.ts BY <1>1, <2>1
  <2>3. QED BY <1>1, <2>1, <2>2
<1>3. NewestOf(S) = CHOOSE x \in S : \A f \in S : f.ts <= x.ts BY DEF NewestOf
<1>4. QED BY <1>1, <1>2, <1>3

LEMMA InvNewest == ProjectionInv => NewestWins
<1> SUFFICES ASSUME ProjectionInv PROVE NewestWins OBVIOUS
<1>1. /\ HistoryOK
      /\ \A kind, id : \A f \in Seen(kind, id) : f = history[f.ts] /\ f.ts \in Nat
  BY SeenIsStamped DEF ProjectionInv, Stamped
<1>2. EntitiesNewest
  <2>1. SUFFICES ASSUME NEW d \in FullStateDocs, Seen(d[1], d[2]) # {}
                 PROVE  LET S == Seen(d[1], d[2]) IN
                        /\ store[d].is_deleted <=> \E e \in S : e.type = "deleted"
                        /\ ~store[d].is_deleted => store[d].data = NewestOf(S).data
    BY DEF EntitiesNewest
  <2> DEFINE S == Seen(d[1], d[2])
  <2>2. EntityOK(store[d], S) BY DEF ProjectionInv, StoreOK
  <2>3. \A f \in S : f = history[f.ts] /\ f.ts \in Nat BY <1>1
  <2>4. S # {} BY <2>1
  <2> HIDE DEF S
  <2>5. store[d].is_deleted <=> \E e \in S : e.type = "deleted" BY <2>2 DEF EntityOK, Deleted
  <2>6. ASSUME ~store[d].is_deleted PROVE store[d].data = NewestOf(S).data
    <3>1. PICK e \in S : IsNewest(e, S) /\ store[d].data = e.data
      BY <2>2, <2>4, <2>6 DEF EntityOK
    <3>2. NewestOf(S) = e BY <1>1, <2>3, <3>1, NewestIs
    <3>3. QED BY <3>1, <3>2
  <2>7. QED BY <2>5, <2>6 DEF S
<1>3. TransactionsNewest
  <2>1. SUFFICES ASSUME NEW t \in Transactions
                 PROVE  LET S == Seen("transaction", t)
                            C == CoreAmong(S)
                            K == CategorizedAmong(S)
                        IN  /\ docs[t].is_deleted <=> \E e \in S : e.type = "deleted"
                            /\ ~docs[t].is_deleted /\ C # {} => docs[t].core = NewestOf(C).data.core
                            /\ ~docs[t].is_deleted /\ C \cup K # {} =>
                                 \E e \in C \cup K : /\ docs[t].category = e.data.category
                                                     /\ docs[t].subcategory = e.data.subcategory
                                                     /\ \A k \in K : k.ts <= e.ts
    BY DEF TransactionsNewest
  <2> DEFINE S == Seen("transaction", t)
  <2>2. DocOK(docs[t], S) BY DEF ProjectionInv, DocsOK
  <2>3. \A f \in S : f = history[f.ts] /\ f.ts \in Nat BY <1>1
  <2> HIDE DEF S
  <2>4. docs[t].is_deleted <=> \E e \in S : e.type = "deleted" BY <2>2 DEF DocOK, Deleted
  <2>5. ASSUME ~docs[t].is_deleted, CoreAmong(S) # {} PROVE docs[t].core = NewestOf(CoreAmong(S)).data.core
    <3>1. PICK e \in CoreAmong(S) : IsNewest(e, CoreAmong(S)) /\ docs[t].core = e.data.core
      BY <2>2, <2>5 DEF DocOK, CoreFollows
    <3>2. \A f \in CoreAmong(S) : f = history[f.ts] /\ f.ts \in Nat BY <2>3 DEF CoreAmong
    <3>3. NewestOf(CoreAmong(S)) = e BY <1>1, <3>1, <3>2, NewestIs
    <3>4. QED BY <3>1, <3>3
  <2>6. ~docs[t].is_deleted => CategoryFollows(docs[t], S) BY <2>2 DEF DocOK
  <2>7. QED BY <2>4, <2>5, <2>6 DEF S, CategoryFollows
<1>4. QED BY <1>2, <1>3 DEF NewestWins

(* guarded_full_state_upsert and the three transaction scripts compare      *)
(* timestamps one field group at a time: for any number of events handled   *)
(* in any order, any number of times, with failures, retries and backfills  *)
(* in between, every document shows the newest its projector was told.      *)
THEOREM ProjectionsConverge == ProjectionSpec => []NewestWins
BY ProjectionInvariance, InvNewest, PTL

-----------------------------------------------------------------------------
(* Nothing is lost on the way: the second invariant.  A transaction's event *)
(* waits in its queue, was applied or was given up; a document exists only *)
(* for a transaction that happened; and a transaction was first created.    *)

NoneLost ==
  \A n \in DOMAIN history : history[n].of = "transaction" =>
    \/ n \in seen
    \/ <<"transactions", n>> \in dead
    \/ \E m \in queue["transactions"] : m.ts = n

Happened(t) == About("transaction", t) # {}

DeliveryInv ==
  /\ NoneLost
  /\ \A t \in Transactions : docs[t].exists => Happened(t)
  /\ tool # Idle /\ tool.state = "row" => Happened(tool.id)
  /\ \A t \in Transactions : Happened(t) => CoreAmong(About("transaction", t)) # {}

(* What must hold of a step's effect on the queue of transactions. *)
NoneDropped ==
  \A m \in queue["transactions"] :
    \/ \E x \in queue'["transactions"] : x.ts = m.ts
    \/ m.ts \in seen'
    \/ <<"transactions", m.ts>> \in dead'

LEMMA DeliveryKept ==
  ASSUME DeliveryInv, history' = history, seen \subseteq seen', dead \subseteq dead',
         NoneDropped,
         \A t \in Transactions : docs'[t].exists => docs[t].exists \/ Happened(t),
         tool' = tool \/ (tool' # Idle /\ tool'.state = "row" => Happened(tool'.id))
  PROVE  DeliveryInv'
<1>1. \A t : About("transaction", t)' = About("transaction", t) BY DEF About, Among
<1>2. \A t : Happened(t)' <=> Happened(t) BY <1>1 DEF Happened
<1>3. NoneLost' BY DEF DeliveryInv, NoneLost, NoneDropped
<1>4. (tool # Idle /\ tool.state = "row" => Happened(tool.id))'
  BY <1>1 DEF DeliveryInv, Happened, About, Among
<1>5. QED BY <1>1, <1>2, <1>3, <1>4 DEF DeliveryInv, CoreAmong

LEMMA AckedDropsNone ==
  ASSUME QueuesOK, NEW q, NEW m, Acked(q, m), q = "transactions" => m.ts \in seen'
  PROVE  NoneDropped
<1>1. CASE queue' = [queue EXCEPT ![q] = @ \ {m}]
  BY <1>1, QueueNames DEF QueuesOK, NoneDropped
<1>2. CASE queue' = queue BY <1>2 DEF NoneDropped
<1>3. QED BY <1>1, <1>2 DEF Acked

LEMMA RejectedDropsNone ==
  ASSUME QueuesOK, history' = history, NEW q \in Queues, NEW m \in queue[q], Rejected(q, m)
  PROVE  NoneDropped /\ dead \subseteq dead'
<1>1. CASE _republish(q, m) /\ UNCHANGED dead
  BY <1>1, MessageRepublished, QueueNames DEF NoneDropped
<1>2. CASE /\ queue' = [queue EXCEPT ![q] = @ \ {m}]
           /\ dead' = dead \cup {<<q, m.ts>>}
  BY <1>2, QueueNames DEF QueuesOK, NoneDropped
<1>3. QED BY <1>1, <1>2 DEF Rejected

LEMMA CopyDropsNone ==
  ASSUME QueuesOK, NEW q \in Queues, NEW m, CopyWaits(q, m), Acked(q, m)
  PROVE  NoneDropped
<1>1. CASE queue' = [queue EXCEPT ![q] = @ \ {m}]
  BY <1>1, QueueNames DEF QueuesOK, CopyWaits, NoneDropped
<1>2. CASE queue' = queue BY <1>2 DEF NoneDropped
<1>3. QED BY <1>1, <1>2 DEF Acked

(* A new event waits in its queue; nothing that waited is gone. *)
LEMMA EventIsQueued ==
  ASSUME ProjectionInv, DeliveryInv, NEW kind, NEW id, NEW type, NEW data,
         Happens(EventOf(kind, id, type, data)),
         kind = "transaction" => type \in {"created", "updated"} \/ Happened(id)
  PROVE  DeliveryInv'
<1> DEFINE e == EventOf(kind, id, type, data)
           N == Len(history) + 1
<1>1. e.of = kind /\ e.id = id /\ e.type = type /\ e.ts = N BY DEF EventOf
<1>2. /\ history' = Append(history, e)
      /\ queue' = [q \in Queues |-> IF q \in Bound(e)
                                    THEN queue[q] \cup {[ts |-> e.ts, retries |-> 0]}
                                    ELSE queue[q]]
      /\ UNCHANGED <<docs, seen, dead, tool>>
  BY DEF Happens
<1>3. /\ DOMAIN history' = DOMAIN history \cup {N} /\ N \notin DOMAIN history
      /\ history'[N] = e
      /\ \A n \in DOMAIN history : history'[n] = history[n]
  BY <1>2, Appended DEF ProjectionInv
<1> HIDE DEF e, N
<1>4. NoneLost'
  <2> DEFINE copy == [ts |-> e.ts, retries |-> 0]
  <2>1. copy.ts = N BY <1>1
  <2>2. queue["transactions"] \subseteq queue'["transactions"] BY <1>2, QueueNames
  <2>3. kind = "transaction" => copy \in queue'["transactions"]
    BY <1>1, <1>2, QueueNames DEF Bound, QUEUE_BINDINGS
  <2> HIDE DEF copy
  <2>4. QED BY <2>1, <2>2, <2>3, <1>1, <1>2, <1>3 DEF DeliveryInv, NoneLost
<1>5. \A t : About("transaction", t)' =
        About("transaction", t) \cup (IF kind = "transaction" /\ id = t THEN {e} ELSE {})
  BY <1>1, <1>3 DEF About, Among
<1>6. \A t : Happened(t) => Happened(t)' BY <1>5 DEF Happened
<1>7. \A t \in Transactions : Happened(t)' => CoreAmong(About("transaction", t))' # {}
  BY <1>1, <1>5 DEF DeliveryInv, Happened, CoreAmong
<1>8. (tool # Idle /\ tool.state = "row" => Happened(tool.id))'
  BY <1>2, <1>5 DEF DeliveryInv, Happened
<1>9. QED BY <1>2, <1>4, <1>6, <1>7, <1>8 DEF DeliveryInv

LEMMA ProducersDeliver ==
  ASSUME ProjectionInv, DeliveryInv, TransactionHappens \/ EntityHappens
  PROVE  DeliveryInv'
<1>1. CASE TransactionHappens
  <2> DEFINE chosen(p) == p @@ [category_name |-> CurrentName("category", p.category),
                                subcategory_name |-> CurrentName("subcategory", p.subcategory)]
             told(p, r) == [core |-> p.core, category |-> r.category,
                            subcategory |-> r.subcategory,
                            category_name |-> CurrentName("category", r.category)]
  <2>1. PICK t \in Transactions :
          \/ \E p, r : Happens(EventOf("transaction", t, "created", told(p, r)))
          \/ \E p, r : Happens(EventOf("transaction", t, "updated", told(p, r)))
          \/ /\ Happened(t)
             /\ \E p \in Categorizations :
                  Happens(EventOf("transaction", t, "categorized", chosen(p)))
          \/ Happened(t) /\ Happens(EventOf("transaction", t, "deleted", 0))
    BY <1>1 DEF TransactionHappens, RowHappens, CoreEvent, Alive, Happened
  <2> HIDE DEF told, chosen
  <2>2. PICK type, data : /\ Happens(EventOf("transaction", t, type, data))
                          /\ type \in {"created", "updated"} \/ Happened(t)
    BY <2>1
  <2>3. QED BY <2>2, EventIsQueued DEF Happens
<1>2. CASE EntityHappens
  <2>1. PICK d \in FullStateDocs :
          \/ \E x \in FullState(d[1], "created") : Happens(EventOf(d[1], d[2], "created", x))
          \/ \E x \in FullState(d[1], "updated") : Happens(EventOf(d[1], d[2], "updated", x))
          \/ Happens(EventOf(d[1], d[2], "deleted", NewestOf(About(d[1], d[2])).data))
    BY <1>2 DEF EntityHappens
  <2>2. PICK type, data : Happens(EventOf(d[1], d[2], type, data)) BY <2>1
  <2>3. d[1] # "transaction" BY EntityIDs
  <2>4. QED BY <2>2, <2>3, EventIsQueued DEF Happens
<1>3. QED BY <1>1, <1>2

LEMMA WorkersDeliver ==
  ASSUME ProjectionInv, DeliveryInv,
         \/ CategorizedAtOwner \/ RepublishAcked \/ HandlerFails \/ WorkerCrashes
         \/ NameLookedUp \/ DocumentRead \/ EmbeddingRetried \/ EmbeddingIgnored
  PROVE  DeliveryInv'
<1>0. QueuesOK BY DEF ProjectionInv
<1>1. UNCHANGED <<history, docs, seen, tool>>
  BY DEF CategorizedAtOwner, RepublishAcked, HandlerFails, WorkerCrashes, NameLookedUp, DocumentRead, EmbeddingRetried,
         EmbeddingIgnored
<1>2. NoneDropped /\ dead \subseteq dead'
  <2>1. CASE HandlerFails \/ EmbeddingRetried
    <3>1. PICK q \in Queues : \E m \in queue[q] : Rejected(q, m)
      <4>1. CASE HandlerFails BY <4>1 DEF HandlerFails
      <4>2. CASE EmbeddingRetried
        <5>1. \E m \in queue["embeddings"] : Rejected("embeddings", m)
          BY <4>2 DEF EmbeddingRetried
        <5>2. QED BY <5>1, QueueNames
      <4>3. QED BY <2>1, <4>1, <4>2
    <3>2. PICK m \in queue[q] : Rejected(q, m) BY <3>1
    <3>3. QED BY <1>0, <1>1, <3>2, RejectedDropsNone DEF Rejected, _republish
  <2>2. CASE EmbeddingIgnored
    <3>1. PICK m : Acked("embeddings", m) BY <2>2 DEF EmbeddingIgnored
    <3>2. dead' = dead BY <2>2 DEF EmbeddingIgnored
    <3>3. NoneDropped BY <1>0, <3>1, AckedDropsNone
    <3>4. QED BY <3>2, <3>3
  <2>3. CASE CategorizedAtOwner \/ WorkerCrashes \/ NameLookedUp \/ DocumentRead
    BY <2>3 DEF CategorizedAtOwner, WorkerCrashes, NameLookedUp, DocumentRead, NoneDropped
  <2>4. CASE RepublishAcked
    <3>1. PICK q \in Queues : /\ working[q].state = "republished"
                             /\ Acked(q, working[q].message)
      BY <2>4 DEF RepublishAcked
    <3>2. CopyWaits(q, working[q].message) BY <3>1 DEF ProjectionInv, WorkingOK
    <3>3. dead' = dead BY <2>4 DEF RepublishAcked
    <3>4. QED BY <1>0, <3>1, <3>2, <3>3, CopyDropsNone DEF Acked
  <2>5. QED BY <2>1, <2>2, <2>3, <2>4
<1>3. QED BY <1>1, <1>2, DeliveryKept

LEMMA TransactionHandlersDeliver ==
  ASSUME ProjectionInv, DeliveryInv,
         handle_created_or_updated \/ handle_categorized \/ handle_deleted
  PROVE  DeliveryInv'
<1>0. QueuesOK BY DEF ProjectionInv
<1>1. ASSUME NEW m, NEW n \in DOMAIN history, n = m.ts, history[n].of = "transaction",
             UNCHANGED <<history, dead, tool>>, seen' = seen \cup {n},
             Acked("transactions", m), NEW new, docs' = [docs EXCEPT ![history[n].id] = new]
      PROVE  DeliveryInv'
  <2>1. NoneDropped BY <1>0, <1>1, AckedDropsNone DEF Acked
  <2>2. Happened(history[n].id) BY <1>1 DEF Happened, About, Among
  <2>3. \A t \in Transactions : docs'[t].exists => docs[t].exists \/ Happened(t)
    BY <1>1, <2>2 DEF ProjectionInv, DocsOK
  <2>4. QED BY <1>1, <2>1, <2>3, DeliveryKept
<1>2. \A n \in DOMAIN history : history[n].ts = n
  BY SeenIsStamped DEF ProjectionInv, EventOK
<1>3. CASE handle_created_or_updated
  <2> DEFINE w == working["transactions"]
             n == w.message.ts
             e == history[n]
             new == _CORE_SCRIPT(docs[e.id], e.data, w.name, e.ts)
  <2>1. n \in DOMAIN history /\ e.of = "transaction"
    <3>1. w.state = "named" BY <1>3 DEF handle_created_or_updated
    <3>2. QED BY <3>1 DEF ProjectionInv, WorkingOK
  <2>2. /\ docs' = [docs EXCEPT ![e.id] = new] /\ seen' = seen \cup {n}
        /\ Acked("transactions", w.message) /\ UNCHANGED <<history, dead, tool>>
    BY <1>3, <1>2, <2>1 DEF handle_created_or_updated, WrittenBy, upsert_core
  <2> HIDE DEF new
  <2>3. QED BY <2>1, <2>2, <1>1 DEF Acked
<1>4. ASSUME NEW m \in queue["transactions"]
      PROVE  m.ts \in DOMAIN history /\ history[m.ts].of = "transaction"
  BY <1>4, BoundTo, QueueNames DEF ProjectionInv, QueuesOK
<1>5. CASE handle_categorized
  <2>1. PICK m \in queue["transactions"] :
          LET e == history[m.ts] IN
          /\ WrittenBy(e, apply_categorization(e.id, e.data, e.ts))
          /\ Acked("transactions", m)
          /\ UNCHANGED <<history, dead, tool>>
    BY <1>5 DEF handle_categorized
  <2> DEFINE e == history[m.ts]
             new == _CATEGORIZATION_SCRIPT(docs[e.id], e.data, e.ts)
  <2>2. /\ docs' = [docs EXCEPT ![e.id] = new] /\ seen' = seen \cup {m.ts}
        /\ Acked("transactions", m) /\ UNCHANGED <<history, dead, tool>>
    BY <1>5, <1>2, <1>4, <2>1 DEF WrittenBy, apply_categorization
  <2> HIDE DEF new
  <2>3. QED BY <2>2, <1>1, <1>4 DEF Acked
<1>6. CASE handle_deleted
  <2>1. PICK m \in queue["transactions"] :
          LET e == history[m.ts] IN
          /\ WrittenBy(e, mark_deleted(e.id, e.ts))
          /\ Acked("transactions", m)
          /\ UNCHANGED <<history, dead, tool>>
    BY <1>6 DEF handle_deleted
  <2> DEFINE e == history[m.ts]
             new == _DELETE_SCRIPT(docs[e.id], e.ts)
  <2>2. /\ docs' = [docs EXCEPT ![e.id] = new] /\ seen' = seen \cup {m.ts}
        /\ Acked("transactions", m) /\ UNCHANGED <<history, dead, tool>>
    BY <1>6, <1>2, <1>4, <2>1 DEF WrittenBy, mark_deleted
  <2> HIDE DEF new
  <2>3. QED BY <2>2, <1>1, <1>4 DEF Acked
<1>7. QED BY <1>3, <1>5, <1>6

LEMMA EntityHandlersDeliver ==
  ASSUME ProjectionInv, DeliveryInv,
         \/ handle_category \/ handle_subcategory \/ AccountProjected \/ GoalProjected
  PROVE  DeliveryInv'
<1>0. QueuesOK BY DEF ProjectionInv
<1>1. UNCHANGED <<history, docs, dead, tool>>
  BY DEF handle_category, handle_subcategory, TaxonomyUpserted, AccountProjected, GoalProjected
<1>2. PICK q, m : /\ seen' = seen \cup {m.ts} /\ q # "transactions"
                  /\ Acked(q, m) \/ UNCHANGED queue
  <2>1. CASE handle_category
    <3>1. PICK m, new, applied : m \in queue["taxonomy"] /\ TaxonomyUpserted(m, new, applied)
      BY <2>1 DEF handle_category
    <3>2. QED BY <3>1 DEF TaxonomyUpserted
  <2>2. CASE handle_subcategory
    <3>1. PICK m, new, applied : m \in queue["taxonomy"] /\ TaxonomyUpserted(m, new, applied)
      BY <2>2 DEF handle_subcategory
    <3>2. QED BY <3>1 DEF TaxonomyUpserted
  <2>3. CASE AccountProjected
    <3>1. PICK m : Acked("accounts", m) /\ seen' = seen \cup {m.ts} BY <2>3 DEF AccountProjected
    <3>2. QED BY <3>1
  <2>4. CASE GoalProjected
    <3>1. PICK m : Acked("goals", m) /\ seen' = seen \cup {m.ts} BY <2>4 DEF GoalProjected
    <3>2. QED BY <3>1
  <2>5. QED BY <2>1, <2>2, <2>3, <2>4
<1>3. CASE Acked(q, m)
  <2>1. NoneDropped BY <1>0, <1>2, <1>3, AckedDropsNone DEF Acked
  <2>2. QED BY <1>1, <1>2, <2>1, DeliveryKept
<1>4. CASE UNCHANGED queue
  <2>1. NoneDropped BY <1>4 DEF NoneDropped
  <2>2. QED BY <1>1, <1>2, <2>1, DeliveryKept
<1>5. QED BY <1>2, <1>3, <1>4

LEMMA RewritesDeliver ==
  ASSUME ProjectionInv, DeliveryInv, RenamePropagated \/ VectorWritten \/ EmbeddingToolWrites
  PROVE  DeliveryInv'
<1>0. QueuesOK BY DEF ProjectionInv
<1>1. \A t \in Transactions : Whole(docs[t]) BY DEF ProjectionInv, DocsOK, DocOK, Whole
<1>2. CASE RenamePropagated
  <2> DEFINE w == working["taxonomy"]
             e == history[w.message.ts]
             category(t) == [docs[t] EXCEPT !.category_name = e.data]
             subcategory(t) == [docs[t] EXCEPT !.subcategory_name = e.data]
  <2>1. /\ Acked("taxonomy", w.message) /\ UNCHANGED <<history, dead, tool, seen>>
        /\ \/ docs' = propagate_category_rename(e.id, e.data)
           \/ docs' = propagate_subcategory_rename(e.id, e.data)
    BY <1>2 DEF RenamePropagated
  <2>2. \A t \in Transactions : docs'[t] = docs[t] \/ docs'[t] = category(t) \/ docs'[t] = subcategory(t)
    <3>1. CASE docs' = propagate_category_rename(e.id, e.data)
      BY <3>1 DEF propagate_category_rename
    <3>2. CASE docs' = propagate_subcategory_rename(e.id, e.data)
      BY <3>2 DEF propagate_subcategory_rename
    <3>3. QED BY <2>1, <3>1, <3>2
  <2>3. ASSUME NEW t \in Transactions
        PROVE  category(t).exists = docs[t].exists /\ subcategory(t).exists = docs[t].exists
    BY <1>1, OtherScripts DEF Kept
  <2> HIDE DEF category, subcategory
  <2>4. \A t \in Transactions : docs'[t].exists = docs[t].exists BY <2>2, <2>3
  <2>5. NoneDropped BY <1>0, <2>1, AckedDropsNone DEF Acked
  <2>6. QED BY <2>1, <2>4, <2>5, DeliveryKept
<1>3. ASSUME NEW t, NEW x, NEW ts, docs' = update_embedding(t, x, ts)
      PROVE  \A u \in Transactions : docs'[u].exists = docs[u].exists
  <2>0. docs = [u \in Transactions |-> docs[u]] BY DEF ProjectionInv, DocsOK
  <2>1. \A u \in Transactions : docs'[u] = docs[u] \/ docs'[u] = _EMBEDDING_SCRIPT(docs[u], x, ts)
    BY <1>3, <2>0 DEF update_embedding
  <2>2. \A u \in Transactions : _EMBEDDING_SCRIPT(docs[u], x, ts).exists = docs[u].exists
    <3>1. SUFFICES ASSUME NEW u \in Transactions
                   PROVE  _EMBEDDING_SCRIPT(docs[u], x, ts).exists = docs[u].exists
      OBVIOUS
    <3>2. Kept(_EMBEDDING_SCRIPT(docs[u], x, ts), docs[u]) BY <1>1, OtherScripts
    <3>3. QED BY <3>2 DEF Kept
  <2>3. QED BY <2>1, <2>2
<1>4. CASE VectorWritten
  <2> DEFINE w == working["embeddings"]
  <2>1. /\ docs' = update_embedding(history[w.message.ts].id, w.text, w.updated_at)
        /\ Acked("embeddings", w.message) /\ UNCHANGED <<history, dead, tool, seen>>
    BY <1>4 DEF VectorWritten
  <2>2. NoneDropped BY <1>0, <2>1, AckedDropsNone DEF Acked
  <2>3. QED BY <1>3, <2>1, <2>2, DeliveryKept
<1>5. CASE EmbeddingToolWrites
  <2>1. /\ docs' = update_embedding(tool.id, tool.row, tool.updated_at)
        /\ tool' = Idle /\ UNCHANGED <<history, queue, dead, seen>>
    BY <1>5 DEF EmbeddingToolWrites, ToolDone
  <2>2. NoneDropped BY <2>1 DEF NoneDropped
  <2>3. QED BY <1>3, <2>1, <2>2, DeliveryKept
<1>6. QED BY <1>2, <1>4, <1>5

LEMMA ToolsDeliver ==
  ASSUME ProjectionInv, DeliveryInv,
         \/ BackfillReads \/ EmbeddingToolReads \/ _backfill_transactions \/ _backfill_entity
  PROVE  DeliveryInv'
<1>1. UNCHANGED <<history, queue, dead, seen>>
  BY DEF BackfillReads, EmbeddingToolReads, ToolReads, _backfill_transactions, _backfill_entity
<1>2. NoneDropped BY <1>1 DEF NoneDropped
<1>3. \A t \in Transactions : docs'[t].exists => docs[t].exists \/ Happened(t)
  <2>1. CASE _backfill_transactions
    <3> DEFINE new == _CORE_SCRIPT(docs[tool.id], tool.row, tool.row.subcategory_name,
                                   BACKFILL_EVENT_TS)
    <3>1. docs' = [docs EXCEPT ![tool.id] = new] /\ Happened(tool.id)
      BY <2>1 DEF _backfill_transactions, upsert_core, DeliveryInv
    <3> HIDE DEF new
    <3>2. QED BY <3>1 DEF ProjectionInv, DocsOK
  <2>2. CASE UNCHANGED docs BY <2>2
  <2>3. QED BY <2>1, <2>2 DEF BackfillReads, EmbeddingToolReads, ToolReads, _backfill_entity
<1>4. tool' = tool \/ (tool' # Idle /\ tool'.state = "row" => Happened(tool'.id))
  <2>1. CASE _backfill_transactions \/ _backfill_entity
    BY <2>1 DEF _backfill_transactions, _backfill_entity, ToolDone
  <2>2. CASE EmbeddingToolReads
    <3>1. PICK t, text, at : tool' = [state |-> "vector", id |-> t, row |-> text, updated_at |-> at]
      BY <2>2 DEF EmbeddingToolReads, ToolReads
    <3>2. tool'.state = "vector" BY <3>1
    <3>3. QED BY <3>2
  <2>3. CASE BackfillReads
    <3>1. \/ \E t \in Transactions : /\ Alive("transaction", t)
                                     /\ tool' = [state |-> "row", id |-> t, row |-> SourceRow(t)]
          \/ \E d \in FullStateDocs :
               tool' = [state |-> "entity", id |-> d, row |-> NewestOf(About(d[1], d[2])).data]
      BY <2>3 DEF BackfillReads, ToolReads
    <3>2. QED BY <3>1 DEF Alive, Happened
  <2>4. QED BY <2>1, <2>2, <2>3
<1>5. QED BY <1>1, <1>2, <1>3, <1>4, DeliveryKept

LEMMA InitDelivery == ProjectionInit => DeliveryInv
<1> SUFFICES ASSUME ProjectionInit PROVE DeliveryInv OBVIOUS
<1>1. \A t : ~Happened(t)
  BY DEF ProjectionInit, Happened, About, Among
<1>2. \A t \in Transactions : ~docs[t].exists BY DEF ProjectionInit, NoDocument
<1>3. tool = Idle /\ DOMAIN history = {} BY DEF ProjectionInit
<1>4. QED BY <1>1, <1>2, <1>3 DEF DeliveryInv, NoneLost

LEMMA NextDelivery ==
  ProjectionInv /\ DeliveryInv /\ [ProjectionNext]_projectionVars => DeliveryInv'
<1> SUFFICES ASSUME ProjectionInv, DeliveryInv, [ProjectionNext]_projectionVars
             PROVE  DeliveryInv'
  OBVIOUS
<1>1. CASE UNCHANGED projectionVars
  <2>1. NoneDropped BY <1>1 DEF projectionVars, NoneDropped
  <2>2. QED BY <1>1, <2>1, DeliveryKept DEF projectionVars
<1>2. QED BY <1>1, ProducersDeliver, WorkersDeliver, TransactionHandlersDeliver,
            EntityHandlersDeliver, RewritesDeliver, ToolsDeliver DEF ProjectionNext

THEOREM DeliveryInvariance == ProjectionSpec => []DeliveryInv
<1>1. QED BY InitDelivery, NextDelivery, ProjectionInvariance, PTL DEF ProjectionSpec

-----------------------------------------------------------------------------
(* The category: of a transaction whose categorisation crossed none of its  *)
(* edits, the document shows that of the newest event it was told, and the  *)
(* owner's row that of the newest event it has seen: its core events, and   *)
(* the categorisation once it was consumed.                                 *)

Told(S) == CoreAmong(S) \cup CategorizedAmong(S)

ShowsNewest(category, S) ==
  S # {} => \E e : IsNewest(e, S) /\ category = e.data.category

RowOK(r, A) ==
  /\ r = [category |-> r.category, subcategory |-> r.subcategory, manual |-> r.manual,
          categorized |-> r.categorized]
  /\ \A e, f \in CategorizedAmong(A) : e = f
  /\ r.categorized => CategorizedAmong(A) # {}

RowShows(r, A) ==
  /\ r.categorized => ShowsNewest(r.category, Told(A))
  /\ ~r.categorized => ShowsNewest(r.category, CoreAmong(A))

DocShows(doc, S) == ~doc.is_deleted => ShowsNewest(doc.category, Told(S))

CategoryInv ==
  /\ rows = [t \in Transactions |-> rows[t]]
  /\ \A t \in Transactions :
       /\ RowOK(rows[t], About("transaction", t))
       /\ t \notin crossed => /\ RowShows(rows[t], About("transaction", t))
                              /\ DocShows(docs[t], Seen("transaction", t))

LEMMA CoreEventShows ==
  ASSUME NEW S, NEW e, Stamped(S \cup {e}), e.type \in {"created", "updated"},
         NEW doc, DocOK(doc, S), DocShows(doc, S), NEW name
  PROVE  DocShows(_CORE_SCRIPT(doc, e.data, name, e.ts), S \cup {e})
<1> DEFINE new == _CORE_SCRIPT(doc, e.data, name, e.ts)
           T == S \cup {e}
<1>1. Whole(doc) BY DEF DocOK, Whole
<1>2. Told(T) = Told(S) \cup {e} BY DEF Told, CoreAmong, CategorizedAmong
<1>3. /\ \A f \in Told(T) : f.ts \in Nat /\ f.ts >= 1
      /\ CoreAmong(S) \subseteq Told(S) /\ CategorizedAmong(S) \subseteq Told(S)
  BY DEF Stamped, Told, CoreAmong, CategorizedAmong
<1> HIDE DEF T
<1>4. CASE doc.is_deleted
  <2>1. new = doc BY <1>1, <1>4, CoreScript
  <2>2. QED BY <2>1, <1>4 DEF DocShows
<1>5. ASSUME ~doc.is_deleted, new.category = doc.category,
             NEW c \in Told(S), e.ts < c.ts
      PROVE  ShowsNewest(new.category, Told(T))
  <2>1. PICK w : IsNewest(w, Told(S)) /\ doc.category = w.data.category
    BY <1>5 DEF DocShows, ShowsNewest
  <2>2. IsNewest(w, Told(T)) BY <2>1, <1>2, <1>3, <1>5 DEF IsNewest
  <2>3. QED BY <2>1, <2>2, <1>5 DEF ShowsNewest
<1>6. CASE ~doc.is_deleted /\ e.ts < doc.core_event_ts
  <2>1. new = doc BY <1>1, <1>6, CoreScript
  <2>2. PICK c \in CoreAmong(S) : doc.core_event_ts = c.ts
    BY <1>2, <1>3, <1>6 DEF DocOK, CoreFollows, null, BACKFILL_EVENT_TS
  <2>3. c \in Told(S) /\ e.ts < c.ts /\ new.category = doc.category BY <1>3, <1>6, <2>1, <2>2
  <2> HIDE DEF new
  <2>4. ShowsNewest(new.category, Told(T)) BY <1>5, <1>6, <2>3
  <2>5. QED BY <2>4 DEF DocShows, new, T
<1>7. CASE ~doc.is_deleted /\ ~(e.ts < doc.core_event_ts)
  <2>1. /\ e.ts < doc.categorization_event_ts => SameCategory(new, doc)
        /\ ~(e.ts < doc.categorization_event_ts) => SameCategory(new, e.data)
    BY <1>1, <1>7, CoreScript
  <2> HIDE DEF new
  <2>2. CASE e.ts < doc.categorization_event_ts
    <3>1. PICK c \in CategorizedAmong(S) : doc.categorization_event_ts = c.ts
      BY <1>2, <1>3, <1>7, <2>2 DEF DocOK, CategorizationFollows, null
    <3>2. c \in Told(S) /\ e.ts < c.ts /\ new.category = doc.category
      BY <1>3, <2>1, <2>2, <3>1 DEF SameCategory
    <3>3. ShowsNewest(new.category, Told(T)) BY <1>5, <1>7, <3>2
    <3>4. QED BY <3>3 DEF DocShows, new, T
  <2>3. CASE ~(e.ts < doc.categorization_event_ts)
    <3>1. new.category = e.data.category BY <2>1, <2>3 DEF SameCategory
    <3>2. \A f \in CoreAmong(S) : f.ts <= e.ts
      BY <1>2, <1>3, <1>7 DEF DocOK, CoreFollows, IsNewest
    <3>3. \A f \in CategorizedAmong(S) : f.ts <= e.ts
      BY <1>2, <1>3, <1>7, <2>3 DEF DocOK, CategorizationFollows, IsNewest
    <3>4. IsNewest(e, Told(T)) BY <1>2, <1>3, <3>2, <3>3 DEF IsNewest, Told
    <3>5. ShowsNewest(new.category, Told(T)) BY <3>1, <3>4 DEF ShowsNewest
    <3>6. QED BY <3>5 DEF DocShows, new, T
  <2>4. QED BY <2>2, <2>3
<1>8. QED BY <1>4, <1>6, <1>7

(* A categorisation that comes after no newer core event. *)
LEMMA CategorizedEventShows ==
  ASSUME NEW S, NEW e, Stamped(S \cup {e}), e.type = "categorized",
         NEW doc, DocOK(doc, S), DocShows(doc, S), ~(doc.core_event_ts > e.ts)
  PROVE  DocShows(_CATEGORIZATION_SCRIPT(doc, e.data, e.ts), S \cup {e})
<1> DEFINE new == _CATEGORIZATION_SCRIPT(doc, e.data, e.ts)
           T == S \cup {e}
<1>1. Whole(doc) BY DEF DocOK, Whole
<1>2. Told(T) = Told(S) \cup {e} BY DEF Told, CoreAmong, CategorizedAmong
<1>3. /\ \A f \in Told(T) : f.ts \in Nat /\ f.ts >= 1
      /\ CoreAmong(S) \subseteq Told(S) /\ CategorizedAmong(S) \subseteq Told(S)
  BY DEF Stamped, Told, CoreAmong, CategorizedAmong
<1> HIDE DEF T
<1>4. CASE doc.is_deleted
  <2>1. new = doc BY <1>1, <1>4, CategorizationScript
  <2>2. QED BY <2>1, <1>4 DEF DocShows
<1>5. CASE ~doc.is_deleted /\ e.ts < doc.categorization_event_ts
  <2>1. new = doc BY <1>1, <1>5, CategorizationScript
  <2>2. PICK c \in CategorizedAmong(S) : doc.categorization_event_ts = c.ts
    BY <1>2, <1>3, <1>5 DEF DocOK, CategorizationFollows, null
  <2>3. PICK w : IsNewest(w, Told(S)) /\ doc.category = w.data.category
    BY <1>3, <1>5, <2>2 DEF DocShows, ShowsNewest
  <2>4. c.ts <= w.ts /\ e.ts < c.ts BY <1>3, <1>5, <2>2, <2>3 DEF IsNewest
  <2>5. IsNewest(w, Told(T)) BY <2>2, <2>3, <2>4, <1>2, <1>3 DEF IsNewest
  <2>6. QED BY <2>1, <2>3, <2>5 DEF DocShows, ShowsNewest, T
<1>6. CASE ~doc.is_deleted /\ ~(e.ts < doc.categorization_event_ts)
  <2>1. new.category = e.data.category
    BY <1>1, <1>6, CategorizationScript DEF SameCategory
  <2> HIDE DEF new
  <2>2. \A f \in CoreAmong(S) : f.ts <= e.ts
    BY <1>2, <1>3, <1>6 DEF DocOK, CoreFollows, IsNewest
  <2>3. \A f \in CategorizedAmong(S) : f.ts <= e.ts
    BY <1>2, <1>3, <1>6 DEF DocOK, CategorizationFollows, IsNewest
  <2>4. IsNewest(e, Told(T)) BY <1>2, <1>3, <2>2, <2>3 DEF IsNewest, Told
  <2>5. QED BY <2>1, <2>4 DEF DocShows, ShowsNewest, new, T
<1>7. QED BY <1>4, <1>5, <1>6

LEMMA BackfillShows ==
  ASSUME NEW S, Stamped(S), NEW doc, DocOK(doc, S), DocShows(doc, S), NEW src, NEW name
  PROVE  DocShows(_CORE_SCRIPT(doc, src, name, BACKFILL_EVENT_TS), S)
<1> DEFINE new == _CORE_SCRIPT(doc, src, name, BACKFILL_EVENT_TS)
<1>0. \A f \in CoreAmong(S) \cup CategorizedAmong(S) : f.ts \in Nat /\ f.ts >= 1
  BY DEF CoreAmong, CategorizedAmong, Stamped
<1>1. Whole(doc) BY DEF DocOK, Whole
<1>2. CASE doc.is_deleted \/ BACKFILL_EVENT_TS < doc.core_event_ts
  BY <1>1, <1>2, CoreScript
<1>3. CASE ~(doc.is_deleted \/ BACKFILL_EVENT_TS < doc.core_event_ts)
  <2>1. BACKFILL_EVENT_TS < doc.categorization_event_ts => new.category = doc.category
    BY <1>1, <1>3, CoreScript DEF SameCategory
  <2> HIDE DEF new
  <2>2. CoreAmong(S) = {} BY <1>0, <1>3 DEF DocOK, CoreFollows, BACKFILL_EVENT_TS
  <2>3. CASE BACKFILL_EVENT_TS < doc.categorization_event_ts
    BY <2>1, <2>3, <1>3 DEF DocShows, new
  <2>4. CASE ~(BACKFILL_EVENT_TS < doc.categorization_event_ts)
    <3>1. CategorizedAmong(S) = {}
      BY <2>4, <1>0, <1>3 DEF DocOK, CategorizationFollows, BACKFILL_EVENT_TS
    <3>2. QED BY <2>2, <3>1 DEF DocShows, ShowsNewest, Told, new
  <2>5. QED BY <2>3, <2>4
<1>4. QED BY <1>2, <1>3

(* What a new event of a transaction makes of its row. *)
LEMMA CoreEventRow ==
  ASSUME NEW A, NEW e, e.type \in {"created", "updated"}, e.ts \in Nat,
         \A f \in A : f.ts <= e.ts, NEW r, RowOK(r, A),
         NEW new, new = [category |-> new.category, subcategory |-> new.subcategory,
                         manual |-> new.manual, categorized |-> new.categorized],
         new.categorized => r.categorized, new.category = e.data.category
  PROVE  RowOK(new, A \cup {e}) /\ RowShows(new, A \cup {e})
<1>1. CategorizedAmong(A \cup {e}) = CategorizedAmong(A) BY DEF CategorizedAmong
<1>2. CoreAmong(A \cup {e}) \subseteq A \cup {e} /\ Told(A \cup {e}) \subseteq A \cup {e}
  BY DEF Told, CoreAmong, CategorizedAmong
<1>3. e \in CoreAmong(A \cup {e}) /\ e \in Told(A \cup {e}) BY DEF Told, CoreAmong
<1>4. \A f \in A \cup {e} : f.ts <= e.ts OBVIOUS
<1>5. IsNewest(e, CoreAmong(A \cup {e})) /\ IsNewest(e, Told(A \cup {e}))
  BY <1>2, <1>3, <1>4 DEF IsNewest
<1>6. RowShows(new, A \cup {e}) BY <1>5 DEF RowShows, ShowsNewest
<1>7. RowOK(new, A \cup {e}) BY <1>1 DEF RowOK
<1>8. QED BY <1>6, <1>7

LEMMA OtherEventRow ==
  ASSUME NEW A, NEW e, NEW r, RowOK(r, A),
         \/ e.type = "categorized" /\ CategorizedAmong(A) = {}
         \/ e.type = "deleted"
  PROVE  RowOK(r, A \cup {e}) /\ (RowShows(r, A) => RowShows(r, A \cup {e}))
<1>1. CoreAmong(A \cup {e}) = CoreAmong(A) BY DEF CoreAmong
<1>2. CASE e.type = "categorized" /\ CategorizedAmong(A) = {}
  <2>1. CategorizedAmong(A \cup {e}) = {e} BY <1>2 DEF CategorizedAmong
  <2>2. ~r.categorized BY <1>2 DEF RowOK
  <2>3. QED BY <1>1, <2>1, <2>2 DEF RowOK, RowShows
<1>3. CASE e.type = "deleted"
  <2>1. CategorizedAmong(A \cup {e}) = CategorizedAmong(A) BY <1>3 DEF CategorizedAmong
  <2>2. QED BY <1>1, <2>1 DEF RowOK, RowShows, Told
<1>4. QED BY <1>2, <1>3

LEMMA RowsWritten ==
  ASSUME ProjectionInv, CategoryInv, NEW kind, NEW id, NEW type, NEW data,
         NEW e, e = EventOf(kind, id, type, data), Happens(e),
         rows' = [t \in Transactions |-> rows'[t]],
         \A t \in Transactions : t # id \/ kind # "transaction" => rows'[t] = rows[t],
         kind = "transaction" /\ id \in Transactions =>
           /\ RowOK(rows'[id], About("transaction", id) \cup {e})
           /\ id \notin crossed => RowShows(rows'[id], About("transaction", id) \cup {e})
  PROVE  CategoryInv'
<1> DEFINE N == Len(history) + 1
<1>1. e.of = kind /\ e.id = id BY DEF EventOf
<1>2. history' = Append(history, e) /\ UNCHANGED <<docs, seen, crossed>> BY DEF Happens
<1>3. /\ DOMAIN history' = DOMAIN history \cup {N} /\ N \notin DOMAIN history
      /\ history'[N] = e
      /\ \A n \in DOMAIN history : history'[n] = history[n]
      /\ seen \subseteq DOMAIN history
  BY <1>2, Appended DEF ProjectionInv, HistoryOK
<1> HIDE DEF N
<1>4. \A t : About("transaction", t)' =
        About("transaction", t) \cup (IF kind = "transaction" /\ id = t THEN {e} ELSE {})
  BY <1>1, <1>3 DEF About, Among
<1>5. \A t : Seen("transaction", t)' = Seen("transaction", t)
  <2>1. {history'[n] : n \in seen} = {history[n] : n \in seen} BY <1>3
  <2>2. QED BY <1>2, <2>1 DEF Seen, Among
<1>6. ASSUME NEW t \in Transactions
      PROVE  /\ RowOK(rows'[t], About("transaction", t)')
             /\ t \notin crossed' => /\ RowShows(rows'[t], About("transaction", t)')
                                     /\ DocShows(docs'[t], Seen("transaction", t)')
  <2>1. DocShows(docs'[t], Seen("transaction", t)') \/ t \in crossed
    BY <1>2, <1>5 DEF CategoryInv
  <2>2. CASE kind = "transaction" /\ id = t BY <1>2, <1>4, <2>1, <2>2
  <2>3. CASE ~(kind = "transaction" /\ id = t)
    <3>1. About("transaction", t)' = About("transaction", t) /\ rows'[t] = rows[t]
      BY <1>4, <2>3
    <3>2. QED BY <1>2, <2>1, <3>1 DEF CategoryInv
  <2>4. QED BY <2>2, <2>3
<1>7. QED BY <1>6 DEF CategoryInv

(* A new event is newer than those of before. *)
LEMMA NewerThanAll ==
  ASSUME ProjectionInv, NEW kind, NEW id, NEW type, NEW data, NEW t
  PROVE  LET e == EventOf(kind, id, type, data) IN
         /\ e.ts \in Nat /\ e.type = type /\ e.data = data
         /\ \A f \in About("transaction", t) : f.ts <= e.ts
<1>1. /\ Len(history) \in Nat /\ DOMAIN history = 1 .. Len(history)
      /\ \A n \in DOMAIN history : history[n].ts = n
  BY SeenIsStamped DEF ProjectionInv, EventOK
<1>2. QED BY <1>1 DEF EventOf, About, Among

LEMMA CoreHappens ==
  ASSUME ProjectionInv, CategoryInv, NEW t \in Transactions,
         NEW type \in {"created", "updated"}, NEW p, NEW new,
         new = [category |-> new.category, subcategory |-> new.subcategory,
                manual |-> new.manual, categorized |-> new.categorized],
         new.categorized => rows[t].categorized,
         RowHappens(t, type, p, new)
  PROVE  CategoryInv'
<1> DEFINE data == [core |-> p.core, category |-> new.category, subcategory |-> new.subcategory,
                    category_name |-> CurrentName("category", new.category)]
           e == EventOf("transaction", t, type, data)
<1>1. Happens(e) /\ rows' = [rows EXCEPT ![t] = new] BY DEF RowHappens, CoreEvent
<1>2. data.category = new.category OBVIOUS
<1> HIDE DEF data
<1>3. /\ e.ts \in Nat /\ e.type = type /\ e.data = data
      /\ \A f \in About("transaction", t) : f.ts <= e.ts
  BY NewerThanAll
<1> HIDE DEF e
<1>4. /\ RowOK(new, About("transaction", t) \cup {e})
      /\ RowShows(new, About("transaction", t) \cup {e})
  <2> DEFINE A == About("transaction", t)
  <2>1. RowOK(rows[t], A) BY DEF CategoryInv
  <2>2. new.category = e.data.category BY <1>2, <1>3
  <2>3. \A f \in A : f.ts <= e.ts BY <1>3
  <2> HIDE DEF A
  <2>4. RowOK(new, A \cup {e}) /\ RowShows(new, A \cup {e})
    BY <1>3, <2>1, <2>2, <2>3, CoreEventRow
  <2>5. QED BY <2>4 DEF A
<1>5. rows' = [u \in Transactions |-> rows'[u]] /\ rows'[t] = new
      /\ \A u \in Transactions : u # t => rows'[u] = rows[u]
  BY <1>1 DEF CategoryInv
<1>6. e = EventOf("transaction", t, type, data) BY DEF e
<1>7. QED BY <1>1, <1>4, <1>5, <1>6, RowsWritten

LEMMA ProducersShow ==
  ASSUME ProjectionInv, CategoryInv, TransactionHappens \/ EntityHappens
  PROVE  CategoryInv'
<1>1. CASE TransactionHappens
  <2> DEFINE chosen(p) == p @@ [category_name |-> CurrentName("category", p.category),
                                subcategory_name |-> CurrentName("subcategory", p.subcategory)]
  <2>1. PICK t \in Transactions :
          \/ \E p : RowHappens(t, "created", p, Chosen(NoRow, p))
          \/ \E p : RowHappens(t, "updated", p, IF p.manual THEN Chosen(rows[t], p) ELSE rows[t])
          \/ /\ CategorizedAmong(About("transaction", t)) = {}
             /\ \E p \in Categorizations :
                  Happens(EventOf("transaction", t, "categorized", chosen(p)))
             /\ UNCHANGED rows
          \/ Happens(EventOf("transaction", t, "deleted", 0)) /\ UNCHANGED rows
    BY <1>1 DEF TransactionHappens
  <2> HIDE DEF chosen
  <2>2. RowOK(rows[t], About("transaction", t)) BY DEF CategoryInv
  <2>3. rows = [u \in Transactions |-> rows[u]] BY DEF CategoryInv
  <2>4. ASSUME NEW p, RowHappens(t, "created", p, Chosen(NoRow, p)) PROVE CategoryInv'
    <3> DEFINE new == Chosen(NoRow, p)
    <3>1. /\ new = [category |-> new.category, subcategory |-> new.subcategory,
                    manual |-> new.manual, categorized |-> new.categorized]
          /\ ~new.categorized
      BY DEF Chosen, NoRow
    <3> HIDE DEF new
    <3>2. RowHappens(t, "created", p, new) BY <2>4 DEF new
    <3>3. QED BY <3>1, <3>2, CoreHappens
  <2>5. ASSUME NEW p,
               RowHappens(t, "updated", p, IF p.manual THEN Chosen(rows[t], p) ELSE rows[t])
        PROVE  CategoryInv'
    <3> DEFINE new == IF p.manual THEN Chosen(rows[t], p) ELSE rows[t]
    <3>1. /\ new = [category |-> new.category, subcategory |-> new.subcategory,
                    manual |-> new.manual, categorized |-> new.categorized]
          /\ new.categorized = rows[t].categorized
      BY <2>2 DEF RowOK, Chosen
    <3> HIDE DEF new
    <3>2. RowHappens(t, "updated", p, new) BY <2>5 DEF new
    <3>3. QED BY <3>1, <3>2, CoreHappens
  <2>6. ASSUME NEW type, NEW data, Happens(EventOf("transaction", t, type, data)),
               UNCHANGED rows,
               \/ type = "categorized" /\ CategorizedAmong(About("transaction", t)) = {}
               \/ type = "deleted"
        PROVE  CategoryInv'
    <3> DEFINE e == EventOf("transaction", t, type, data)
               A == About("transaction", t)
    <3>1. e.type = type /\ e = EventOf("transaction", t, type, data) BY DEF EventOf
    <3> HIDE DEF e
    <3>2. /\ RowOK(rows[t], A \cup {e})
          /\ RowShows(rows[t], A) => RowShows(rows[t], A \cup {e})
      BY <2>2, <2>6, <3>1, OtherEventRow
    <3>3. t \notin crossed => RowShows(rows[t], A) BY DEF CategoryInv
    <3>4. /\ RowOK(rows'[t], A \cup {e}) /\ rows' = [u \in Transactions |-> rows'[u]]
          /\ t \notin crossed => RowShows(rows'[t], A \cup {e})
          /\ \A u : rows'[u] = rows[u]
      BY <2>3, <2>6, <3>2, <3>3
    <3>5. Happens(e) BY <2>6 DEF e
    <3>6. QED BY <3>1, <3>4, <3>5, RowsWritten
  <2>7. QED BY <2>1, <2>4, <2>5, <2>6
<1>2. CASE EntityHappens
  <2>1. PICK d \in FullStateDocs :
          \/ \E x \in FullState(d[1], "created") : Happens(EventOf(d[1], d[2], "created", x))
          \/ \E x \in FullState(d[1], "updated") : Happens(EventOf(d[1], d[2], "updated", x))
          \/ Happens(EventOf(d[1], d[2], "deleted", NewestOf(About(d[1], d[2])).data))
    BY <1>2 DEF EntityHappens
  <2>2. PICK type, data : Happens(EventOf(d[1], d[2], type, data)) BY <2>1
  <2>3. d[1] # "transaction" BY EntityIDs
  <2>4. /\ rows' = [t \in Transactions |-> rows'[t]] /\ \A t : rows'[t] = rows[t]
    BY <1>2 DEF EntityHappens, CategoryInv
  <2>5. QED BY <2>2, <2>3, <2>4, RowsWritten
<1>3. QED BY <1>1, <1>2

(* The owner consumes the categorisation. *)
LEMMA OwnerShows ==
  ASSUME ProjectionInv, DeliveryInv, CategoryInv, CategorizedAtOwner
  PROVE  CategoryInv'
<1> DEFINE
  OwnerTakes(t, e) ==
    LET newest == NewestOf(CoreAmong(About("transaction", t)))
        kept == IF rows[t].manual THEN rows[t] ELSE e.data IN
    /\ ~rows[t].categorized
    /\ rows' = [rows EXCEPT ![t] =
         [category |-> kept.category, subcategory |-> kept.subcategory,
          manual |-> rows[t].manual, categorized |-> TRUE]]
    /\ crossed' = IF rows[t].manual <=> newest.ts < e.ts THEN crossed \cup {t} ELSE crossed
<1>0. \E t \in Transactions : \E e \in CategorizedAmong(About("transaction", t)) :
        OwnerTakes(t, e)
  BY DEF CategorizedAtOwner
<1> HIDE DEF OwnerTakes
<1>1. PICK t \in Transactions : \E e \in CategorizedAmong(About("transaction", t)) :
        OwnerTakes(t, e)
  BY <1>0
<1>e. PICK e \in CategorizedAmong(About("transaction", t)) : OwnerTakes(t, e) BY <1>1
<1> DEFINE A == About("transaction", t)
           newest == NewestOf(CoreAmong(A))
           r == rows[t]
           kept == IF r.manual THEN r ELSE e.data
           new == [category |-> kept.category, subcategory |-> kept.subcategory,
                   manual |-> r.manual, categorized |-> TRUE]
<1>2. /\ ~r.categorized
      /\ rows' = [rows EXCEPT ![t] = new]
      /\ crossed' = IF r.manual <=> newest.ts < e.ts THEN crossed \cup {t} ELSE crossed
  BY <1>e DEF OwnerTakes
<1>3. UNCHANGED <<history, docs, seen>> BY DEF CategorizedAtOwner
<1>4. RowOK(r, A) /\ (t \notin crossed => RowShows(r, A)) BY DEF CategoryInv
<1>5. /\ rows' = [u \in Transactions |-> rows'[u]] /\ rows'[t] = new
      /\ \A u \in Transactions : u # t => rows'[u] = rows[u]
  BY <1>2 DEF CategoryInv
<1>6. \A f \in A : f.ts \in Nat /\ f = history[f.ts]
  BY SeenIsStamped DEF ProjectionInv, EventOK, About, Among
<1>7. /\ \A k, i : About(k, i)' = About(k, i)
      /\ \A k, i : Seen(k, i)' = Seen(k, i)
  BY <1>3 DEF Seen, About, Among
<1>8. /\ CategorizedAmong(A) = {e} /\ CategorizedAmong(A) \subseteq A /\ CoreAmong(A) \subseteq A
      /\ CoreAmong(A) # {}
  <2>1. Happened(t) BY DEF Happened, CategorizedAmong
  <2>2. QED BY <1>4, <2>1 DEF RowOK, CategorizedAmong, CoreAmong, DeliveryInv
<1>9. /\ new.category = kept.category /\ new.categorized
      /\ new = [category |-> new.category, subcategory |-> new.subcategory,
                manual |-> new.manual, categorized |-> new.categorized]
  OBVIOUS
<1> HIDE DEF new
<1>10. RowOK(new, A)
  BY <1>4, <1>8, <1>9 DEF RowOK
<1>11. ASSUME t \notin crossed' PROVE RowShows(new, A)
  <2>1. t \notin crossed /\ ~(r.manual <=> newest.ts < e.ts) BY <1>2, <1>11
  <2>2. PICK c : IsNewest(c, CoreAmong(A)) /\ r.category = c.data.category
    BY <1>2, <1>4, <1>8, <2>1 DEF RowShows, ShowsNewest
  <2>3. newest = c
    <3>1. HistoryOK /\ \A f \in CoreAmong(A) : f = history[f.ts] /\ f.ts \in Nat
      BY <1>6, <1>8 DEF ProjectionInv
    <3> HIDE DEF A
    <3>2. QED BY <2>2, <3>1, NewestIs
  <2>4. e.ts \in Nat /\ c.ts \in Nat BY <1>6, <1>8, <2>2 DEF IsNewest
  <2>5. CASE r.manual
    <3>1. new.category = r.category /\ ~(c.ts < e.ts) BY <1>9, <2>1, <2>3, <2>5
    <3>2. IsNewest(c, Told(A)) BY <1>6, <1>8, <2>2, <2>4, <3>1 DEF IsNewest, Told
    <3> HIDE DEF kept, A, r
    <3>3. QED BY <1>9, <2>2, <3>1, <3>2 DEF RowShows, ShowsNewest
  <2>6. CASE ~r.manual
    <3>1. new.category = e.data.category /\ c.ts < e.ts BY <1>9, <2>1, <2>3, <2>6
    <3>2. IsNewest(e, Told(A)) BY <1>6, <1>8, <2>2, <2>4, <3>1 DEF IsNewest, Told
    <3> HIDE DEF kept, A, r
    <3>3. QED BY <1>9, <3>1, <3>2 DEF RowShows, ShowsNewest
  <2>7. QED BY <2>5, <2>6
<1> HIDE DEF kept, A, r, newest
<1>12. ASSUME NEW u \in Transactions
       PROVE  /\ RowOK(rows'[u], About("transaction", u))
              /\ u \notin crossed' => /\ RowShows(rows'[u], About("transaction", u))
                                      /\ DocShows(docs[u], Seen("transaction", u))
  <2>1. crossed \subseteq crossed' BY <1>2
  <2>2. u \notin crossed' => DocShows(docs[u], Seen("transaction", u))
    BY <2>1 DEF CategoryInv
  <2>3. CASE u = t BY <1>5, <1>10, <1>11, <2>2, <2>3 DEF A
  <2>4. CASE u # t BY <1>5, <2>1, <2>2, <2>4 DEF CategoryInv
  <2>5. QED BY <2>3, <2>4
<1>13. QED BY <1>3, <1>5, <1>7, <1>12 DEF CategoryInv

(* The steps that leave the rows alone. *)
LEMMA DocsShow ==
  ASSUME CategoryInv, UNCHANGED <<history, rows>>, crossed \subseteq crossed',
         \A t \in Transactions : DocShows(docs[t], Seen("transaction", t)) /\ t \notin crossed' =>
                                 DocShows(docs'[t], Seen("transaction", t)')
  PROVE  CategoryInv'
<1>1. \A k, i : About(k, i)' = About(k, i) BY DEF About, Among
<1>2. \A t \in Transactions : t \notin crossed' =>
        /\ RowShows(rows[t], About("transaction", t))
        /\ DocShows(docs'[t], Seen("transaction", t)')
  BY DEF CategoryInv
<1>3. QED BY <1>1, <1>2 DEF CategoryInv

LEMMA WorkersShow ==
  ASSUME CategoryInv,
         \/ RepublishAcked \/ HandlerFails \/ WorkerCrashes \/ NameLookedUp \/ DocumentRead
         \/ EmbeddingRetried \/ EmbeddingIgnored \/ BackfillReads \/ EmbeddingToolReads
         \/ _backfill_entity
  PROVE  CategoryInv'
<1>1. UNCHANGED <<history, rows, crossed, docs, seen>>
  BY DEF RepublishAcked, HandlerFails, WorkerCrashes, NameLookedUp, DocumentRead,
         EmbeddingRetried, EmbeddingIgnored, BackfillReads, EmbeddingToolReads, ToolReads,
         _backfill_entity
<1>2. QED BY <1>1, SeenKept, DocsShow

LEMMA EntityHandlersShow ==
  ASSUME ProjectionInv, CategoryInv,
         \/ handle_category \/ handle_subcategory \/ AccountProjected \/ GoalProjected
  PROVE  CategoryInv'
<1>1. UNCHANGED <<history, rows, crossed, docs>>
  BY DEF handle_category, handle_subcategory, TaxonomyUpserted, AccountProjected, GoalProjected
<1>2. PICK q, m : /\ seen' = seen \cup {m.ts} /\ q \in {"taxonomy", "accounts", "goals"}
                  /\ m \in queue[q]
  BY DEF handle_category, handle_subcategory, TaxonomyUpserted, AccountProjected, GoalProjected
<1>3. history[m.ts].of # "transaction"
  BY <1>2, QueueNames, BoundTo DEF ProjectionInv, QueuesOK
<1>4. \A t : Seen("transaction", t)' = Seen("transaction", t) BY <1>1, <1>2, <1>3, SeenGrows
<1>5. QED BY <1>1, <1>4, DocsShow

LEMMA TransactionShows ==
  ASSUME ProjectionInv, CategoryInv, NEW n \in DOMAIN history, history[n].of = "transaction",
         UNCHANGED <<history, rows>>, seen' = seen \cup {n}, crossed \subseteq crossed',
         NEW new, docs' = [docs EXCEPT ![history[n].id] = new],
         LET id == history[n].id
             S == Seen("transaction", id)
         IN  id \in Transactions /\ id \notin crossed' /\ DocShows(docs[id], S) =>
               DocShows(new, S \cup {history[n]})
  PROVE  CategoryInv'
<1> DEFINE id == history[n].id
<1>1. ASSUME NEW t \in Transactions, DocShows(docs[t], Seen("transaction", t)), t \notin crossed'
      PROVE  DocShows(docs'[t], Seen("transaction", t)')
  <2>1. CASE t = id
    <3>1. docs'[t] = new BY <2>1 DEF ProjectionInv, DocsOK
    <3>2. Seen("transaction", t)' = Seen("transaction", t) \cup {history[n]}
      BY <2>1, SeenGrows
    <3>3. QED BY <1>1, <2>1, <3>1, <3>2
  <2>2. CASE t # id
    <3>1. docs'[t] = docs[t] BY <2>2 DEF ProjectionInv, DocsOK
    <3>2. Seen("transaction", t)' = Seen("transaction", t) BY <2>2, SeenGrows
    <3>3. QED BY <1>1, <3>1, <3>2
  <2>3. QED BY <2>1, <2>2
<1>2. QED BY <1>1, DocsShow

LEMMA TransactionHandlersShow ==
  ASSUME ProjectionInv, CategoryInv,
         handle_created_or_updated \/ handle_categorized \/ handle_deleted
  PROVE  CategoryInv'
<1>0. ASSUME NEW n \in DOMAIN history
      PROVE  /\ history[n].ts = n
             /\ history[n].id \in Transactions =>
                  DocOK(docs[history[n].id], Seen("transaction", history[n].id))
             /\ Stamped(Seen("transaction", history[n].id) \cup {history[n]})
  BY SeenIsStamped DEF ProjectionInv, EventOK, DocsOK, Stamped
<1>1. ASSUME NEW m \in queue["transactions"]
      PROVE  m.ts \in DOMAIN history /\ history[m.ts].of = "transaction"
  BY <1>1, BoundTo, QueueNames DEF ProjectionInv, QueuesOK
<1>2. CASE handle_created_or_updated
  <2> DEFINE w == working["transactions"]
             n == w.message.ts
             e == history[n]
             new == _CORE_SCRIPT(docs[e.id], e.data, w.name, e.ts)
  <2>1. /\ n \in DOMAIN history /\ e.of = "transaction"
        /\ e.type \in {"created", "updated"}
    <3>1. w.state = "named" BY <1>2 DEF handle_created_or_updated
    <3>2. QED BY <3>1 DEF ProjectionInv, WorkingOK
  <2>2. /\ docs' = [docs EXCEPT ![e.id] = new] /\ seen' = seen \cup {n}
        /\ UNCHANGED <<history, rows, crossed>>
    BY <1>2, <1>0, <2>1 DEF handle_created_or_updated, WrittenBy, upsert_core
  <2>3. LET S == Seen("transaction", e.id) IN
          e.id \in Transactions /\ DocShows(docs[e.id], S) => DocShows(new, S \cup {e})
    BY <2>1, <1>0, CoreEventShows
  <2> HIDE DEF new
  <2>4. QED BY <2>1, <2>2, <2>3, TransactionShows
<1>3. CASE handle_categorized
  <2>1. PICK m \in queue["transactions"] :
          LET e == history[m.ts] IN
          /\ e.type = "categorized"
          /\ WrittenBy(e, apply_categorization(e.id, e.data, e.ts))
          /\ crossed' = IF docs[e.id].core_event_ts > e.ts THEN crossed \cup {e.id} ELSE crossed
          /\ UNCHANGED <<history, rows>>
    BY <1>3 DEF handle_categorized
  <2> DEFINE e == history[m.ts]
             new == _CATEGORIZATION_SCRIPT(docs[e.id], e.data, e.ts)
  <2>2. /\ docs' = [docs EXCEPT ![e.id] = new] /\ seen' = seen \cup {m.ts}
    BY <1>0, <1>1, <2>1 DEF WrittenBy, apply_categorization
  <2>3. crossed \subseteq crossed' /\ (e.id \notin crossed' => ~(docs[e.id].core_event_ts > e.ts))
    BY <2>1
  <2>4. LET S == Seen("transaction", e.id) IN
          e.id \in Transactions /\ e.id \notin crossed' /\ DocShows(docs[e.id], S) =>
            DocShows(new, S \cup {e})
    BY <2>1, <2>3, <1>0, <1>1, CategorizedEventShows
  <2> HIDE DEF new
  <2>5. QED BY <1>1, <2>1, <2>2, <2>3, <2>4, TransactionShows
<1>4. CASE handle_deleted
  <2>1. PICK m \in queue["transactions"] :
          LET e == history[m.ts] IN
          /\ WrittenBy(e, mark_deleted(e.id, e.ts))
          /\ UNCHANGED <<history, rows, crossed>>
    BY <1>4 DEF handle_deleted
  <2> DEFINE e == history[m.ts]
             new == _DELETE_SCRIPT(docs[e.id], e.ts)
  <2>2. /\ docs' = [docs EXCEPT ![e.id] = new] /\ seen' = seen \cup {m.ts}
    BY <1>0, <1>1, <2>1 DEF WrittenBy, mark_deleted
  <2>3. e.id \in Transactions => new.is_deleted
    BY <1>0, <1>1, DeleteScript DEF DocOK, Whole
  <2> HIDE DEF new
  <2>4. QED BY <1>1, <2>1, <2>2, <2>3, TransactionShows DEF DocShows
<1>5. QED BY <1>2, <1>3, <1>4

LEMMA RewritesShow ==
  ASSUME ProjectionInv, CategoryInv,
         RenamePropagated \/ VectorWritten \/ EmbeddingToolWrites \/ _backfill_transactions
  PROVE  CategoryInv'
<1>0. /\ \A t \in Transactions : /\ Whole(docs[t]) /\ DocOK(docs[t], Seen("transaction", t))
                                 /\ Stamped(Seen("transaction", t))
      /\ docs = [t \in Transactions |-> docs[t]]
  BY SeenIsStamped DEF ProjectionInv, DocsOK, DocOK, Whole
<1>1. UNCHANGED <<history, rows, crossed, seen>>
  BY DEF RenamePropagated, VectorWritten, EmbeddingToolWrites, _backfill_transactions
<1>2. ASSUME \A t \in Transactions : docs'[t] = docs[t] \/ Kept(docs'[t], docs[t])
      PROVE  CategoryInv'
  <2>1. \A t \in Transactions : DocShows(docs[t], Seen("transaction", t)) =>
                                DocShows(docs'[t], Seen("transaction", t))
    BY <1>2 DEF DocShows, Kept, SameCategory
  <2>2. QED BY <1>1, <2>1, SeenKept, DocsShow
<1>3. CASE RenamePropagated
  <2> DEFINE w == working["taxonomy"]
             e == history[w.message.ts]
             category(t) == [docs[t] EXCEPT !.category_name = e.data]
             subcategory(t) == [docs[t] EXCEPT !.subcategory_name = e.data]
  <2>1. \/ docs' = propagate_category_rename(e.id, e.data)
        \/ docs' = propagate_subcategory_rename(e.id, e.data)
    BY <1>3 DEF RenamePropagated
  <2>2. \A t \in Transactions : docs'[t] \in {docs[t], category(t), subcategory(t)}
    <3>1. CASE docs' = propagate_category_rename(e.id, e.data)
      BY <3>1 DEF propagate_category_rename
    <3>2. CASE docs' = propagate_subcategory_rename(e.id, e.data)
      BY <3>2 DEF propagate_subcategory_rename
    <3>3. QED BY <2>1, <3>1, <3>2
  <2>3. \A t \in Transactions : Kept(category(t), docs[t]) /\ Kept(subcategory(t), docs[t])
    BY <1>0, OtherScripts
  <2> HIDE DEF category, subcategory
  <2>4. QED BY <1>2, <2>2, <2>3
<1>4. ASSUME NEW t, NEW x, NEW ts, docs' = update_embedding(t, x, ts)
      PROVE  CategoryInv'
  <2>1. \A u \in Transactions : docs'[u] = docs[u] \/ docs'[u] = _EMBEDDING_SCRIPT(docs[u], x, ts)
    BY <1>0, <1>4 DEF update_embedding
  <2>2. \A u \in Transactions : Kept(_EMBEDDING_SCRIPT(docs[u], x, ts), docs[u])
    BY <1>0, OtherScripts
  <2>3. QED BY <1>2, <2>1, <2>2
<1>5. CASE VectorWritten \/ EmbeddingToolWrites
  BY <1>4, <1>5 DEF VectorWritten, EmbeddingToolWrites
<1>6. CASE _backfill_transactions
  <2>1. docs' = upsert_core(tool.id, tool.row, tool.row.subcategory_name, BACKFILL_EVENT_TS)
    BY <1>6 DEF _backfill_transactions
  <2>2. \A t \in Transactions :
          \/ docs'[t] = docs[t]
          \/ docs'[t] = _CORE_SCRIPT(docs[t], tool.row, tool.row.subcategory_name,
                                     BACKFILL_EVENT_TS)
    BY <1>0, <2>1 DEF upsert_core
  <2>3. \A t \in Transactions : DocShows(docs[t], Seen("transaction", t)) =>
                                DocShows(docs'[t], Seen("transaction", t))
    BY <1>0, <2>2, BackfillShows
  <2>4. QED BY <1>1, <2>3, SeenKept, DocsShow
<1>7. QED BY <1>3, <1>5, <1>6

LEMMA InitCategory == ProjectionInit => CategoryInv
<1> SUFFICES ASSUME ProjectionInit PROVE CategoryInv OBVIOUS
<1>1. \A k, i : Seen(k, i) = {} /\ About(k, i) = {} BY DEF ProjectionInit, Seen, About, Among
<1>2. /\ RowOK(NoRow, {}) /\ RowShows(NoRow, {}) /\ \A doc : DocShows(doc, {})
  BY DEF RowOK, RowShows, DocShows, ShowsNewest, Told, CoreAmong, CategorizedAmong, NoRow
<1>3. QED BY <1>1, <1>2 DEF ProjectionInit, CategoryInv

LEMMA NextCategory ==
  /\ ProjectionInv /\ DeliveryInv /\ CategoryInv /\ [ProjectionNext]_projectionVars
  => CategoryInv'
<1> SUFFICES ASSUME ProjectionInv, DeliveryInv, CategoryInv, [ProjectionNext]_projectionVars
             PROVE  CategoryInv'
  OBVIOUS
<1>1. CASE UNCHANGED projectionVars
  <2>1. UNCHANGED <<history, rows, crossed, docs, seen>> BY <1>1 DEF projectionVars
  <2>2. QED BY <2>1, SeenKept, DocsShow
<1>2. QED BY <1>1, ProducersShow, OwnerShows, WorkersShow, TransactionHandlersShow,
            EntityHandlersShow, RewritesShow DEF ProjectionNext

THEOREM CategoryInvariance == ProjectionSpec => []CategoryInv
<1>1. QED BY InitCategory, NextCategory, ProjectionInvariance, DeliveryInvariance, PTL
        DEF ProjectionSpec

LEMMA InvReconciles == ProjectionInv /\ DeliveryInv /\ CategoryInv => Reconciles
<1> SUFFICES ASSUME ProjectionInv, DeliveryInv, CategoryInv, Quiet, OwnerQuiet
             PROVE  reconcile(Uncrossed(load_postgres), Uncrossed(load_elasticsearch))
  BY DEF Reconciles
<1> DEFINE All(t) == About("transaction", t)
           Live == {x \in Transactions : Alive("transaction", x)}
<1>1. \A n \in DOMAIN history : history[n].of = "transaction" => n \in seen
  BY QueueNames DEF Quiet, DeliveryInv, NoneLost
<1>2. \A t : Seen("transaction", t) = All(t)
  BY <1>1 DEF Seen, About, Among, ProjectionInv, HistoryOK
<1>3. \A t \in Transactions : Alive("transaction", t) <=> docs[t].exists /\ ~docs[t].is_deleted
  <2>1. SUFFICES ASSUME NEW t \in Transactions
                 PROVE  Alive("transaction", t) <=> docs[t].exists /\ ~docs[t].is_deleted
    OBVIOUS
  <2>2. (All(t) # {} => docs[t].exists) /\ (docs[t].is_deleted <=> Deleted(All(t)))
    BY <1>2 DEF ProjectionInv, DocsOK, DocOK
  <2>3. docs[t].exists => All(t) # {} BY DEF DeliveryInv, Happened
  <2>4. QED BY <2>2, <2>3 DEF Alive, Deleted
<1> DEFINE Latest(t) == NewestOf(CoreAmong(All(t)))
<1>4. ASSUME NEW t \in Live PROVE docs[t].core = Latest(t).data.core
  <2>1. CoreAmong(All(t)) # {} BY DEF DeliveryInv, Happened, Alive
  <2>2. ~docs[t].is_deleted BY <1>3
  <2>3. QED BY <1>2, <2>1, <2>2, InvNewest DEF NewestWins, TransactionsNewest
<1>5. ASSUME NEW t \in Live, t \notin crossed PROVE docs[t].category = rows[t].category
  <2>0. /\ HistoryOK
        /\ \A f \in Told(All(t)) : f = history[f.ts] /\ f.ts \in Nat
    BY SeenIsStamped DEF ProjectionInv, EventOK, Told, CoreAmong, CategorizedAmong, About, Among
  <2>1. /\ ~docs[t].is_deleted /\ CoreAmong(All(t)) # {}
        /\ CoreAmong(All(t)) \subseteq Told(All(t))
    BY <1>3 DEF DeliveryInv, Happened, Alive, Told
  <2>2. PICK e : IsNewest(e, Told(All(t))) /\ docs[t].category = e.data.category
    BY <1>2, <1>5, <2>1 DEF CategoryInv, DocShows, ShowsNewest
  <2>3. PICK f : IsNewest(f, Told(All(t))) /\ rows[t].category = f.data.category
    <3>1. RowOK(rows[t], All(t)) /\ RowShows(rows[t], All(t)) BY <1>5 DEF CategoryInv
    <3>2. CASE rows[t].categorized BY <2>1, <3>1, <3>2 DEF RowShows, ShowsNewest
    <3>3. CASE ~rows[t].categorized
      <4>1. CategorizedAmong(All(t)) = {} BY <3>3 DEF OwnerQuiet
      <4>2. Told(All(t)) = CoreAmong(All(t)) BY <4>1 DEF Told
      <4>3. QED BY <2>1, <3>1, <3>3, <4>2 DEF RowShows, ShowsNewest
    <3>4. QED BY <3>2, <3>3
  <2>4. e = f
    <3> HIDE DEF All
    <3>1. NewestOf(Told(All(t))) = e BY <2>0, <2>2, NewestIs
    <3>2. NewestOf(Told(All(t))) = f BY <2>0, <2>3, NewestIs
    <3>3. QED BY <3>1, <3>2
  <2>5. QED BY <2>2, <2>3, <2>4
<1> HIDE DEF Latest
<1> DEFINE Cut(f) == IF f.transaction_id \in crossed THEN [f EXCEPT !.category_id = 0] ELSE f
           source(t) == TransactionFact(t, Latest(t).data.core, rows[t].category)
           shown(t) == TransactionFact(t, docs[t].core, docs[t].category)
<1>6. ASSUME NEW t \in Live PROVE Cut(source(t)) = Cut(shown(t))
  <2>1. source(t).transaction_id = t /\ shown(t).transaction_id = t BY DEF TransactionFact
  <2>2. CASE t \in crossed
    <3>1. [source(t) EXCEPT !.category_id = 0] = [shown(t) EXCEPT !.category_id = 0]
      BY <1>4 DEF TransactionFact
    <3>2. QED BY <2>1, <2>2, <3>1
  <2>3. CASE t \notin crossed BY <1>4, <1>5, <2>3
  <2>4. QED BY <2>2, <2>3
<1>7. load_postgres = {source(t) : t \in Live} BY DEF load_postgres, Latest
<1>8. load_elasticsearch = {shown(t) : t \in Live} BY <1>3 DEF load_elasticsearch
<1> HIDE DEF source, shown, Live
<1>9. /\ Uncrossed(load_postgres) = {Cut(source(t)) : t \in Live}
      /\ Uncrossed(load_elasticsearch) = {Cut(shown(t)) : t \in Live}
  <2>1. \A F : Uncrossed(F) = {Cut(f) : f \in F} BY DEF Uncrossed
  <2> HIDE DEF Cut
  <2>2. QED BY <1>7, <1>8, <2>1
<1> HIDE DEF Cut
<1>10. Uncrossed(load_postgres) = Uncrossed(load_elasticsearch) BY <1>6, <1>9
<1>11. QED BY <1>10 DEF reconcile

(* A message leaves its queue only once its event is applied, republished   *)
(* or given up, and the backfill tool copies only what the owner has: when  *)
(* every queue is empty and nothing was given up, reconciling the owner's   *)
(* live rows with the live documents finds the same transactions with the   *)
(* same facts.  The category is one of them, except of a transaction whose  *)
(* categorisation and edit crossed, on which the two services settle        *)
(* differently.                                                             *)
THEOREM NothingToReconcile == ProjectionSpec => []Reconciles
BY ProjectionInvariance, DeliveryInvariance, CategoryInvariance, InvReconciles, PTL

-----------------------------------------------------------------------------
(* The vectors follow: the third invariant.  Of a document that never       *)
(* changed unnoticed, updated_at names the event that wrote it last; as     *)
(* long as the vector is not of that moment, the embedding worker still     *)
(* has that event's message, and what a worker or the tool has read is the  *)
(* text as it was at the moment it read as well.                            *)

Pending(n) == \/ \E m \in queue["embeddings"] : m.ts = n
              \/ <<"embeddings", n>> \in dead

(* Something is to be embedded by an event of transaction t. *)
Embeds(n, t) ==
  /\ n \in DOMAIN history
  /\ history[n].of = "transaction" /\ history[n].id = t /\ history[n].type # "deleted"

VectorOK(t) ==
  LET doc == docs[t] IN
  /\ doc.updated_at \in Nat /\ doc.embedding_event_ts \in Int
  /\ doc.embedding_event_ts <= doc.updated_at
  /\ doc.embedding_event_ts = doc.updated_at => doc.vector = build_embedding_text(doc)
  /\ Seen("transaction", t) = {} => doc.updated_at = 0
  /\ Seen("transaction", t) # {} =>
       /\ Embeds(doc.updated_at, t)
       /\ doc.embedding_event_ts = doc.updated_at \/ Pending(doc.updated_at)
  /\ \A n \in DOMAIN history : Embeds(n, t) /\ n > doc.updated_at => Pending(n)

Watched(t) == t \in Transactions /\ t \notin behind /\ ~docs[t].is_deleted

(* What was read of t when its updated_at was at. *)
ReadOK(t, text, at) ==
  Watched(t) => /\ at \in Nat /\ at <= docs[t].updated_at
                /\ at = docs[t].updated_at => text = build_embedding_text(docs[t])

EmbeddingInv ==
  /\ \A t \in Transactions : Watched(t) => VectorOK(t)
  /\ working["embeddings"].state = "read" =>
       LET w == working["embeddings"]
           n == w.message.ts IN
       /\ n \in DOMAIN history /\ history[n].of = "transaction"
       /\ Watched(history[n].id) => n <= w.updated_at
       /\ ReadOK(history[n].id, w.text, w.updated_at)
  /\ tool # Idle /\ tool.state = "vector" => ReadOK(tool.id, tool.row, tool.updated_at)

(* A step that leaves what the embedding worker can see of t, and one that *)
(* moves the document on to a newer event.                                 *)
Still(t) ==
  /\ docs'[t].updated_at = docs[t].updated_at
  /\ docs'[t].vector = docs[t].vector
  /\ docs'[t].embedding_event_ts = docs[t].embedding_event_ts
  /\ build_embedding_text(docs'[t]) = build_embedding_text(docs[t])
  /\ Seen("transaction", t)' = {} <=> Seen("transaction", t) = {}

Moved(t) ==
  /\ docs'[t].updated_at > docs[t].updated_at
  /\ docs'[t].vector = docs[t].vector
  /\ docs'[t].embedding_event_ts = docs[t].embedding_event_ts
  /\ Seen("transaction", t)' # {}
  /\ Embeds(docs'[t].updated_at, t)

(* The messages that matter to t are still there. *)
StillPending(t) == \A n \in DOMAIN history : Embeds(n, t) /\ Pending(n) => Pending(n)'

LEMMA VectorKept ==
  ASSUME ProjectionInv, NEW t, VectorOK(t), history' = history, Still(t) \/ Moved(t),
         StillPending(t)
  PROVE  VectorOK(t)'
<1>1. \A n : Embeds(n, t)' <=> Embeds(n, t) BY DEF Embeds
<1>2. \A n \in DOMAIN history : n \in Nat /\ n >= 1 BY SeenIsStamped DEF ProjectionInv
<1>3. CASE Still(t)
  <2>1. (/\ docs[t].updated_at \in Nat /\ docs[t].embedding_event_ts \in Int
         /\ docs[t].embedding_event_ts <= docs[t].updated_at
         /\ docs[t].embedding_event_ts = docs[t].updated_at =>
              docs[t].vector = build_embedding_text(docs[t])
         /\ Seen("transaction", t) = {} => docs[t].updated_at = 0)'
    BY <1>3 DEF VectorOK, Still
  <2>2. ASSUME Seen("transaction", t)' # {}
        PROVE  (/\ Embeds(docs[t].updated_at, t)
                /\ \/ docs[t].embedding_event_ts = docs[t].updated_at
                   \/ Pending(docs[t].updated_at))'
    <3>1. Embeds(docs[t].updated_at, t) BY <1>3, <2>2 DEF VectorOK, Still
    <3>2. \/ docs[t].embedding_event_ts = docs[t].updated_at
          \/ Pending(docs[t].updated_at)
      BY <1>3, <2>2 DEF VectorOK, Still
    <3>3. PICK n \in DOMAIN history : n = docs[t].updated_at BY <3>1 DEF Embeds
    <3>4. docs'[t].updated_at = n BY <1>3, <3>3 DEF Still
    <3>5. Embeds(n, t)' BY <3>1, <3>3, <1>1
    <3>6. docs'[t].embedding_event_ts = n \/ Pending(n)'
      BY <1>3, <3>1, <3>2, <3>3 DEF Still, StillPending
    <3>7. QED BY <3>4, <3>5, <3>6 DEF Embeds, Pending
  <2>3. \A n \in DOMAIN history' : Embeds(n, t)' /\ n > docs'[t].updated_at => Pending(n)'
    BY <1>1, <1>3 DEF VectorOK, Still, StillPending
  <2>4. QED BY <2>1, <2>2, <2>3 DEF VectorOK
<1>4. CASE Moved(t)
  <2>1. PICK n \in DOMAIN history : n = docs'[t].updated_at BY <1>4 DEF Moved, Embeds
  <2>2. n \in Nat /\ n > docs[t].updated_at /\ Embeds(n, t) BY <1>2, <1>4, <2>1 DEF Moved
  <2>3. Pending(n)' BY <2>2 DEF VectorOK, StillPending
  <2>4. docs[t].updated_at \in Nat /\ docs[t].embedding_event_ts \in Int
        /\ docs[t].embedding_event_ts <= docs[t].updated_at
    BY DEF VectorOK
  <2>5. (/\ docs[t].updated_at \in Nat /\ docs[t].embedding_event_ts \in Int
         /\ docs[t].embedding_event_ts <= docs[t].updated_at
         /\ docs[t].embedding_event_ts # docs[t].updated_at
         /\ Seen("transaction", t) # {})'
    BY <1>4, <2>1, <2>2, <2>4 DEF Moved
  <2>6. (Embeds(docs[t].updated_at, t) /\ Pending(docs[t].updated_at))'
    <3>1. Embeds(n, t)' /\ Pending(n)' BY <1>1, <2>2, <2>3
    <3>2. QED BY <2>1, <3>1 DEF Embeds, Pending
  <2>7. \A k \in DOMAIN history' : Embeds(k, t)' /\ k > docs'[t].updated_at => Pending(k)'
    <3>1. \A k \in DOMAIN history : k > n => k > docs[t].updated_at
      BY <1>2, <2>2, <2>4
    <3>2. QED BY <1>1, <2>1, <3>1 DEF VectorOK, StillPending
  <2>8. QED BY <2>5, <2>6, <2>7 DEF VectorOK
<1>5. QED BY <1>3, <1>4

(* A text that was read is still of its moment: the document says the same  *)
(* or has moved on.                                                         *)
TextKept(t) ==
  \/ /\ docs'[t].updated_at = docs[t].updated_at
     /\ build_embedding_text(docs'[t]) = build_embedding_text(docs[t])
  \/ docs'[t].updated_at > docs[t].updated_at

LEMMA ReadKept ==
  ASSUME NEW t, NEW text, NEW at, ReadOK(t, text, at),
         Watched(t)' => /\ Watched(t) /\ TextKept(t)
                        /\ docs[t].updated_at \in Nat /\ docs'[t].updated_at \in Nat
  PROVE  ReadOK(t, text, at)'
BY DEF ReadOK, Watched, TextKept

(* The vector of what was read is stored. *)
LEMMA VectorStored ==
  ASSUME ProjectionInv, NEW t, VectorOK(t), Whole(docs[t]),
         history' = history, Seen("transaction", t)' = Seen("transaction", t),
         Seen("transaction", t) # {} => docs[t].exists, ~docs[t].is_deleted,
         NEW text, NEW at, at \in Nat, at <= docs[t].updated_at,
         at = docs[t].updated_at => text = build_embedding_text(docs[t]),
         docs'[t] = _EMBEDDING_SCRIPT(docs[t], text, at),
         \A k \in DOMAIN history : k > at /\ Pending(k) => Pending(k)'
  PROVE  VectorOK(t)' /\ TextKept(t)
<1> DEFINE doc == docs[t]
           new == docs'[t]
<1>1. \A n : Embeds(n, t)' <=> Embeds(n, t) BY DEF Embeds
<1>2. \A n \in DOMAIN history : n \in Nat /\ n >= 1 BY SeenIsStamped DEF ProjectionInv
<1>3. /\ new.updated_at = doc.updated_at
      /\ build_embedding_text(new) = build_embedding_text(doc)
  BY DEF _EMBEDDING_SCRIPT, build_embedding_text, Whole, Fields
<1>4. \/ /\ new = doc
         /\ ~doc.exists \/ at < doc.embedding_event_ts
      \/ new.vector = text /\ new.embedding_event_ts = at /\ ~(at < doc.embedding_event_ts)
  BY DEF _EMBEDDING_SCRIPT, Whole, Fields
<1> HIDE DEF doc, new
<1>5. /\ doc.updated_at \in Nat /\ doc.embedding_event_ts \in Int
      /\ doc.embedding_event_ts <= doc.updated_at
      /\ doc.embedding_event_ts = doc.updated_at => doc.vector = build_embedding_text(doc)
      /\ Seen("transaction", t) = {} => doc.updated_at = 0
      /\ Seen("transaction", t) # {} =>
           /\ Embeds(doc.updated_at, t)
           /\ doc.embedding_event_ts = doc.updated_at \/ Pending(doc.updated_at)
      /\ \A n \in DOMAIN history : Embeds(n, t) /\ n > doc.updated_at => Pending(n)
  BY DEF VectorOK, doc
<1>6. at \in Nat /\ at <= doc.updated_at
      /\ (at = doc.updated_at => text = build_embedding_text(doc))
      /\ (Seen("transaction", t) # {} => doc.exists)
  BY DEF doc
<1>7. /\ new.updated_at \in Nat /\ new.embedding_event_ts \in Int
      /\ new.embedding_event_ts <= new.updated_at
      /\ new.embedding_event_ts = new.updated_at => new.vector = build_embedding_text(new)
      /\ Seen("transaction", t) = {} => new.updated_at = 0
  BY <1>3, <1>4, <1>5, <1>6
<1>8. ASSUME Seen("transaction", t) # {}
      PROVE  \E n \in DOMAIN history : /\ n = new.updated_at /\ Embeds(n, t)
                                       /\ new.embedding_event_ts = n \/ Pending(n)'
  <2>1. PICK n \in DOMAIN history : n = doc.updated_at BY <1>5, <1>8 DEF Embeds
  <2>2. Embeds(n, t) /\ (doc.embedding_event_ts = n \/ Pending(n)) BY <1>5, <1>8, <2>1
  <2>3. CASE at = n /\ new.embedding_event_ts = at BY <1>3, <2>1, <2>2, <2>3
  <2>4. CASE ~(at = n /\ new.embedding_event_ts = at)
    <3>1. at < n \/ at < doc.embedding_event_ts BY <1>4, <1>5, <1>6, <1>8, <2>1, <2>4
    <3>2. at < n BY <1>5, <1>6, <2>1, <3>1
    <3>3. new.embedding_event_ts = n \/ Pending(n)
      BY <1>4, <1>5, <1>6, <2>1, <2>2, <3>2
    <3>4. new.embedding_event_ts = n \/ Pending(n)' BY <1>2, <3>2, <3>3
    <3>5. new.updated_at = n BY <1>3, <2>1
    <3>6. QED BY <2>2, <3>4, <3>5
  <2>5. QED BY <2>3, <2>4
<1>9. \A n \in DOMAIN history' : Embeds(n, t)' /\ n > new.updated_at => Pending(n)'
  BY <1>1, <1>2, <1>3, <1>5, <1>6
<1>10. VectorOK(t)'
  <2>1. (Seen("transaction", t) # {} =>
           /\ Embeds(docs[t].updated_at, t)
           /\ docs[t].embedding_event_ts = docs[t].updated_at \/ Pending(docs[t].updated_at))'
    <3>1. SUFFICES ASSUME Seen("transaction", t)' # {}
                   PROVE  (/\ Embeds(docs[t].updated_at, t)
                           /\ \/ docs[t].embedding_event_ts = docs[t].updated_at
                              \/ Pending(docs[t].updated_at))'
      OBVIOUS
    <3>2. Seen("transaction", t) # {} BY <3>1
    <3>3. PICK n \in DOMAIN history : /\ n = new.updated_at /\ Embeds(n, t)
                                      /\ new.embedding_event_ts = n \/ Pending(n)'
      BY <1>8, <3>2
    <3>4. QED BY <3>3 DEF new, Embeds, Pending
  <2>2. QED BY <1>7, <1>9, <2>1 DEF VectorOK, new
<1>11. QED BY <1>3, <1>10 DEF TextKept, doc, new

-----------------------------------------------------------------------------
(* The steps that write no vector *)

(* The embedding worker reads no text in this step. *)
NoTextRead ==
  working'["embeddings"].state = "read" => working'["embeddings"] = working["embeddings"]

(* What a step does to the documents and messages of those still watched. *)
WatchedKept ==
  \A t \in Transactions :
    Watched(t)' => Watched(t) /\ (Still(t) \/ Moved(t)) /\ StillPending(t)

LEMMA EmbeddingKept ==
  ASSUME ProjectionInv, EmbeddingInv, history' = history, WatchedKept,
         NoTextRead,
         tool' = tool \/ tool' = Idle \/ tool'.state # "vector"
  PROVE  EmbeddingInv'
<1>1. \A t \in Transactions : Watched(t)' => VectorOK(t)'
  BY VectorKept DEF EmbeddingInv, WatchedKept
<1>2. ASSUME NEW t
      PROVE  Watched(t)' => /\ Watched(t) /\ TextKept(t)
                            /\ docs[t].updated_at \in Nat /\ docs'[t].updated_at \in Nat
                            /\ docs[t].updated_at <= docs'[t].updated_at
  <2>1. SUFFICES ASSUME Watched(t)'
                 PROVE  /\ Watched(t) /\ TextKept(t)
                        /\ docs[t].updated_at \in Nat /\ docs'[t].updated_at \in Nat
                        /\ docs[t].updated_at <= docs'[t].updated_at
    OBVIOUS
  <2>2. t \in Transactions BY <2>1 DEF Watched
  <2>3. Watched(t) /\ (Still(t) \/ Moved(t)) BY <2>1, <2>2 DEF WatchedKept
  <2>4. VectorOK(t) /\ VectorOK(t)' BY <1>1, <2>1, <2>2, <2>3 DEF EmbeddingInv
  <2>5. docs[t].updated_at \in Nat /\ docs'[t].updated_at \in Nat BY <2>4 DEF VectorOK
  <2>6. QED BY <2>3, <2>5 DEF Still, Moved, TextKept
<1>3. \A t, text, at : ReadOK(t, text, at) => ReadOK(t, text, at)' BY <1>2, ReadKept
<1>4. (working["embeddings"].state = "read" =>
         LET w == working["embeddings"]
             n == w.message.ts IN
         /\ n \in DOMAIN history /\ history[n].of = "transaction"
         /\ Watched(history[n].id) => n <= w.updated_at
         /\ ReadOK(history[n].id, w.text, w.updated_at))'
  <2> DEFINE w == working["embeddings"]
             n == w.message.ts
  <2>1. SUFFICES ASSUME working'["embeddings"].state = "read", w' = w
                 PROVE  (/\ n \in DOMAIN history /\ history[n].of = "transaction"
                         /\ Watched(history[n].id) => n <= w.updated_at
                         /\ ReadOK(history[n].id, w.text, w.updated_at))'
    BY DEF NoTextRead
  <2>2. PICK k, t, text, at : k = n /\ t = history[n].id /\ text = w.text /\ at = w.updated_at
    OBVIOUS
  <2>3. /\ n \in DOMAIN history /\ history[n].of = "transaction"
        /\ Watched(t) => k <= at
        /\ ReadOK(t, text, at)
    BY <2>1, <2>2 DEF EmbeddingInv
  <2>4. (Watched(t)' => k <= at) /\ ReadOK(t, text, at)' BY <2>3, <1>2, <1>3
  <2>5. w' = w /\ n' = n BY <2>1
  <2>6. (history[n].id)' = t /\ (w.text)' = text /\ (w.updated_at)' = at /\ n' = k
    BY <2>2, <2>5
  <2>7. (n \in DOMAIN history /\ history[n].of = "transaction")' BY <2>3, <2>5
  <2> HIDE DEF n, w
  <2>8. QED BY <2>4, <2>6, <2>7 DEF ReadOK, Watched
<1>5. (tool # Idle /\ tool.state = "vector" => ReadOK(tool.id, tool.row, tool.updated_at))'
  BY <1>3 DEF EmbeddingInv
<1>6. QED BY <1>1, <1>4, <1>5 DEF EmbeddingInv

(* A message is acknowledged, or comes back or is given up. *)
LEMMA AckedKeepsPending ==
  ASSUME QueuesOK, WorkingOK, NEW q \in Queues, NEW m, Acked(q, m), dead' = dead
  PROVE  /\ \A n : Pending(n) /\ (q = "embeddings" => n # m.ts \/ CopyWaits(q, m)) => Pending(n)'
         /\ NoTextRead
<1>0. "embeddings" \in Queues BY QueueNames
<1>1. CASE queue' = [queue EXCEPT ![q] = @ \ {m}] /\ working' = [working EXCEPT ![q] = Idle]
  <2>1. \A x \in queue["embeddings"] :
          x \in queue'["embeddings"] \/ (q = "embeddings" /\ x = m)
    BY <1>0, <1>1 DEF QueuesOK
  <2>2. NoTextRead
    BY <1>0, <1>1 DEF WorkingOK, NoTextRead, Idle
  <2>3. \A n : Pending(n) /\ (q = "embeddings" => n # m.ts \/ CopyWaits(q, m)) => Pending(n)'
    BY <1>0, <1>1, <2>1 DEF Pending, CopyWaits, QueuesOK
  <2>4. QED BY <2>2, <2>3
<1>2. CASE working' = StopProcess(q) /\ queue' = queue
  <2>1. working'["embeddings"] = Idle \/ working'["embeddings"] = working["embeddings"]
    BY <1>0, <1>2 DEF StopProcess
  <2>2. NoTextRead BY <2>1 DEF NoTextRead, Idle
  <2>3. QED BY <1>2, <2>2 DEF Pending
<1>3. QED BY <1>1, <1>2 DEF Acked

LEMMA RejectedKeepsPending ==
  ASSUME QueuesOK, WorkingOK, history' = history, NEW q \in Queues, NEW m \in queue[q],
         Rejected(q, m)
  PROVE  /\ \A n : Pending(n) => Pending(n)'
         /\ NoTextRead
<1>0. "embeddings" \in Queues BY QueueNames
<1>1. CASE /\ _republish(q, m) /\ UNCHANGED dead
           /\ working' = [working EXCEPT ![q] = [state |-> "republished", message |-> m]]
  <2> DEFINE w == [state |-> "republished", message |-> m]
  <2>1. queue["embeddings"] \subseteq queue'["embeddings"] BY <1>0, <1>1, MessageRepublished
  <2>2. \A n : Pending(n) => Pending(n)' BY <1>1, <2>1 DEF Pending
  <2>3. w.state # "read" OBVIOUS
  <2>4. working'["embeddings"] = w \/ working'["embeddings"] = working["embeddings"]
    BY <1>0, <1>1 DEF WorkingOK
  <2> HIDE DEF w
  <2>5. NoTextRead BY <2>3, <2>4 DEF NoTextRead
  <2>6. QED BY <2>2, <2>5
<1>2. CASE /\ queue' = [queue EXCEPT ![q] = @ \ {m}]
           /\ working' = [working EXCEPT ![q] = Idle]
           /\ dead' = dead \cup {<<q, m.ts>>}
  <2>1. \A x \in queue["embeddings"] :
          x \in queue'["embeddings"] \/ (q = "embeddings" /\ x = m)
    BY <1>0, <1>2 DEF QueuesOK
  <2>2. \A n : Pending(n) => Pending(n)' BY <1>2, <2>1 DEF Pending
  <2>3. NoTextRead BY <1>0, <1>2 DEF WorkingOK, NoTextRead, Idle
  <2>4. QED BY <2>2, <2>3
<1>3. QED BY <1>1, <1>2 DEF Rejected

LEMMA WorkersEmbed ==
  ASSUME ProjectionInv, EmbeddingInv,
         \/ CategorizedAtOwner \/ RepublishAcked \/ HandlerFails \/ WorkerCrashes
         \/ NameLookedUp \/ EmbeddingRetried \/ EmbeddingIgnored
  PROVE  EmbeddingInv'
<1>0. QueuesOK /\ WorkingOK /\ "embeddings" \in Queues BY QueueNames DEF ProjectionInv
<1>1. UNCHANGED <<history, docs, seen, behind, tool>>
  BY DEF CategorizedAtOwner, RepublishAcked, HandlerFails, WorkerCrashes, NameLookedUp, EmbeddingRetried, EmbeddingIgnored
<1>2. /\ \A t : Watched(t)' => Watched(t)
      /\ \A t : Seen("transaction", t)' = Seen("transaction", t)
  BY <1>1, SeenKept DEF Watched
<1>3. \A t : Still(t) BY <1>1, <1>2 DEF Still
<1>4. /\ \A t : Watched(t)' => StillPending(t)
      /\ NoTextRead
  <2>1. CASE HandlerFails \/ EmbeddingRetried
    <3>1. PICK q \in Queues : \E m \in queue[q] : Rejected(q, m)
      <4>1. CASE HandlerFails BY <4>1 DEF HandlerFails
      <4>2. CASE EmbeddingRetried
        <5>1. \E m \in queue["embeddings"] : Rejected("embeddings", m)
          BY <4>2 DEF EmbeddingRetried
        <5>2. QED BY <1>0, <5>1
      <4>3. QED BY <2>1, <4>1, <4>2
    <3>2. PICK m \in queue[q] : Rejected(q, m) BY <3>1
    <3>3. /\ \A n : Pending(n) => Pending(n)'
          /\ NoTextRead
      BY <1>0, <1>1, <3>2, RejectedKeepsPending DEF Rejected, _republish
    <3>4. QED BY <3>3 DEF StillPending
  <2>2. CASE EmbeddingIgnored
    <3>1. PICK m : /\ history[m.ts].type = "deleted" \/ docs[history[m.ts].id].is_deleted
                   /\ Acked("embeddings", m)
      BY <2>2 DEF EmbeddingIgnored
    <3>2. dead' = dead BY <2>2 DEF EmbeddingIgnored
    <3>3. /\ \A n : Pending(n) /\ n # m.ts => Pending(n)'
          /\ NoTextRead
      BY <1>0, <3>1, <3>2, AckedKeepsPending DEF Acked
    <3>4. \A t : Watched(t)' => ~Embeds(m.ts, t) BY <1>2, <3>1 DEF Watched, Embeds
    <3>5. QED BY <3>3, <3>4 DEF StillPending
  <2>3. CASE WorkerCrashes
    <3>1. PICK q \in Queues : working' = StopProcess(q) BY <2>3 DEF WorkerCrashes
    <3>2. UNCHANGED <<queue, dead>> BY <2>3 DEF WorkerCrashes
    <3>3. working'["embeddings"] = Idle \/ working'["embeddings"] = working["embeddings"]
      BY <1>0, <3>1 DEF StopProcess
    <3>4. NoTextRead BY <3>3 DEF NoTextRead, Idle
    <3>5. QED BY <3>2, <3>4 DEF StillPending, Pending
  <2>4. CASE NameLookedUp
    <3>1. PICK x : working' = [working EXCEPT !["transactions"] = x] BY <2>4 DEF NameLookedUp
    <3>2. UNCHANGED <<queue, dead>> BY <2>4 DEF NameLookedUp
    <3>3. QED BY <1>0, <3>1, <3>2 DEF WorkingOK, StillPending, Pending, NoTextRead
  <2>5. CASE RepublishAcked
    <3>1. PICK q \in Queues : /\ working[q].state = "republished"
                             /\ Acked(q, working[q].message)
      BY <2>5 DEF RepublishAcked
    <3>2. CopyWaits(q, working[q].message) BY <1>0, <3>1 DEF WorkingOK
    <3>3. dead' = dead BY <2>5 DEF RepublishAcked
    <3>4. (\A n : Pending(n) => Pending(n)') /\ NoTextRead
      BY <1>0, <3>1, <3>2, <3>3, AckedKeepsPending DEF Acked
    <3>5. QED BY <3>4 DEF StillPending
  <2>6. CASE CategorizedAtOwner
    BY <2>6 DEF CategorizedAtOwner, StillPending, Pending, NoTextRead
  <2>7. QED BY <2>1, <2>2, <2>3, <2>4, <2>5, <2>6
<1>5. WatchedKept BY <1>2, <1>3, <1>4 DEF WatchedKept
<1>6. QED BY <1>1, <1>4, <1>5, EmbeddingKept

(* What the scripts of the projectors leave to the embedding worker. *)
StampedAt(new, doc, ts) ==
  /\ new.updated_at = ts
  /\ new.vector = doc.vector /\ new.embedding_event_ts = doc.embedding_event_ts

LEMMA ScriptsStamp ==
  ASSUME NEW doc, Whole(doc), NEW p, NEW name, NEW ts
  PROVE  /\ \/ _CORE_SCRIPT(doc, p, name, ts) = doc
            \/ StampedAt(_CORE_SCRIPT(doc, p, name, ts), doc, ts)
         /\ \/ _CATEGORIZATION_SCRIPT(doc, p, ts) = doc
            \/ StampedAt(_CATEGORIZATION_SCRIPT(doc, p, ts), doc, ts)
<1> DEFINE written == [doc EXCEPT !.exists = TRUE, !.core = p.core, !.core_event_ts = ts,
                                  !.updated_at = ts]
           both == [written EXCEPT !.category = p.category, !.category_name = p.category_name,
                                   !.subcategory = p.subcategory, !.subcategory_name = name]
           chosen == [doc EXCEPT !.exists = TRUE, !.category = p.category,
                        !.category_name = p.category_name, !.subcategory = p.subcategory,
                        !.subcategory_name = p.subcategory_name,
                        !.categorization_event_ts = ts, !.updated_at = ts]
<1>1. Whole(written) /\ StampedAt(written, doc, ts) BY DEF Whole, Fields, StampedAt
<1>2. StampedAt(chosen, doc, ts) BY DEF Whole, Fields, StampedAt
<1>3. _CATEGORIZATION_SCRIPT(doc, p, ts) \in {doc, chosen} BY DEF _CATEGORIZATION_SCRIPT
<1>4. _CORE_SCRIPT(doc, p, name, ts) \in {doc, written, both} BY DEF _CORE_SCRIPT
<1> HIDE DEF written, chosen
<1>5. StampedAt(both, doc, ts) BY <1>1 DEF Whole, Fields, StampedAt
<1> HIDE DEF both
<1>6. QED BY <1>1, <1>2, <1>3, <1>4, <1>5

(* Events are only added to those a document was told, and a deletion stays. *)
LEMMA StaysDeleted ==
  ASSUME DocsOK, DocsOK', history' = history, seen \subseteq seen', behind \subseteq behind'
  PROVE  \A t : Watched(t)' => Watched(t)
<1>1. \A t : Seen("transaction", t) \subseteq Seen("transaction", t)' BY DEF Seen, Among
<1>2. \A t \in Transactions : docs[t].is_deleted => docs'[t].is_deleted
  BY <1>1 DEF DocsOK, DocOK, Deleted
<1>3. QED BY <1>2 DEF Watched

(* A write that is not unnoticed. *)
LEMMA Noticed ==
  ASSUME NEW t \in Transactions, VectorOK(t), t \notin Unnoticed(docs'),
         NEW ts \in Nat, docs'[t] = docs[t] \/ StampedAt(docs'[t], docs[t], ts)
  PROVE  \/ docs'[t] = docs[t]
         \/ /\ docs'[t].updated_at = docs[t].updated_at /\ ts = docs[t].updated_at
            /\ docs'[t].vector = docs[t].vector
            /\ docs'[t].embedding_event_ts = docs[t].embedding_event_ts
            /\ build_embedding_text(docs'[t]) = build_embedding_text(docs[t])
         \/ /\ docs'[t].updated_at = ts /\ ts > docs[t].updated_at
            /\ docs'[t].vector = docs[t].vector
            /\ docs'[t].embedding_event_ts = docs[t].embedding_event_ts
BY DEF Unnoticed, StampedAt, VectorOK

LEMMA TransactionEmbedded ==
  ASSUME ProjectionInv, ProjectionInv', EmbeddingInv,
         NEW n \in DOMAIN history, history[n].of = "transaction",
         UNCHANGED <<history, dead, tool>>, seen' = seen \cup {n},
         NEW m, Acked("transactions", m),
         NEW new, docs' = [docs EXCEPT ![history[n].id] = new],
         behind' = behind \cup Unnoticed(docs'),
         history[n].id \in Transactions /\ ~new.is_deleted =>
           new = docs[history[n].id] \/ StampedAt(new, docs[history[n].id], n)
  PROVE  EmbeddingInv'
<1> DEFINE id == history[n].id
<1>0. /\ QueuesOK /\ WorkingOK /\ HistoryOK /\ DocsOK /\ DocsOK' /\ "transactions" \in Queues
      /\ n \in Nat /\ n >= 1
  BY SeenIsStamped, QueueNames DEF ProjectionInv
<1>1. /\ \A k : Pending(k) => Pending(k)'
      /\ NoTextRead
  BY <1>0, AckedKeepsPending DEF Acked
<1>2. \A t : Watched(t)' => Watched(t) BY <1>0, StaysDeleted
<1>3. ASSUME NEW t \in Transactions, Watched(t)', t # id
      PROVE  Still(t)
  <2>1. docs'[t] = docs[t] BY <1>0, <1>3 DEF DocsOK
  <2>2. Seen("transaction", t)' = Seen("transaction", t) BY <1>3, SeenGrows
  <2>3. QED BY <2>1, <2>2 DEF Still
<1>4. ASSUME Watched(id)'
      PROVE  Still(id) \/ Moved(id)
  <2>1. id \in Transactions /\ Watched(id) BY <1>2, <1>4 DEF Watched
  <2>2. docs'[id] = new /\ VectorOK(id) BY <1>0, <2>1 DEF DocsOK, EmbeddingInv
  <2>3. ~docs'[id].is_deleted /\ id \notin Unnoticed(docs') BY <1>4 DEF Watched
  <2>4. Seen("transaction", id)' = Seen("transaction", id) \cup {history[n]} BY SeenGrows
  <2>5. DocOK(docs'[id], Seen("transaction", id) \cup {history[n]})
    BY <1>0, <2>1, <2>4 DEF DocsOK
  <2>6. Embeds(n, id) BY <2>3, <2>5 DEF DocOK, Deleted, Embeds
  <2>7. CASE docs'[id] = docs[id]
    <3>1. DocOK(docs[id], Seen("transaction", id)) BY <1>0, <2>1 DEF DocsOK
    <3>2. history[n].ts = n /\ history[n].type \in {"created", "updated", "categorized"}
      BY <1>0, <2>6 DEF HistoryOK, EventOK, Types, Embeds
    <3>3. CASE Seen("transaction", id) = {}
      <4>1. /\ docs[id].core_event_ts \in {null, BACKFILL_EVENT_TS}
            /\ docs[id].categorization_event_ts = null
        BY <2>3, <2>7, <3>1, <3>3
        DEF DocOK, CoreFollows, CategorizationFollows, CoreAmong, CategorizedAmong
      <4>2. docs[id].core_event_ts = n \/ docs[id].categorization_event_ts = n
        BY <2>3, <2>5, <2>7, <3>2, <3>3
        DEF DocOK, CoreFollows, CategorizationFollows, CoreAmong, CategorizedAmong
      <4>3. QED BY <1>0, <4>1, <4>2 DEF null, BACKFILL_EVENT_TS
    <3>4. CASE Seen("transaction", id) # {} BY <2>4, <2>7, <3>4 DEF Still
    <3>5. QED BY <3>3, <3>4
  <2>8. CASE docs'[id] # docs[id]
    <3>1. StampedAt(docs'[id], docs[id], n) BY <2>1, <2>2, <2>3, <2>8
    <3>2. \/ /\ docs'[id].updated_at = docs[id].updated_at /\ n = docs[id].updated_at
             /\ docs'[id].vector = docs[id].vector
             /\ docs'[id].embedding_event_ts = docs[id].embedding_event_ts
             /\ build_embedding_text(docs'[id]) = build_embedding_text(docs[id])
          \/ /\ docs'[id].updated_at = n /\ n > docs[id].updated_at
             /\ docs'[id].vector = docs[id].vector
             /\ docs'[id].embedding_event_ts = docs[id].embedding_event_ts
      BY <1>0, <2>1, <2>2, <2>3, <2>8, <3>1, Noticed DEF Unnoticed
    <3>3. n = docs[id].updated_at => Seen("transaction", id) # {} BY <1>0, <2>2 DEF VectorOK
    <3>4. Seen("transaction", id)' # {} BY <2>4
    <3>5. QED BY <2>6, <3>2, <3>3, <3>4 DEF Still, Moved
  <2>9. QED BY <2>7, <2>8
<1>5. WatchedKept BY <1>1, <1>2, <1>3, <1>4 DEF WatchedKept, StillPending
<1>6. QED BY <1>1, <1>5, EmbeddingKept

LEMMA TransactionHandlersEmbed ==
  ASSUME ProjectionInv, ProjectionInv', EmbeddingInv,
         handle_created_or_updated \/ handle_categorized \/ handle_deleted
  PROVE  EmbeddingInv'
<1>1. \A t \in Transactions : Whole(docs[t]) BY DEF ProjectionInv, DocsOK, DocOK, Whole
<1>2. \A n \in DOMAIN history : history[n].ts = n
  BY SeenIsStamped DEF ProjectionInv, EventOK
<1>3. CASE handle_created_or_updated
  <2> DEFINE w == working["transactions"]
             n == w.message.ts
             e == history[n]
             new == _CORE_SCRIPT(docs[e.id], e.data, w.name, e.ts)
  <2>1. n \in DOMAIN history /\ e.of = "transaction"
    <3>1. w.state = "named" BY <1>3 DEF handle_created_or_updated
    <3>2. QED BY <3>1 DEF ProjectionInv, WorkingOK
  <2>2. /\ docs' = [docs EXCEPT ![e.id] = new] /\ seen' = seen \cup {n}
        /\ behind' = behind \cup Unnoticed(docs')
        /\ Acked("transactions", w.message) /\ UNCHANGED <<history, dead, tool>>
    BY <1>3, <1>2, <2>1 DEF handle_created_or_updated, WrittenBy, upsert_core, Unnoticed
  <2>3. e.id \in Transactions => new = docs[e.id] \/ StampedAt(new, docs[e.id], n)
    BY <1>1, <1>2, <2>1, ScriptsStamp
  <2> HIDE DEF new
  <2>4. QED BY <2>1, <2>2, <2>3, TransactionEmbedded DEF Acked, Unnoticed
<1>4. ASSUME NEW m \in queue["transactions"]
      PROVE  m.ts \in DOMAIN history /\ history[m.ts].of = "transaction"
  BY <1>4, BoundTo, QueueNames DEF ProjectionInv, QueuesOK
<1>5. CASE handle_categorized
  <2>1. PICK m \in queue["transactions"] :
          LET e == history[m.ts] IN
          /\ WrittenBy(e, apply_categorization(e.id, e.data, e.ts))
          /\ Acked("transactions", m)
          /\ UNCHANGED <<history, dead, tool>>
    BY <1>5 DEF handle_categorized
  <2> DEFINE e == history[m.ts]
             new == _CATEGORIZATION_SCRIPT(docs[e.id], e.data, e.ts)
  <2>2. /\ docs' = [docs EXCEPT ![e.id] = new] /\ seen' = seen \cup {m.ts}
        /\ behind' = behind \cup Unnoticed(docs')
        /\ Acked("transactions", m) /\ UNCHANGED <<history, dead, tool>>
    BY <1>5, <1>2, <1>4, <2>1 DEF WrittenBy, apply_categorization, Unnoticed
  <2>3. e.id \in Transactions => new = docs[e.id] \/ StampedAt(new, docs[e.id], m.ts)
    BY <1>1, <1>2, <1>4, ScriptsStamp
  <2> HIDE DEF new
  <2>4. QED BY <1>4, <2>2, <2>3, TransactionEmbedded DEF Acked, Unnoticed
<1>6. CASE handle_deleted
  <2>1. PICK m \in queue["transactions"] :
          LET e == history[m.ts] IN
          /\ WrittenBy(e, mark_deleted(e.id, e.ts))
          /\ Acked("transactions", m)
          /\ UNCHANGED <<history, dead, tool>>
    BY <1>6 DEF handle_deleted
  <2> DEFINE e == history[m.ts]
             new == _DELETE_SCRIPT(docs[e.id], e.ts)
  <2>2. /\ docs' = [docs EXCEPT ![e.id] = new] /\ seen' = seen \cup {m.ts}
        /\ behind' = behind \cup Unnoticed(docs')
        /\ Acked("transactions", m) /\ UNCHANGED <<history, dead, tool>>
    BY <1>6, <1>2, <1>4, <2>1 DEF WrittenBy, mark_deleted, Unnoticed
  <2>3. e.id \in Transactions => new.is_deleted BY <1>1, DeleteScript
  <2> HIDE DEF new
  <2>4. QED BY <1>4, <2>2, <2>3, TransactionEmbedded DEF Acked, Unnoticed
<1>7. QED BY <1>3, <1>5, <1>6

LEMMA EntityHandlersEmbed ==
  ASSUME ProjectionInv, EmbeddingInv,
         \/ handle_category \/ handle_subcategory \/ AccountProjected \/ GoalProjected
  PROVE  EmbeddingInv'
<1>0. /\ QueuesOK /\ WorkingOK
      /\ {"taxonomy", "accounts", "goals", "embeddings"} \subseteq Queues
  BY QueueNames DEF ProjectionInv
<1>1. UNCHANGED <<history, docs, dead, tool, behind>>
  BY DEF handle_category, handle_subcategory, TaxonomyUpserted, AccountProjected, GoalProjected
<1>2. PICK q, m : /\ seen' = seen \cup {m.ts} /\ q \in {"taxonomy", "accounts", "goals"}
                  /\ m \in queue[q]
                  /\ \/ Acked(q, m)
                     \/ \E x : working' = [working EXCEPT !["taxonomy"] = x] /\ UNCHANGED queue
  <2>1. CASE handle_category
    <3>1. PICK m, new, applied : m \in queue["taxonomy"] /\ TaxonomyUpserted(m, new, applied)
      BY <2>1 DEF handle_category
    <3>2. QED BY <3>1 DEF TaxonomyUpserted
  <2>2. CASE handle_subcategory
    <3>1. PICK m, new, applied : m \in queue["taxonomy"] /\ TaxonomyUpserted(m, new, applied)
      BY <2>2 DEF handle_subcategory
    <3>2. QED BY <3>1 DEF TaxonomyUpserted
  <2>3. CASE AccountProjected
    <3>1. PICK m \in queue["accounts"] : Acked("accounts", m) /\ seen' = seen \cup {m.ts}
      BY <2>3 DEF AccountProjected
    <3>2. QED BY <3>1
  <2>4. CASE GoalProjected
    <3>1. PICK m \in queue["goals"] : Acked("goals", m) /\ seen' = seen \cup {m.ts}
      BY <2>4 DEF GoalProjected
    <3>2. QED BY <3>1
  <2>5. QED BY <2>1, <2>2, <2>3, <2>4
<1>3. /\ \A n : Pending(n) => Pending(n)'
      /\ NoTextRead
  <2>1. CASE Acked(q, m) BY <1>0, <1>1, <1>2, <2>1, AckedKeepsPending DEF Acked
  <2>2. ASSUME NEW x, working' = [working EXCEPT !["taxonomy"] = x], UNCHANGED queue
        PROVE  /\ \A n : Pending(n) => Pending(n)'
               /\ NoTextRead
    BY <1>0, <1>1, <2>2, QueueNames DEF WorkingOK, Pending, NoTextRead
  <2>3. QED BY <1>2, <2>1, <2>2
<1>4. history[m.ts].of # "transaction"
  BY <1>0, <1>2, BoundTo DEF QueuesOK
<1>5. \A t : Seen("transaction", t)' = Seen("transaction", t)
  BY <1>1, <1>2, <1>4, SeenGrows
<1>6. \A t : Still(t) /\ (Watched(t)' => Watched(t)) BY <1>1, <1>5 DEF Still, Watched
<1>7. WatchedKept BY <1>3, <1>6 DEF WatchedKept, StillPending
<1>8. QED BY <1>1, <1>3, <1>7, EmbeddingKept

(* What is rewritten without an event shows in behind, unless the text is   *)
(* what it was.                                                             *)
LEMMA RewriteNoticed ==
  ASSUME ProjectionInv, ProjectionInv', EmbeddingInv, UNCHANGED <<history, seen>>,
         behind' = behind \cup Unnoticed(docs'),
         \A t \in Transactions : \/ docs'[t] = docs[t]
                                 \/ StampedAt(docs'[t], docs[t], BACKFILL_EVENT_TS)
                                 \/ StampedAt(docs'[t], docs[t], docs[t].updated_at)
  PROVE  \A t : Watched(t)' => Watched(t) /\ Still(t)
<1>1. \A t : Watched(t)' => Watched(t) BY StaysDeleted DEF ProjectionInv
<1>2. ASSUME NEW t, Watched(t)' PROVE Still(t)
  <2>1. t \in Transactions /\ Watched(t) BY <1>1, <1>2 DEF Watched
  <2>2. VectorOK(t) BY <2>1 DEF EmbeddingInv
  <2>3. t \notin Unnoticed(docs') BY <1>2 DEF Watched
  <2>4. docs[t].updated_at \in Nat BY <2>2 DEF VectorOK
  <2>5. PICK ts \in {BACKFILL_EVENT_TS, docs[t].updated_at} :
          docs'[t] = docs[t] \/ StampedAt(docs'[t], docs[t], ts)
    BY <2>1
  <2>6. ts \in Nat /\ ts <= docs[t].updated_at BY <2>4, <2>5 DEF BACKFILL_EVENT_TS
  <2>7. \/ docs'[t] = docs[t]
        \/ /\ docs'[t].updated_at = docs[t].updated_at
           /\ docs'[t].vector = docs[t].vector
           /\ docs'[t].embedding_event_ts = docs[t].embedding_event_ts
           /\ build_embedding_text(docs'[t]) = build_embedding_text(docs[t])
        \/ ts > docs[t].updated_at
    BY <2>1, <2>2, <2>3, <2>5, <2>6, Noticed DEF Unnoticed
  <2>8. Seen("transaction", t)' = Seen("transaction", t) BY SeenKept
  <2>9. QED BY <2>4, <2>6, <2>7, <2>8 DEF Still
<1>3. QED BY <1>1, <1>2

LEMMA RewritesEmbed ==
  ASSUME ProjectionInv, ProjectionInv', EmbeddingInv, RenamePropagated \/ _backfill_transactions
  PROVE  EmbeddingInv'
<1>0. /\ QueuesOK /\ WorkingOK /\ "taxonomy" \in Queues
      /\ docs = [t \in Transactions |-> docs[t]]
  BY QueueNames DEF ProjectionInv, DocsOK
<1>1. \A t \in Transactions : Whole(docs[t]) BY DEF ProjectionInv, DocsOK, DocOK, Whole
<1>2. CASE RenamePropagated
  <2> DEFINE w == working["taxonomy"]
             e == history[w.message.ts]
             category(t) == [docs[t] EXCEPT !.category_name = e.data]
             subcategory(t) == [docs[t] EXCEPT !.subcategory_name = e.data]
  <2>1. /\ Acked("taxonomy", w.message) /\ UNCHANGED <<history, dead, tool, seen>>
        /\ behind' = behind \cup Unnoticed(docs')
        /\ \/ docs' = propagate_category_rename(e.id, e.data)
           \/ docs' = propagate_subcategory_rename(e.id, e.data)
    BY <1>2 DEF RenamePropagated, Unnoticed
  <2>2. \A t \in Transactions : docs'[t] \in {docs[t], category(t), subcategory(t)}
    <3>1. CASE docs' = propagate_category_rename(e.id, e.data)
      BY <3>1 DEF propagate_category_rename
    <3>2. CASE docs' = propagate_subcategory_rename(e.id, e.data)
      BY <3>2 DEF propagate_subcategory_rename
    <3>3. QED BY <2>1, <3>1, <3>2
  <2>3. ASSUME NEW t \in Transactions
        PROVE  /\ StampedAt(category(t), docs[t], docs[t].updated_at)
               /\ StampedAt(subcategory(t), docs[t], docs[t].updated_at)
    BY <1>1 DEF StampedAt, Whole, Fields
  <2> HIDE DEF category, subcategory
  <2>4. \A t \in Transactions : docs'[t] = docs[t] \/ StampedAt(docs'[t], docs[t], docs[t].updated_at)
    BY <2>2, <2>3
  <2>5. \A t : Watched(t)' => Watched(t) /\ Still(t)
    BY <2>1, <2>4, RewriteNoticed DEF Unnoticed
  <2>6. /\ \A n : Pending(n) => Pending(n)'
        /\ NoTextRead
    BY <1>0, <2>1, AckedKeepsPending DEF Acked
  <2>7. WatchedKept BY <2>5, <2>6 DEF WatchedKept, StillPending
  <2>8. QED BY <2>1, <2>6, <2>7, EmbeddingKept
<1>3. CASE _backfill_transactions
  <2> DEFINE new == _CORE_SCRIPT(docs[tool.id], tool.row, tool.row.subcategory_name,
                                 BACKFILL_EVENT_TS)
  <2>1. /\ docs' = [docs EXCEPT ![tool.id] = new] /\ tool' = Idle
        /\ behind' = behind \cup Unnoticed(docs')
        /\ UNCHANGED <<history, queue, working, dead, seen>>
    BY <1>3 DEF _backfill_transactions, upsert_core, ToolDone, Unnoticed
  <2>2. tool.id \in Transactions =>
          new = docs[tool.id] \/ StampedAt(new, docs[tool.id], BACKFILL_EVENT_TS)
    BY <1>1, ScriptsStamp
  <2> HIDE DEF new
  <2>3. \A t \in Transactions : \/ docs'[t] = docs[t]
                                \/ StampedAt(docs'[t], docs[t], BACKFILL_EVENT_TS)
    BY <1>0, <2>1, <2>2
  <2>4. \A t : Watched(t)' => Watched(t) /\ Still(t)
    BY <2>1, <2>3, RewriteNoticed DEF Unnoticed
  <2>5. WatchedKept BY <2>1, <2>4 DEF WatchedKept, StillPending, Pending
  <2>6. QED BY <2>1, <2>5, EmbeddingKept DEF NoTextRead
<1>4. QED BY <1>2, <1>3

(* The backfill tool's read, and its write to the other documents. *)
LEMMA BackfillEmbeds ==
  ASSUME ProjectionInv, EmbeddingInv, BackfillReads \/ _backfill_entity
  PROVE  EmbeddingInv'
<1>1. UNCHANGED <<history, queue, working, docs, dead, seen, behind>>
  BY DEF BackfillReads, ToolReads, _backfill_entity
<1>2. \A t : Still(t) /\ (Watched(t)' => Watched(t)) /\ StillPending(t)
  BY <1>1, SeenKept DEF Still, Watched, StillPending, Pending
<1>3. tool' = Idle \/ tool'.state # "vector"
  <2>1. CASE _backfill_entity BY <2>1 DEF _backfill_entity, ToolDone
  <2>2. CASE BackfillReads
    <3>1. \/ \E t, src : tool' = [state |-> "row", id |-> t, row |-> src]
          \/ \E d, src : tool' = [state |-> "entity", id |-> d, row |-> src]
      BY <2>2 DEF BackfillReads, ToolReads
    <3>2. QED BY <3>1
  <2>3. QED BY <2>1, <2>2
<1>4. WatchedKept BY <1>2 DEF WatchedKept
<1>5. QED BY <1>1, <1>3, <1>4, EmbeddingKept DEF NoTextRead

-----------------------------------------------------------------------------
(* The producers, and the two who embed *)

LEMMA EventIsPending ==
  ASSUME ProjectionInv, EmbeddingInv, NEW kind, NEW id, NEW type, NEW data,
         Happens(EventOf(kind, id, type, data))
  PROVE  EmbeddingInv'
<1> DEFINE e == EventOf(kind, id, type, data)
           copy == [ts |-> e.ts, retries |-> 0]
<1>0. PICK N : N = Len(history) + 1 OBVIOUS
<1>1. e.of = kind /\ e.id = id /\ e.ts = N /\ copy.ts = N BY <1>0 DEF EventOf
<1>2. /\ history' = Append(history, e)
      /\ queue' = [q \in Queues |-> IF q \in Bound(e) THEN queue[q] \cup {copy} ELSE queue[q]]
      /\ UNCHANGED <<working, docs, dead, tool, seen, behind>>
  BY DEF Happens
<1> HIDE DEF e, copy
<1>3. /\ DOMAIN history' = DOMAIN history \cup {N} /\ N \notin DOMAIN history
      /\ history'[N] = e
      /\ \A n \in DOMAIN history : history'[n] = history[n]
      /\ seen \subseteq DOMAIN history
  BY <1>0, <1>2, Appended DEF ProjectionInv, HistoryOK
<1>4. \A n : Pending(n) => Pending(n)' BY <1>2, QueueNames DEF Pending
<1>5. e.of = "transaction" => Pending(N)'
  <2>1. e.of = "transaction" => copy \in queue'["embeddings"]
    BY <1>2, QueueNames DEF Bound
  <2>2. QED BY <1>1, <2>1 DEF Pending
<1>6. \A t : Seen("transaction", t)' = Seen("transaction", t)
  <2>1. \A n \in seen : history'[n] = history[n] BY <1>3
  <2>2. {history'[n] : n \in seen} = {history[n] : n \in seen} BY <2>1
  <2>3. QED BY <1>2, <2>2 DEF Seen, Among
<1>7. \A t : Watched(t)' <=> Watched(t) BY <1>2 DEF Watched
<1>8. ASSUME NEW t, VectorOK(t) PROVE VectorOK(t)'
  <2>1. \A n \in DOMAIN history : Embeds(n, t)' <=> Embeds(n, t) BY <1>3 DEF Embeds
  <2>2. (/\ docs[t].updated_at \in Nat /\ docs[t].embedding_event_ts \in Int
         /\ docs[t].embedding_event_ts <= docs[t].updated_at
         /\ docs[t].embedding_event_ts = docs[t].updated_at =>
              docs[t].vector = build_embedding_text(docs[t])
         /\ Seen("transaction", t) = {} => docs[t].updated_at = 0)'
    BY <1>2, <1>6, <1>8 DEF VectorOK
  <2>3. ASSUME Seen("transaction", t)' # {}
        PROVE  (/\ Embeds(docs[t].updated_at, t)
                /\ docs[t].embedding_event_ts = docs[t].updated_at \/ Pending(docs[t].updated_at))'
    <3>1. PICK n \in DOMAIN history : n = docs[t].updated_at
      BY <1>6, <1>8, <2>3 DEF VectorOK, Embeds
    <3>2. Embeds(n, t) /\ (docs[t].embedding_event_ts = n \/ Pending(n))
      BY <1>6, <1>8, <2>3, <3>1 DEF VectorOK
    <3>3. Embeds(n, t)' /\ (docs[t].embedding_event_ts = n \/ Pending(n)')
      BY <2>1, <1>4, <3>2
    <3>4. QED BY <1>2, <3>1, <3>3 DEF Embeds, Pending
  <2>4. \A n \in DOMAIN history' : Embeds(n, t)' /\ n > docs'[t].updated_at => Pending(n)'
    <3>1. SUFFICES ASSUME NEW n \in DOMAIN history', Embeds(n, t)', n > docs'[t].updated_at
                   PROVE  Pending(n)'
      OBVIOUS
    <3>2. CASE n = N
      <4>1. e.of = "transaction" BY <1>3, <3>1, <3>2 DEF Embeds
      <4>2. QED BY <1>5, <3>2, <4>1
    <3>3. CASE n \in DOMAIN history BY <1>2, <1>4, <1>8, <2>1, <3>1, <3>3 DEF VectorOK
    <3>4. QED BY <1>3, <3>2, <3>3
  <2>5. QED BY <2>2, <2>3, <2>4 DEF VectorOK
<1>9. \A t \in Transactions : Watched(t)' => VectorOK(t)' BY <1>7, <1>8 DEF EmbeddingInv
<1>10. \A t, text, at : ReadOK(t, text, at) => ReadOK(t, text, at)' BY <1>2, <1>7 DEF ReadOK
<1>11. (working["embeddings"].state = "read" =>
          LET w == working["embeddings"]
              n == w.message.ts IN
          /\ n \in DOMAIN history /\ history[n].of = "transaction"
          /\ Watched(history[n].id) => n <= w.updated_at
          /\ ReadOK(history[n].id, w.text, w.updated_at))'
  <2> DEFINE w == working["embeddings"]
             n == w.message.ts
  <2>1. SUFFICES ASSUME working'["embeddings"].state = "read", w' = w
                 PROVE  (/\ n \in DOMAIN history /\ history[n].of = "transaction"
                         /\ Watched(history[n].id) => n <= w.updated_at
                         /\ ReadOK(history[n].id, w.text, w.updated_at))'
    BY <1>2
  <2>2. PICK k, t, text, at : k = n /\ t = history[n].id /\ text = w.text /\ at = w.updated_at
    OBVIOUS
  <2>3. /\ n \in DOMAIN history /\ history[n].of = "transaction"
        /\ Watched(t) => k <= at
        /\ ReadOK(t, text, at)
    BY <2>1, <2>2 DEF EmbeddingInv
  <2>4. (Watched(t)' => k <= at) /\ ReadOK(t, text, at)' BY <2>3, <1>7, <1>10
  <2>5. w' = w /\ n' = n BY <2>1
  <2>6. (history[n].id)' = t /\ (w.text)' = text /\ (w.updated_at)' = at /\ n' = k
    BY <1>3, <2>2, <2>3, <2>5
  <2>7. (n \in DOMAIN history /\ history[n].of = "transaction")' BY <1>3, <2>3, <2>5
  <2> HIDE DEF n, w
  <2>8. QED BY <2>4, <2>6, <2>7 DEF ReadOK, Watched
<1>12. (tool # Idle /\ tool.state = "vector" => ReadOK(tool.id, tool.row, tool.updated_at))'
  BY <1>2, <1>10 DEF EmbeddingInv
<1>13. QED BY <1>9, <1>11, <1>12 DEF EmbeddingInv

LEMMA ProducersEmbed ==
  ASSUME ProjectionInv, EmbeddingInv, TransactionHappens \/ EntityHappens
  PROVE  EmbeddingInv'
<1>1. PICK kind, id, type, data : Happens(EventOf(kind, id, type, data))
  <2>1. CASE TransactionHappens
    <3>1. PICK t : \/ \E type, p, new : RowHappens(t, type, p, new)
                   \/ \E type, data : Happens(EventOf("transaction", t, type, data))
      BY <2>1 DEF TransactionHappens
    <3>2. QED BY <3>1 DEF RowHappens, CoreEvent
  <2>2. CASE EntityHappens BY <2>2 DEF EntityHappens
  <2>3. QED BY <2>1, <2>2
<1>2. QED BY <1>1, EventIsPending DEF Happens

LEMMA TextRead ==
  ASSUME ProjectionInv, EmbeddingInv, DocumentRead \/ EmbeddingToolReads
  PROVE  EmbeddingInv'
<1>1. UNCHANGED <<history, queue, docs, dead, seen, behind>>
  BY DEF DocumentRead, EmbeddingToolReads, ToolReads
<1>2. /\ \A t : Watched(t)' <=> Watched(t)
      /\ \A t : Still(t) /\ StillPending(t)
  BY <1>1, SeenKept DEF Watched, Still, StillPending, Pending
<1>3. WatchedKept BY <1>2 DEF WatchedKept
<1>4. \A t \in Transactions : Watched(t)' => VectorOK(t)'
  BY <1>1, <1>2, VectorKept DEF EmbeddingInv
<1>5. \A t, text, at : ReadOK(t, text, at) => ReadOK(t, text, at)' BY <1>1, <1>2 DEF ReadOK
<1>6. ASSUME NEW t PROVE ReadOK(t, build_embedding_text(docs[t]), docs[t].updated_at)
  BY SMTT(30) DEF ReadOK, Watched, EmbeddingInv, VectorOK
<1>7. CASE DocumentRead
  <2>0. "embeddings" \in Queues /\ working = [q \in Queues |-> working[q]]
    BY QueueNames DEF ProjectionInv, WorkingOK
  <2>1. PICK m \in queue["embeddings"] :
          LET e == history[m.ts]
              doc == docs[e.id] IN
          /\ ~StaleProjection(doc, e.ts)
          /\ working' = [working EXCEPT !["embeddings"] =
               [state |-> "read", message |-> m, text |-> build_embedding_text(doc),
                updated_at |-> doc.updated_at]]
          /\ tool' = tool
    BY <1>7 DEF DocumentRead
  <2>2. PICK n, t, text, at : /\ n = m.ts /\ t = history[n].id
                              /\ text = build_embedding_text(docs[t])
                              /\ at = docs[t].updated_at
    OBVIOUS
  <2>3. n \in DOMAIN history /\ history[n].of = "transaction" /\ history[n].ts = n /\ n \in Nat
    <3>1. n \in DOMAIN history /\ "embeddings" \in Bound(history[n])
      BY <2>0, <2>2 DEF ProjectionInv, QueuesOK
    <3>2. history[n].of = "transaction" BY <3>1 DEF Bound, QUEUE_BINDINGS
    <3>3. QED BY <3>1, <3>2, SeenIsStamped DEF ProjectionInv, EventOK
  <2>4. ReadOK(t, text, at) BY <1>6, <2>2
  <2>5. Watched(t) => n <= at
    BY <2>1, <2>2, <2>3 DEF StaleProjection, EmbeddingInv, Watched, VectorOK
  <2>6. /\ working'["embeddings"].message.ts = n
        /\ working'["embeddings"].text = text /\ working'["embeddings"].updated_at = at
    BY <2>0, <2>1, <2>2
  <2>7. (working["embeddings"].state = "read" =>
           LET w == working["embeddings"]
               k == w.message.ts IN
           /\ k \in DOMAIN history /\ history[k].of = "transaction"
           /\ Watched(history[k].id) => k <= w.updated_at
           /\ ReadOK(history[k].id, w.text, w.updated_at))'
    <3>1. (Watched(t)' => n <= at) /\ ReadOK(t, text, at)' BY <1>2, <1>5, <2>4, <2>5
    <3>2. QED BY <1>1, <2>2, <2>3, <2>6, <3>1 DEF ReadOK, Watched
  <2>8. (tool # Idle /\ tool.state = "vector" => ReadOK(tool.id, tool.row, tool.updated_at))'
    BY <1>5, <2>1 DEF EmbeddingInv
  <2>9. QED BY <1>4, <2>7, <2>8 DEF EmbeddingInv
<1>8. CASE EmbeddingToolReads
  <2>1. PICK t : tool' = [state |-> "vector", id |-> t, row |-> build_embedding_text(docs[t]),
                          updated_at |-> docs[t].updated_at]
    BY <1>8 DEF EmbeddingToolReads, ToolReads
  <2>2. PICK text, at : text = build_embedding_text(docs[t]) /\ at = docs[t].updated_at
    OBVIOUS
  <2>3. ReadOK(t, text, at)' BY <1>5, <1>6, <2>2
  <2>4. tool'.id = t /\ tool'.row = text /\ tool'.updated_at = at BY <2>1, <2>2
  <2>5. (tool # Idle /\ tool.state = "vector" => ReadOK(tool.id, tool.row, tool.updated_at))'
    BY <2>3, <2>4 DEF ReadOK, Watched
  <2>6. working' = working BY <1>8 DEF EmbeddingToolReads, ToolReads
  <2>7. (working["embeddings"].state = "read" =>
           LET w == working["embeddings"]
               k == w.message.ts IN
           /\ k \in DOMAIN history /\ history[k].of = "transaction"
           /\ Watched(history[k].id) => k <= w.updated_at
           /\ ReadOK(history[k].id, w.text, w.updated_at))'
    BY <1>1, <1>2, <2>6 DEF EmbeddingInv, ReadOK
  <2>8. QED BY <1>4, <2>5, <2>7 DEF EmbeddingInv
<1>9. QED BY <1>7, <1>8

(* A vector is stored; at most the message of an event n it covers goes. *)
LEMMA Stored ==
  ASSUME ProjectionInv, EmbeddingInv, UNCHANGED <<history, seen, behind>>,
         NEW t, NEW text, NEW at, ReadOK(t, text, at),
         docs' = update_embedding(t, text, at),
         NEW n \in Nat, \A k : Pending(k) /\ k # n => Pending(k)',
         Watched(t) => n <= at, \A u : Embeds(n, u) => u = t
  PROVE  /\ \A u \in Transactions : Watched(u)' => VectorOK(u)'
         /\ \A u : Watched(u)' <=> Watched(u)
         /\ \A u, x, ts : ReadOK(u, x, ts) => ReadOK(u, x, ts)'
<1>1. /\ docs = [u \in Transactions |-> docs[u]]
      /\ \A u \in Transactions : Whole(docs[u]) /\ DocOK(docs[u], Seen("transaction", u))
      /\ \A u : Seen("transaction", u)' = Seen("transaction", u)
  BY SeenKept DEF ProjectionInv, DocsOK, DocOK, Whole
<1> DEFINE new == _EMBEDDING_SCRIPT(docs[t], text, at)
<1>2. /\ \A u \in Transactions : docs'[u] = IF u = t THEN new ELSE docs[u]
      /\ t \in Transactions => Kept(new, docs[t])
  BY <1>1, OtherScripts DEF update_embedding
<1> HIDE DEF new
<1>3. \A u : Watched(u)' <=> Watched(u) BY <1>2 DEF Watched, Kept
<1>4. ASSUME NEW u \in Transactions, Watched(u)'
      PROVE  VectorOK(u)' /\ TextKept(u) /\ VectorOK(u)
  <2>1. Watched(u) /\ VectorOK(u) BY <1>3, <1>4 DEF EmbeddingInv
  <2>2. CASE u = t
    <3>1. /\ at \in Nat /\ at <= docs[t].updated_at
          /\ at = docs[t].updated_at => text = build_embedding_text(docs[t])
          /\ n <= at
      BY <2>1, <2>2 DEF ReadOK
    <3>2. \A k \in DOMAIN history : k > at /\ Pending(k) => Pending(k)'
      BY <3>1, SeenIsStamped DEF ProjectionInv
    <3>3. /\ Seen("transaction", t) # {} => docs[t].exists
          /\ ~docs[t].is_deleted /\ Whole(docs[t])
          /\ Seen("transaction", t)' = Seen("transaction", t)
      BY <1>1, <2>1, <2>2 DEF DocOK, Watched
    <3>4. docs'[t] = _EMBEDDING_SCRIPT(docs[t], text, at) BY <1>2, <2>2 DEF new
    <3>5. VectorOK(t) /\ history' = history BY <2>1, <2>2
    <3>6. VectorOK(t)' /\ TextKept(t) BY <3>1, <3>2, <3>3, <3>4, <3>5, VectorStored
    <3>7. QED BY <2>1, <2>2, <3>6
  <2>3. CASE u # t
    <3>1. Still(u) BY <1>1, <1>2, <2>3 DEF Still
    <3>2. StillPending(u) BY <2>3 DEF StillPending
    <3>3. VectorOK(u)' BY <2>1, <3>1, <3>2, VectorKept
    <3>4. QED BY <2>1, <3>1, <3>3 DEF Still, TextKept
  <2>4. QED BY <2>2, <2>3
<1>5. ASSUME NEW u, NEW x, NEW ts, ReadOK(u, x, ts) PROVE ReadOK(u, x, ts)'
  <2>1. Watched(u)' => /\ Watched(u) /\ TextKept(u)
                       /\ docs[u].updated_at \in Nat /\ docs'[u].updated_at \in Nat
    BY <1>3, <1>4 DEF Watched, VectorOK
  <2>2. QED BY <1>5, <2>1, ReadKept
<1>6. QED BY <1>3, <1>4, <1>5

LEMMA VectorsEmbed ==
  ASSUME ProjectionInv, EmbeddingInv, VectorWritten \/ EmbeddingToolWrites
  PROVE  EmbeddingInv'
<1>0. QueuesOK /\ WorkingOK /\ "embeddings" \in Queues BY QueueNames DEF ProjectionInv
<1>1. CASE VectorWritten
  <2> DEFINE w == working["embeddings"]
  <2>1. /\ docs' = update_embedding(history[w.message.ts].id, w.text, w.updated_at)
        /\ Acked("embeddings", w.message) /\ w.state = "read"
        /\ UNCHANGED <<history, dead, tool, seen, behind>>
    BY <1>1 DEF VectorWritten
  <2>2. PICK n, t, text, at : /\ n = w.message.ts /\ t = history[n].id
                              /\ text = w.text /\ at = w.updated_at
    OBVIOUS
  <2>3. /\ n \in DOMAIN history /\ (Watched(t) => n <= at) /\ ReadOK(t, text, at)
    BY <2>1, <2>2 DEF EmbeddingInv
  <2>4. n \in Nat BY <2>3, SeenIsStamped DEF ProjectionInv
  <2>5. \A k : Pending(k) /\ k # n => Pending(k)'
    BY <1>0, <2>1, <2>2, AckedKeepsPending DEF Acked
  <2>6. \A u : Embeds(n, u) => u = t BY <2>2 DEF Embeds
  <2>7. /\ \A u \in Transactions : Watched(u)' => VectorOK(u)'
        /\ \A u, x, ts : ReadOK(u, x, ts) => ReadOK(u, x, ts)'
    BY <2>1, <2>2, <2>3, <2>4, <2>5, <2>6, Stored DEF update_embedding
  <2>8. working'["embeddings"] = Idle
    BY <1>0, <2>1 DEF Acked, StopProcess, Process, WorkingOK
  <2>9. (tool # Idle /\ tool.state = "vector" => ReadOK(tool.id, tool.row, tool.updated_at))'
    BY <2>1, <2>7 DEF EmbeddingInv
  <2>10. QED BY <2>7, <2>8, <2>9 DEF EmbeddingInv, Idle
<1>2. CASE EmbeddingToolWrites
  <2>1. /\ docs' = update_embedding(tool.id, tool.row, tool.updated_at)
        /\ tool # Idle /\ tool.state = "vector" /\ tool' = Idle
        /\ UNCHANGED <<history, queue, working, dead, seen, behind>>
    BY <1>2 DEF EmbeddingToolWrites, ToolDone
  <2>2. PICK t, text, at : t = tool.id /\ text = tool.row /\ at = tool.updated_at OBVIOUS
  <2>3. ReadOK(t, text, at) BY <2>1, <2>2 DEF EmbeddingInv
  <2>4. /\ Watched(t) => 0 <= at
        /\ \A u : ~Embeds(0, u)
    BY <2>3, SeenIsStamped DEF ReadOK, ProjectionInv, Embeds
  <2>5. \A k : Pending(k) => Pending(k)' BY <2>1 DEF Pending
  <2>6. /\ \A u \in Transactions : Watched(u)' => VectorOK(u)'
        /\ \A u : Watched(u)' <=> Watched(u)
        /\ \A u, x, ts : ReadOK(u, x, ts) => ReadOK(u, x, ts)'
    BY <2>1, <2>2, <2>3, <2>4, <2>5, Stored DEF update_embedding
  <2>7. (working["embeddings"].state = "read" =>
           LET w == working["embeddings"]
               k == w.message.ts IN
           /\ k \in DOMAIN history /\ history[k].of = "transaction"
           /\ Watched(history[k].id) => k <= w.updated_at
           /\ ReadOK(history[k].id, w.text, w.updated_at))'
    <3> DEFINE w == working["embeddings"]
               k == w.message.ts
    <3>1. SUFFICES ASSUME w.state = "read", w' = w, history' = history
                   PROVE  (/\ k \in DOMAIN history /\ history[k].of = "transaction"
                           /\ Watched(history[k].id) => k <= w.updated_at
                           /\ ReadOK(history[k].id, w.text, w.updated_at))'
      BY <2>1
    <3>2. PICK n, u, x, ts : n = k /\ u = history[k].id /\ x = w.text /\ ts = w.updated_at
      OBVIOUS
    <3>3. /\ n \in DOMAIN history /\ history[n].of = "transaction"
          /\ Watched(u) => n <= ts
          /\ ReadOK(u, x, ts)
      BY <3>1, <3>2 DEF EmbeddingInv
    <3>4. (Watched(u)' => n <= ts) /\ ReadOK(u, x, ts)' BY <2>6, <3>3
    <3>5. w' = w /\ k' = k BY <3>1
    <3>6. (history[k].id)' = u /\ (w.text)' = x /\ (w.updated_at)' = ts /\ k' = n
      BY <3>1, <3>2, <3>5
    <3>7. (k \in DOMAIN history /\ history[k].of = "transaction")' BY <3>1, <3>2, <3>3, <3>5
    <3> HIDE DEF k, w
    <3>8. QED BY <3>4, <3>6, <3>7 DEF ReadOK, Watched
  <2>8. QED BY <2>1, <2>6, <2>7 DEF EmbeddingInv
<1>3. QED BY <1>1, <1>2

LEMMA InitEmbedding == ProjectionInit => EmbeddingInv
<1> SUFFICES ASSUME ProjectionInit PROVE EmbeddingInv OBVIOUS
<1>1. "embeddings" \in Queues BY QueueNames
<1>2. working["embeddings"] = Idle /\ tool = Idle /\ DOMAIN history = {} /\ seen = {}
  BY <1>1 DEF ProjectionInit
<1>3. \A t \in Transactions : docs[t].updated_at = 0 /\ docs[t].embedding_event_ts = -1
  BY DEF ProjectionInit, NoDocument, null
<1>4. \A t : Seen("transaction", t) = {} BY <1>2 DEF Seen, Among
<1>5. QED BY <1>2, <1>3, <1>4 DEF EmbeddingInv, VectorOK, Idle

LEMMA NextEmbedding ==
  /\ ProjectionInv /\ ProjectionInv' /\ EmbeddingInv /\ [ProjectionNext]_projectionVars
  => EmbeddingInv'
<1> SUFFICES ASSUME ProjectionInv, ProjectionInv', EmbeddingInv, [ProjectionNext]_projectionVars
             PROVE  EmbeddingInv'
  OBVIOUS
<1>1. CASE UNCHANGED projectionVars
  <2>1. UNCHANGED <<history, queue, working, docs, dead, tool, seen, behind>>
    BY <1>1 DEF projectionVars
  <2>2. \A t : Still(t) /\ (Watched(t)' => Watched(t)) /\ StillPending(t)
    BY <2>1, SeenKept DEF Still, Watched, StillPending, Pending
  <2>3. WatchedKept BY <2>2 DEF WatchedKept
  <2>4. QED BY <2>1, <2>3, EmbeddingKept DEF NoTextRead
<1>2. QED BY <1>1, ProducersEmbed, WorkersEmbed, TransactionHandlersEmbed, EntityHandlersEmbed,
            RewritesEmbed, BackfillEmbeds, TextRead, VectorsEmbed DEF ProjectionNext

THEOREM EmbeddingInvariance == ProjectionSpec => []EmbeddingInv
<1>1. QED BY InitEmbedding, NextEmbedding, ProjectionInvariance, PTL DEF ProjectionSpec

LEMMA InvVectorFollows == EmbeddingInv => VectorFollows
<1> SUFFICES ASSUME EmbeddingInv, Quiet, NEW t \in Transactions,
                    Seen("transaction", t) # {}, ~docs[t].is_deleted, t \notin behind
             PROVE  docs[t].vector = build_embedding_text(docs[t])
  BY DEF VectorFollows
<1>1. VectorOK(t) BY DEF EmbeddingInv, Watched
<1>2. \A n : ~Pending(n) BY QueueNames DEF Quiet, Pending
<1>3. QED BY <1>1, <1>2 DEF VectorOK

(* When every queue is empty and nothing was given up, the vector of a live *)
(* transaction is that of the text its document has, except of a document   *)
(* that changed without moving updated_at forward: whatever the worker and  *)
(* the tool had read before the document changed, and however often either  *)
(* failed, the event that changed it brings the worker back.                *)
THEOREM VectorsFollow == ProjectionSpec => []VectorFollows
BY EmbeddingInvariance, InvVectorFollows, PTL
=============================================================================
