----------------------------- MODULE SyncImport -----------------------------
(***************************************************************************)
(* The import of a bank sync: the fetch in banking-service and, in         *)
(* transaction-service, the saga commands bulk_import_transactions and     *)
(* rollback_import, the deduplication of TransactionService.bulk_import,   *)
(* soft deletion, and the two actions of a user that touch the same rows:  *)
(* a CSV import and a DELETE.                                              *)
(*                                                                         *)
(* A handler is a worker that runs one job in steps, one per database      *)
(* transaction; a message stays in the queue until it is acknowledged and  *)
(* may be delivered again while an earlier delivery is still running.      *)
(* The saga is reduced to what it makes of the replies (see                *)
(* SagaOrchestrator for the engine itself).                                *)
(*                                                                         *)
(* A row's id is the pair of the job run that inserted it and its position *)
(* in the payload, so ids are unique as the autoincremented ones are.      *)
(***************************************************************************)
EXTENDS ImportSources

CONSTANTS
    Sagas,
    Workers,       \* handlers that can run at the same time
    Pages,         \* saga -> the pages the bank returns to its fetch
    Uploads,       \* CSV files a user may upload
    ChunkSize,     \* BULK_IMPORT_CHUNK_SIZE
    MaxRetries,    \* MAX_RETRIES
    MaxRuns        \* bound: job runs altogether

ASSUME ChunkAssumption == ChunkSize \in Nat \ {0}
ASSUME RetriesAssumption == MaxRetries \in Nat /\ MaxRuns \in Nat

VARIABLES
    rows,      \* the transactions table
    deletions, \* the TransactionDeletedEvents in the outbox
    cmds,      \* saga commands not yet acknowledged
    replies,   \* saga replies published (any may be delivered, late or twice)
    phase,     \* saga -> how far the import got, as the saga knows it
    ids,       \* saga -> imported_ids of its context
    worker,    \* worker -> its job, or Idle
    runs       \* number of job runs so far

vars == <<rows, deletions, cmds, replies, phase, ids, worker, runs>>

-----------------------------------------------------------------------------
(* Deduplication *)

Live(r) == r.live

(* The partial unique index on (account_id, external_id). *)
ExternalIds == {r.ext : r \in {q \in rows : Live(q)}} \ {None}

FuzzyKeys == {r.fuzzy : r \in {q \in rows : Live(q)}}

LegacyKeys == {r.fuzzy : r \in {q \in rows : Live(q) /\ q.ext = None}}

(* Mutant of Duplicate: an item with an external id is compared by id only. *)
DuplicateByIdOnly(items, i) ==
    IF items[i].ext = None
    THEN items[i].fuzzy \in FuzzyKeys
    ELSE items[i].ext \in ExternalIds

(* What the lookups of bulk_import find in the database for one item. *)
Duplicate(items, i) ==
    IF items[i].ext = None
    THEN items[i].fuzzy \in FuzzyKeys
    ELSE items[i].ext \in ExternalIds \/ items[i].fuzzy \in LegacyKeys

(* The seen-sets: an earlier item of the batch that was not a duplicate
   itself has the same key. *)
SameKey(x, y) == IF x.ext = None THEN y.ext = None /\ x.fuzzy = y.fuzzy ELSE x.ext = y.ext

Fresh(items, batch) ==
    LET new == {i \in batch : ~Duplicate(items, i)}
    IN  {i \in new : ~\E j \in new : j < i /\ SameKey(items[i], items[j])}

(* The positions of the k-th chunk of a payload. *)
Chunk(items, k) == {i \in 1..Len(items) : (k - 1) * ChunkSize < i /\ i <= k * ChunkSize}

-----------------------------------------------------------------------------
(* Jobs *)

Idle == [job |-> "idle"]

(* The rows of the files that are not refused. *)
Parsed == {parse(f) : f \in {u \in Uploads : Accepted(u)}} \ {<<>>}

Fetched == [s \in Sagas |-> _handle_fetch_transactions(Pages[s])]

(* What a fetch returns and what a parser makes of a file are sequences. *)
ASSUME ItemsAssumption ==
    \A items \in {Fetched[s] : s \in Sagas} \cup Parsed :
        Len(items) \in Nat /\ DOMAIN items = 1..Len(items)

Items(j) == IF j.job = "csv" THEN j.items ELSE Fetched[j.saga]

(* import_csv works on the whole file at once. *)
Batch(j) == IF j.job = "csv" THEN DOMAIN j.items ELSE Chunk(Items(j), j.chunk)

IsLast(j) == j.job = "csv" \/ j.chunk * ChunkSize >= Len(Items(j))

Command(kind, s) == [kind |-> kind, saga |-> s, retries |-> 0]

Importing(run, m) ==
    [job |-> "import", run |-> run, msg |-> m, saga |-> m.saga, chunk |-> 1,
     at |-> IF Fetched[m.saga] = <<>> THEN "reply" ELSE "lookup",
     fresh |-> {}, made |-> {}]

RollingBack(run, m) ==
    [job |-> "rollback", run |-> run, msg |-> m, saga |-> m.saga, at |-> "find",
     todo |-> ids[m.saga], row |-> None, failed |-> {}]

Init ==
    /\ rows = {} /\ deletions = {} /\ cmds = {} /\ replies = {}
    /\ phase = [s \in Sagas |-> "idle"]
    /\ ids = [s \in Sagas |-> {}]
    /\ worker = [w \in Workers |-> Idle]
    /\ runs = 0

Step(w, j) == worker' = [worker EXCEPT ![w] = j]

Starts(w, j) ==
    /\ worker[w] = Idle
    /\ runs < MaxRuns
    /\ runs' = runs + 1
    /\ Step(w, j)

(* A delivery, the first one or another one, of a command still queued. *)
Deliver(w, m) ==
    /\ Starts(w, IF m.kind = "import" THEN Importing(runs + 1, m) ELSE RollingBack(runs + 1, m))
    /\ UNCHANGED <<rows, deletions, cmds, replies, phase, ids>>

UploadCsv(w, items) ==
    /\ Starts(w, [job |-> "csv", run |-> runs + 1, at |-> "lookup", items |-> items, fresh |-> {}])
    /\ UNCHANGED <<rows, deletions, cmds, replies, phase, ids>>

(* DELETE of a transaction by the user. *)
UserDelete(w, r) ==
    /\ Starts(w, [job |-> "delete", run |-> runs + 1, at |-> "find", todo |-> {r.id},
                  row |-> None, failed |-> {}])
    /\ UNCHANGED <<rows, deletions, cmds, replies, phase, ids>>

-----------------------------------------------------------------------------
(* bulk_import and import_csv *)

(* The anti-join and the loop over the items. *)
Lookup(w) ==
    LET j == worker[w] IN
    /\ j.job \in {"import", "csv"} /\ j.at = "lookup"
    /\ Step(w, [j EXCEPT !.fresh = Fresh(Items(j), Batch(j)), !.at = "insert"])
    /\ UNCHANGED <<rows, deletions, cmds, replies, phase, ids, runs>>

(* Mutant of AfterInsert: the reply carries the ids of the last chunk only. *)
AfterInsertLastOnly(j, new) ==
    IF j.job = "csv" THEN Idle
    ELSE [j EXCEPT !.made = new,
                   !.chunk = @ + 1,
                   !.at = IF IsLast(j) THEN "reply" ELSE "lookup"]

(* The consumer's loop collects the ids of every chunk. *)
AfterInsert(j, new) ==
    IF j.job = "csv" THEN Idle
    ELSE [j EXCEPT !.made = @ \cup new,
                   !.chunk = @ + 1,
                   !.at = IF IsLast(j) THEN "reply" ELSE "lookup"]

Violates(j) == \E i \in j.fresh : Items(j)[i].ext \in ExternalIds

(* bulk_create and commit, unless the unique index refuses a row. *)
Insert(w) ==
    LET j == worker[w]
        new == {[id |-> <<j.run, i>>, ext |-> Items(j)[i].ext, fuzzy |-> Items(j)[i].fuzzy,
                 by |-> IF j.job = "csv" THEN None ELSE j.saga, live |-> TRUE] : i \in j.fresh}
    IN
    /\ j.job \in {"import", "csv"} /\ j.at = "insert"
    /\ ~Violates(j)
    /\ rows' = rows \cup new
    /\ Step(w, AfterInsert(j, {r.id : r \in new}))
    /\ UNCHANGED <<deletions, cmds, replies, phase, ids, runs>>

-----------------------------------------------------------------------------
(* delete_transaction, for a user or for each id of a rollback *)

(* find_by_id: an id that is gone is passed over (NotFound). *)
Find(w) ==
    LET j == worker[w] IN
    /\ j.job \in {"rollback", "delete"} /\ j.at = "find"
    /\ \E i \in j.todo :
         Step(w, IF \E r \in rows : r.id = i /\ Live(r)
                 THEN [j EXCEPT !.row = i, !.at = "delete"]
                 ELSE [j EXCEPT !.todo = @ \ {i}])
    /\ UNCHANGED <<rows, deletions, cmds, replies, phase, ids, runs>>

Done(j, i) == [j EXCEPT !.todo = @ \ {i}, !.at = "find"]

(* Mutant of Matches: deleted_at IS NULL is missing from the WHERE. *)
MatchesTombstone(j, r) == r.id = j.row

(* Mutant of Matches: the row is found again by date, amount and description. *)
MatchesFuzzyKey(j, r) == Live(r) /\ \E q \in rows : q.id = j.row /\ r.fuzzy = q.fuzzy

(* The WHERE of the UPDATE that stamps deleted_at. *)
Matches(j, r) == r.id = j.row /\ Live(r)

(* The UPDATE, and with it the event, if a row was affected. *)
Delete(w) ==
    LET j == worker[w]
        hit == {r \in rows : Matches(j, r)}
    IN
    /\ j.job \in {"rollback", "delete"} /\ j.at = "delete"
    /\ rows' = (rows \ hit) \cup {[r EXCEPT !.live = FALSE] : r \in hit}
    /\ deletions' = deletions \cup
         {[id |-> r.id, run |-> j.run, by |-> IF j.job = "delete" THEN None ELSE j.saga] : r \in hit}
    /\ Step(w, Done(j, j.row))
    /\ UNCHANGED <<cmds, replies, phase, ids, runs>>

(* Any other exception for one id: the rollback notes it and goes on. *)
DeleteFails(w) ==
    LET j == worker[w] IN
    /\ j.job = "rollback" /\ j.at \in {"find", "delete"}
    /\ \E i \in IF j.at = "find" THEN j.todo ELSE {j.row} :
         Step(w, [Done(j, i) EXCEPT !.failed = @ \cup {i}])
    /\ UNCHANGED <<rows, deletions, cmds, replies, phase, ids, runs>>

(* The DELETE request returns. *)
DeleteReturns(w) ==
    LET j == worker[w] IN
    /\ j.job = "delete" /\ j.todo = {}
    /\ Step(w, Idle)
    /\ UNCHANGED <<rows, deletions, cmds, replies, phase, ids, runs>>

-----------------------------------------------------------------------------
(* _on_message *)

(* The reply is published before the command is acknowledged. *)
PublishReply(w) ==
    LET j == worker[w] IN
    /\ \/ /\ j.job = "import" /\ j.at = "reply"
          /\ replies' = replies \cup
               {[saga |-> j.saga, compensation |-> FALSE, success |-> TRUE, ids |-> j.made]}
       \/ /\ j.job = "rollback" /\ j.at = "find" /\ j.todo = {}
          /\ replies' = replies \cup
               {[saga |-> j.saga, compensation |-> TRUE, success |-> j.failed = {}, ids |-> {}]}
    /\ Step(w, [j EXCEPT !.at = "replied"])
    /\ UNCHANGED <<rows, deletions, cmds, phase, ids, runs>>

Ack(w) ==
    LET j == worker[w] IN
    /\ j.job \in {"import", "rollback"} /\ j.at \in {"replied", "retried"}
    /\ cmds' = cmds \ {j.msg}
    /\ Step(w, Idle)
    /\ UNCHANGED <<rows, deletions, replies, phase, ids, runs>>

(***************************************************************************)
(* An exception: a row the unique index refuses, or the database or the    *)
(* broker being away.  The command is published again with its retry count *)
(* raised, or answered with a failure, which is not flagged as the answer  *)
(* to a compensation even when the command was one.                        *)
(***************************************************************************)
Retry(w) ==
    LET j == worker[w] IN
    /\ j.job \in {"import", "rollback"} /\ j.at \notin {"delete", "retried"}
    /\ IF j.msg.retries >= MaxRetries
       THEN /\ replies' = replies \cup
                 {[saga |-> j.saga, compensation |-> FALSE, success |-> FALSE, ids |-> {}]}
            /\ UNCHANGED cmds
       ELSE /\ cmds' = cmds \cup {[j.msg EXCEPT !.retries = @ + 1]}
            /\ UNCHANGED replies
    /\ Step(w, [j EXCEPT !.at = "retried"])
    /\ UNCHANGED <<rows, deletions, phase, ids, runs>>

(* The worker dies, or its request fails: nothing more of this job is done. *)
Crash(w) ==
    /\ worker[w] # Idle
    /\ Step(w, Idle)
    /\ UNCHANGED <<rows, deletions, cmds, replies, phase, ids, runs>>

-----------------------------------------------------------------------------
(* The saga *)

Enter(s, p) == phase' = [phase EXCEPT ![s] = p]

(* The consent has expired, or the bank stayed away: nothing to undo. *)
FetchFails(s) ==
    /\ phase[s] = "idle"
    /\ Enter(s, "failed")
    /\ UNCHANGED <<rows, deletions, cmds, replies, ids, worker, runs>>

(* The reply of the fetch carries the items, and with it the import goes out. *)
SendImport(s) ==
    /\ phase[s] = "idle"
    /\ Enter(s, "importing")
    /\ cmds' = cmds \cup {Command("import", s)}
    /\ UNCHANGED <<rows, deletions, replies, ids, worker, runs>>

(* The first reply counts; a failure ends the saga, fetch has nothing to undo. *)
ImportReplied(s, m) ==
    /\ phase[s] = "importing" /\ m.saga = s /\ ~m.compensation
    /\ IF m.success
       THEN Enter(s, "imported") /\ ids' = [ids EXCEPT ![s] = m.ids]
       ELSE Enter(s, "failed") /\ UNCHANGED ids
    /\ UNCHANGED <<rows, deletions, cmds, replies, worker, runs>>

(* The step is stale: the sweep fails the saga. *)
ImportTimesOut(s) ==
    /\ phase[s] = "importing"
    /\ Enter(s, "failed")
    /\ UNCHANGED <<rows, deletions, cmds, replies, ids, worker, runs>>

SyncCompletes(s) ==
    /\ phase[s] = "imported"
    /\ Enter(s, "completed")
    /\ UNCHANGED <<rows, deletions, cmds, replies, ids, worker, runs>>

(* mark_sync_complete fails or times out; no ids, no compensation command. *)
SyncFails(s) ==
    /\ phase[s] = "imported"
    /\ IF ids[s] = {}
       THEN Enter(s, "failed") /\ UNCHANGED cmds
       ELSE Enter(s, "compensating") /\ cmds' = cmds \cup {Command("rollback", s)}
    /\ UNCHANGED <<rows, deletions, replies, ids, worker, runs>>

(* A stale compensation is sent once more; stale again, it is given up. *)
RollbackTimesOut(s) ==
    /\ \/ /\ phase[s] = "compensating"
          /\ Enter(s, "compensatingAgain")
          /\ cmds' = cmds \cup {Command("rollback", s)}
       \/ /\ phase[s] = "compensatingAgain"
          /\ Enter(s, "failed")
          /\ UNCHANGED cmds
    /\ UNCHANGED <<rows, deletions, replies, ids, worker, runs>>

RollbackReplied(s, m) ==
    /\ phase[s] \in {"compensating", "compensatingAgain"} /\ m.saga = s /\ m.compensation
    /\ Enter(s, IF m.success THEN "rolledBack" ELSE "failed")
    /\ UNCHANGED <<rows, deletions, cmds, replies, ids, worker, runs>>

Next ==
    \/ \E w \in Workers :
         \/ \E m \in cmds : Deliver(w, m)
         \/ \E items \in Parsed : UploadCsv(w, items)
         \/ \E r \in rows : UserDelete(w, r)
         \/ Lookup(w) \/ Insert(w) \/ Find(w) \/ Delete(w) \/ DeleteFails(w) \/ DeleteReturns(w)
         \/ PublishReply(w) \/ Ack(w) \/ Retry(w) \/ Crash(w)
    \/ \E s \in Sagas :
         \/ FetchFails(s) \/ SendImport(s) \/ ImportTimesOut(s) \/ SyncCompletes(s) \/ SyncFails(s)
         \/ RollbackTimesOut(s)
         \/ \E m \in replies : ImportReplied(s, m) \/ RollbackReplied(s, m)

Spec == Init /\ [][Next]_vars

-----------------------------------------------------------------------------
(* Properties *)

(***************************************************************************)
(* A row is deleted once: its TransactionDeletedEvent exists exactly when  *)
(* the row is a tombstone, and only one does, although a rollback, its     *)
(* redelivery and the user may all be deleting it.                         *)
(***************************************************************************)
DeletedOnce ==
    \A r \in rows :
        /\ Live(r) <=> ~\E d \in deletions : d.id = r.id
        /\ \A d, e \in deletions : d.id = r.id /\ e.id = r.id => d = e

(***************************************************************************)
(* A rollback only deletes what its own saga imported: not the row the     *)
(* user uploaded, nor the row a later sync imported after a deletion.      *)
(***************************************************************************)
RollsBackOwnRows ==
    \A d \in deletions, r \in rows : d.id = r.id /\ d.by # None => r.by = d.by

(***************************************************************************)
(* When the saga learns that the compensation succeeded, nothing is left   *)
(* of the run whose reply it had accepted: every chunk of it is undone.    *)
(***************************************************************************)
AcceptedRunUndone ==
    \A s \in Sagas : phase[s] = "rolledBack" =>
        \A r \in rows : (\E i \in ids[s] : i[1] = r.id[1]) => ~Live(r)

(***************************************************************************)
(* Every transaction of a file or a sync is in the table once.  Live rows  *)
(* that agree in account, date, amount and description differ in their     *)
(* external ids, and only within one payload can one of them have none;    *)
(* and when a sync completes each item it fetched has a row, perhaps       *)
(* deleted since, with its id, or, where one of the two has none, with its *)
(* date, amount and description.                                           *)
(***************************************************************************)
Covers(r, item) ==
    \/ r.ext = item.ext /\ item.ext # None
    \/ r.fuzzy = item.fuzzy /\ None \in {r.ext, item.ext}

EachOnce ==
    /\ \A r, q \in rows :
          Live(r) /\ Live(q) /\ r.id # q.id /\ r.fuzzy = q.fuzzy =>
              r.ext # q.ext /\ (None \in {r.ext, q.ext} => r.id[1] = q.id[1])
    /\ \A s \in Sagas : phase[s] = "completed" =>
          \A i \in DOMAIN Fetched[s] : \E r \in rows : Covers(r, Fetched[s][i])
=============================================================================
