------------------------------- MODULE Outbox -------------------------------
(***************************************************************************)
(* The transactional outbox of the shared messaging library: the           *)
(* outbox_events rows a service writes with its own data, and the          *)
(* OutboxPublisherWorker processes that publish them to RabbitMQ.          *)
(*                                                                         *)
(* A worker fetches up to BatchSize due rows with FOR UPDATE SKIP LOCKED,  *)
(* tries to publish each and commits the marks.  BatchSize = 1 is the      *)
(* default (one transaction per entry), more is commit_per_entry=False.    *)
(* Publishing is not part of the transaction: a worker that dies before    *)
(* its commit, or a publish that raises although the broker has the        *)
(* message, leaves a copy out there and the row unmarked.                  *)
(*                                                                         *)
(* Time is relative: wait counts down to the moment the row is due again   *)
(* or, once published, old enough to be purged.                            *)
(***************************************************************************)
EXTENDS Integers, FiniteSets

CONSTANTS
    Entries,
    Workers,
    None,
    BatchSize,
    MaxAttempts,   \* max_attempts; 0 stands for None: retry for ever
    BackoffBase,   \* BACKOFF_BASE_S
    BackoffCap,    \* MAX_BACKOFF_S
    PurgeAfter,    \* purge_published_after_days
    MaxFaults      \* bound: crashes and failed publishes altogether

ASSUME EntriesAssumption == IsFiniteSet(Entries)
ASSUME NoneAssumption == None \notin Workers
ASSUME BoundsAssumption ==
    /\ BatchSize \in Nat \ {0} /\ MaxAttempts \in Nat /\ PurgeAfter \in Nat
    /\ BackoffBase \in Nat \ {0} /\ BackoffCap \in Nat \ {0} /\ MaxFaults \in Nat

VARIABLES
    row,      \* entry -> its committed row
    made,     \* entry -> its place in the order of created_at
    holder,   \* entry -> the worker whose transaction has locked the row
    draft,    \* entry -> the row as that transaction has updated it
    tried,    \* entries whose publish the holder has tried
    copies,   \* entry -> copies of the event the broker has accepted
    strays,   \* history: entry -> copies whose mark was lost or never written
    faults    \* crashes and failed publishes so far

vars == <<row, made, holder, draft, tried, copies, strays, faults>>

-----------------------------------------------------------------------------

OutboxStatus == {"pending", "failed", "published", "dead"}

Absent == [status |-> "absent", attempts |-> 0, wait |-> 0]

Init ==
    /\ row = [e \in Entries |-> Absent]
    /\ made = [e \in Entries |-> 0]
    /\ holder = [e \in Entries |-> None]
    /\ draft = [e \in Entries |-> Absent]
    /\ tried = {}
    /\ copies = [e \in Entries |-> 0]
    /\ strays = [e \in Entries |-> 0]
    /\ faults = 0

(* min(2**attempts * base, cap) *)
ComputeBackoff(attempts) ==
    LET doubled == 2 ^ attempts * BackoffBase
    IN  IF doubled \in 0..BackoffCap THEN doubled ELSE BackoffCap

Held(w) == {e \in Entries : holder[e] = w}

(* The service's own transaction commits with the event in it. *)
Add(e) ==
    /\ made[e] = 0
    /\ made' = [made EXCEPT ![e] = 1 + Cardinality({f \in Entries : made[f] # 0})]
    /\ row' = [row EXCEPT ![e] = [status |-> "pending", attempts |-> 0, wait |-> 0]]
    /\ UNCHANGED <<holder, draft, tried, copies, strays, faults>>

(* Mutant of IsPending: a row that has failed is never fetched again. *)
IsPendingNew(e) == row[e].status = "pending" /\ row[e].wait = 0

(* The WHERE of fetch_pending. *)
IsPending(e) == row[e].status \in {"pending", "failed"} /\ row[e].wait = 0

(* Mutant of Fetchable: no row locks. *)
FetchableLocked(e) == IsPending(e)

(* FOR UPDATE SKIP LOCKED *)
Fetchable(e) == IsPending(e) /\ holder[e] = None

(* ORDER BY created_at LIMIT batch_size *)
Fetched ==
    {e \in Entries : Fetchable(e) /\
        Cardinality({f \in Entries : Fetchable(f) /\ made[f] < made[e]}) < BatchSize}

FetchPending(w) ==
    /\ Held(w) = {}
    /\ Fetched # {}
    /\ holder' = [e \in Entries |-> IF e \in Fetched THEN w ELSE holder[e]]
    /\ draft' = [e \in Entries |-> IF e \in Fetched THEN row[e] ELSE draft[e]]
    /\ tried' = tried \ Fetched
    /\ UNCHANGED <<row, made, copies, strays, faults>>

(* The entries of a batch are tried in their order. *)
IsNext(w, e) ==
    /\ e \in Held(w) \ tried
    /\ \A f \in Held(w) \ tried : made[e] <= made[f]

(* publish_raw, then mark_published in the transaction. *)
Publish(w, e) ==
    /\ IsNext(w, e)
    /\ copies' = [copies EXCEPT ![e] = @ + 1]
    /\ draft' = [draft EXCEPT ![e].status = "published", ![e].wait = PurgeAfter]
    /\ tried' = tried \cup {e}
    /\ UNCHANGED <<row, made, holder, strays, faults>>

(* record_failure: dead at max_attempts, otherwise failed with a backoff. *)
RecordFailure(r) ==
    IF MaxAttempts # 0 /\ r.attempts + 1 >= MaxAttempts
    THEN [status |-> "dead", attempts |-> r.attempts + 1, wait |-> r.wait]
    ELSE [status |-> "failed", attempts |-> r.attempts + 1, wait |-> ComputeBackoff(r.attempts)]

(* publish_raw raises; the broker may have the message nevertheless. *)
PublishFails(w, e) ==
    /\ IsNext(w, e)
    /\ faults < MaxFaults
    /\ faults' = faults + 1
    /\ \E sent \in {0, 1} :
         /\ copies' = [copies EXCEPT ![e] = @ + sent]
         /\ strays' = [strays EXCEPT ![e] = @ + sent]
    /\ draft' = [draft EXCEPT ![e] = RecordFailure(@)]
    /\ tried' = tried \cup {e}
    /\ UNCHANGED <<row, made, holder>>

Release(w) == holder' = [e \in Entries |-> IF holder[e] = w THEN None ELSE holder[e]]

Commit(w) ==
    /\ Held(w) # {} /\ Held(w) \subseteq tried
    /\ row' = [e \in Entries |-> IF holder[e] = w THEN draft[e] ELSE row[e]]
    /\ Release(w)
    /\ UNCHANGED <<made, draft, tried, copies, strays, faults>>

(* The worker dies or its commit fails: the transaction is rolled back. *)
Crash(w) ==
    /\ Held(w) # {}
    /\ faults < MaxFaults
    /\ faults' = faults + 1
    /\ strays' = [e \in Entries |->
         IF holder[e] = w /\ e \in tried /\ draft[e].status = "published"
         THEN strays[e] + 1 ELSE strays[e]]
    /\ Release(w)
    /\ UNCHANGED <<row, made, draft, tried, copies>>

Purgeable(e) == row[e].status = "published" /\ row[e].wait = 0

(* purge_published *)
Purge ==
    /\ \E e \in Entries : Purgeable(e)
    /\ row' = [e \in Entries |-> IF Purgeable(e) THEN [row[e] EXCEPT !.status = "purged"] ELSE row[e]]
    /\ UNCHANGED <<made, holder, draft, tried, copies, strays, faults>>

Tick ==
    /\ \E e \in Entries : row[e].wait > 0
    /\ row' = [e \in Entries |-> IF row[e].wait > 0 THEN [row[e] EXCEPT !.wait = @ - 1] ELSE row[e]]
    /\ UNCHANGED <<made, holder, draft, tried, copies, strays, faults>>

Next ==
    \/ \E e \in Entries : Add(e)
    \/ \E w \in Workers :
         \/ FetchPending(w) \/ Commit(w) \/ Crash(w)
         \/ \E e \in Entries : Publish(w, e) \/ PublishFails(w, e)
    \/ Purge
    \/ Tick

Spec == Init /\ [][Next]_vars

(***************************************************************************)
(* run_forever polls again and again and survives every exception, and the *)
(* process is restarted when it dies; between two faults a started batch   *)
(* is finished.  Faults are finite: the broker and the database come back. *)
(***************************************************************************)
Fairness ==
    /\ WF_vars(Tick)
    /\ \A w \in Workers :
         /\ SF_vars(FetchPending(w))
         /\ WF_vars(Commit(w))
         /\ \A e \in Entries : WF_vars(Publish(w, e))

FairSpec == Spec /\ Fairness

-----------------------------------------------------------------------------
(* Properties *)

Row == [status : OutboxStatus \cup {"absent", "purged"}, attempts : Nat, wait : Nat]

(* Rows, locks and drafts hold values of their kind. *)
TypeOK ==
    /\ row \in [Entries -> Row]
    /\ made \in [Entries -> Nat]
    /\ holder \in [Entries -> Workers \cup {None}]
    /\ draft \in [Entries -> Row]
    /\ tried \subseteq Entries
    /\ copies \in [Entries -> Nat]
    /\ strays \in [Entries -> Nat]
    /\ faults \in Nat

(* The row says published, or will when the holder commits. *)
Marked(e) ==
    \/ row[e].status \in {"published", "purged"}
    \/ holder[e] # None /\ e \in tried /\ draft[e].status = "published"

(***************************************************************************)
(* Every copy at the broker is accounted for: one for the mark, and one    *)
(* for each fault that lost a mark.  So a row is never marked published or *)
(* purged without having been sent, and two workers never publish the same *)
(* entry unless one of them failed after sending it.                       *)
(***************************************************************************)
CopiesAccounted == \A e \in Entries : copies[e] = strays[e] + (IF Marked(e) THEN 1 ELSE 0)

(* What makes it so: a locked row is still the pending row its holder has
   read, untouched by the holder until it is tried; no row exists before it is
   added, and no holder purges one. *)
LockedUnchanged ==
    \A e \in Entries :
        /\ holder[e] # None => IsPending(e) /\ (e \notin tried => draft[e] = row[e])
        /\ made[e] = 0 => row[e].status = "absent"
        /\ draft[e].status # "purged"

OutboxInv == TypeOK /\ LockedUnchanged /\ CopiesAccounted

(* No event is forgotten: what a service has committed reaches the broker,
   through crashes of workers and outages of the broker, unless max_attempts
   is set and reached. *)
EventuallySent == \A e \in Entries : made[e] # 0 ~> copies[e] > 0 \/ row[e].status = "dead"
=============================================================================
