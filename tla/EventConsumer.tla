---------------------------- MODULE EventConsumer ----------------------------
(***************************************************************************)
(* A queue consumer built on the shared ConsumerBase: the _on_message      *)
(* ladder of acknowledgements, retries and dead-lettering around a handler *)
(* with an inbox.  The handler is banking-service's account projection,    *)
(* the smallest of the consumers that share this shape: it keeps the name  *)
(* of an account, and writes the inbox row in its own transaction.         *)
(*                                                                         *)
(* Events are numbered in the order in which account-service wrote them.   *)
(* The broker may hold several copies of an event (the outbox delivers at  *)
(* least once).  When the connection is lost a delivery goes back to the   *)
(* queue while its handler keeps running; such an orphan can no longer     *)
(* acknowledge anything.                                                   *)
(***************************************************************************)
EXTENDS Integers, SequencesExt

CONSTANTS
    Events,        \* 1..n: account.created and account.updated of one account
    Poison,        \* the ones no handler can read
    Workers,       \* handlers that can run at once
    MaxRetries,    \* max_retries
    MaxCopies,     \* bound: copies of one event the outbox publishes
    MaxFaults      \* bound: crashes, lost connections and exceptions

ASSUME EventsAssumption == Events \subseteq Nat \ {0} /\ Poison \subseteq Events
ASSUME LimitsAssumption ==
    MaxRetries \in Nat /\ MaxCopies \in Nat /\ MaxFaults \in Nat

VARIABLES
    queue,       \* messages ready for delivery, first in first out
    worker,      \* worker -> the delivery it works on, or Idle
    inbox,       \* processed_events, written by the handler
    projection,  \* the account's name in accounts_projection: the event it is from
    dlq,         \* events in the dead-letter queue
    published,   \* event -> copies published so far
    applied,     \* history: event -> times its effect was committed
    failures,    \* history: event -> exceptions its deliveries ran into
    faults

vars == <<queue, worker, inbox, projection, dlq, published, applied, failures, faults>>

-----------------------------------------------------------------------------

Idle == [at |-> "idle"]

Message(e, n) == [event |-> e, retries |-> n]

Init ==
    /\ queue = <<>>
    /\ worker = [w \in Workers |-> Idle]
    /\ inbox = {} /\ dlq = {}
    /\ projection = 0
    /\ published = [e \in Events |-> 0]
    /\ applied = [e \in Events |-> 0]
    /\ failures = [e \in Events |-> 0]
    /\ faults = 0

Goto(w, l) == worker' = [worker EXCEPT ![w].at = l]

Finish(w) == worker' = [worker EXCEPT ![w] = Idle]

(* A message that was not acknowledged returns to its place at the front. *)
Requeued(w) == <<worker[w].msg>> \o queue

Fault == faults < MaxFaults /\ faults' = faults + 1

(* Outboxes publish in order, and again after a fault. *)
Publish(e) ==
    /\ published[e] < MaxCopies
    /\ \A f \in Events : f < e => published[f] > 0
    /\ published' = [published EXCEPT ![e] = @ + 1]
    /\ queue' = Append(queue, Message(e, 0))
    /\ UNCHANGED <<worker, inbox, projection, dlq, applied, failures, faults>>

Deliver(w) ==
    /\ worker[w] = Idle /\ queue # <<>>
    /\ worker' = [worker EXCEPT ![w] = [at |-> "check", msg |-> Head(queue), orphan |-> FALSE]]
    /\ queue' = Tail(queue)
    /\ UNCHANGED <<inbox, projection, dlq, published, applied, failures, faults>>

(* nack(requeue=False); an orphan's nack reaches nobody. *)
DeadLetter(w) ==
    /\ Finish(w)
    /\ dlq' = IF worker[w].orphan THEN dlq ELSE dlq \cup {worker[w].msg.event}

(* Mutant of Check: an unreadable message is requeued. *)
CheckRequeues(w) ==
    LET e == worker[w].msg.event IN
    /\ worker[w].at = "check"
    /\ \/ e \in Poison /\ Finish(w) /\ queue' = Requeued(w)
       \/ e \notin Poison /\ Goto(w, "handle") /\ UNCHANGED queue
    /\ UNCHANGED <<inbox, projection, dlq, published, applied, failures, faults>>

(* Parsing: json, the shape of the payload, PoisonMessageError. *)
Check(w) ==
    LET e == worker[w].msg.event IN
    /\ worker[w].at = "check"
    /\ \/ e \in Poison /\ DeadLetter(w)
       \/ e \notin Poison /\ Goto(w, "handle") /\ UNCHANGED dlq
    /\ UNCHANGED <<queue, inbox, projection, published, applied, failures, faults>>

(* handle: the inbox is read, *)
ReadInbox(w) ==
    /\ worker[w].at = "handle"
    /\ Goto(w, IF worker[w].msg.event \in inbox THEN "ack" ELSE "commit")
    /\ UNCHANGED <<queue, inbox, projection, dlq, published, applied, failures, faults>>

(* Mutant of Commit: processed_events has no unique constraint. *)
CommitNotUnique(w) ==
    LET e == worker[w].msg.event IN
    /\ worker[w].at = "commit"
    /\ inbox' = inbox \cup {e}
    /\ projection' = e
    /\ applied' = [applied EXCEPT ![e] = @ + 1]
    /\ Goto(w, "ack")
    /\ UNCHANGED <<queue, dlq, published, failures, faults>>

(* and the projection and the inbox row are committed together, unless the
   row exists by now: a benign race. *)
Commit(w) ==
    LET e == worker[w].msg.event IN
    /\ worker[w].at = "commit"
    /\ IF e \in inbox
       THEN UNCHANGED <<inbox, projection, applied>>
       ELSE /\ inbox' = inbox \cup {e}
            /\ projection' = e
            /\ applied' = [applied EXCEPT ![e] = @ + 1]
    /\ Goto(w, "ack")
    /\ UNCHANGED <<queue, dlq, published, failures, faults>>

(* The handler raises. *)
Raise(w) ==
    /\ worker[w].at \in {"handle", "commit"}
    /\ Fault
    /\ failures' = [failures EXCEPT ![worker[w].msg.event] = @ + 1]
    /\ Goto(w, "retry")
    /\ UNCHANGED <<queue, inbox, projection, dlq, published, applied>>

(* ack of an orphan raises, inside the same try. *)
Ack(w) ==
    /\ worker[w].at = "ack"
    /\ IF worker[w].orphan
       THEN /\ Goto(w, "retry")
            /\ failures' = [failures EXCEPT ![worker[w].msg.event] = @ + 1]
       ELSE Finish(w) /\ UNCHANGED failures
    /\ UNCHANGED <<queue, inbox, projection, dlq, published, applied, faults>>

CanRetry(m) == m.retries < MaxRetries

(* The message goes to the end of our own queue, and is acknowledged then. *)
Republish(w) ==
    LET m == worker[w].msg IN
    /\ worker[w].at = "retry" /\ CanRetry(m)
    /\ queue' = Append(queue, Message(m.event, m.retries + 1))
    /\ Goto(w, "republished")
    /\ UNCHANGED <<inbox, projection, dlq, published, applied, failures, faults>>

(* Mutant of RepublishFails: the message is acknowledged all the same. *)
RepublishFailsAcked(w) ==
    /\ worker[w].at = "retry" /\ CanRetry(worker[w].msg)
    /\ Fault
    /\ Finish(w)
    /\ UNCHANGED <<queue, inbox, projection, dlq, published, applied, failures>>

(* nack(requeue=True) *)
RepublishFails(w) ==
    /\ worker[w].at = "retry" /\ CanRetry(worker[w].msg)
    /\ Fault
    /\ queue' = IF worker[w].orphan THEN queue ELSE Requeued(w)
    /\ Finish(w)
    /\ UNCHANGED <<inbox, projection, dlq, published, applied, failures>>

AckRepublished(w) ==
    /\ worker[w].at = "republished"
    /\ Finish(w)
    /\ UNCHANGED <<queue, inbox, projection, dlq, published, applied, failures, faults>>

GiveUp(w) ==
    /\ worker[w].at = "retry" /\ ~CanRetry(worker[w].msg)
    /\ DeadLetter(w)
    /\ UNCHANGED <<queue, inbox, projection, published, applied, failures, faults>>

(* The connection is lost; the broker delivers the message again. *)
LoseConnection(w) ==
    /\ worker[w] # Idle /\ ~worker[w].orphan
    /\ Fault
    /\ queue' = Requeued(w)
    /\ worker' = [worker EXCEPT ![w].orphan = TRUE]
    /\ UNCHANGED <<inbox, projection, dlq, published, applied, failures>>

(* The process dies. *)
Crash(w) ==
    /\ worker[w] # Idle
    /\ Fault
    /\ queue' = IF worker[w].orphan THEN queue ELSE Requeued(w)
    /\ Finish(w)
    /\ UNCHANGED <<inbox, projection, dlq, published, applied, failures>>

Next ==
    \/ \E e \in Events : Publish(e)
    \/ \E w \in Workers :
         \/ Deliver(w) \/ Check(w) \/ ReadInbox(w) \/ Commit(w) \/ Raise(w)
         \/ Ack(w) \/ Republish(w) \/ RepublishFails(w) \/ AckRepublished(w) \/ GiveUp(w)
         \/ LoseConnection(w) \/ Crash(w)

Spec == Init /\ [][Next]_vars

(***************************************************************************)
(* A running handler takes its next step and an idle one is given a        *)
(* message while there is one: the event loop and the broker.  No fairness *)
(* for faults, of which there are finitely many.                           *)
(***************************************************************************)
Works(w) ==
    \/ Deliver(w) \/ Check(w) \/ ReadInbox(w) \/ Commit(w)
    \/ Ack(w) \/ Republish(w) \/ AckRepublished(w) \/ GiveUp(w)

FairSpec == Spec /\ \A w \in Workers : WF_vars(Works(w))

-----------------------------------------------------------------------------
(* Properties *)

(* The broker still owes a delivery of e. *)
Outstanding(e) ==
    \/ \E m \in Range(queue) : m.event = e
    \/ \E w \in Workers : worker[w] # Idle /\ ~worker[w].orphan /\ worker[w].msg.event = e

(***************************************************************************)
(* No event is lost: once published it is applied, dead-lettered or still  *)
(* to be delivered, whatever fails between the handler's commit, the       *)
(* republish and the acknowledgement, and a readable event is only         *)
(* dead-lettered when it has failed once and at every retry.               *)
(***************************************************************************)
NothingLost ==
    /\ \A e \in Events : published[e] > 0 => e \in inbox \/ e \in dlq \/ Outstanding(e)
    /\ \A e \in dlq \ Poison : failures[e] > MaxRetries

(***************************************************************************)
(* The effect of an event is committed at most once, for redelivered,      *)
(* republished and duplicated copies, and for an orphaned handler that     *)
(* races the redelivery of its own message.                                *)
(***************************************************************************)
AppliedOnce == \A e \in Events : applied[e] <= 1 /\ (e \in inbox <=> applied[e] = 1)

(* Every event is applied or dead-lettered in the end. *)
EventuallySettled == \A e \in Events : published[e] > 0 ~> e \in inbox \cup dlq
=============================================================================
