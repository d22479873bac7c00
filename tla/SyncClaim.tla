------------------------------ MODULE SyncClaim ------------------------------
(***************************************************************************)
(* The in-flight claim of one bank connection in banking-service:          *)
(* BankingService.start_sync_saga called by users and by the sync          *)
(* scheduler, the claim columns of bank_connections, and the               *)
(* mark_sync_complete command that releases the claim.                     *)
(*                                                                         *)
(* Each request that gets the claim starts one saga, so a request also     *)
(* names its saga.  The steps of a request are its database transactions   *)
(* and its call to saga-service; anything may happen between two of them.  *)
(* mark_sync_complete reads the row in one statement and writes it in a    *)
(* later one: the SELECT takes no row lock and the UPDATE has only the id  *)
(* in its WHERE.  Commands are delivered at least once, to a consumer that may    *)
(* still be running an earlier delivery.                                   *)
(***************************************************************************)
EXTENDS Naturals, Sequences

CONSTANTS
    Requests,    \* calls of start_sync_saga = ids of the sagas they may start
    Manual,      \* the ones made by a user (with a bearer token)
    Null,        \* NULL
    TTL,         \* SYNC_CLAIM_TTL_SECONDS
    MaxClock,    \* bound: the clock stops here
    Deliveries   \* concurrent deliveries of mark_sync_complete commands

ASSUME ManualAssumption == Manual \subseteq Requests
ASSUME NullAssumption == Null \notin Requests
ASSUME TimeAssumption == TTL \in Nat /\ MaxClock \in Nat

VARIABLES
    clock,
    claim,     \* sync_saga_id, sync_started_at, sync_trigger of the row
    synced,    \* last_synced_at is set (and not older than SYNC_EVERY_HOURS)
    pc,        \* request -> where its call stands
    now,       \* request -> the time it read before claiming
    seen,      \* request -> saga id it read from the row
    answer,    \* request -> saga id it returned
    saga,      \* request -> what became of its saga
    handler,   \* delivery -> what mark_sync_complete has read
    inbox,     \* sagas whose mark_sync_complete is in processed_events
    events,    \* saga -> triggers of its BankSyncCompletedEvents
    lapsed,    \* history: sagas whose claim was taken over through the TTL
    wiped      \* history: sagas whose claim was cleared by another saga's command

reqVars == <<pc, now, seen, answer>>
history == <<lapsed, wiped>>
claimVars == <<clock, claim, synced, reqVars, saga, handler, inbox, events, history>>

-----------------------------------------------------------------------------

Trigger == {"manual", "scheduled"}

SagaState == {"none", "requested", "started", "marking", "failed", "finished"}

(* _TERMINAL_SAGA_STATUSES, as far as banking-service can tell them apart. *)
Terminal == {"failed", "finished"}

IsTerminal(s) == saga[s] \in Terminal

TriggerOf(r) == IF r \in Manual THEN "manual" ELSE "scheduled"

NoClaim == [saga |-> Null, at |-> 0, trigger |-> Null]

Free == [saga |-> Null, whose |-> "foreign", trigger |-> Null]

ClaimInit ==
    /\ clock = 0
    /\ claim = NoClaim
    /\ synced = FALSE
    /\ pc = [r \in Requests |-> "idle"]
    /\ now = [r \in Requests |-> 0]
    /\ seen = [r \in Requests |-> Null]
    /\ answer = [r \in Requests |-> Null]
    /\ saga = [r \in Requests |-> "none"]
    /\ handler = [d \in Deliveries |-> Free]
    /\ inbox = {}
    /\ events = [r \in Requests |-> <<>>]
    /\ lapsed = {} /\ wiped = {}

Goto(r, l) == pc' = [pc EXCEPT ![r] = l]

Returns(r, s) == Goto(r, "done") /\ answer' = [answer EXCEPT ![r] = s]

-----------------------------------------------------------------------------
(* start_sync_saga *)

list_active_synced_before == ~synced

(* The scheduler picks the connection up as due for a sync. *)
Due(r) ==
    /\ pc[r] = "idle" /\ r \notin Manual
    /\ list_active_synced_before
    /\ Goto(r, "due")
    /\ UNCHANGED <<clock, claim, synced, now, seen, answer, saga, handler, inbox, events, history>>

(* A user posts, or the scheduler has come to the connection. *)
sync_transactions(r) == pc[r] = IF r \in Manual THEN "idle" ELSE "due"

(* The gates are passed and the clock is read, once for the whole call. *)
Begin(r) ==
    /\ sync_transactions(r)
    /\ now' = [now EXCEPT ![r] = clock]
    /\ Goto(r, "claiming")
    /\ UNCHANGED <<clock, claim, synced, seen, answer, saga, handler, inbox, events, history>>

Claimable(t) == claim.saga = Null \/ claim.at + TTL < t

(* The claim and the saga's start event are written in one transaction. *)
Claims(r) ==
    /\ claim' = [saga |-> r, at |-> now[r], trigger |-> TriggerOf(r)]
    /\ saga' = [saga EXCEPT ![r] = "requested"]
    /\ Returns(r, r)

(* try_claim_sync, the first attempt and the second. *)
TryClaim(r) ==
    /\ pc[r] \in {"claiming", "retrying"}
    /\ IF Claimable(now[r])
       THEN /\ Claims(r)
            /\ lapsed' = lapsed \cup ({claim.saga} \ {Null})
       ELSE /\ Goto(r, IF pc[r] = "claiming" THEN "lost" ELSE "lostAgain")
            /\ UNCHANGED <<claim, saga, answer, lapsed>>
    /\ UNCHANGED <<clock, synced, now, seen, handler, inbox, events, wiped>>

(* _current_claim after the first lost attempt. *)
ReadClaim(r) ==
    /\ pc[r] = "lost"
    /\ seen' = [seen EXCEPT ![r] = claim.saga]
    /\ Goto(r, IF claim.saga = Null THEN "retrying" ELSE "asking")
    /\ UNCHANGED <<clock, claim, synced, now, answer, saga, handler, inbox, events, history>>

(* Mutant of AskStatus: an unknown status counts as a terminal one. *)
AskStatusFailOpen(r) ==
    /\ pc[r] = "asking"
    /\ Goto(r, "stealing")
    /\ UNCHANGED <<clock, claim, synced, now, seen, answer, saga, handler, inbox, events, history>>

(* saga-service's answer to the owner; a saga whose start event it has not *)
(* consumed is not found.                                                  *)
get_saga_status(s) == IF saga[s] \in {"none", "requested"} THEN "not found" ELSE saga[s]

(***************************************************************************)
(* Ask saga-service about the claim's saga.  The scheduler has no token    *)
(* and never asks; any failure of the call means unknown, which counts as  *)
(* running.                                                                *)
(***************************************************************************)
AskStatus(r) ==
    /\ pc[r] = "asking"
    /\ \/ r \in Manual /\ get_saga_status(seen[r]) \in Terminal /\ Goto(r, "stealing")
       \/ Goto(r, "deferring")
    /\ UNCHANGED <<clock, claim, synced, now, seen, answer, saga, handler, inbox, events, history>>

(* steal_sync_claim, scoped to the saga id read before. *)
Steal(r) ==
    /\ pc[r] = "stealing"
    /\ IF claim.saga = seen[r]
       THEN Claims(r)
       ELSE Goto(r, "lostSteal") /\ UNCHANGED <<claim, saga, answer>>
    /\ UNCHANGED <<clock, synced, now, seen, handler, inbox, events, history>>

(* _current_claim after losing a second time, with its fallback. *)
ReadWinner(r) ==
    /\ pc[r] \in {"lostAgain", "lostSteal"}
    /\ seen' = [seen EXCEPT ![r] = IF claim.saga # Null THEN claim.saga
                                   ELSE IF pc[r] = "lostAgain" THEN r
                                   ELSE seen[r]]
    /\ Goto(r, "deferring")
    /\ UNCHANGED <<clock, claim, synced, now, answer, saga, handler, inbox, events, history>>

escalate_trigger_to_manual == claim' = [claim EXCEPT !.trigger = "manual"]

(* _defer_to_running_saga *)
Defer(r) ==
    /\ pc[r] = "deferring"
    /\ IF r \in Manual /\ claim.saga = seen[r] THEN escalate_trigger_to_manual ELSE UNCHANGED claim
    /\ Returns(r, seen[r])
    /\ UNCHANGED <<clock, synced, now, seen, saga, handler, inbox, events, history>>

-----------------------------------------------------------------------------
(* The saga, as banking-service sees it *)

(* saga-service consumes the start event and sends mark_sync_complete when
   the import is done.  It may end the saga before that command ("failed")
   or after it ("finished": completed, or failed or timed out waiting). *)
SagaProceeds(s) ==
    /\ \/ saga[s] = "requested" /\ saga' = [saga EXCEPT ![s] = "started"]
       \/ saga[s] = "started" /\ saga' = [saga EXCEPT ![s] = "marking"]
       \/ saga[s] = "started" /\ saga' = [saga EXCEPT ![s] = "failed"]
       \/ saga[s] = "marking" /\ saga' = [saga EXCEPT ![s] = "finished"]
    /\ UNCHANGED <<clock, claim, synced, reqVars, handler, inbox, events, history>>

(* The command was sent and a delivery of it may still come. *)
CommandSent(s) == saga[s] \in {"marking", "finished"}

Whose(s) == IF claim.saga = s THEN "own" ELSE "foreign"

(* Mutant of MarkRead: the trigger is read from whatever claim there is. *)
MarkReadBlind(d, s) ==
    /\ handler[d] = Free
    /\ CommandSent(s)
    /\ s \notin inbox
    /\ handler' = [handler EXCEPT ![d] =
         [saga |-> s, whose |-> Whose(s),
          trigger |-> IF claim.trigger = Null THEN "manual" ELSE claim.trigger]]
    /\ UNCHANGED <<clock, claim, synced, reqVars, saga, inbox, events, history>>

(***************************************************************************)
(* mark_sync_complete, up to its last read: the inbox check and the claim. *)
(* A command whose key is in the inbox is answered without effect.         *)
(***************************************************************************)
MarkRead(d, s) ==
    /\ handler[d] = Free
    /\ CommandSent(s)
    /\ s \notin inbox
    /\ handler' = [handler EXCEPT ![d] =
         [saga |-> s, whose |-> Whose(s),
          trigger |-> IF claim.saga = s THEN claim.trigger ELSE "manual"]]
    /\ UNCHANGED <<clock, claim, synced, reqVars, saga, inbox, events, history>>

(* Mutant of MarkCommit: no inbox row is written with the effects. *)
MarkCommitNoInbox(d) ==
    LET h == handler[d] IN
    /\ h # Free
    /\ synced' = TRUE
    /\ claim' = IF h.whose = "own" THEN NoClaim ELSE claim
    /\ events' = [events EXCEPT ![h.saga] = Append(@, h.trigger)]
    /\ handler' = [handler EXCEPT ![d] = Free]
    /\ UNCHANGED <<clock, reqVars, saga, inbox, history>>

(***************************************************************************)
(* Its commit: last_synced_at, the claim columns if the claim was its own  *)
(* when it looked, the event and the inbox row, or nothing at all when the *)
(* inbox row exists by now.                                                *)
(***************************************************************************)
MarkCommit(d) ==
    LET h == handler[d] IN
    /\ h # Free
    /\ IF h.saga \in inbox
       THEN UNCHANGED <<claim, synced, inbox, events, wiped>>
       ELSE /\ synced' = TRUE
            /\ claim' = IF h.whose = "own" THEN NoClaim ELSE claim
            /\ wiped' = IF h.whose = "own" THEN wiped \cup ({claim.saga} \ {h.saga, Null}) ELSE wiped
            /\ events' = [events EXCEPT ![h.saga] = Append(@, h.trigger)]
            /\ inbox' = inbox \cup {h.saga}
    /\ handler' = [handler EXCEPT ![d] = Free]
    /\ UNCHANGED <<clock, reqVars, saga, lapsed>>

(* The consumer dies before the commit; the command will be redelivered. *)
MarkAbort(d) ==
    /\ handler[d] # Free
    /\ handler' = [handler EXCEPT ![d] = Free]
    /\ UNCHANGED <<clock, claim, synced, reqVars, saga, inbox, events, history>>

Tick ==
    /\ clock < MaxClock
    /\ clock' = clock + 1
    /\ UNCHANGED <<claim, synced, reqVars, saga, handler, inbox, events, history>>

ClaimNext ==
    \/ \E r \in Requests :
         \/ Due(r) \/ Begin(r) \/ TryClaim(r) \/ ReadClaim(r) \/ AskStatus(r)
         \/ Steal(r) \/ ReadWinner(r) \/ Defer(r) \/ SagaProceeds(r)
    \/ \E d \in Deliveries, s \in Requests : MarkRead(d, s)
    \/ \E d \in Deliveries : MarkCommit(d) \/ MarkAbort(d)
    \/ Tick

ClaimSpec == ClaimInit /\ [][ClaimNext]_claimVars

-----------------------------------------------------------------------------
(* Properties *)

PC == {"idle", "due", "claiming", "lost", "retrying", "asking", "stealing",
       "lostAgain", "lostSteal", "deferring", "done"}

(* The columns, the calls and the handlers hold values of their kind. *)
TypeOK ==
    /\ clock \in Nat
    /\ claim \in [saga : Requests \cup {Null}, at : Nat, trigger : Trigger \cup {Null}]
    /\ synced \in BOOLEAN
    /\ pc \in [Requests -> PC]
    /\ now \in [Requests -> Nat]
    /\ seen \in [Requests -> Requests \cup {Null}]
    /\ answer \in [Requests -> Requests \cup {Null}]
    /\ saga \in [Requests -> SagaState]
    /\ handler \in [Deliveries -> [saga : Requests \cup {Null}, whose : {"own", "foreign"},
                                   trigger : Trigger \cup {Null}]]
    /\ inbox \subseteq Requests
    /\ events \in [Requests -> Seq(Trigger)]
    /\ lapsed \subseteq Requests /\ wiped \subseteq Requests

(***************************************************************************)
(* One completion event per saga: however often mark_sync_complete is      *)
(* delivered, and even to two handlers at once, the event goes out once.   *)
(***************************************************************************)
OneEventPerSaga == \A s \in Requests : Len(events[s]) <= 1

(***************************************************************************)
(* A sync a user started is never reported as scheduled (and then          *)
(* suppressed by notification-service), also when the scheduler has taken  *)
(* the claim over in the meantime.                                         *)
(***************************************************************************)
OwnManualHeard ==
    \A s \in Manual : \A i \in 1..Len(events[s]) : events[s][i] = "manual"

(* A saga is in flight until it ends or its sync has been marked complete. *)
InFlight(s) == saga[s] \in {"requested", "started", "marking"} /\ s \notin inbox

(***************************************************************************)
(* A saga in flight holds the claim, unless it lost it in one of exactly   *)
(* two ways: the TTL passed, or the command of an older saga cleared it.   *)
(* Neither stealing, nor a retry, nor a lost race takes it away.           *)
(***************************************************************************)
ClaimHeldInFlight ==
    \A s \in Requests : InFlight(s) => claim.saga = s \/ s \in lapsed \cup wiped

(***************************************************************************)
(* The inductive invariant behind the three.  A call that has not returned *)
(* has started no saga, and only a saga known to be terminal is stolen     *)
(* from; the inbox row and the event are one fact; what a handler or the   *)
(* claim says of a user's own saga is manual.                              *)
(***************************************************************************)
CallsInv ==
    \A r \in Requests :
        /\ pc[r] # "done" => saga[r] = "none"
        /\ pc[r] = "asking" => seen[r] \in Requests
        /\ pc[r] = "stealing" => seen[r] \in Requests /\ IsTerminal(seen[r])
        /\ pc[r] \in {"lostSteal", "deferring"} => seen[r] \in Requests

EventsInv ==
    /\ \A s \in Requests : Len(events[s]) = IF s \in inbox THEN 1 ELSE 0
    /\ \A d \in Deliveries : handler[d] # Free =>
         handler[d].saga \in Requests /\ handler[d].trigger \in Trigger

ManualInv ==
    /\ claim.saga # Null => claim.trigger \in Trigger
    /\ claim.saga \in Manual => claim.trigger = "manual"
    /\ \A d \in Deliveries : handler[d].saga \in Manual => handler[d].trigger = "manual"
    /\ OwnManualHeard

ClaimInv == TypeOK /\ CallsInv /\ EventsInv /\ ManualInv /\ ClaimHeldInFlight
=============================================================================
