-------------------------- MODULE SagaOrchestrator --------------------------
(***************************************************************************)
(* The saga-service engine (application/orchestrator.py) with the three    *)
(* workers that call it: the start consumer, the reply consumer and the    *)
(* timeout worker.                                                         *)
(*                                                                         *)
(* A saga row, its step-log rows and the outbox rows it caused are written *)
(* in one transaction under the row lock of the saga, so one record per    *)
(* saga holds all three.  Commands travel through the outbox and RabbitMQ, *)
(* both at-least-once: a command counted in `sent' or `undoSent' may be    *)
(* executed any number of times, at any time, or never.  Replies are       *)
(* published directly by the participants; `replies' is the set of all     *)
(* replies ever published, and a reply in it may be delivered late,        *)
(* repeatedly, out of order, or never.                                     *)
(***************************************************************************)
EXTENDS Naturals, FiniteSets, FiniteSetsExt

CONSTANTS
    Sagas,          \* correlation ids: start_saga uses them as saga ids too
    LastStep,       \* index of the last step of the definition
    Compensatable,  \* steps whose definition has a compensate_event_type
    MaxReplies      \* bound: different replies published for one saga

ASSUME StepAssumption == LastStep \in Nat
ASSUME CompensatableAssumption == Compensatable \subseteq 0..LastStep
ASSUME RepliesAssumption == MaxReplies \in Nat

Steps == 0..LastStep

VARIABLES
    saga,     \* committed rows: saga_instances + saga_step_log + outbox
    replies,  \* every reply published on saga.reply.*
    stale,    \* saga -> is updated_at at or before the timeout cutoff
    sweeping, \* TRUE while check_timeouts has its transaction open
    scan,     \* ids returned by find_stale_ids, not yet visited
    locked,   \* sagas whose row lock the sweep holds
    draft     \* rows as the sweep's transaction sees them

vars == <<saga, replies, stale, sweeping, scan, locked, draft>>

-----------------------------------------------------------------------------
(* Rows *)

SagaStatus == {"none", "started", "compensating", "completed", "failed", "timed_out"}
StepStatus == {"pending", "executing", "succeeded", "failed", "compensated"}

(***************************************************************************)
(* `undo' is what the context holds for compensation: the steps for which  *)
(* build_compensate_command would return a payload.  error_detail is       *)
(* reduced to whether it holds the re-emit marker.  `sent' and `undoSent'  *)
(* count the outbox rows written for each step's command and compensation. *)
(***************************************************************************)
Row == [status       : SagaStatus,
        current_step : Steps,
        steps        : [Steps -> StepStatus],
        undo         : SUBSET Steps,
        error_detail : {"plain", "reemitted"},
        sent         : [Steps -> Nat],
        undoSent     : [Steps -> Nat]]

Reply == [saga : Sagas, step : Steps, is_compensation : BOOLEAN,
          success : BOOLEAN, undo : BOOLEAN]

NoRow == [status       |-> "none",
          current_step |-> 0,
          steps        |-> [i \in Steps |-> "pending"],
          undo         |-> {},
          error_detail |-> "plain",
          sent         |-> [i \in Steps |-> 0],
          undoSent     |-> [i \in Steps |-> 0]]

IsActive(r) == r.status \in {"started", "compensating"}
IsTerminal(r) == r.status \in {"completed", "failed", "timed_out"}

(* The succeeded steps that have a compensation command to send. *)
CompensatableWork(r) == {i \in r.undo \cap Compensatable : r.steps[i] = "succeeded"}

HasCompensatableWork(r) == CompensatableWork(r) # {}

-----------------------------------------------------------------------------
(* What the handlers do to a row *)

PublishStepCommand(r, i) == [r EXCEPT !.sent[i] = @ + 1]

OutboxCompensationCommand(r, i) == [r EXCEPT !.undoSent[i] = @ + 1]

(* Mutant of CompensatePrevious: steps without a command are not marked. *)
CompensatePreviousUnmarked(r) ==
    LET below == {i \in CompensatableWork(r) : i < r.current_step}
    IN  IF below = {}
        THEN [r EXCEPT !.status = "failed", !.current_step = 0]
        ELSE OutboxCompensationCommand([r EXCEPT !.current_step = Max(below)], Max(below))

(***************************************************************************)
(* The loop of _compensate_previous.  Walking down from current_step it    *)
(* marks succeeded steps without a compensation command as compensated,    *)
(* stops at the first one that has a command and writes that command; when *)
(* it reaches step 0 without finding one the saga has failed.              *)
(***************************************************************************)
CompensatePrevious(r) ==
    LET below == {i \in CompensatableWork(r) : i < r.current_step}
        skipped(top) == [i \in Steps |->
                           IF i > top /\ i < r.current_step /\ r.steps[i] = "succeeded"
                           THEN "compensated" ELSE r.steps[i]]
        all == [i \in Steps |->
                  IF i < r.current_step /\ r.steps[i] = "succeeded"
                  THEN "compensated" ELSE r.steps[i]]
    IN  IF below = {}
        THEN [r EXCEPT !.status = "failed", !.current_step = 0, !.steps = all]
        ELSE OutboxCompensationCommand(
               [r EXCEPT !.current_step = Max(below), !.steps = skipped(Max(below))],
               Max(below))

(* Mutant of BeginCompensation: the failure is final, nothing is undone. *)
FailOutright(r) == [r EXCEPT !.steps[r.current_step] = "failed", !.status = "failed"]

BeginCompensation(r) ==
    CompensatePrevious([r EXCEPT !.steps[r.current_step] = "failed",
                                 !.status = "compensating",
                                 !.error_detail = "plain"])

(* _advance: u says whether the reply left something to undo in the context. *)
Advance(r, u) ==
    LET done == [r EXCEPT !.steps[r.current_step] = "succeeded",
                          !.undo = IF u THEN @ \cup {r.current_step} ELSE @]
        next == r.current_step + 1
    IN  IF r.current_step = LastStep
        THEN [done EXCEPT !.status = "completed"]
        ELSE PublishStepCommand([done EXCEPT !.current_step = next,
                                             !.steps[next] = "executing"], next)

CompensationFailed(r) ==
    [r EXCEPT !.steps[r.current_step] = "failed", !.status = "failed"]

(* A failure reply to a compensation also overwrites error_detail. *)
CompensationRefused(r) == [CompensationFailed(r) EXCEPT !.error_detail = "plain"]

HandleStaleExecution(r) ==
    IF HasCompensatableWork(r)
    THEN BeginCompensation(r)
    ELSE [r EXCEPT !.status = "timed_out"]

(* Mutant of HandleStaleCompensation: the re-emit marker is not recorded. *)
ReemitAgain(r) ==
    IF r.error_detail = "reemitted" THEN CompensationFailed(r)
                   ELSE OutboxCompensationCommand(r, r.current_step)

HandleStaleCompensation(r) ==
    IF r.error_detail = "reemitted" \/ r.current_step \notin r.undo \cap Compensatable
    THEN CompensationFailed(r)
    ELSE [OutboxCompensationCommand(r, r.current_step) EXCEPT !.error_detail = "reemitted"]

HandleStale(r) ==
    IF r.status = "compensating" THEN HandleStaleCompensation(r)
                                 ELSE HandleStaleExecution(r)

-----------------------------------------------------------------------------
(* Actions *)

Init ==
    /\ saga = [s \in Sagas |-> NoRow]
    /\ replies = {}
    /\ stale = [s \in Sagas |-> FALSE]
    /\ sweeping = FALSE
    /\ scan = {}
    /\ locked = {}
    /\ draft = [s \in Sagas |-> NoRow]

(* A transaction that writes row r for s also sets updated_at = now. *)
Write(s, r) ==
    /\ saga' = [saga EXCEPT ![s] = r]
    /\ stale' = [stale EXCEPT ![s] = FALSE]

(* The row lock is taken with the read and kept until the transaction ends. *)
GetByIdForUpdate(s) == s \notin locked

GetByCorrelationId(s) == saga[s].status # "none"

(* save: the new row and its step-log rows. *)
Save(s, r) == Write(s, r)

(***************************************************************************)
(* start_saga.  A second start event for the same correlation id raises    *)
(* DuplicateSaga (or loses on the unique constraint) and is acked without  *)
(* effect, so only the first one is a step.                                *)
(***************************************************************************)
StartSaga(s) ==
    /\ ~ GetByCorrelationId(s)
    /\ Save(s, PublishStepCommand([NoRow EXCEPT !.status = "started",
                                                !.steps[0] = "executing"], 0))
    /\ UNCHANGED <<replies, sweeping, scan, locked, draft>>

ApplyReply(m) ==
    LET r == saga[m.saga] IN
    /\ Write(m.saga, IF m.success THEN Advance(r, m.undo) ELSE BeginCompensation(r))
    /\ UNCHANGED <<replies, sweeping, scan, locked, draft>>

(* Mutant of HandleReply: the step name is not compared. *)
HandleReplyOfAnyStep(m) ==
    /\ ~m.is_compensation
    /\ m.saga \notin locked
    /\ saga[m.saga].status = "started"
    /\ ApplyReply(m)

(* Mutant of HandleReply: the saga is read without the row lock. *)
HandleReplyUnlocked(m) ==
    /\ ~m.is_compensation
    /\ saga[m.saga].status = "started"
    /\ saga[m.saga].current_step = m.step
    /\ ApplyReply(m)

(***************************************************************************)
(* handle_reply under the row lock.  A reply for a saga that is not        *)
(* started is acked, one for another step is dead-lettered; neither        *)
(* changes anything.                                                       *)
(***************************************************************************)
HandleReply(m) ==
    /\ ~m.is_compensation
    /\ GetByIdForUpdate(m.saga)
    /\ saga[m.saga].status = "started"
    /\ saga[m.saga].current_step = m.step
    /\ ApplyReply(m)

(* handle_compensation_reply under the row lock. *)
HandleCompensationReply(m) ==
    LET r == saga[m.saga] IN
    /\ m.is_compensation
    /\ GetByIdForUpdate(m.saga)
    /\ r.status = "compensating"
    /\ r.current_step = m.step
    /\ Write(m.saga,
             IF m.success
             THEN CompensatePrevious([r EXCEPT !.steps[r.current_step] = "compensated"])
             ELSE CompensationRefused(r))
    /\ UNCHANGED <<replies, sweeping, scan, locked, draft>>

(***************************************************************************)
(* updated_at falls behind the cutoff.  A sweep computes its cutoff once,  *)
(* so relative to a sweep in progress no saga becomes stale.               *)
(***************************************************************************)
Age(s) ==
    /\ ~sweeping
    /\ IsActive(saga[s])
    /\ ~stale[s]
    /\ stale' = [stale EXCEPT ![s] = TRUE]
    /\ UNCHANGED <<saga, replies, sweeping, scan, locked, draft>>

(* Mutant of TimeoutScan: compensating sagas are not looked for. *)
TimeoutScanStarted ==
    /\ ~sweeping
    /\ \E s \in Sagas : saga[s].status = "started" /\ stale[s]
    /\ sweeping' = TRUE
    /\ scan' = {s \in Sagas : saga[s].status = "started" /\ stale[s]}
    /\ UNCHANGED <<saga, replies, stale, locked, draft>>

(* check_timeouts, first statement: the unlocked scan for ids. *)
TimeoutScan ==
    /\ ~sweeping
    /\ \E s \in Sagas : IsActive(saga[s]) /\ stale[s]
    /\ sweeping' = TRUE
    /\ scan' = {s \in Sagas : IsActive(saga[s]) /\ stale[s]}
    /\ UNCHANGED <<saga, replies, stale, locked, draft>>

(* Mutant of TimeoutVisit: the candidate is not re-validated under its lock. *)
TimeoutVisitUnchecked(s) ==
    /\ sweeping
    /\ s \in scan
    /\ scan' = scan \ {s}
    /\ locked' = locked \cup {s}
    /\ draft' = [draft EXCEPT ![s] = HandleStale(saga[s])]
    /\ UNCHANGED <<saga, replies, stale, sweeping>>

(***************************************************************************)
(* check_timeouts, one turn of the loop: take the row lock, re-validate,   *)
(* and either skip the saga or stage its new row.  The lock is kept until  *)
(* the sweep's transaction ends, for skipped sagas too.                    *)
(***************************************************************************)
TimeoutVisit(s) ==
    LET r == saga[s] IN
    /\ sweeping
    /\ s \in scan
    /\ scan' = scan \ {s}
    /\ locked' = locked \cup {s}
    /\ draft' = [draft EXCEPT ![s] = IF IsActive(r) /\ stale[s] THEN HandleStale(r) ELSE r]
    /\ UNCHANGED <<saga, replies, stale, sweeping>>

(* The sweep's single commit: every staged row becomes visible at once. *)
TimeoutCommit ==
    /\ sweeping
    /\ scan = {}
    /\ saga' = [s \in Sagas |-> IF s \in locked THEN draft[s] ELSE saga[s]]
    /\ stale' = [s \in Sagas |-> stale[s] /\ s \notin locked]
    /\ sweeping' = FALSE
    /\ locked' = {}
    /\ draft' = [s \in Sagas |-> NoRow]
    /\ UNCHANGED <<replies, scan>>

(* The worker dies or the database fails: the transaction rolls back. *)
TimeoutAbort ==
    /\ sweeping
    /\ sweeping' = FALSE
    /\ scan' = {}
    /\ locked' = {}
    /\ draft' = [s \in Sagas |-> NoRow]
    /\ UNCHANGED <<saga, replies, stale>>

(***************************************************************************)
(* A participant executes a command it received and publishes a reply.     *)
(* Executions of the same command may end differently: a redelivered       *)
(* import finds its rows already there and has nothing to undo, a retry    *)
(* may fail after a first success whose reply was lost.                    *)
(***************************************************************************)
Publish(m) ==
    /\ m \notin replies
    /\ Cardinality({x \in replies : x.saga = m.saga}) < MaxReplies
    /\ replies' = replies \cup {m}
    /\ UNCHANGED <<saga, stale, sweeping, scan, locked, draft>>

ReplyToCommand(s, i) ==
    /\ saga[s].sent[i] > 0
    /\ \E ok \in BOOLEAN, u \in BOOLEAN :
         /\ u => ok /\ i \in Compensatable
         /\ Publish([saga |-> s, step |-> i, is_compensation |-> FALSE,
                     success |-> ok, undo |-> u])

ReplyToCompensation(s, i) ==
    /\ saga[s].undoSent[i] > 0
    /\ \E ok \in BOOLEAN :
         Publish([saga |-> s, step |-> i, is_compensation |-> TRUE,
                  success |-> ok, undo |-> FALSE])

(***************************************************************************)
(* A participant that gives up on a compensation after MAX_RETRIES raised  *)
(* exceptions answers with a plain failure: its reply does not carry the   *)
(* is_compensation flag.                                                   *)
(***************************************************************************)
GiveUpCompensation(s, i) ==
    /\ saga[s].undoSent[i] > 0
    /\ Publish([saga |-> s, step |-> i, is_compensation |-> FALSE,
                success |-> FALSE, undo |-> FALSE])

(* The consumers.  An event that cannot be parsed, or that the engine      *)
(* refuses, leaves the queue without effect.                               *)
SagaStartConsumer(s) == StartSaga(s)

SagaReplyConsumer(m) == HandleReply(m) \/ HandleCompensationReply(m)

Next ==
    \/ \E s \in Sagas : SagaStartConsumer(s) \/ Age(s) \/ TimeoutVisit(s)
    \/ \E m \in replies : SagaReplyConsumer(m)
    \/ TimeoutScan \/ TimeoutCommit \/ TimeoutAbort
    \/ \E s \in Sagas, i \in Steps :
         ReplyToCommand(s, i) \/ ReplyToCompensation(s, i) \/ GiveUpCompensation(s, i)

Spec == Init /\ [][Next]_vars

(***************************************************************************)
(* The timeout worker is a `while True' loop and time passes, so its steps *)
(* are fair, and from some point on its sweeps no longer crash.  Nothing   *)
(* is assumed about participants, the broker or the reply consumer.        *)
(***************************************************************************)
Fairness ==
    /\ \A s \in Sagas : WF_vars(Age(s)) /\ WF_vars(TimeoutVisit(s))
    /\ WF_vars(TimeoutScan)
    /\ WF_vars(TimeoutCommit)
    /\ <>[][~TimeoutAbort]_vars

FairSpec == Spec /\ Fairness

-----------------------------------------------------------------------------
(* Properties *)

(* Every variable holds values of the kind the schema and workers allow. *)
TypeOK ==
    /\ saga \in [Sagas -> Row]
    /\ replies \subseteq Reply
    /\ stale \in [Sagas -> BOOLEAN]
    /\ sweeping \in BOOLEAN
    /\ scan \subseteq Sagas
    /\ locked \subseteq Sagas
    /\ draft \in [Sagas -> Row]

(***************************************************************************)
(* The step log agrees with the saga row.  While started, everything       *)
(* before current_step succeeded, current_step executes and the rest is    *)
(* pending.  While compensating there is one failed step; between it and   *)
(* current_step all is compensated, current_step is the succeeded step     *)
(* whose compensation is out, and everything before it still stands.       *)
(***************************************************************************)
ForwardShape(r) ==
    \A i \in Steps : r.steps[i] = IF i < r.current_step THEN "succeeded"
                                  ELSE IF i = r.current_step THEN "executing"
                                  ELSE "pending"

BackwardShape(r, here) ==
    \E f \in Steps :
        /\ r.current_step < f
        /\ \A i \in Steps : r.steps[i] = IF i < r.current_step THEN "succeeded"
                                         ELSE IF i = r.current_step THEN here
                                         ELSE IF i < f THEN "compensated"
                                         ELSE IF i = f THEN "failed"
                                         ELSE "pending"

RolledBackShape(r) ==
    \E f \in Steps : \A i \in Steps : r.steps[i] = IF i < f THEN "compensated"
                                                   ELSE IF i = f THEN "failed"
                                                   ELSE "pending"

RowShape(r) ==
    /\ r.status = "none" => r = NoRow
    /\ r.status = "started" => ForwardShape(r)
    /\ r.status = "timed_out" => ForwardShape(r) /\ ~HasCompensatableWork(r)
    /\ r.status = "completed" => \A i \in Steps : r.steps[i] = "succeeded"
    /\ r.status = "compensating" =>
         BackwardShape(r, "succeeded") /\ r.current_step \in r.undo \cap Compensatable
    /\ r.status = "failed" => RolledBackShape(r) \/ BackwardShape(r, "failed")

StepLogAgrees == \A s \in Sagas : RowShape(saga[s])

(***************************************************************************)
(* Emission: an execution command is written exactly once, when its step   *)
(* leaves pending, so (saga_id, step_name) identifies it (the assumption   *)
(* behind banking's inbox key); a compensation command is written only for *)
(* a step with something to undo, and over the whole saga at most one of   *)
(* them is written a second time.                                          *)
(***************************************************************************)
RowEmission(r) ==
    /\ \A i \in Steps : r.sent[i] = IF r.steps[i] = "pending" THEN 0 ELSE 1
    /\ \A i \in Steps : r.undoSent[i] > 0 => i \in r.undo \cap Compensatable
    /\ \A i \in Steps : r.undoSent[i] <= 2
    /\ \A i, j \in Steps : r.undoSent[i] = 2 /\ r.undoSent[j] = 2 => i = j

CommandsEmittedOnce == \A s \in Sagas : RowEmission(saga[s])

(***************************************************************************)
(* The inductive invariant.  For a row: the step log and the emission      *)
(* counts agree with it, and where compensation stands relative to the     *)
(* counts (nothing sent below current_step, the pending one sent, a second *)
(* copy only with the marker).  For the sweep: what it has staged for a    *)
(* saga it locked is that saga's committed row or the stale-handling of it.*)
(***************************************************************************)
RowProgress(r) ==
    /\ \A i \in r.undo : r.steps[i] \in {"succeeded", "failed", "compensated"}
    /\ r.status \in {"none", "started", "timed_out", "completed"} =>
         \A i \in Steps : r.undoSent[i] = 0
    /\ r.status = "compensating" =>
         /\ r.undoSent[r.current_step] > 0
         /\ \A i \in Steps : i < r.current_step => r.undoSent[i] = 0
         /\ r.error_detail = "plain" => \A i \in Steps : r.undoSent[i] <= 1

RowInv(r) == r \in Row /\ RowShape(r) /\ RowEmission(r) /\ RowProgress(r)

SweepInv ==
    /\ ~sweeping => scan = {} /\ locked = {}
    /\ \A s \in scan \cup locked : saga[s].status # "none"
    /\ \A s \in locked : \/ draft[s] = saga[s]
                         \/ IsActive(saga[s]) /\ draft[s] = HandleStale(saga[s])

IInv == TypeOK /\ (\A s \in Sagas : RowInv(saga[s])) /\ SweepInv

(***************************************************************************)
(* No step is recorded as done or undone on anything but a participant's   *)
(* word: succeeded needs a success reply, and a step with something to     *)
(* undo is compensated only after a success reply to its compensation.     *)
(***************************************************************************)
Answered(s, i, comp) ==
    \E m \in replies : m.saga = s /\ m.step = i /\ m.is_compensation = comp /\ m.success

BackedByReplies ==
    \A s \in Sagas, i \in Steps :
        /\ saga[s].steps[i] \in {"succeeded", "compensated"} => Answered(s, i, FALSE)
        /\ saga[s].steps[i] = "compensated" /\ i \in saga[s].undo \cap Compensatable
              => Answered(s, i, TRUE)

(***************************************************************************)
(* A failed saga has undone everything undoable, unless compensation       *)
(* itself was refused by a participant or stayed unanswered after the      *)
(* command had been emitted a second time.                                 *)
(***************************************************************************)
GaveUpOnCompensation(s) ==
    \E i \in Steps :
        \/ saga[s].undoSent[i] = 2
        \/ \E m \in replies : /\ m.saga = s /\ m.step = i
                              /\ m.is_compensation /\ ~m.success

NoWorkLeftBehind ==
    \A s \in Sagas :
        saga[s].status = "failed" /\ ~GaveUpOnCompensation(s)
            => \A i \in saga[s].undo \cap Compensatable : saga[s].steps[i] = "compensated"

(***************************************************************************)
(* Terminal rows never change again: no late reply, duplicate start or     *)
(* sweep that scanned before the saga ended resurrects or rewrites them.   *)
(***************************************************************************)
TerminalIsFinal ==
    [][\A s \in Sagas : IsTerminal(saga[s]) => saga'[s] = saga[s]]_vars

(***************************************************************************)
(* The engine implements SagaPromise.  A step's work stands from its       *)
(* success reply until it is marked compensated; a step that failed after  *)
(* its compensation command went out is one whose undoing did not work     *)
(* out, so its work still stands.                                          *)
(***************************************************************************)
Standing(r) == {i \in Steps : \/ r.steps[i] = "succeeded"
                              \/ r.steps[i] = "failed" /\ r.undoSent[i] > 0}

Phase(r) ==
    CASE r.status = "started" -> "forward"
      [] r.status = "compensating" -> "backward"
      [] r.status = "failed" -> IF Standing(r) = {} THEN "rolled_back" ELSE "stuck"
      [] OTHER -> r.status

Abstract(r) == [phase |-> Phase(r), standing |-> Standing(r), owed |-> r.undo \cap Compensatable]

Promise == INSTANCE SagaPromise WITH st <- [s \in Sagas |-> Abstract(saga[s])]

(* The refinement: committed rows only ever move the way SagaPromise allows. *)
KeepsPromise == Promise!Spec

(* Every started saga reaches a terminal status, even if no participant    *)
(* ever answers, because the timeout worker keeps sweeping.                *)
EventuallyTerminal ==
    \A s \in Sagas : (saga[s].status = "started") ~> IsTerminal(saga[s])
=============================================================================
