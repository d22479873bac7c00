----------------------- MODULE SagaOrchestratorProofs -----------------------
(***************************************************************************)
(* Proofs about SagaOrchestrator for any number of sagas and steps and any *)
(* set of compensatable steps.  The handlers are functions from rows to    *)
(* rows, so the work is in lemmas about one row; the state-level step only *)
(* has to know which handler wrote which row.                              *)
(***************************************************************************)
EXTENDS SagaOrchestrator, WellFoundedInduction, NaturalsInduction, TLAPS

-----------------------------------------------------------------------------
(* The greatest element of a set of steps *)

(* A nonempty set of naturals has a least element. *)
LEMMA LeastOfNats ==
  ASSUME NEW T \in SUBSET Nat, T # {}
  PROVE  \E x \in T : \A y \in T : ~ (y < x)
<1> DEFINE R == OpToRel(<, Nat)
<1>1. IsWellFoundedOn(R, Nat) BY NatLessThanWellFounded
<1>2. \A x, y \in Nat : y < x => <<y, x>> \in R
  BY DEF OpToRel
<1> HIDE DEF R
<1>3. \E x \in T : \A y \in T : ~ (<<y, x>> \in R)
  BY <1>1, WFMin
<1> QED BY <1>2, <1>3

(* Max finds the greatest step of a nonempty set of steps: the loop of
   _compensate_previous stops at exactly one step. *)
LEMMA MaxOfSteps ==
  ASSUME NEW n \in Nat, NEW S \in SUBSET (0..n), S # {}
  PROVE  /\ Max(S) \in S
         /\ \A k \in S : k <= Max(S)
<1> DEFINE T == {n - k : k \in S}
<1>1. T \in SUBSET Nat
  <2> SUFFICES ASSUME NEW k \in S PROVE n - k \in Nat
    OBVIOUS
  <2> QED OBVIOUS
<1>2. T # {}  OBVIOUS
<1>3. PICK x \in T : \A y \in T : ~ (y < x)
  BY <1>1, <1>2, LeastOfNats
<1>4. PICK m \in S : x = n - m  OBVIOUS
<1>5. \A k \in S : m >= k
  <2> TAKE k \in S
  <2>1. n - k \in T OBVIOUS
  <2>2. ~(n - k < x) BY <2>1, <1>3
  <2> QED BY <2>2, <1>4
<1> QED BY <1>5 DEF Max

-----------------------------------------------------------------------------
(* Rows *)

(* The steps below current_step stand and those above it are settled. *)
ReadyToGoBack(r) ==
    /\ r \in Row
    /\ r.status = "compensating"
    /\ \E f \in Steps :
         /\ r.current_step <= f
         /\ \A i \in Steps : r.steps[i] = IF i < r.current_step THEN "succeeded"
                                          ELSE IF i < f THEN "compensated"
                                          ELSE IF i = f THEN "failed"
                                          ELSE "pending"
    /\ RowEmission(r)
    /\ \A i \in r.undo : r.steps[i] \in {"succeeded", "failed", "compensated"}
    /\ \A i \in Steps : i < r.current_step => r.undoSent[i] = 0
    /\ r.error_detail = "plain" => \A i \in Steps : r.undoSent[i] <= 1

(* A started row whose current step has failed, and a compensating row whose
   current step is undone: the rows the loop backwards starts from. *)
TurnedBack(r) == [r EXCEPT !.steps[r.current_step] = "failed",
                           !.status = "compensating", !.error_detail = "plain"]

Undone(r) == [r EXCEPT !.steps[r.current_step] = "compensated"]

(* Going back from such a row gives a row that satisfies the invariant. *)
LEMMA CompensatePreviousInv ==
  ASSUME NEW r, ReadyToGoBack(r)
  PROVE  RowInv(CompensatePrevious(r))
<1> DEFINE below == {i \in CompensatableWork(r) : i < r.current_step}
           q == CompensatePrevious(r)
<1> USE StepAssumption, CompensatableAssumption
<1>0. /\ r \in Row /\ r.current_step \in Steps /\ r.steps \in [Steps -> StepStatus]
      /\ r.undo \in SUBSET Steps /\ r.error_detail \in {"plain", "reemitted"}
      /\ r.sent \in [Steps -> Nat] /\ r.undoSent \in [Steps -> Nat]
  BY DEF ReadyToGoBack, Row
<1>f. PICK f \in Steps :
         /\ r.current_step <= f
         /\ \A i \in Steps : r.steps[i] = IF i < r.current_step THEN "succeeded"
                                          ELSE IF i < f THEN "compensated"
                                          ELSE IF i = f THEN "failed"
                                          ELSE "pending"
  BY DEF ReadyToGoBack
<1>n. Steps \subseteq Nat
  BY DEF Steps
<1>e. /\ RowEmission(r)
      /\ \A i \in r.undo : r.steps[i] \in {"succeeded", "failed", "compensated"}
      /\ \A i \in Steps : i < r.current_step => r.undoSent[i] = 0
      /\ r.error_detail = "plain" => \A i \in Steps : r.undoSent[i] <= 1
  BY DEF ReadyToGoBack
<1>1. CASE below = {}
  <2> DEFINE all == [i \in Steps |->
                       IF i < r.current_step /\ r.steps[i] = "succeeded"
                       THEN "compensated" ELSE r.steps[i]]
  <2>1. q = [r EXCEPT !.status = "failed", !.current_step = 0, !.steps = all]
    BY <1>1 DEF CompensatePrevious
  <2>2. q \in Row
    <3>1. all \in [Steps -> StepStatus] BY <1>0 DEF StepStatus
    <3> HIDE DEF all, q
    <3>2. 0 \in Steps BY DEF Steps
    <3>3. "failed" \in SagaStatus BY DEF SagaStatus
    <3> QED BY <2>1, <1>0, <3>1, <3>2, <3>3 DEF Row
  <2>3. /\ q.status = "failed" /\ q.steps = all /\ q.sent = r.sent
        /\ q.undo = r.undo /\ q.undoSent = r.undoSent /\ q.error_detail = r.error_detail
    BY <2>1, <1>0 DEF Row
  <2>4. \A i \in Steps : all[i] = IF i < f THEN "compensated"
                                  ELSE IF i = f THEN "failed" ELSE "pending"
    BY SMTT(30), <1>f, <1>0 DEF Steps
  <2>p. \A i \in Steps : (all[i] = "pending" <=> r.steps[i] = "pending")
    <3> TAKE i \in Steps
    <3>1. i \in Nat /\ f \in Nat /\ r.current_step \in Nat BY <1>n, <1>0
    <3> QED BY <3>1, <2>4, <1>f
  <2>s. \A i \in Steps : all[i] \in {"failed", "compensated", "pending"}
    BY <2>4
  <2> HIDE DEF all, q
  <2>5. RowShape(q)
    BY <2>3, <2>4, <1>f DEF RowShape, RolledBackShape
  <2>6. RowEmission(q)
    BY <2>3, <2>p, <1>e, <1>0 DEF RowEmission
  <2>7. RowProgress(q)
    BY <2>3, <2>p, <2>s, <1>e, <1>0 DEF RowProgress
  <2> QED BY <2>2, <2>5, <2>6, <2>7 DEF RowInv, q
<1>2. CASE below # {}
  <2> DEFINE t == Max(below)
             skipped == [i \in Steps |->
                           IF i > t /\ i < r.current_step /\ r.steps[i] = "succeeded"
                           THEN "compensated" ELSE r.steps[i]]
  <2>a. below \in SUBSET (0..LastStep)
    BY <1>0 DEF CompensatableWork, Row, Steps
  <2>b. t \in below
    BY <2>a, <1>2, MaxOfSteps
  <2>c. /\ t \in Steps /\ t < r.current_step
        /\ t \in r.undo \cap Compensatable
    BY <2>a, <2>b DEF CompensatableWork, Steps
  <2>1. q = [r EXCEPT !.current_step = t, !.steps = skipped,
                      !.undoSent = [r.undoSent EXCEPT ![t] = @ + 1]]
    BY <1>2, <1>0 DEF CompensatePrevious, OutboxCompensationCommand, Row
  <2> HIDE DEF t
  <2>2. q \in Row
    <3>1. skipped \in [Steps -> StepStatus] BY <1>0 DEF StepStatus
    <3>2. [r.undoSent EXCEPT ![t] = @ + 1] \in [Steps -> Nat] BY <1>0, <2>c
    <3> HIDE DEF skipped, q
    <3> QED BY <2>1, <2>c, <1>0, <3>1, <3>2 DEF Row
  <2>3. /\ q.status = "compensating" /\ q.steps = skipped /\ q.sent = r.sent
        /\ q.current_step = t
        /\ q.undo = r.undo /\ q.error_detail = r.error_detail
        /\ q.undoSent = [r.undoSent EXCEPT ![t] = @ + 1]
    BY <2>1, <1>0 DEF Row, ReadyToGoBack
  <2>4. \A i \in Steps : skipped[i] = IF i < t THEN "succeeded"
                                      ELSE IF i = t THEN "succeeded"
                                      ELSE IF i < f THEN "compensated"
                                      ELSE IF i = f THEN "failed" ELSE "pending"
    BY SMTT(30), <1>f, <1>0, <2>c DEF Steps
  <2>u. r.undoSent \in [Steps -> Nat] /\ r.undoSent[t] = 0
    BY <1>0, <2>c DEF Row, ReadyToGoBack
  <2>v. \A i \in Steps : q.undoSent[i] = IF i = t THEN 1 ELSE r.undoSent[i]
    BY <2>3, <2>u, <2>c
  <2>p. \A i \in Steps : (skipped[i] = "pending" <=> r.steps[i] = "pending")
    <3> TAKE i \in Steps
    <3>1. i \in Nat /\ f \in Nat /\ r.current_step \in Nat /\ t \in Nat
      BY <1>n, <1>0, <2>c
    <3> QED BY <3>1, <2>4, <2>c, <1>f
  <2>s. \A i \in Steps : skipped[i] \in {"succeeded", "failed", "compensated", "pending"}
    BY <2>4
  <2> HIDE DEF skipped, q
  <2>5. RowShape(q)
    <3>1. BackwardShape(q, "succeeded")
      <4>0. t \in Nat /\ f \in Nat /\ r.current_step \in Nat BY <2>c, <1>n, <1>0
      <4>1. t < f BY <4>0, <2>c, <1>f
      <4> QED BY <4>1, <2>3, <2>4, <1>f DEF BackwardShape
    <3> QED BY <3>1, <2>3, <2>c DEF RowShape
  <2>6. RowEmission(q)
    <3>1. \A i \in Steps : q.sent[i] = IF q.steps[i] = "pending" THEN 0 ELSE 1
      BY <2>3, <2>p, <1>e DEF RowEmission
    <3>2. \A i \in Steps : q.undoSent[i] > 0 => i \in q.undo \cap Compensatable
      BY <2>3, <2>v, <2>c, <1>e DEF RowEmission
    <3>3. \A i \in Steps : q.undoSent[i] <= 2 /\ (q.undoSent[i] = 2 => r.undoSent[i] = 2)
      BY <2>v, <1>e, <2>u DEF RowEmission
    <3> QED BY <3>1, <3>2, <3>3, <2>3, <1>e DEF RowEmission
  <2>7. RowProgress(q)
    <3>1. \A i \in q.undo : q.steps[i] \in {"succeeded", "failed", "compensated"}
      BY <2>3, <2>p, <2>s, <1>e, <1>0
    <3>2. \A i \in Steps : i < t => q.undoSent[i] = 0
      <4> SUFFICES ASSUME NEW i \in Steps, i < t PROVE q.undoSent[i] = 0
        OBVIOUS
      <4>0. i \in Nat /\ t \in Nat /\ r.current_step \in Nat BY <2>c, <1>n, <1>0
      <4>1. i < r.current_step /\ i # t BY <4>0, <2>c
      <4> QED BY <4>1, <2>v, <1>e
    <3>3. q.error_detail = "plain" => \A i \in Steps : q.undoSent[i] <= 1
      BY <2>3, <2>v, <1>e
    <3> QED BY <3>1, <3>2, <3>3, <2>3, <2>v, <2>c DEF RowProgress
  <2> QED BY <2>2, <2>5, <2>6, <2>7 DEF RowInv, q
<1> QED BY <1>1, <1>2

(* A failure reply, or a timeout with work to undo, turns a started saga back. *)
LEMMA BeginCompensationInv ==
  ASSUME NEW r, RowInv(r), r.status = "started"
  PROVE  ReadyToGoBack(TurnedBack(r)) /\ RowInv(BeginCompensation(r))
<1> USE StepAssumption, CompensatableAssumption
<1> DEFINE c == r.current_step
           q == [r EXCEPT !.steps[r.current_step] = "failed",
                          !.status = "compensating", !.error_detail = "plain"]
<1>0. /\ r \in Row /\ c \in Steps /\ r.steps \in [Steps -> StepStatus]
      /\ r.undo \in SUBSET Steps /\ Steps \subseteq Nat
  BY SMTT(30) DEF RowInv, Row, Steps
<1>1. ForwardShape(r) /\ RowEmission(r) /\ RowProgress(r)
  BY DEF RowInv, RowShape
<1>2. /\ q.status = "compensating" /\ q.current_step = c /\ q.error_detail = "plain"
      /\ q.steps = [r.steps EXCEPT ![c] = "failed"]
      /\ q.undo = r.undo /\ q.sent = r.sent /\ q.undoSent = r.undoSent
  BY <1>0 DEF Row
<1>3. q \in Row
  <2>1. [r.steps EXCEPT ![c] = "failed"] \in [Steps -> StepStatus]
    BY <1>0 DEF StepStatus
  <2> QED BY <2>1, <1>0 DEF Row, SagaStatus
<1>4. \A i \in Steps : q.steps[i] = IF i = c THEN "failed" ELSE r.steps[i]
  BY <1>0, <1>2
<1> HIDE DEF q
<1>5. \A i \in Steps : q.steps[i] = IF i < c THEN "succeeded"
                                    ELSE IF i < c THEN "compensated"
                                    ELSE IF i = c THEN "failed" ELSE "pending"
  BY <1>0, <1>1, <1>4 DEF ForwardShape
<1>6. \A i \in Steps : (q.steps[i] = "pending" <=> r.steps[i] = "pending")
  BY <1>4, <1>1, <1>0 DEF ForwardShape
<1>7. RowEmission(q)
  <2>1. \A i \in Steps : r.undoSent[i] = 0
    BY <1>1 DEF RowProgress
  <2> QED BY <2>1, <1>2, <1>6, <1>1 DEF RowEmission
<1>8. \A i \in q.undo : q.steps[i] \in {"succeeded", "failed", "compensated"}
  BY <1>0, <1>1, <1>2, <1>4 DEF RowProgress
<1>9. \A i \in Steps : q.undoSent[i] = 0
  BY <1>1, <1>2 DEF RowProgress
<1>10. /\ \A i \in Steps : i < c => q.undoSent[i] = 0
       /\ \A i \in Steps : q.undoSent[i] <= 1
       /\ c <= c
  <2>1. c \in Nat BY <1>0
  <2> QED BY <1>9, <2>1
<1>11. ReadyToGoBack(q)
  <2>1. \E f \in Steps :
          /\ q.current_step <= f
          /\ \A i \in Steps : q.steps[i] = IF i < q.current_step THEN "succeeded"
                                           ELSE IF i < f THEN "compensated"
                                           ELSE IF i = f THEN "failed"
                                           ELSE "pending"
    <3>1. c \in Steps BY <1>0
    <3> HIDE DEF c
    <3> QED BY <3>1, <1>10, <1>2, <1>5
  <2> QED BY <2>1, <1>2, <1>3, <1>7, <1>8, <1>10 DEF ReadyToGoBack
<1> QED BY <1>11, CompensatePreviousInv DEF BeginCompensation, TurnedBack, q

(* An acknowledged compensation moves a compensating saga further back. *)
LEMMA CompensatedInv ==
  ASSUME NEW r, RowInv(r), r.status = "compensating"
  PROVE  ReadyToGoBack(Undone(r)) /\ RowInv(CompensatePrevious(Undone(r)))
<1> USE StepAssumption, CompensatableAssumption
<1> DEFINE c == r.current_step
           q == [r EXCEPT !.steps[r.current_step] = "compensated"]
<1>0. /\ r \in Row /\ c \in Steps /\ r.steps \in [Steps -> StepStatus]
      /\ r.undo \in SUBSET Steps /\ Steps \subseteq Nat
  BY SMTT(30) DEF RowInv, Row, Steps
<1>1. BackwardShape(r, "succeeded") /\ RowEmission(r) /\ RowProgress(r)
  BY DEF RowInv, RowShape
<1>f. PICK f \in Steps :
        /\ c < f
        /\ \A i \in Steps : r.steps[i] = IF i < c THEN "succeeded"
                                         ELSE IF i = c THEN "succeeded"
                                         ELSE IF i < f THEN "compensated"
                                         ELSE IF i = f THEN "failed"
                                         ELSE "pending"
  BY <1>1 DEF BackwardShape
<1>2. /\ q.status = "compensating" /\ q.current_step = c
      /\ q.error_detail = r.error_detail
      /\ q.steps = [r.steps EXCEPT ![c] = "compensated"]
      /\ q.undo = r.undo /\ q.sent = r.sent /\ q.undoSent = r.undoSent
  BY <1>0 DEF Row
<1>3. q \in Row
  <2>1. [r.steps EXCEPT ![c] = "compensated"] \in [Steps -> StepStatus]
    BY <1>0 DEF StepStatus
  <2> QED BY <2>1, <1>0 DEF Row
<1>4. \A i \in Steps : q.steps[i] = IF i = c THEN "compensated" ELSE r.steps[i]
  BY <1>0, <1>2
<1> HIDE DEF q
<1>5. \A i \in Steps : q.steps[i] = IF i < c THEN "succeeded"
                                    ELSE IF i < f THEN "compensated"
                                    ELSE IF i = f THEN "failed" ELSE "pending"
  BY <1>0, <1>f, <1>4
<1>6. \A i \in Steps : (q.steps[i] = "pending" <=> r.steps[i] = "pending")
  BY <1>4, <1>f, <1>0
<1>7. RowEmission(q)
  BY <1>2, <1>6, <1>1 DEF RowEmission
<1>8. \A i \in q.undo : q.steps[i] \in {"succeeded", "failed", "compensated"}
  BY <1>0, <1>1, <1>2, <1>4 DEF RowProgress
<1>9. /\ \A i \in Steps : i < c => q.undoSent[i] = 0
      /\ q.error_detail = "plain" => \A i \in Steps : q.undoSent[i] <= 1
  BY <1>1, <1>2 DEF RowProgress
<1>10. c <= f
  <2>1. c \in Nat /\ f \in Nat BY <1>0
  <2> QED BY <2>1, <1>f
<1>11. ReadyToGoBack(q)
  BY <1>10, <1>2, <1>3, <1>5, <1>7, <1>8, <1>9 DEF ReadyToGoBack
<1> QED BY <1>11, CompensatePreviousInv DEF Undone, q

(* A success reply to the current step moves a started saga forward. *)
LEMMA AdvanceInv ==
  ASSUME NEW r, RowInv(r), r.status = "started", NEW u \in BOOLEAN
  PROVE  RowInv(Advance(r, u))
<1> USE StepAssumption, CompensatableAssumption
<1> DEFINE c == r.current_step
           n == c + 1
           q == Advance(r, u)
           un == IF u THEN r.undo \cup {c} ELSE r.undo
<1>0. /\ r \in Row /\ c \in Steps /\ r.steps \in [Steps -> StepStatus]
      /\ r.sent \in [Steps -> Nat] /\ r.undoSent \in [Steps -> Nat]
      /\ r.undo \in SUBSET Steps /\ Steps \subseteq Nat
  BY SMTT(30) DEF RowInv, Row, Steps
<1>1. ForwardShape(r) /\ RowEmission(r) /\ RowProgress(r)
  BY DEF RowInv, RowShape
<1>u. un \in SUBSET Steps /\ r.undo \subseteq un /\ un \subseteq r.undo \cup {c}
  BY <1>0
<1>z. \A i \in Steps : r.undoSent[i] = 0
  BY <1>1 DEF RowProgress
<1> HIDE DEF un
<1>2. CASE c = LastStep
  <2>1. q = [r EXCEPT !.steps = [r.steps EXCEPT ![c] = "succeeded"],
                      !.undo = un, !.status = "completed"]
    BY <1>2, <1>0 DEF Advance, un, Row
  <2>2. q \in Row
    <3>1. [r.steps EXCEPT ![c] = "succeeded"] \in [Steps -> StepStatus]
      BY <1>0 DEF StepStatus
    <3> HIDE DEF q
    <3> QED BY <2>1, <3>1, <1>0, <1>u DEF Row, SagaStatus
  <2>3. /\ q.status = "completed" /\ q.steps = [r.steps EXCEPT ![c] = "succeeded"]
        /\ q.undo = un /\ q.sent = r.sent /\ q.undoSent = r.undoSent
    BY <2>1, <1>0 DEF Row
  <2> HIDE DEF q
  <2>4. \A i \in Steps : q.steps[i] = "succeeded" /\ r.steps[i] # "pending"
    <3> TAKE i \in Steps
    <3>1. i <= c BY <1>2 DEF Steps
    <3>2. i \in Nat /\ c \in Nat BY <1>0
    <3> QED BY <3>1, <3>2, <2>3, <1>0, <1>1 DEF ForwardShape
  <2>5. RowShape(q)
    BY <2>3, <2>4 DEF RowShape
  <2>6. RowEmission(q)
    BY <2>3, <2>4, <1>1, <1>z DEF RowEmission
  <2>7. RowProgress(q)
    BY <2>3, <2>4, <1>z, <1>u DEF RowProgress
  <2> QED BY <2>2, <2>5, <2>6, <2>7 DEF RowInv, q
<1>3. CASE c # LastStep
  <2>n. /\ n \in Steps /\ n \in Nat /\ c \in Nat /\ n # c
        /\ \A i \in Steps : i < n <=> i < c \/ i = c
    BY SMTT(30), <1>0, <1>3 DEF Steps
  <2>1. q = [r EXCEPT !.steps = [[r.steps EXCEPT ![c] = "succeeded"] EXCEPT ![n] = "executing"],
                      !.undo = un, !.current_step = n,
                      !.sent = [r.sent EXCEPT ![n] = @ + 1]]
    BY <1>3, <1>0 DEF Advance, PublishStepCommand, un, Row
  <2>2. q \in Row
    <3>1. [[r.steps EXCEPT ![c] = "succeeded"] EXCEPT ![n] = "executing"] \in [Steps -> StepStatus]
      BY <1>0, <2>n DEF StepStatus
    <3>2. [r.sent EXCEPT ![n] = @ + 1] \in [Steps -> Nat]
      BY <1>0, <2>n
    <3> HIDE DEF q, n
    <3> QED BY <2>1, <3>1, <3>2, <2>n, <1>0, <1>u DEF Row
  <2>3. /\ q.status = "started" /\ q.current_step = n
        /\ q.steps = [[r.steps EXCEPT ![c] = "succeeded"] EXCEPT ![n] = "executing"]
        /\ q.sent = [r.sent EXCEPT ![n] = @ + 1]
        /\ q.undo = un /\ q.undoSent = r.undoSent
    BY <2>1, <1>0 DEF Row
  <2> HIDE DEF q, n
  <2>4. \A i \in Steps : q.steps[i] = IF i = n THEN "executing"
                                      ELSE IF i = c THEN "succeeded" ELSE r.steps[i]
    BY <2>3, <2>n, <1>0
  <2>5. \A i \in Steps : q.sent[i] = IF i = n THEN r.sent[i] + 1 ELSE r.sent[i]
    BY <2>3, <2>n, <1>0
  <2>6. r.steps[n] = "pending" /\ r.steps[c] = "executing"
    <3>1. ~(n < c) /\ ~(c < c) BY <2>n
    <3> QED BY <3>1, <2>n, <1>0, <1>1 DEF ForwardShape
  <2>7. RowShape(q)
    <3>1. ForwardShape(q)
      <4> SUFFICES ASSUME NEW i \in Steps
                   PROVE  q.steps[i] = IF i < n THEN "succeeded"
                                       ELSE IF i = n THEN "executing" ELSE "pending"
        BY <2>3 DEF ForwardShape
      <4>1. CASE i = n  BY <4>1, <2>4, <2>n
      <4>2. CASE i # n /\ i = c  BY <4>2, <2>4, <2>n
      <4>3. CASE i # n /\ i # c
        BY <4>3, <2>4, <2>n, <1>1 DEF ForwardShape
      <4> QED BY <4>1, <4>2, <4>3
    <3> QED BY <3>1, <2>3 DEF RowShape
  <2>8. RowEmission(q)
    <3>1. \A i \in Steps : q.sent[i] = IF q.steps[i] = "pending" THEN 0 ELSE 1
      <4> TAKE i \in Steps
      <4>1. r.sent[i] = IF r.steps[i] = "pending" THEN 0 ELSE 1
        BY <1>1 DEF RowEmission
      <4> QED BY <4>1, <2>4, <2>5, <2>6
    <3> QED BY <3>1, <2>3, <1>z DEF RowEmission
  <2>9. RowProgress(q)
    <3>1. \A i \in q.undo : q.steps[i] \in {"succeeded", "failed", "compensated"}
      <4> TAKE i \in q.undo
      <4>1. i \in Steps /\ (i \in r.undo \/ i = c) BY <2>3, <1>u
      <4>2. i \in r.undo => r.steps[i] \in {"succeeded", "failed", "compensated"}
        BY <1>1 DEF RowProgress
      <4> QED BY <4>1, <4>2, <2>4, <2>6, <2>n
    <3> QED BY <3>1, <2>3, <1>z DEF RowProgress
  <2> QED BY <2>2, <2>7, <2>8, <2>9 DEF RowInv, q
<1> QED BY <1>2, <1>3

(* A refused compensation, or a second timeout of one, fails the saga. *)
LEMMA CompensationFailedInv ==
  ASSUME NEW r, RowInv(r), r.status = "compensating"
  PROVE  RowInv(CompensationFailed(r))
<1> USE StepAssumption, CompensatableAssumption
<1> DEFINE c == r.current_step
           q == CompensationFailed(r)
<1>0. /\ r \in Row /\ c \in Steps /\ r.steps \in [Steps -> StepStatus]
      /\ r.undo \in SUBSET Steps /\ Steps \subseteq Nat
  BY SMTT(30) DEF RowInv, Row, Steps
<1>1. BackwardShape(r, "succeeded") /\ RowEmission(r) /\ RowProgress(r)
  BY DEF RowInv, RowShape
<1>f. PICK f \in Steps :
        /\ c < f
        /\ \A i \in Steps : r.steps[i] = IF i < c THEN "succeeded"
                                         ELSE IF i = c THEN "succeeded"
                                         ELSE IF i < f THEN "compensated"
                                         ELSE IF i = f THEN "failed"
                                         ELSE "pending"
  BY <1>1 DEF BackwardShape
<1>2. q = [r EXCEPT !.steps = [r.steps EXCEPT ![c] = "failed"], !.status = "failed"]
  BY <1>0 DEF CompensationFailed, Row
<1>3. /\ q.status = "failed" /\ q.current_step = c /\ q.error_detail = r.error_detail
      /\ q.steps = [r.steps EXCEPT ![c] = "failed"]
      /\ q.undo = r.undo /\ q.sent = r.sent /\ q.undoSent = r.undoSent
  BY <1>2, <1>0 DEF Row
<1>4. q \in Row
  <2>1. [r.steps EXCEPT ![c] = "failed"] \in [Steps -> StepStatus]
    BY <1>0 DEF StepStatus
  <2> HIDE DEF q
  <2> QED BY <2>1, <1>0, <1>2 DEF Row, SagaStatus
<1> HIDE DEF q
<1>5. \A i \in Steps : q.steps[i] = IF i = c THEN "failed" ELSE r.steps[i]
  BY <1>0, <1>3
<1>6. \A i \in Steps : (q.steps[i] = "pending" <=> r.steps[i] = "pending")
  BY <1>5, <1>f, <1>0
<1>7. RowShape(q)
  <2>1. c \in Nat /\ ~(c < c) BY <1>0
  <2>2. \A i \in Steps : q.steps[i] = IF i < c THEN "succeeded"
                                      ELSE IF i = c THEN "failed"
                                      ELSE IF i < f THEN "compensated"
                                      ELSE IF i = f THEN "failed"
                                      ELSE "pending"
    <3> TAKE i \in Steps
    <3>1. CASE i = c BY <3>1, <2>1, <1>5
    <3>2. CASE i # c BY <3>2, <1>5, <1>f
    <3> QED BY <3>1, <3>2
  <2>3. BackwardShape(q, "failed")
    BY <2>2, <1>f, <1>3 DEF BackwardShape
  <2> QED BY <2>3, <1>3 DEF RowShape
<1>8. RowEmission(q)
  BY <1>3, <1>6, <1>1 DEF RowEmission
<1>9. RowProgress(q)
  <2>1. \A i \in q.undo : q.steps[i] \in {"succeeded", "failed", "compensated"}
    BY <1>0, <1>1, <1>3, <1>5 DEF RowProgress
  <2> QED BY <2>1, <1>3 DEF RowProgress
<1> QED BY <1>4, <1>7, <1>8, <1>9 DEF RowInv, q

(* The marker in error_detail says nothing about a failed saga. *)
LEMMA CompensationRefusedInv ==
  ASSUME NEW r, RowInv(r), r.status = "compensating"
  PROVE  RowInv(CompensationRefused(r))
<1> DEFINE p == CompensationFailed(r)
           q == CompensationRefused(r)
<1>1. p \in Row /\ RowShape(p) /\ RowEmission(p) /\ RowProgress(p)
  BY CompensationFailedInv DEF RowInv
<1>2. p.status = "failed"
  BY DEF CompensationFailed, RowInv, Row
<1>3. q = [p EXCEPT !.error_detail = "plain"]
  BY DEF CompensationRefused
<1> HIDE DEF p, q
<1>4. /\ q.status = "failed" /\ q.current_step = p.current_step /\ q.steps = p.steps
      /\ q.undo = p.undo /\ q.sent = p.sent /\ q.undoSent = p.undoSent /\ q \in Row
  BY <1>1, <1>2, <1>3 DEF Row
<1>5. RowShape(q)
  BY <1>1, <1>2, <1>4 DEF RowShape, RolledBackShape, BackwardShape
<1>6. RowEmission(q) BY <1>1, <1>4 DEF RowEmission
<1>7. RowProgress(q) BY <1>1, <1>4 DEF RowProgress
<1> QED BY <1>4, <1>5, <1>6, <1>7 DEF RowInv, q

(* The first timeout of a compensation emits its command once more. *)
LEMMA StaleCompensationInv ==
  ASSUME NEW r, RowInv(r), r.status = "compensating"
  PROVE  RowInv(HandleStaleCompensation(r))
<1> USE StepAssumption, CompensatableAssumption
<1> DEFINE c == r.current_step
           q == HandleStaleCompensation(r)
<1>0. /\ r \in Row /\ c \in Steps /\ r.undoSent \in [Steps -> Nat]
      /\ r.error_detail \in {"plain", "reemitted"} /\ Steps \subseteq Nat
  BY SMTT(30) DEF RowInv, Row, Steps
<1>1. RowShape(r) /\ BackwardShape(r, "succeeded") /\ RowEmission(r) /\ RowProgress(r)
      /\ c \in r.undo \cap Compensatable
  BY DEF RowInv, RowShape
<1>2. CASE r.error_detail = "reemitted"
  BY <1>2, CompensationFailedInv DEF HandleStaleCompensation
<1>3. CASE r.error_detail = "plain"
  <2>1. q = [r EXCEPT !.undoSent = [r.undoSent EXCEPT ![c] = @ + 1],
                      !.error_detail = "reemitted"]
    BY <1>3, <1>0, <1>1 DEF HandleStaleCompensation, OutboxCompensationCommand, Row
  <2>2. q \in Row
    <3>1. [r.undoSent EXCEPT ![c] = @ + 1] \in [Steps -> Nat]
      <4>1. c \in Steps /\ r.undoSent \in [Steps -> Nat] BY <1>0
      <4> HIDE DEF c
      <4> QED BY <4>1
    <3> HIDE DEF q
    <3> QED BY <2>1, <3>1, <1>0 DEF Row
  <2>3. /\ q.status = "compensating" /\ q.current_step = c /\ q.error_detail = "reemitted"
        /\ q.steps = r.steps /\ q.undo = r.undo /\ q.sent = r.sent
        /\ q.undoSent = [r.undoSent EXCEPT ![c] = @ + 1]
    BY <2>1, <1>0 DEF Row
  <2> HIDE DEF q
  <2>4. \A i \in Steps : q.undoSent[i] = IF i = c THEN r.undoSent[i] + 1 ELSE r.undoSent[i]
    BY <2>3, <1>0
  <2>5. RowShape(q)
    BY <2>3, <1>1 DEF RowShape, BackwardShape
  <2>6. /\ \A i \in Steps : r.undoSent[i] \in Nat /\ r.undoSent[i] <= 1
        /\ \A i \in Steps : i < c => r.undoSent[i] = 0
        /\ r.undoSent[c] > 0
    BY <1>0, <1>1, <1>3 DEF RowProgress
  <2>7. RowEmission(q)
    <3>1. \A i \in Steps : q.undoSent[i] <= 2 /\ (q.undoSent[i] = 2 => i = c)
      BY <2>4, <2>6
    <3>2. \A i \in Steps : q.undoSent[i] > 0 => i \in q.undo \cap Compensatable
      BY <2>4, <2>3, <1>1 DEF RowEmission
    <3>3. \A i \in Steps : q.sent[i] = IF q.steps[i] = "pending" THEN 0 ELSE 1
      BY <2>3, <1>1 DEF RowEmission
    <3> QED BY <3>1, <3>2, <3>3, <2>3 DEF RowEmission
  <2>8. RowProgress(q)
    <3>1. \A i \in q.undo : q.steps[i] \in {"succeeded", "failed", "compensated"}
      BY <2>3, <1>1 DEF RowProgress
    <3>2. q.undoSent[c] > 0
      <4>1. c \in Steps /\ r.undoSent[c] \in Nat BY <1>0, <2>6
      <4>2. q.undoSent[c] = r.undoSent[c] + 1 BY <4>1, <2>4
      <4> QED BY <4>1, <4>2
    <3>3. \A i \in Steps : i < c => q.undoSent[i] = 0
      <4> SUFFICES ASSUME NEW i \in Steps, i < c PROVE q.undoSent[i] = 0
        OBVIOUS
      <4>0. i \in Nat /\ c \in Nat BY <1>0
      <4>1. i # c BY <4>0
      <4> QED BY <4>1, <2>4, <2>6
    <3> QED BY <3>1, <3>2, <3>3, <2>3 DEF RowProgress
  <2> QED BY <2>2, <2>5, <2>7, <2>8 DEF RowInv, q
<1> QED BY <1>0, <1>2, <1>3

(* Whatever the timeout worker stages for an active saga satisfies the
   invariant. *)
LEMMA HandleStaleInv ==
  ASSUME NEW r, RowInv(r), IsActive(r)
  PROVE  RowInv(HandleStale(r))
<1>1. CASE r.status = "compensating"
  BY <1>1, StaleCompensationInv DEF HandleStale
<1>2. CASE r.status = "started"
  <2>1. CASE HasCompensatableWork(r)
    BY <1>2, <2>1, BeginCompensationInv DEF HandleStale, HandleStaleExecution
  <2>2. CASE ~HasCompensatableWork(r)
    <3> DEFINE q == [r EXCEPT !.status = "timed_out"]
    <3>0. r \in Row /\ ForwardShape(r) /\ RowEmission(r) /\ RowProgress(r)
      BY <1>2 DEF RowInv, RowShape
    <3>1. q \in Row
      BY <3>0 DEF Row, SagaStatus
    <3>2. /\ q.status = "timed_out" /\ q.current_step = r.current_step
          /\ q.steps = r.steps /\ q.undo = r.undo /\ q.sent = r.sent
          /\ q.undoSent = r.undoSent /\ q.error_detail = r.error_detail
      BY <3>0 DEF Row
    <3> HIDE DEF q
    <3>3. RowShape(q)
      BY <3>0, <3>2, <2>2
      DEF RowShape, ForwardShape, HasCompensatableWork, CompensatableWork
    <3>4. RowEmission(q)
      BY <3>0, <3>2 DEF RowEmission
    <3>5. RowProgress(q)
      BY <3>0, <3>2, <1>2 DEF RowProgress
    <3>6. HandleStale(r) = q
      BY <1>2, <2>2 DEF HandleStale, HandleStaleExecution, q
    <3> QED BY <3>1, <3>3, <3>4, <3>5, <3>6 DEF RowInv
  <2> QED BY <2>1, <2>2
<1> QED BY <1>1, <1>2 DEF IsActive

(* The row of an id no saga was started for. *)
LEMMA NoRowInv == RowInv(NoRow)
<1> USE StepAssumption
<1>1. 0 \in Steps BY DEF Steps
<1>2. NoRow \in Row BY <1>1 DEF NoRow, Row, SagaStatus, StepStatus
<1>3. RowShape(NoRow) BY DEF RowShape, NoRow
<1>4. RowEmission(NoRow) BY DEF RowEmission, NoRow
<1>5. RowProgress(NoRow) BY DEF RowProgress, NoRow
<1> QED BY <1>2, <1>3, <1>4, <1>5 DEF RowInv

(* The row start_saga inserts. *)
LEMMA StartedRowInv ==
  RowInv(PublishStepCommand([NoRow EXCEPT !.status = "started",
                                          !.steps[0] = "executing"], 0))
<1> USE StepAssumption
<1> DEFINE q == PublishStepCommand([NoRow EXCEPT !.status = "started",
                                                 !.steps[0] = "executing"], 0)
<1>1. 0 \in Steps /\ Steps \subseteq Nat /\ \A i \in Steps : ~(i < 0) BY DEF Steps
<1>n. /\ NoRow.steps = [i \in Steps |-> "pending"] /\ NoRow.sent = [i \in Steps |-> 0]
      /\ NoRow.undoSent = [i \in Steps |-> 0] /\ NoRow.undo = {}
      /\ NoRow.error_detail = "plain" /\ NoRow.current_step = 0
      /\ NoRow \in Row
  BY <1>1 DEF NoRow, Row, SagaStatus, StepStatus
<1>a. [NoRow.steps EXCEPT ![0] = "executing"]
        = [i \in Steps |-> IF i = 0 THEN "executing" ELSE "pending"]
  BY <1>1, <1>n
<1>b. [NoRow.sent EXCEPT ![0] = @ + 1] = [i \in Steps |-> IF i = 0 THEN 1 ELSE 0]
  <2>1. NoRow.sent[0] = 0 BY <1>1, <1>n
  <2>2. NoRow.sent[0] + 1 = 1 BY <2>1
  <2>3. [NoRow.sent EXCEPT ![0] = 1] = [i \in Steps |-> IF i = 0 THEN 1 ELSE 0]
    BY <1>1, <1>n
  <2> QED BY <2>2, <2>3
<1>q. q = [NoRow EXCEPT !.status = "started",
                        !.steps = [i \in Steps |-> IF i = 0 THEN "executing" ELSE "pending"],
                        !.sent = [i \in Steps |-> IF i = 0 THEN 1 ELSE 0]]
  BY <1>a, <1>b, <1>n DEF PublishStepCommand, Row
<1> HIDE DEF q
<1>2. /\ q.status = "started" /\ q.current_step = 0 /\ q.undo = {} /\ q.error_detail = "plain"
      /\ q.steps = [i \in Steps |-> IF i = 0 THEN "executing" ELSE "pending"]
      /\ q.sent = [i \in Steps |-> IF i = 0 THEN 1 ELSE 0]
      /\ q.undoSent = [i \in Steps |-> 0]
  BY <1>q, <1>n DEF Row
<1>3. q \in Row
  <2>2. /\ [i \in Steps |-> IF i = 0 THEN "executing" ELSE "pending"] \in [Steps -> StepStatus]
        /\ [i \in Steps |-> IF i = 0 THEN 1 ELSE 0] \in [Steps -> Nat]
        /\ [i \in Steps |-> 0] \in [Steps -> Nat]
    BY DEF StepStatus
  <2> QED BY <1>q, <1>n, <2>2, <1>1 DEF Row, SagaStatus
<1>4. RowShape(q)
  BY <1>1, <1>2 DEF RowShape, ForwardShape
<1>5. RowEmission(q)
  BY <1>1, <1>2 DEF RowEmission
<1>6. RowProgress(q)
  BY <1>1, <1>2 DEF RowProgress
<1> QED BY <1>3, <1>4, <1>5, <1>6 DEF RowInv, q

(* No handler turns the row of a saga back into no row. *)
LEMMA HandlersKeepRow ==
  ASSUME NEW r \in Row, NEW u \in BOOLEAN
  PROVE  /\ r.status # "none" => CompensatePrevious(r).status # "none"
         /\ BeginCompensation(r).status # "none"
         /\ r.status # "none" => Advance(r, u).status # "none"
         /\ CompensationRefused(r).status # "none"
<1>1. \A x : x \in Row /\ x.status # "none" => CompensatePrevious(x).status # "none"
  <2> SUFFICES ASSUME NEW x, x \in Row, x.status # "none"
               PROVE  CompensatePrevious(x).status # "none"
    OBVIOUS
  <2>1. CASE {i \in CompensatableWork(x) : i < x.current_step} = {}
    BY <2>1 DEF CompensatePrevious, Row
  <2>2. CASE {i \in CompensatableWork(x) : i < x.current_step} # {}
    BY <2>2 DEF CompensatePrevious, OutboxCompensationCommand, Row
  <2> QED BY <2>1, <2>2
<1>2. BeginCompensation(r).status # "none"
  <2> DEFINE q == [r EXCEPT !.steps[r.current_step] = "failed",
                            !.status = "compensating", !.error_detail = "plain"]
  <2>1. q.status = "compensating" BY DEF Row
  <2>2. q \in Row
    <3>1. [r.steps EXCEPT ![r.current_step] = "failed"] \in [Steps -> StepStatus]
      BY DEF Row, StepStatus
    <3> QED BY <3>1 DEF Row, SagaStatus
  <2> HIDE DEF q
  <2> QED BY <2>1, <2>2, <1>1 DEF BeginCompensation, q
<1>3. r.status # "none" => Advance(r, u).status # "none"
  <2>1. CASE r.current_step = LastStep BY <2>1 DEF Advance, Row
  <2>2. CASE r.current_step # LastStep BY <2>2 DEF Advance, PublishStepCommand, Row
  <2> QED BY <2>1, <2>2
<1>4. CompensationRefused(r).status # "none"
  BY DEF CompensationRefused, CompensationFailed, Row
<1> QED BY <1>1, <1>2, <1>3, <1>4

-----------------------------------------------------------------------------
(* States *)

(* Writing one row that satisfies the row invariant, for a saga the sweep
   has not locked, keeps the whole invariant. *)
LEMMA WriteInv ==
  ASSUME IInv, NEW s \in Sagas, NEW r, RowInv(r), r.status # "none", s \notin locked,
         Write(s, r), UNCHANGED <<replies, sweeping, scan, locked, draft>>
  PROVE  IInv'
<1>1. r \in Row BY DEF RowInv
<1>2. \A x \in Sagas : saga'[x] = IF x = s THEN r ELSE saga[x]
  BY DEF Write, IInv, TypeOK
<1>3. TypeOK'
  <2>1. saga' \in [Sagas -> Row] BY <1>1 DEF Write, IInv, TypeOK
  <2>2. stale' \in [Sagas -> BOOLEAN] BY DEF Write, IInv, TypeOK
  <2> QED BY <2>1, <2>2 DEF IInv, TypeOK
<1>4. \A x \in Sagas : RowInv(saga'[x])
  BY <1>2 DEF IInv
<1>5. SweepInv'
  <2>1. ~sweeping' => scan' = {} /\ locked' = {}
    BY DEF IInv, SweepInv
  <2>2. \A x \in scan' \cup locked' : saga'[x].status # "none"
    BY <1>2 DEF IInv, SweepInv, TypeOK
  <2>3. \A x \in locked' : \/ draft'[x] = saga'[x]
                           \/ IsActive(saga'[x]) /\ draft'[x] = HandleStale(saga'[x])
    <3> TAKE x \in locked'
    <3>1. x \in locked /\ x # s /\ x \in Sagas BY DEF IInv, TypeOK
    <3>2. saga'[x] = saga[x] /\ draft'[x] = draft[x] BY <3>1, <1>2
    <3> QED BY <3>1, <3>2 DEF IInv, SweepInv
  <2> QED BY <2>1, <2>2, <2>3 DEF SweepInv
<1> QED BY <1>3, <1>4, <1>5 DEF IInv

(* Publishing a reply touches no row. *)
LEMMA PublishInv ==
  ASSUME IInv, NEW m \in Reply, Publish(m)
  PROVE  IInv'
<1>1. TypeOK' BY DEF Publish, IInv, TypeOK
<1>2. SweepInv' BY DEF Publish, IInv, SweepInv
<1>3. \A x \in Sagas : RowInv(saga'[x]) BY DEF Publish, IInv
<1> QED BY <1>1, <1>2, <1>3 DEF IInv

(* The initial rows satisfy the invariant. *)
LEMMA InitInv == Init => IInv
<1> SUFFICES ASSUME Init PROVE IInv
  OBVIOUS
<1>1. NoRow \in Row BY NoRowInv DEF RowInv
<1>2. TypeOK BY <1>1 DEF Init, TypeOK
<1>3. \A s \in Sagas : RowInv(saga[s]) BY NoRowInv DEF Init
<1>4. SweepInv BY DEF Init, SweepInv
<1> QED BY <1>2, <1>3, <1>4 DEF IInv

(* Every action preserves the invariant. *)
LEMMA NextInv == IInv /\ [Next]_vars => IInv'
<1> SUFFICES ASSUME IInv, [Next]_vars PROVE IInv'
  OBVIOUS
<1> USE DEF IInv
<1>t. /\ saga \in [Sagas -> Row] /\ draft \in [Sagas -> Row] /\ replies \subseteq Reply
      /\ scan \subseteq Sagas /\ locked \subseteq Sagas
  BY DEF TypeOK
<1>1. ASSUME NEW s \in Sagas, StartSaga(s) PROVE IInv'
  <2> DEFINE r == PublishStepCommand([NoRow EXCEPT !.status = "started",
                                                   !.steps[0] = "executing"], 0)
  <2>1. RowInv(r) BY StartedRowInv
  <2>2. r.status # "none" BY DEF PublishStepCommand, NoRow
  <2>3. s \notin locked BY <1>1 DEF StartSaga, GetByCorrelationId, SweepInv
  <2>4. Write(s, r) /\ UNCHANGED <<replies, sweeping, scan, locked, draft>>
    BY <1>1 DEF StartSaga, Save, GetByCorrelationId
  <2> HIDE DEF r
  <2> QED BY <2>1, <2>2, <2>3, <2>4, WriteInv
<1>2. ASSUME NEW m \in replies, HandleReply(m) PROVE IInv'
  <2> DEFINE r == saga[m.saga]
             q == IF m.success THEN Advance(r, m.undo) ELSE BeginCompensation(r)
  <2>0. m.saga \in Sagas /\ m.undo \in BOOLEAN BY <1>t DEF Reply
  <2>1. r \in Row /\ RowInv(r) /\ r.status = "started" /\ m.saga \notin locked
    BY <1>2, <1>t, <2>0 DEF HandleReply, GetByIdForUpdate
  <2>2. RowInv(q) BY <2>0, <2>1, AdvanceInv, BeginCompensationInv
  <2>3. q.status # "none" BY <2>0, <2>1, HandlersKeepRow
  <2>4. Write(m.saga, q) /\ UNCHANGED <<replies, sweeping, scan, locked, draft>>
    BY <1>2 DEF HandleReply, GetByIdForUpdate, ApplyReply
  <2> HIDE DEF q
  <2> QED BY <2>0, <2>1, <2>2, <2>3, <2>4, WriteInv
<1>3. ASSUME NEW m \in replies, HandleCompensationReply(m) PROVE IInv'
  <2> DEFINE r == saga[m.saga]
             c == [r EXCEPT !.steps[r.current_step] = "compensated"]
             q == IF m.success THEN CompensatePrevious(c) ELSE CompensationRefused(r)
  <2>0. m.saga \in Sagas BY <1>t DEF Reply
  <2>1. r \in Row /\ RowInv(r) /\ r.status = "compensating" /\ m.saga \notin locked
    BY <1>3, <1>t, <2>0 DEF HandleCompensationReply, GetByIdForUpdate
  <2>2. RowInv(q) BY <2>1, CompensatedInv, CompensationRefusedInv DEF Undone
  <2>3. q.status # "none"
    <3>1. c.status = "compensating" BY <2>1 DEF Row
    <3>2. c \in Row
      <4>1. [r.steps EXCEPT ![r.current_step] = "compensated"] \in [Steps -> StepStatus]
        BY <2>1 DEF Row, StepStatus
      <4> QED BY <4>1, <2>1 DEF Row
    <3> HIDE DEF c
    <3> QED BY <2>1, <3>1, <3>2, HandlersKeepRow
  <2>4. Write(m.saga, q) /\ UNCHANGED <<replies, sweeping, scan, locked, draft>>
    BY <1>3 DEF HandleCompensationReply, GetByIdForUpdate
  <2> HIDE DEF q
  <2> QED BY <2>0, <2>1, <2>2, <2>3, <2>4, WriteInv
<1>4. ASSUME NEW s \in Sagas, Age(s) PROVE IInv'
  <2>1. TypeOK' BY <1>4 DEF Age, TypeOK
  <2>2. SweepInv' BY <1>4 DEF Age, SweepInv
  <2>3. \A x \in Sagas : RowInv(saga'[x]) BY <1>4 DEF Age
  <2> QED BY <2>1, <2>2, <2>3
<1>5. ASSUME TimeoutScan PROVE IInv'
  <2>1. TypeOK' BY <1>5 DEF TimeoutScan, TypeOK
  <2>2. SweepInv'
    <3>1. \A s \in scan' : IsActive(saga[s]) BY <1>5 DEF TimeoutScan
    <3>2. \A s \in scan' : saga'[s].status # "none" BY <3>1, <1>5 DEF TimeoutScan, IsActive
    <3>3. locked' = {} /\ sweeping' BY <1>5 DEF TimeoutScan, SweepInv
    <3> QED BY <3>2, <3>3 DEF SweepInv
  <2>3. \A x \in Sagas : RowInv(saga'[x]) BY <1>5 DEF TimeoutScan
  <2> QED BY <2>1, <2>2, <2>3
<1>6. ASSUME NEW s \in Sagas, TimeoutVisit(s) PROVE IInv'
  <2> DEFINE r == saga[s]
             q == IF IsActive(r) /\ stale[s] THEN HandleStale(r) ELSE r
  <2>0. q = r \/ (IsActive(r) /\ q = HandleStale(r))
    OBVIOUS
  <2>1. RowInv(r) /\ r.status # "none" /\ q \in Row
    BY <1>6, HandleStaleInv DEF TimeoutVisit, SweepInv, RowInv
  <2>2. /\ draft' = [draft EXCEPT ![s] = q] /\ locked' = locked \cup {s}
        /\ scan' = scan \ {s} /\ UNCHANGED <<saga, replies, stale, sweeping>> /\ sweeping
    BY <1>6 DEF TimeoutVisit
  <2> HIDE DEF q
  <2>3. TypeOK' BY <2>1, <2>2 DEF TypeOK
  <2>4. SweepInv'
    <3>1. \A x \in scan' \cup locked' : saga'[x].status # "none"
      BY <2>1, <2>2 DEF SweepInv
    <3>2. \A x \in locked' : \/ draft'[x] = saga'[x]
                             \/ IsActive(saga'[x]) /\ draft'[x] = HandleStale(saga'[x])
      <4> TAKE x \in locked'
      <4>1. CASE x = s BY <4>1, <2>0, <2>2, <1>t
      <4>2. CASE x # s
        <5>1. x \in locked /\ draft'[x] = draft[x] BY <4>2, <2>2, <1>t
        <5> QED BY <5>1, <2>2 DEF SweepInv
      <4> QED BY <4>1, <4>2
    <3> QED BY <3>1, <3>2, <2>2 DEF SweepInv
  <2>5. \A x \in Sagas : RowInv(saga'[x]) BY <2>2
  <2> QED BY <2>3, <2>4, <2>5
<1>7. ASSUME TimeoutCommit PROVE IInv'
  <2>1. \A s \in Sagas : RowInv(saga'[s])
    <3> TAKE s \in Sagas
    <3>1. CASE s \in locked
      <4>1. saga'[s] = draft[s] BY <3>1, <1>7 DEF TimeoutCommit
      <4>2. draft[s] = saga[s] \/ (IsActive(saga[s]) /\ draft[s] = HandleStale(saga[s]))
        BY <3>1 DEF SweepInv
      <4> QED BY <4>1, <4>2, HandleStaleInv
    <3>2. CASE s \notin locked
      BY <3>2, <1>7 DEF TimeoutCommit
    <3> QED BY <3>1, <3>2
  <2>2. TypeOK'
    <3>1. saga' \in [Sagas -> Row] BY <1>7, <1>t DEF TimeoutCommit
    <3>2. draft' \in [Sagas -> Row] BY <1>7, NoRowInv DEF TimeoutCommit, RowInv
    <3>3. stale' \in [Sagas -> BOOLEAN] BY <1>7 DEF TimeoutCommit
    <3> QED BY <3>1, <3>2, <3>3, <1>7 DEF TimeoutCommit, TypeOK
  <2>3. SweepInv' BY <1>7 DEF TimeoutCommit, SweepInv
  <2> QED BY <2>1, <2>2, <2>3
<1>8. ASSUME TimeoutAbort PROVE IInv'
  <2>1. draft' \in [Sagas -> Row] BY <1>8, NoRowInv DEF TimeoutAbort, RowInv
  <2>2. TypeOK' BY <2>1, <1>8 DEF TimeoutAbort, TypeOK
  <2>3. SweepInv' BY <1>8 DEF TimeoutAbort, SweepInv
  <2>4. \A x \in Sagas : RowInv(saga'[x]) BY <1>8 DEF TimeoutAbort
  <2> QED BY <2>2, <2>3, <2>4
<1>9. ASSUME NEW s \in Sagas, NEW i \in Steps,
             ReplyToCommand(s, i) \/ ReplyToCompensation(s, i) \/ GiveUpCompensation(s, i)
      PROVE  IInv'
  <2>1. \A c, ok, u \in BOOLEAN :
          [saga |-> s, step |-> i, is_compensation |-> c, success |-> ok, undo |-> u] \in Reply
    BY DEF Reply
  <2>2. \E m \in Reply : Publish(m)
    BY <2>1, <1>9 DEF ReplyToCommand, ReplyToCompensation, GiveUpCompensation
  <2> QED BY <2>2, PublishInv
<1>10. CASE UNCHANGED vars
  <2>1. TypeOK' BY <1>10 DEF vars, TypeOK
  <2>2. SweepInv' BY <1>10 DEF vars, SweepInv
  <2>3. \A x \in Sagas : RowInv(saga'[x]) BY <1>10 DEF vars
  <2> QED BY <2>1, <2>2, <2>3
<1> QED BY <1>1, <1>2, <1>3, <1>4, <1>5, <1>6, <1>7, <1>8, <1>9, <1>10 DEF Next, SagaStartConsumer, SagaReplyConsumer

(* The inductive invariant holds in every reachable state: whatever the
   interleaving of starts, late or repeated replies and sweeps, every saga
   row, its step log and its outbox rows agree. *)
THEOREM Invariance == Spec => []IInv
<1> QED BY InitInv, NextInv, PTL DEF Spec

(* Type correctness, for every number of sagas and steps. *)
THEOREM TypeCorrect == Spec => []TypeOK
<1>1. IInv => TypeOK BY DEF IInv
<1> QED BY <1>1, Invariance, PTL

(* The step log always agrees with status and current_step of its saga. *)
THEOREM StepLogSound == Spec => []StepLogAgrees
<1>1. IInv => StepLogAgrees BY DEF IInv, RowInv, StepLogAgrees
<1> QED BY <1>1, Invariance, PTL

(* Every execution command is written to the outbox at most once, and over
   a whole saga at most one compensation command is written twice. *)
THEOREM EmissionBounded == Spec => []CommandsEmittedOnce
<1>1. IInv => CommandsEmittedOnce BY DEF IInv, RowInv, CommandsEmittedOnce
<1> QED BY <1>1, Invariance, PTL

(* No step, a sweep's commit included, changes the row of a saga that has
   ended: the re-check under the row lock is enough. *)
THEOREM TerminalStays == Spec => TerminalIsFinal
<1>1. IInv /\ [Next]_vars => \A s \in Sagas : IsTerminal(saga[s]) => saga'[s] = saga[s]
  <2> SUFFICES ASSUME IInv, [Next]_vars, NEW s \in Sagas, IsTerminal(saga[s])
               PROVE  saga'[s] = saga[s]
    OBVIOUS
  <2> USE DEF IInv
  <2>t. saga \in [Sagas -> Row] /\ replies \subseteq Reply BY DEF TypeOK
  <2>s. saga[s].status \notin {"none", "started", "compensating"} /\ ~IsActive(saga[s])
    BY DEF IsTerminal, IsActive
  <2>1. ASSUME NEW x \in Sagas, StartSaga(x) PROVE saga'[s] = saga[s]
    BY <2>1, <2>s, <2>t DEF StartSaga, Save, GetByCorrelationId, Write
  <2>2. ASSUME NEW m \in replies, HandleReply(m) PROVE saga'[s] = saga[s]
    BY <2>2, <2>s, <2>t DEF HandleReply, GetByIdForUpdate, ApplyReply, Write
  <2>3. ASSUME NEW m \in replies, HandleCompensationReply(m) PROVE saga'[s] = saga[s]
    BY <2>3, <2>s, <2>t DEF HandleCompensationReply, GetByIdForUpdate, Write
  <2>4. ASSUME TimeoutCommit PROVE saga'[s] = saga[s]
    <3>1. CASE s \in locked
      BY <3>1, <2>4, <2>s DEF TimeoutCommit, SweepInv
    <3>2. CASE s \notin locked
      BY <3>2, <2>4 DEF TimeoutCommit
    <3> QED BY <3>1, <3>2
  <2>5. ASSUME NEW x \in Sagas, Age(x) \/ TimeoutVisit(x) PROVE saga'[s] = saga[s]
    BY <2>5 DEF Age, TimeoutVisit
  <2>6. ASSUME TimeoutScan \/ TimeoutAbort PROVE saga'[s] = saga[s]
    BY <2>6 DEF TimeoutScan, TimeoutAbort
  <2>7. ASSUME NEW x \in Sagas, NEW i \in Steps,
               ReplyToCommand(x, i) \/ ReplyToCompensation(x, i) \/ GiveUpCompensation(x, i)
        PROVE  saga'[s] = saga[s]
    BY <2>7 DEF ReplyToCommand, ReplyToCompensation, GiveUpCompensation, Publish
  <2>8. CASE UNCHANGED vars BY <2>8 DEF vars
  <2> QED BY <2>1, <2>2, <2>3, <2>4, <2>5, <2>6, <2>7, <2>8 DEF Next, SagaStartConsumer, SagaReplyConsumer
<1> QED BY <1>1, Invariance, PTL DEF Spec, TerminalIsFinal

-----------------------------------------------------------------------------
(* What a row's handlers leave behind *)

(* Going back from r to q: only work that cannot be undone is passed over. *)
WentBack(r, q) ==
    LET below == {i \in CompensatableWork(r) : i < r.current_step}
        passed(i, top) == top < i /\ i < r.current_step /\ r.steps[i] = "succeeded"
    IN
    /\ q.undo = r.undo /\ q.error_detail = r.error_detail
    /\ \/ /\ below = {} /\ q.status = "failed" /\ q.undoSent = r.undoSent
          /\ \A i \in Steps : q.steps[i] = IF passed(i, -1) THEN "compensated" ELSE r.steps[i]
       \/ \E t \in below :
             /\ \A k \in below : k <= t
             /\ q.status = r.status /\ q.current_step = t
             /\ \A i \in Steps :
                   /\ q.undoSent[i] = IF i = t THEN r.undoSent[i] + 1 ELSE r.undoSent[i]
                   /\ q.steps[i] = IF passed(i, t) THEN "compensated" ELSE r.steps[i]

(* What the loop of _compensate_previous does to a row. *)
LEMMA GoingBack ==
  ASSUME NEW r \in Row
  PROVE  WentBack(r, CompensatePrevious(r))
<1> USE StepAssumption, CompensatableAssumption
<1> DEFINE below == {i \in CompensatableWork(r) : i < r.current_step}
           q == CompensatePrevious(r)
<1>0. /\ r.current_step \in Steps /\ r.steps \in [Steps -> StepStatus]
      /\ r.undoSent \in [Steps -> Nat] /\ Steps \subseteq Nat
  BY DEF Row, Steps
<1>1. CASE below = {}
  <2> DEFINE all == [i \in Steps |->
                       IF i < r.current_step /\ r.steps[i] = "succeeded"
                       THEN "compensated" ELSE r.steps[i]]
  <2>1. q = [r EXCEPT !.status = "failed", !.current_step = 0, !.steps = all]
    BY <1>1 DEF CompensatePrevious
  <2>2. /\ q.status = "failed" /\ q.steps = all /\ q.undo = r.undo
        /\ q.undoSent = r.undoSent /\ q.error_detail = r.error_detail
    BY <2>1 DEF Row
  <2>3. \A i \in Steps : -1 < i
    BY <1>0
  <2>4. \A i \in Steps : q.steps[i] = IF -1 < i /\ i < r.current_step /\ r.steps[i] = "succeeded"
                                      THEN "compensated" ELSE r.steps[i]
    BY <2>2, <2>3
  <2> HIDE DEF all, q
  <2> QED BY <1>1, <2>2, <2>4 DEF WentBack, q
<1>2. CASE below # {}
  <2> DEFINE t == Max(below)
             skipped == [i \in Steps |->
                           IF i > t /\ i < r.current_step /\ r.steps[i] = "succeeded"
                           THEN "compensated" ELSE r.steps[i]]
  <2>a. below \in SUBSET (0..LastStep)
    BY <1>0 DEF CompensatableWork, Row, Steps
  <2>b. t \in below /\ (\A k \in below : k <= t)
    BY <2>a, <1>2, MaxOfSteps
  <2>c. t \in Steps
    BY <2>a, <2>b DEF Steps
  <2>1. q = [r EXCEPT !.current_step = t, !.steps = skipped,
                      !.undoSent = [r.undoSent EXCEPT ![t] = @ + 1]]
    BY <1>2, <1>0 DEF CompensatePrevious, OutboxCompensationCommand, Row
  <2> HIDE DEF t
  <2>2. /\ q.status = r.status /\ q.steps = skipped /\ q.undo = r.undo /\ q.current_step = t
        /\ q.undoSent = [r.undoSent EXCEPT ![t] = @ + 1] /\ q.error_detail = r.error_detail
    BY <2>1 DEF Row
  <2>3. \A i \in Steps : q.undoSent[i] = IF i = t THEN r.undoSent[i] + 1 ELSE r.undoSent[i]
    BY <2>2, <2>c, <1>0
  <2>4. \A i \in Steps : q.steps[i] = IF t < i /\ i < r.current_step /\ r.steps[i] = "succeeded"
                                      THEN "compensated" ELSE r.steps[i]
    BY <2>2, <2>c, <1>0
  <2> HIDE DEF skipped, q
  <2> QED BY <2>b, <2>2, <2>3, <2>4 DEF WentBack, q
<1> QED BY <1>1, <1>2

(* What a step of the system can do to the row of one saga. *)
StartedRow == PublishStepCommand([NoRow EXCEPT !.status = "started", !.steps[0] = "executing"], 0)

Refused(s, i) ==
    \E m \in replies : m.saga = s /\ m.step = i /\ m.is_compensation /\ ~m.success

RowStep(s, r, q) ==
    \/ q = r
    \/ r = NoRow /\ q = StartedRow
    \/ /\ r.status = "started" /\ Answered(s, r.current_step, FALSE)
       /\ \E u \in BOOLEAN : q = Advance(r, u)
    \/ r.status = "started" /\ q = BeginCompensation(r)
    \/ r.status = "compensating" /\ Answered(s, r.current_step, TRUE)
       /\ q = CompensatePrevious(Undone(r))
    \/ r.status = "compensating" /\ Refused(s, r.current_step) /\ q = CompensationRefused(r)
    \/ IsActive(r) /\ q = HandleStale(r)

(* Every action moves each row by at most one handler, and takes no reply back. *)
LEMMA RowSteps ==
  ASSUME IInv, [Next]_vars
  PROVE  /\ replies \subseteq replies'
         /\ \A s \in Sagas : RowStep(s, saga[s], saga'[s])
<1> USE DEF IInv
<1>t. /\ saga \in [Sagas -> Row] /\ replies \subseteq Reply
      /\ \A s \in Sagas : RowInv(saga[s])
  BY DEF TypeOK
<1>w. ASSUME NEW x \in Sagas, NEW q, Write(x, q), RowStep(x, saga[x], q)
      PROVE  \A s \in Sagas : RowStep(s, saga[s], saga'[s])
  BY <1>w, <1>t DEF Write, RowStep
<1>0. ASSUME saga' = saga PROVE \A s \in Sagas : RowStep(s, saga[s], saga'[s])
  BY <1>0 DEF RowStep
<1>1. ASSUME NEW s \in Sagas, StartSaga(s)
      PROVE  /\ replies \subseteq replies'
             /\ \A x \in Sagas : RowStep(x, saga[x], saga'[x])
  <2>1. saga[s] = NoRow
    BY <1>1, <1>t DEF StartSaga, GetByCorrelationId, RowInv, RowShape
  <2>2. Write(s, StartedRow) /\ replies' = replies
    BY <1>1 DEF StartSaga, Save, StartedRow
  <2>3. RowStep(s, saga[s], StartedRow) BY <2>1 DEF RowStep
  <2> QED BY <2>2, <2>3, <1>w
<1>2. ASSUME NEW m \in replies, HandleReply(m)
      PROVE  /\ replies \subseteq replies'
             /\ \A x \in Sagas : RowStep(x, saga[x], saga'[x])
  <2> DEFINE r == saga[m.saga]
             q == IF m.success THEN Advance(r, m.undo) ELSE BeginCompensation(r)
  <2>0. m.saga \in Sagas /\ m.undo \in BOOLEAN /\ m.success \in BOOLEAN
        /\ m.is_compensation \in BOOLEAN
    BY <1>t DEF Reply
  <2>1. r.status = "started" /\ r.current_step = m.step /\ ~m.is_compensation
    BY <1>2 DEF HandleReply
  <2>2. Write(m.saga, q) /\ replies' = replies
    BY <1>2 DEF HandleReply, ApplyReply
  <2>3. RowStep(m.saga, r, q)
    <3>1. CASE m.success
      <4>1. Answered(m.saga, r.current_step, FALSE)
        BY <3>1, <2>0, <2>1 DEF Answered
      <4>2. q = Advance(r, m.undo) BY <3>1
      <4> HIDE DEF q, r
      <4> QED BY <4>1, <4>2, <2>0, <2>1 DEF RowStep
    <3>2. CASE ~m.success
      BY <3>2, <2>1 DEF RowStep
    <3> QED BY <3>1, <3>2
  <2> HIDE DEF q
  <2> QED BY <2>0, <2>2, <2>3, <1>w
<1>3. ASSUME NEW m \in replies, HandleCompensationReply(m)
      PROVE  /\ replies \subseteq replies'
             /\ \A x \in Sagas : RowStep(x, saga[x], saga'[x])
  <2> DEFINE r == saga[m.saga]
             q == IF m.success THEN CompensatePrevious(Undone(r)) ELSE CompensationRefused(r)
  <2>0. m.saga \in Sagas /\ m.success \in BOOLEAN /\ m.is_compensation \in BOOLEAN
    BY <1>t DEF Reply
  <2>1. r.status = "compensating" /\ r.current_step = m.step /\ m.is_compensation
    BY <1>3 DEF HandleCompensationReply
  <2>2. Write(m.saga, q) /\ replies' = replies
    BY <1>3 DEF HandleCompensationReply, Undone
  <2>3. RowStep(m.saga, r, q)
    <3>1. CASE m.success
      <4>1. Answered(m.saga, r.current_step, TRUE)
        BY <3>1, <2>0, <2>1 DEF Answered
      <4>2. q = CompensatePrevious(Undone(r)) BY <3>1
      <4> HIDE DEF q, r
      <4> QED BY <4>1, <4>2, <2>1 DEF RowStep
    <3>2. CASE ~m.success
      <4>1. Refused(m.saga, r.current_step)
        BY <3>2, <2>0, <2>1 DEF Refused
      <4>2. q = CompensationRefused(r) BY <3>2
      <4> HIDE DEF q, r
      <4> QED BY <4>1, <4>2, <2>1 DEF RowStep
    <3> QED BY <3>1, <3>2
  <2> HIDE DEF q
  <2> QED BY <2>0, <2>2, <2>3, <1>w
<1>4. ASSUME NEW s \in Sagas, Age(s) \/ TimeoutVisit(s)
      PROVE  /\ replies \subseteq replies'
             /\ \A x \in Sagas : RowStep(x, saga[x], saga'[x])
  <2>1. saga' = saga /\ replies' = replies BY <1>4 DEF Age, TimeoutVisit
  <2> QED BY <2>1, <1>0
<1>5. ASSUME TimeoutScan \/ TimeoutAbort
      PROVE  /\ replies \subseteq replies'
             /\ \A x \in Sagas : RowStep(x, saga[x], saga'[x])
  <2>1. saga' = saga /\ replies' = replies BY <1>5 DEF TimeoutScan, TimeoutAbort
  <2> QED BY <2>1, <1>0
<1>6. ASSUME TimeoutCommit
      PROVE  /\ replies \subseteq replies'
             /\ \A x \in Sagas : RowStep(x, saga[x], saga'[x])
  <2>1. \A x \in Sagas : \/ saga'[x] = saga[x]
                         \/ IsActive(saga[x]) /\ saga'[x] = HandleStale(saga[x])
    BY <1>6 DEF TimeoutCommit, SweepInv
  <2>2. replies' = replies BY <1>6 DEF TimeoutCommit
  <2> QED BY <2>1, <2>2 DEF RowStep
<1>7. ASSUME NEW s \in Sagas, NEW i \in Steps,
             ReplyToCommand(s, i) \/ ReplyToCompensation(s, i) \/ GiveUpCompensation(s, i)
      PROVE  /\ replies \subseteq replies'
             /\ \A x \in Sagas : RowStep(x, saga[x], saga'[x])
  <2>1. saga' = saga /\ replies \subseteq replies'
    BY <1>7 DEF ReplyToCommand, ReplyToCompensation, GiveUpCompensation, Publish
  <2> QED BY <2>1, <1>0
<1>8. CASE UNCHANGED vars
  <2>1. saga' = saga /\ replies' = replies BY <1>8 DEF vars
  <2> QED BY <2>1, <1>0
<1> QED BY <1>1, <1>2, <1>3, <1>4, <1>5, <1>6, <1>7, <1>8
        DEF Next, SagaStartConsumer, SagaReplyConsumer

-----------------------------------------------------------------------------
(* What a row owes to the replies *)

(* BackedByReplies for one row. *)
BackedRow(s, r) ==
    \A i \in Steps :
        /\ r.steps[i] \in {"succeeded", "compensated"} => Answered(s, i, FALSE)
        /\ r.steps[i] = "compensated" /\ i \in r.undo \cap Compensatable => Answered(s, i, TRUE)

(* On the way back no step with something to undo has failed, and the
   marker stands for a command that was written twice. *)
WayBack(r) ==
    /\ r.status = "compensating" => \A i \in r.undo : r.steps[i] # "failed"
    /\ r.error_detail = "reemitted" => \E i \in Steps : r.undoSent[i] = 2

GaveUpRow(s, r) == \E i \in Steps : r.undoSent[i] = 2 \/ Refused(s, i)

(* NoWorkLeftBehind for one row. *)
LeftRow(s, r) ==
    r.status = "failed" /\ ~GaveUpRow(s, r)
        => \A i \in r.undo \cap Compensatable : r.steps[i] = "compensated"

HistoryRow(s, r) == BackedRow(s, r) /\ WayBack(r) /\ LeftRow(s, r)

(* The loop backwards keeps what a row owes, from a row whose steps above
   current_step are settled. *)
LEMMA GoingBackHistory ==
  ASSUME NEW s, NEW r, ReadyToGoBack(r), BackedRow(s, r), WayBack(r)
  PROVE  HistoryRow(s, CompensatePrevious(r))
<1> DEFINE below == {i \in CompensatableWork(r) : i < r.current_step}
           q == CompensatePrevious(r)
<1> USE StepAssumption, CompensatableAssumption
<1>0. /\ r \in Row /\ r.current_step \in Steps /\ r.undo \in SUBSET Steps /\ Steps \subseteq Nat
      /\ r.status = "compensating" /\ r.undoSent \in [Steps -> Nat]
  <2>1. r \in Row /\ r.status = "compensating" BY DEF ReadyToGoBack
  <2>2. Steps \subseteq Nat BY DEF Steps
  <2> QED BY <2>1, <2>2 DEF Row
<1>1. WentBack(r, q) BY <1>0, GoingBack
<1>2. \A i \in r.undo : r.steps[i] \in {"succeeded", "failed", "compensated"} /\ r.steps[i] # "failed"
  BY <1>0 DEF ReadyToGoBack, WayBack
<1>z. \A i \in Steps : i < r.current_step => r.undoSent[i] = 0
  BY DEF ReadyToGoBack
<1>3. PICK f \in Steps :
         /\ r.current_step <= f
         /\ \A i \in Steps : r.steps[i] = IF i < r.current_step THEN "succeeded"
                                          ELSE IF i < f THEN "compensated"
                                          ELSE IF i = f THEN "failed"
                                          ELSE "pending"
  BY DEF ReadyToGoBack
<1>e. q.undo = r.undo /\ q.error_detail = r.error_detail
  BY <1>1 DEF WentBack
<1>4. CASE below = {}
  <2>1. /\ q.status = "failed" /\ q.undoSent = r.undoSent
        /\ \A i \in Steps : q.steps[i] = IF -1 < i /\ i < r.current_step /\ r.steps[i] = "succeeded"
                                         THEN "compensated" ELSE r.steps[i]
    BY <1>1, <1>4 DEF WentBack
  <2>2. \A i \in r.undo \cap Compensatable : ~(i < r.current_step)
    BY <1>4, <1>3, <1>0 DEF CompensatableWork
  <2> HIDE DEF q
  <2>3. \A i \in r.undo \cap Compensatable : q.steps[i] = "compensated"
    <3> TAKE i \in r.undo \cap Compensatable
    <3>1. i \in Steps /\ i \in Nat /\ f \in Nat /\ r.current_step \in Nat BY <1>0
    <3>2. r.steps[i] = "compensated" BY <3>1, <2>2, <1>2, <1>3
    <3> QED BY <3>1, <3>2, <2>1
  <2>4. BackedRow(s, q)
    BY <2>1, <2>2, <1>e DEF BackedRow
  <2>5. WayBack(q) BY <2>1, <1>e DEF WayBack
  <2> QED BY <2>3, <2>4, <2>5, <1>e DEF HistoryRow, LeftRow, q
<1>5. CASE below # {}
  <2>1. PICK t \in below :
             /\ \A k \in below : k <= t
             /\ q.status = r.status /\ q.current_step = t
             /\ \A i \in Steps :
                   /\ q.undoSent[i] = IF i = t THEN r.undoSent[i] + 1 ELSE r.undoSent[i]
                   /\ q.steps[i] = IF t < i /\ i < r.current_step /\ r.steps[i] = "succeeded"
                                   THEN "compensated" ELSE r.steps[i]
    BY <1>1, <1>5 DEF WentBack
  <2>t. t \in Steps /\ t \in Nat /\ t < r.current_step /\ r.undoSent[t] = 0
    BY <1>0, <1>z DEF CompensatableWork
  <2>2. \A i \in r.undo \cap Compensatable : i < r.current_step => i <= t
    BY <2>1, <1>3, <1>0 DEF CompensatableWork
  <2>u. \A i \in Steps : r.undoSent[i] = 2 => q.undoSent[i] = 2
    BY <2>1, <2>t
  <2> HIDE DEF q, below
  <2>4. BackedRow(s, q)
    <3> SUFFICES ASSUME NEW i \in Steps
                 PROVE  /\ q.steps[i] \in {"succeeded", "compensated"} => Answered(s, i, FALSE)
                        /\ q.steps[i] = "compensated" /\ i \in q.undo \cap Compensatable
                              => Answered(s, i, TRUE)
      BY DEF BackedRow
    <3>1. CASE t < i /\ i < r.current_step /\ r.steps[i] = "succeeded"
      <4>1. i \notin r.undo \cap Compensatable
        <5>1. i \in Nat BY <1>0
        <5> QED BY <5>1, <3>1, <2>2, <2>t
      <4> QED BY <3>1, <4>1, <1>e DEF BackedRow
    <3>2. CASE ~(t < i /\ i < r.current_step /\ r.steps[i] = "succeeded")
      <4>1. q.steps[i] = r.steps[i] BY <3>2, <2>1
      <4> QED BY <4>1, <1>e DEF BackedRow
    <3> QED BY <3>1, <3>2
  <2>5. WayBack(q)
    <3>1. \A i \in q.undo : q.steps[i] # "failed"
      BY <2>1, <1>e, <1>2, <1>0
    <3>2. q.error_detail = "reemitted" => \E i \in Steps : q.undoSent[i] = 2
      BY <2>u, <1>e DEF WayBack
    <3> QED BY <3>1, <3>2 DEF WayBack
  <2>6. q.status = "compensating" BY <2>1, <1>0
  <2> QED BY <2>4, <2>5, <2>6 DEF HistoryRow, LeftRow, q
<1> QED BY <1>4, <1>5

(* Turning a started saga back. *)
LEMMA TurningBackHistory ==
  ASSUME NEW s, NEW r, RowInv(r), r.status = "started", HistoryRow(s, r)
  PROVE  HistoryRow(s, BeginCompensation(r))
<1> DEFINE q == TurnedBack(r)
<1> USE StepAssumption
<1>0. r \in Row /\ r.current_step \in Steps /\ r.steps \in [Steps -> StepStatus] /\ r.undo \in SUBSET Steps
      /\ Steps \subseteq Nat
  BY SMTT(30) DEF RowInv, Row, Steps
<1>1. ReadyToGoBack(q) BY BeginCompensationInv
<1>2. /\ q.status = "compensating" /\ q.error_detail = "plain" /\ q.undo = r.undo
      /\ q.steps = [r.steps EXCEPT ![r.current_step] = "failed"]
  BY <1>0 DEF TurnedBack, Row
<1>3. \A i \in Steps : q.steps[i] = IF i = r.current_step THEN "failed" ELSE r.steps[i]
  BY <1>0, <1>2
<1> HIDE DEF q
<1>4. BackedRow(s, q)
  BY <1>2, <1>3 DEF BackedRow, HistoryRow
<1>5. \A i \in r.undo : r.steps[i] = "succeeded" /\ i # r.current_step
  BY <1>0 DEF RowInv, RowShape, ForwardShape, RowProgress
<1>6. WayBack(q)
  BY <1>0, <1>2, <1>3, <1>5 DEF WayBack
<1> QED BY <1>1, <1>4, <1>6, GoingBackHistory DEF BeginCompensation, TurnedBack, q

(* A compensation that is answered with success. *)
LEMMA UndoneHistory ==
  ASSUME NEW s, NEW r, RowInv(r), r.status = "compensating", HistoryRow(s, r),
         Answered(s, r.current_step, TRUE)
  PROVE  HistoryRow(s, CompensatePrevious(Undone(r)))
<1> DEFINE q == Undone(r)
<1> USE StepAssumption
<1>0. /\ r \in Row /\ r.current_step \in Steps /\ r.steps \in [Steps -> StepStatus]
      /\ r.undo \in SUBSET Steps /\ Steps \subseteq Nat
  BY SMTT(30) DEF RowInv, Row, Steps
<1>1. ReadyToGoBack(q) BY CompensatedInv
<1>2. /\ q.status = "compensating" /\ q.error_detail = r.error_detail /\ q.undo = r.undo
      /\ q.undoSent = r.undoSent
      /\ q.steps = [r.steps EXCEPT ![r.current_step] = "compensated"]
  BY <1>0 DEF Undone, Row
<1>3. \A i \in Steps : q.steps[i] = IF i = r.current_step THEN "compensated" ELSE r.steps[i]
  BY <1>0, <1>2
<1> HIDE DEF q
<1>s. r.steps[r.current_step] = "succeeded"
  <2>1. BackwardShape(r, "succeeded") BY DEF RowInv, RowShape
  <2> QED BY <2>1, <1>0 DEF BackwardShape
<1>4. BackedRow(s, q)
  BY <1>2, <1>3, <1>s, <1>0 DEF BackedRow, HistoryRow
<1>6. WayBack(q)
  BY <1>0, <1>2, <1>3 DEF WayBack, HistoryRow
<1> QED BY <1>1, <1>4, <1>6, GoingBackHistory DEF q

(* A compensation that failed, or was refused, marks the current step failed. *)
LEMMA FailedFields ==
  ASSUME NEW r \in Row
  PROVE  LET q == CompensationFailed(r)
             p == CompensationRefused(r)
         IN  /\ q.status = "failed" /\ q.undo = r.undo /\ q.undoSent = r.undoSent
             /\ p.status = "failed" /\ p.undo = r.undo /\ p.undoSent = r.undoSent
             /\ q.error_detail = r.error_detail /\ p.error_detail = "plain"
             /\ p.steps = q.steps
             /\ \A i \in Steps : q.steps[i] = IF i = r.current_step THEN "failed" ELSE r.steps[i]
<1>0. r.current_step \in Steps /\ r.steps \in [Steps -> StepStatus] BY DEF Row
<1> DEFINE q == CompensationFailed(r)
           p == CompensationRefused(r)
<1>1. /\ q.status = "failed" /\ q.undo = r.undo /\ q.undoSent = r.undoSent
      /\ q.error_detail = r.error_detail
      /\ q.steps = [r.steps EXCEPT ![r.current_step] = "failed"]
  BY DEF CompensationFailed, Row
<1>2. /\ p.status = "failed" /\ p.undo = r.undo /\ p.undoSent = r.undoSent
      /\ p.error_detail = "plain"
      /\ p.steps = [r.steps EXCEPT ![r.current_step] = "failed"]
  BY DEF CompensationRefused, CompensationFailed, Row
<1> QED BY <1>0, <1>1, <1>2

(* The first stale sweep over a compensating saga writes its command again. *)
LEMMA ReemittedFields ==
  ASSUME NEW r, RowInv(r), r.status = "compensating", r.error_detail = "plain"
  PROVE  LET q == HandleStale(r)
         IN  /\ q.status = "compensating" /\ q.undo = r.undo /\ q.steps = r.steps
             /\ q.error_detail = "reemitted"
             /\ r.undoSent[r.current_step] = 1
             /\ \A i \in Steps : q.undoSent[i] = IF i = r.current_step THEN 2 ELSE r.undoSent[i]
<1> DEFINE q == HandleStale(r)
           c == r.current_step
<1>0. r \in Row /\ c \in Steps /\ r.undoSent \in [Steps -> Nat] BY DEF RowInv, Row
<1>1. c \in r.undo \cap Compensatable BY DEF RowInv, RowShape
<1>2. q = [r EXCEPT !.undoSent = [r.undoSent EXCEPT ![c] = @ + 1], !.error_detail = "reemitted"]
  BY <1>0, <1>1 DEF HandleStale, HandleStaleCompensation, OutboxCompensationCommand, Row
<1>3. /\ q.status = "compensating" /\ q.undo = r.undo /\ q.steps = r.steps
      /\ q.error_detail = "reemitted"
      /\ q.undoSent = [r.undoSent EXCEPT ![c] = @ + 1]
  BY <1>0, <1>2 DEF Row
<1>4. r.undoSent[c] > 0 /\ r.undoSent[c] <= 1 /\ r.undoSent[c] \in Nat
  BY <1>0 DEF RowInv, RowProgress
<1>5. r.undoSent[c] = 1 BY <1>4
<1> HIDE DEF q
<1> QED BY <1>0, <1>3, <1>5 DEF q

(* A success reply settles the current step and starts the next one. *)
LEMMA AdvanceFields ==
  ASSUME NEW r \in Row, NEW u \in BOOLEAN
  PROVE  LET q == Advance(r, u)
         IN  /\ q.undo = IF u THEN r.undo \cup {r.current_step} ELSE r.undo
             /\ q.undoSent = r.undoSent /\ q.error_detail = r.error_detail
             /\ q.status = IF r.current_step = LastStep THEN "completed" ELSE r.status
             /\ \A i \in Steps : q.steps[i] =
                   IF r.current_step # LastStep /\ i = r.current_step + 1 THEN "executing"
                   ELSE IF i = r.current_step THEN "succeeded" ELSE r.steps[i]
<1> DEFINE q == Advance(r, u)
           c == r.current_step
<1> USE StepAssumption
<1>0. c \in Steps /\ c \in Nat /\ r.steps \in [Steps -> StepStatus] BY DEF Row, Steps
<1>1. CASE c = LastStep
  <2>1. /\ q.undo = IF u THEN r.undo \cup {c} ELSE r.undo
        /\ q.undoSent = r.undoSent /\ q.error_detail = r.error_detail
        /\ q.status = "completed" /\ q.steps = [r.steps EXCEPT ![c] = "succeeded"]
    BY <1>1 DEF Advance, Row
  <2> HIDE DEF q
  <2> QED BY <1>0, <1>1, <2>1 DEF q
<1>2. CASE c # LastStep
  <2>1. /\ q.undo = IF u THEN r.undo \cup {c} ELSE r.undo
        /\ q.undoSent = r.undoSent /\ q.error_detail = r.error_detail
        /\ q.status = r.status
        /\ q.steps = [[r.steps EXCEPT ![c] = "succeeded"] EXCEPT ![c + 1] = "executing"]
    BY <1>2 DEF Advance, PublishStepCommand, Row
  <2> HIDE DEF q
  <2>2. c + 1 \in Steps BY <1>0, <1>2 DEF Steps
  <2> QED BY <1>0, <1>2, <2>1, <2>2 DEF q
<1> QED BY <1>1, <1>2

(* Every handler keeps what a row owes to the replies. *)
LEMMA RowStepHistory ==
  ASSUME NEW s, NEW r, NEW q, RowInv(r), HistoryRow(s, r), RowStep(s, r, q)
  PROVE  HistoryRow(s, q)
<1> USE StepAssumption
<1>0. /\ r \in Row /\ r.current_step \in Steps /\ r.undo \in SUBSET Steps /\ Steps \subseteq Nat
      /\ r.error_detail \in {"plain", "reemitted"}
  BY DEF RowInv, Row, Steps
<1>1. CASE q = r BY <1>1
<1>2. CASE r = NoRow /\ q = StartedRow
  <2>1. /\ q.undo = {} /\ q.status = "started" /\ q.error_detail = "plain"
        /\ q.steps = [[i \in Steps |-> "pending"] EXCEPT ![0] = "executing"]
    BY <1>2 DEF StartedRow, PublishStepCommand, NoRow
  <2>2. \A i \in Steps : q.steps[i] \in {"pending", "executing"}
    BY <2>1
  <2> QED BY <2>1, <2>2 DEF HistoryRow, BackedRow, WayBack, LeftRow
<1>3. ASSUME NEW u \in BOOLEAN, r.status = "started", Answered(s, r.current_step, FALSE), q = Advance(r, u)
      PROVE  HistoryRow(s, q)
  <2>1. /\ q.undo = IF u THEN r.undo \cup {r.current_step} ELSE r.undo
        /\ q.undoSent = r.undoSent /\ q.error_detail = r.error_detail
        /\ q.status = IF r.current_step = LastStep THEN "completed" ELSE r.status
        /\ \A i \in Steps : q.steps[i] =
              IF r.current_step # LastStep /\ i = r.current_step + 1 THEN "executing"
              ELSE IF i = r.current_step THEN "succeeded" ELSE r.steps[i]
    BY SMTT(30), <1>3, <1>0, AdvanceFields
  <2>2. BackedRow(s, q)
    <3> SUFFICES ASSUME NEW i \in Steps
                 PROVE  /\ q.steps[i] \in {"succeeded", "compensated"} => Answered(s, i, FALSE)
                        /\ q.steps[i] = "compensated" /\ i \in q.undo \cap Compensatable
                              => Answered(s, i, TRUE)
      BY DEF BackedRow
    <3>1. \/ q.steps[i] = "executing"
          \/ i = r.current_step /\ q.steps[i] = "succeeded"
          \/ i # r.current_step /\ q.steps[i] = r.steps[i]
      BY <2>1
    <3>2. i # r.current_step => (i \in q.undo <=> i \in r.undo) BY <2>1
    <3> QED BY <3>1, <3>2, <1>3 DEF HistoryRow, BackedRow
  <2>3. WayBack(q) BY <2>1, <1>3 DEF HistoryRow, WayBack
  <2>4. q.status # "failed" BY <2>1, <1>3
  <2> QED BY <2>2, <2>3, <2>4 DEF HistoryRow, LeftRow
<1>4. CASE r.status = "started" /\ q = BeginCompensation(r)
  BY <1>4, TurningBackHistory
<1>5. CASE /\ r.status = "compensating" /\ Answered(s, r.current_step, TRUE)
           /\ q = CompensatePrevious(Undone(r))
  BY <1>5, UndoneHistory
<1>f. ASSUME \A i \in Steps : q.steps[i] = IF i = r.current_step THEN "failed" ELSE r.steps[i],
             q.undo = r.undo
      PROVE  BackedRow(s, q)
  BY <1>f DEF BackedRow, HistoryRow
<1>6. CASE r.status = "compensating" /\ Refused(s, r.current_step) /\ q = CompensationRefused(r)
  <2>1. /\ q.status = "failed" /\ q.undo = r.undo /\ q.error_detail = "plain"
        /\ \A i \in Steps : q.steps[i] = IF i = r.current_step THEN "failed" ELSE r.steps[i]
    BY <1>0, <1>6, FailedFields
  <2>2. GaveUpRow(s, q) BY <1>0, <1>6 DEF GaveUpRow
  <2>3. WayBack(q) BY <2>1 DEF WayBack
  <2> QED BY <2>1, <2>2, <2>3, <1>f DEF HistoryRow, LeftRow
<1>7. CASE IsActive(r) /\ q = HandleStale(r)
  <2>1. CASE r.status = "started"
    <3>1. CASE HasCompensatableWork(r)
      BY <1>7, <2>1, <3>1, TurningBackHistory DEF HandleStale, HandleStaleExecution
    <3>2. CASE ~HasCompensatableWork(r)
      <4>1. q = [r EXCEPT !.status = "timed_out"]
        BY <1>7, <2>1, <3>2 DEF HandleStale, HandleStaleExecution
      <4>2. /\ q.status = "timed_out" /\ q.undo = r.undo /\ q.error_detail = r.error_detail
            /\ q.undoSent = r.undoSent /\ q.steps = r.steps
        BY <1>0, <4>1 DEF Row
      <4> QED BY <4>2 DEF HistoryRow, BackedRow, WayBack, LeftRow
    <3> QED BY <3>1, <3>2
  <2>2. CASE r.status = "compensating" /\ r.error_detail = "reemitted"
    <3>1. q = CompensationFailed(r)
      BY <1>7, <2>2 DEF HandleStale, HandleStaleCompensation
    <3>2. /\ q.status = "failed" /\ q.undo = r.undo /\ q.undoSent = r.undoSent
          /\ q.error_detail = r.error_detail
          /\ \A i \in Steps : q.steps[i] = IF i = r.current_step THEN "failed" ELSE r.steps[i]
      BY <1>0, <3>1, FailedFields
    <3>3. \E i \in Steps : q.undoSent[i] = 2 BY <3>2, <2>2 DEF HistoryRow, WayBack
    <3>4. GaveUpRow(s, q) BY <3>3 DEF GaveUpRow
    <3>5. WayBack(q) BY <3>2, <3>3 DEF WayBack
    <3> QED BY <3>2, <3>4, <3>5, <1>f DEF HistoryRow, LeftRow
  <2>3. CASE r.status = "compensating" /\ r.error_detail = "plain"
    <3>1. /\ q.status = "compensating" /\ q.undo = r.undo /\ q.steps = r.steps
          /\ q.undoSent[r.current_step] = 2
      BY <1>0, <1>7, <2>3, ReemittedFields
    <3>2. WayBack(q) BY <1>0, <2>3, <3>1 DEF HistoryRow, WayBack
    <3> QED BY <3>1, <3>2 DEF HistoryRow, BackedRow, LeftRow
  <2> QED BY <1>0, <1>7, <2>1, <2>2, <2>3 DEF IsActive
<1> QED BY <1>1, <1>2, <1>3, <1>4, <1>5, <1>6, <1>7 DEF RowStep

HistoryInv == \A s \in Sagas : HistoryRow(s, saga[s])

(* Rows and replies agree in every reachable state; with IInv this is inductive. *)
LEMMA HistoryHolds == Spec => []HistoryInv
<1>1. Init => HistoryInv
  <2> SUFFICES ASSUME Init, NEW s \in Sagas PROVE HistoryRow(s, NoRow)
    BY DEF Init, HistoryInv
  <2> QED BY DEF HistoryRow, BackedRow, WayBack, LeftRow, NoRow
<1>2. IInv /\ HistoryInv /\ [Next]_vars => HistoryInv'
  <2> SUFFICES ASSUME IInv, HistoryInv, [Next]_vars, NEW s \in Sagas
               PROVE  HistoryRow(s, saga[s])'
    BY DEF HistoryInv
  <2> DEFINE q == saga'[s]
  <2>1. replies \subseteq replies' /\ RowStep(s, saga[s], q)
    BY RowSteps
  <2>2. HistoryRow(s, q)
    BY <2>1, RowStepHistory DEF IInv, HistoryInv
  <2>3. \A i, c : Answered(s, i, c) => Answered(s, i, c)'
    BY <2>1 DEF Answered
  <2>4. \A i : Refused(s, i) => Refused(s, i)'
    BY <2>1 DEF Refused
  <2>5. BackedRow(s, saga[s])'
    BY <2>2, <2>3 DEF HistoryRow, BackedRow
  <2>6. LeftRow(s, saga[s])'
    BY <2>2, <2>4 DEF HistoryRow, LeftRow, GaveUpRow
  <2>7. WayBack(saga[s])'
    BY <2>2 DEF HistoryRow, WayBack
  <2> QED BY <2>5, <2>6, <2>7 DEF HistoryRow
<1> QED BY <1>1, <1>2, Invariance, PTL DEF Spec

(***************************************************************************)
(* No step is recorded succeeded or compensated without the participant's  *)
(* success reply, however replies are delayed, repeated or reordered and   *)
(* whatever a sweep of check_timeouts commits in between.                  *)
(***************************************************************************)
THEOREM RepliesBackRows == Spec => []BackedByReplies
<1>1. HistoryInv => BackedByReplies
  BY DEF HistoryInv, HistoryRow, BackedRow, BackedByReplies
<1> QED BY <1>1, HistoryHolds, PTL

(***************************************************************************)
(* A saga that ends failed has undone every step that left something to    *)
(* undo, unless a participant refused a compensation or did not answer the *)
(* second copy of it.                                                      *)
(***************************************************************************)
THEOREM NothingLeftBehind == Spec => []NoWorkLeftBehind
<1>1. HistoryInv => NoWorkLeftBehind
  <2> SUFFICES ASSUME HistoryInv, NEW s \in Sagas
               PROVE  saga[s].status = "failed" /\ ~GaveUpOnCompensation(s)
            => \A i \in saga[s].undo \cap Compensatable : saga[s].steps[i] = "compensated"
    BY DEF NoWorkLeftBehind
  <2>1. LeftRow(s, saga[s]) BY DEF HistoryInv, HistoryRow
  <2>2. GaveUpRow(s, saga[s]) => GaveUpOnCompensation(s)
    BY DEF GaveUpRow, GaveUpOnCompensation, Refused
  <2> QED BY <2>1, <2>2 DEF LeftRow
<1> QED BY <1>1, HistoryHolds, PTL

-----------------------------------------------------------------------------
(* The refinement of SagaPromise *)

(* What phase a row's status stands for. *)
LEMMA PhaseOf ==
  ASSUME NEW r \in Row
  PROVE  /\ r.status = "started" => Phase(r) = "forward"
         /\ r.status = "compensating" => Phase(r) = "backward"
         /\ r.status = "failed" /\ Standing(r) = {} => Phase(r) = "rolled_back"
         /\ r.status = "failed" /\ Standing(r) # {} => Phase(r) = "stuck"
         /\ r.status \in {"none", "timed_out", "completed"} => Phase(r) = r.status
BY DEF Phase, Row

(* While going forward, and when timed out: the steps before current_step stand. *)
LEMMA StandingForward ==
  ASSUME NEW r, RowInv(r), r.status \in {"started", "timed_out"}
  PROVE  Standing(r) = {i \in Steps : i < r.current_step}
<1>1. ForwardShape(r) /\ \A i \in Steps : r.undoSent[i] = 0
  BY DEF RowInv, RowShape, RowProgress
<1>2. \A i \in Steps : ~(r.undoSent[i] > 0)
  BY <1>1
<1> QED BY <1>1, <1>2 DEF Standing, ForwardShape

(* While compensating: what is not yet undone.  The failed step was never sent
   a compensation, because no step with something to undo has failed. *)
LEMMA StandingBackward ==
  ASSUME NEW r, RowInv(r), r.status = "compensating", WayBack(r)
  PROVE  Standing(r) = {i \in Steps : i <= r.current_step}
<1> USE StepAssumption
<1>0. r \in Row /\ r.current_step \in Nat /\ Steps \subseteq Nat
  BY DEF RowInv, Row, Steps
<1>1. \A i \in Steps : r.steps[i] = "succeeded" <=> i <= r.current_step
  <2>1. PICK f \in Steps :
        /\ r.current_step < f
        /\ \A i \in Steps : r.steps[i] = IF i < r.current_step THEN "succeeded"
                                         ELSE IF i = r.current_step THEN "succeeded"
                                         ELSE IF i < f THEN "compensated"
                                         ELSE IF i = f THEN "failed"
                                         ELSE "pending"
    BY DEF RowInv, RowShape, BackwardShape
  <2> QED BY <1>0, <2>1
<1>2. \A i \in Steps : r.steps[i] = "failed" => ~(r.undoSent[i] > 0)
  BY DEF RowInv, RowEmission, WayBack
<1> QED BY <1>1, <1>2 DEF Standing

(* Where the loop backwards ends: nothing stands, or everything up to the
   topmost step that is still owed. *)
Back(r, q) ==
    LET owed == {i \in r.undo \cap Compensatable : i < r.current_step}
    IN  /\ q.undo = r.undo
        /\ \/ owed = {} /\ Standing(q) = {} /\ Phase(q) = "rolled_back"
           \/ \E t \in owed : /\ \A i \in owed : i <= t
                              /\ Standing(q) = {i \in Steps : i <= t}
                              /\ Phase(q) = "backward"

(* The loop of _compensate_previous ends there. *)
LEMMA GoingBackAbstract ==
  ASSUME NEW r, ReadyToGoBack(r), WayBack(r)
  PROVE  Back(r, CompensatePrevious(r))
<1> USE StepAssumption, CompensatableAssumption
<1> DEFINE q == CompensatePrevious(r)
           owed == {i \in r.undo \cap Compensatable : i < r.current_step}
<1>a. r \in Row /\ r.status = "compensating" BY DEF ReadyToGoBack
<1>0. /\ r \in Row /\ r.status = "compensating" /\ r.current_step \in Nat
      /\ r.undo \in SUBSET Steps /\ Steps \subseteq Nat /\ r.undoSent \in [Steps -> Nat]
  BY SMTT(30), <1>a DEF Row, Steps
<1>f. PICK f \in Steps :
         /\ r.current_step <= f
         /\ \A i \in Steps : r.steps[i] = IF i < r.current_step THEN "succeeded"
                                          ELSE IF i < f THEN "compensated"
                                          ELSE IF i = f THEN "failed"
                                          ELSE "pending"
  BY DEF ReadyToGoBack
<1>1. RowInv(q) BY CompensatePreviousInv
<1>2. q \in Row BY <1>1 DEF RowInv
<1>3. WentBack(r, q) BY <1>0, GoingBack
<1>4. owed = {i \in CompensatableWork(r) : i < r.current_step}
  <2>1. \A i \in Steps : i < r.current_step => r.steps[i] = "succeeded" BY <1>f
  <2> QED BY <2>1, <1>0 DEF CompensatableWork
<1>5. \A i \in Steps : r.steps[i] = "failed" => r.undoSent[i] = 0
  BY <1>0 DEF ReadyToGoBack, RowEmission, WayBack
<1>6. q.undo = r.undo BY <1>3 DEF WentBack
<1> HIDE DEF q, owed
<1>7. CASE owed = {}
  <2>1. /\ q.status = "failed" /\ q.undoSent = r.undoSent
        /\ \A i \in Steps : q.steps[i] = IF -1 < i /\ i < r.current_step /\ r.steps[i] = "succeeded"
                                         THEN "compensated" ELSE r.steps[i]
    BY <1>3, <1>4, <1>7 DEF WentBack
  <2>2. \A i \in Steps : -1 < i BY <1>0
  <2>3. \A i \in Steps : q.steps[i] # "succeeded"
    BY <2>1, <2>2, <1>f
  <2>4. \A i \in Steps : q.steps[i] = "failed" => ~(q.undoSent[i] > 0)
    BY <2>1, <1>5
  <2>5. Standing(q) = {} BY <2>3, <2>4 DEF Standing
  <2>6. Phase(q) = "rolled_back" BY <1>2, <2>1, <2>5, PhaseOf
  <2> QED BY <1>6, <1>7, <2>5, <2>6 DEF Back, q, owed
<1>8. CASE owed # {}
  <2>1. PICK t \in owed :
             /\ \A k \in owed : k <= t
             /\ q.status = r.status /\ q.current_step = t
             /\ \A i \in Steps :
                   /\ q.undoSent[i] = IF i = t THEN r.undoSent[i] + 1 ELSE r.undoSent[i]
                   /\ q.steps[i] = IF t < i /\ i < r.current_step /\ r.steps[i] = "succeeded"
                                   THEN "compensated" ELSE r.steps[i]
    BY <1>3, <1>4, <1>8 DEF WentBack
  <2>t. t \in Steps /\ t \in Nat /\ t < r.current_step BY <1>0 DEF owed
  <2>2. WayBack(q)
    <3>1. \A i \in r.undo : q.steps[i] # "failed"
      BY <1>0, <2>1 DEF WayBack
    <3>2. q.error_detail = r.error_detail BY <1>3 DEF WentBack
    <3>3. \A i \in Steps : r.undoSent[i] = 2 => q.undoSent[i] = 2
      <4>1. r.undoSent[t] = 0 BY <2>t DEF ReadyToGoBack
      <4> QED BY <4>1, <2>1
    <3> QED BY <1>6, <3>1, <3>2, <3>3 DEF WayBack
  <2>3. Standing(q) = {i \in Steps : i <= t}
    BY <1>0, <1>1, <2>1, <2>2, StandingBackward
  <2>4. Phase(q) = "backward" BY <1>0, <1>2, <2>1, PhaseOf
  <2> QED BY <1>6, <2>1, <2>3, <2>4 DEF Back, q, owed
<1> QED BY <1>7, <1>8

(* Abstractly, Back is a GoesBack of SagaPromise. *)
LEMMA BackMoves ==
  ASSUME NEW a, NEW r, NEW q, r \in Row, Back(r, q),
         a \in {"forward", "backward"},
         NEW S, S = IF a = "forward" THEN {i \in Steps : i < r.current_step}
                                     ELSE {i \in Steps : i <= r.current_step}
  PROVE  Promise!GoesBack([phase |-> a, standing |-> S, owed |-> r.undo \cap Compensatable],
                          Abstract(q))
<1> USE StepAssumption, CompensatableAssumption
<1> DEFINE owed == {i \in r.undo \cap Compensatable : i < r.current_step}
           x == [phase |-> a, standing |-> S, owed |-> r.undo \cap Compensatable]
           b == Abstract(q)
<1>0. /\ r.current_step \in Nat /\ r.undo \in SUBSET Steps /\ Steps \subseteq Nat
      /\ Steps = 0..LastStep /\ S \subseteq Steps
  BY DEF Row, Steps
<1>1. /\ b.phase = Phase(q) /\ b.standing = Standing(q) /\ b.owed = r.undo \cap Compensatable
      /\ x.phase = a /\ x.standing = S /\ x.owed = r.undo \cap Compensatable
  BY DEF Abstract, Back
<1> HIDE DEF x, b
<1>2. ASSUME NEW k \in 0..LastStep + 1,
             Standing(q) = {i \in S : i < k},
             \A i \in owed : i < k,
             Phase(q) = IF Standing(q) = {} THEN "rolled_back" ELSE "backward",
             Standing(q) # {} => \E top \in Standing(q) \cap (r.undo \cap Compensatable) :
                                    \A j \in Standing(q) : j <= top
      PROVE  Promise!GoesBack(x, b)
  <2>1. \A i \in S \cap (r.undo \cap Compensatable) :
             i >= k => a = "backward" /\ \A j \in S : j <= i
    <3> SUFFICES ASSUME NEW i \in S \cap (r.undo \cap Compensatable), i >= k
                 PROVE  a = "backward" /\ \A j \in S : j <= i
      OBVIOUS
    <3>1. i \in Nat /\ k \in Nat BY <1>0
    <3>2. ~(i < r.current_step) BY <3>1, <1>2
    <3> QED BY <3>1, <3>2, <1>0
  <2> QED BY <1>1, <1>2, <2>1 DEF Promise!GoesBack
<1>3. CASE owed = {}
  <2>1. Standing(q) = {} /\ Phase(q) = "rolled_back"
    BY <1>3 DEF Back
  <2>2. {i \in S : i < 0} = {} BY <1>0
  <2>3. 0 \in 0..LastStep + 1 OBVIOUS
  <2> QED BY <1>2, <1>3, <2>1, <2>2, <2>3 DEF x, b
<1>4. CASE owed # {}
  <2>1. PICK t \in owed : /\ \A i \in owed : i <= t
                          /\ Standing(q) = {i \in Steps : i <= t}
                          /\ Phase(q) = "backward"
    BY <1>4 DEF Back
  <2>2. t \in Steps /\ t \in Nat /\ t < r.current_step BY <1>0
  <2>3. t + 1 \in 0..LastStep + 1 BY <2>2, <1>0
  <2>4. Standing(q) = {i \in S : i < t + 1} BY <2>1, <2>2, <1>0
  <2>5. \A i \in owed : i < t + 1 BY <2>1, <2>2, <1>0
  <2>6. t \in Standing(q) BY <2>1, <2>2
  <2> HIDE DEF owed
  <2>7. \E top \in Standing(q) \cap (r.undo \cap Compensatable) : \A j \in Standing(q) : j <= top
    BY <2>1, <2>6 DEF owed
  <2> QED BY <1>2, <2>1, <2>3, <2>4, <2>5, <2>6, <2>7 DEF x, b
<1> QED BY <1>3, <1>4

(* start_saga is a Begins. *)
LEMMA StartingMoves == Promise!Begins(Abstract(NoRow), Abstract(StartedRow))
<1> USE StepAssumption
<1>1. /\ StartedRow.status = "started" /\ StartedRow.undo = {}
      /\ StartedRow.steps = [[i \in Steps |-> "pending"] EXCEPT ![0] = "executing"]
      /\ NoRow.status = "none" /\ NoRow.undo = {} /\ NoRow.steps = [i \in Steps |-> "pending"]
  BY DEF StartedRow, PublishStepCommand, NoRow
<1>2. \A i \in Steps : /\ StartedRow.steps[i] \in {"pending", "executing"}
                       /\ NoRow.steps[i] = "pending"
  BY <1>1
<1>3. Standing(StartedRow) = {} /\ Standing(NoRow) = {}
  BY <1>2 DEF Standing
<1>4. Phase(StartedRow) = "forward" /\ Phase(NoRow) = "none"
  BY <1>1 DEF Phase
<1> QED BY <1>1, <1>3, <1>4 DEF Abstract, Promise!Begins, Promise!Unborn

(* A success reply is a Does. *)
LEMMA AdvancingMoves ==
  ASSUME NEW r, RowInv(r), r.status = "started", NEW u \in BOOLEAN
  PROVE  Promise!Does(Abstract(r), Abstract(Advance(r, u)))
<1> USE StepAssumption, CompensatableAssumption
<1> DEFINE q == Advance(r, u)
           c == r.current_step
           a == Abstract(r)
           b == Abstract(q)
<1>0. r \in Row /\ c \in Steps /\ c \in Nat /\ Steps \subseteq Nat /\ Steps = 0..LastStep
  BY DEF RowInv, Row, Steps
<1>1. RowInv(q) /\ q \in Row BY AdvanceInv DEF RowInv
<1>2. /\ q.undo = IF u THEN r.undo \cup {c} ELSE r.undo
      /\ q.undoSent = r.undoSent
      /\ q.status = IF c = LastStep THEN "completed" ELSE r.status
      /\ \A i \in Steps : q.steps[i] =
            IF c # LastStep /\ i = c + 1 THEN "executing"
            ELSE IF i = c THEN "succeeded" ELSE r.steps[i]
  BY ZenonT(40), <1>0, AdvanceFields
<1> HIDE DEF q
<1>3. Standing(r) = {i \in Steps : i < c} BY StandingForward
<1>4. Standing(q) = Standing(r) \cup {c}
  <2>1. ForwardShape(r) /\ \A i \in Steps : r.undoSent[i] = 0
    BY DEF RowInv, RowShape, RowProgress
  <2>2. \A i \in Steps : ~(q.undoSent[i] > 0) BY <2>1, <1>2
  <2>3. \A i \in Steps : q.steps[i] = "succeeded" <=> i < c \/ i = c
    <3> TAKE i \in Steps
    <3>1. i \in Nat /\ (r.steps[i] = "succeeded" <=> i < c) BY <1>0, <2>1 DEF ForwardShape
    <3> QED BY <3>1, <1>0, <1>2
  <2> QED BY <1>0, <1>3, <2>2, <2>3 DEF Standing
<1>5. /\ a.phase = "forward" /\ a.standing = Standing(r) /\ a.owed = r.undo \cap Compensatable
      /\ b.phase = Phase(q) /\ b.standing = Standing(q) /\ b.owed = q.undo \cap Compensatable
  BY <1>0, PhaseOf DEF Abstract
<1>6. Phase(q) = IF c = LastStep THEN "completed" ELSE "forward"
  BY <1>1, <1>2, PhaseOf
<1>7. b.owed \in {a.owed, a.owed \cup {c}}
  BY <1>2, <1>5
<1> HIDE DEF a, b, c
<1>8. /\ c \in Promise!Steps /\ {j \in Promise!Steps : j < c} = {j \in Steps : j < c}
  BY <1>0 DEF Promise!Steps
<1>9. Promise!Does(a, b)
  BY <1>3, <1>4, <1>5, <1>6, <1>7, <1>8 DEF Promise!Does, c
<1> QED BY <1>9 DEF a, b, q

(* A compensation that failed for good leaves everything standing. *)
LEMMA StuckMoves ==
  ASSUME NEW r, RowInv(r), r.status = "compensating", WayBack(r),
         NEW q \in Row, q.status = "failed", q.undo = r.undo, q.undoSent = r.undoSent,
         \A i \in Steps : q.steps[i] = IF i = r.current_step THEN "failed" ELSE r.steps[i]
  PROVE  Promise!GetsStuck(Abstract(r), Abstract(q))
<1> USE StepAssumption
<1> DEFINE c == r.current_step
<1>0. r \in Row /\ c \in Steps BY DEF RowInv, Row
<1>1. r.undoSent[c] > 0 /\ r.steps[c] = "succeeded"
  <2>1. BackwardShape(r, "succeeded") /\ RowProgress(r) BY DEF RowInv, RowShape
  <2> QED BY <2>1, <1>0 DEF BackwardShape, RowProgress
<1>n. \A i \in Steps : q.undoSent[i] > 0 <=> r.undoSent[i] > 0 OBVIOUS
<1>2. Standing(q) = Standing(r) BY <1>1, <1>n DEF Standing
<1>3. c \in Standing(q) BY <1>0, <1>1 DEF Standing
<1>4. Phase(q) = "stuck" /\ Phase(r) = "backward" BY <1>0, <1>3, PhaseOf
<1>5. [Abstract(r) EXCEPT !.phase = "stuck"]
        = [phase |-> "stuck", standing |-> Standing(r), owed |-> r.undo \cap Compensatable]
  <2>1. \A x, y, z : [[phase |-> x, standing |-> y, owed |-> z] EXCEPT !.phase = "stuck"]
                     = [phase |-> "stuck", standing |-> y, owed |-> z]
    OBVIOUS
  <2> DEFINE x == Phase(r)
             y == Standing(r)
             z == r.undo \cap Compensatable
  <2>2. Abstract(r) = [phase |-> x, standing |-> y, owed |-> z] BY DEF Abstract
  <2> HIDE DEF x, y, z
  <2>3. [Abstract(r) EXCEPT !.phase = "stuck"] = [phase |-> "stuck", standing |-> y, owed |-> z]
    BY <2>1, <2>2
  <2> QED BY <2>3 DEF y, z
<1>6. Abstract(q) = [phase |-> "stuck", standing |-> Standing(r), owed |-> r.undo \cap Compensatable]
  BY <1>2, <1>4 DEF Abstract
<1>7. Abstract(r).phase = "backward" BY <1>4 DEF Abstract
<1> QED BY <1>5, <1>6, <1>7 DEF Promise!GetsStuck

(* Each handler keeps the promise. *)
LEMMA RowMoves ==
  ASSUME NEW s, NEW r, NEW q, RowInv(r), WayBack(r), RowStep(s, r, q)
  PROVE  Abstract(q) = Abstract(r) \/ Promise!Moves(Abstract(r), Abstract(q))
<1> USE StepAssumption, CompensatableAssumption
<1> DEFINE c == r.current_step
<1>0. /\ r \in Row /\ c \in Steps /\ r.undo \in SUBSET Steps /\ r.steps \in [Steps -> StepStatus]
      /\ r.error_detail \in {"plain", "reemitted"} /\ Steps \subseteq Nat
  BY SMTT(30) DEF RowInv, Row, Steps
<1>b. ASSUME r.status = "started"
      PROVE  Promise!GoesBack(Abstract(r), Abstract(BeginCompensation(r)))
  <2> DEFINE p == TurnedBack(r)
  <2>1. ReadyToGoBack(p) BY <1>b, BeginCompensationInv
  <2>2. /\ p \in Row BY <2>1 DEF ReadyToGoBack
  <2>3. /\ p.undo = r.undo /\ p.current_step = c /\ p.error_detail = "plain"
        /\ p.steps = [r.steps EXCEPT ![c] = "failed"]
    BY <1>0 DEF TurnedBack, Row
  <2>4. \A i \in r.undo : i # c /\ r.steps[i] = "succeeded"
    <3>1. ForwardShape(r) /\ RowProgress(r) BY <1>b DEF RowInv, RowShape
    <3> TAKE i \in r.undo
    <3>2. i \in Steps /\ i \in Nat /\ c \in Nat BY <1>0
    <3>3. r.steps[i] # "executing" /\ r.steps[i] # "pending" BY <3>1 DEF RowProgress
    <3> QED BY <3>1, <3>2, <3>3 DEF ForwardShape
  <2>5. \A i \in r.undo : p.steps[i] # "failed" BY <1>0, <2>3, <2>4
  <2> HIDE DEF p
  <2>6. WayBack(p) BY <2>3, <2>5 DEF WayBack
  <2>7. Back(p, CompensatePrevious(p)) BY <2>1, <2>6, GoingBackAbstract
  <2>8. CompensatePrevious(p) = BeginCompensation(r) BY DEF p, TurnedBack, BeginCompensation
  <2>9. Abstract(r) = [phase |-> "forward", standing |-> {i \in Steps : i < p.current_step},
                       owed |-> p.undo \cap Compensatable]
    BY <1>0, <1>b, <2>3, StandingForward, PhaseOf DEF Abstract
  <2> QED BY <2>2, <2>7, <2>8, <2>9, BackMoves
<1>1. CASE q = r BY <1>1
<1>2. CASE r = NoRow /\ q = StartedRow
  BY <1>2, StartingMoves DEF Promise!Moves
<1>3. ASSUME NEW u \in BOOLEAN, r.status = "started", q = Advance(r, u)
      PROVE  Promise!Moves(Abstract(r), Abstract(q))
  BY <1>3, AdvancingMoves DEF Promise!Moves
<1>4. CASE r.status = "started" /\ q = BeginCompensation(r)
  BY <1>4, <1>b DEF Promise!Moves
<1>5. CASE r.status = "compensating" /\ q = CompensatePrevious(Undone(r))
  <2> DEFINE p == Undone(r)
  <2>1. ReadyToGoBack(p) BY <1>5, CompensatedInv
  <2>2. p \in Row BY <2>1 DEF ReadyToGoBack
  <2>3. /\ p.undo = r.undo /\ p.current_step = c /\ p.error_detail = r.error_detail
        /\ p.undoSent = r.undoSent /\ p.steps = [r.steps EXCEPT ![c] = "compensated"]
    BY <1>0 DEF Undone, Row
  <2>5. \A i \in r.undo : p.steps[i] # "failed" BY <1>0, <1>5, <2>3 DEF WayBack
  <2> HIDE DEF p
  <2>6. WayBack(p) BY <2>3, <2>5 DEF WayBack
  <2>7. Back(p, CompensatePrevious(p)) BY <2>1, <2>6, GoingBackAbstract
  <2>8. q = CompensatePrevious(p) BY <1>5 DEF p
  <2>9. Abstract(r) = [phase |-> "backward", standing |-> {i \in Steps : i <= p.current_step},
                       owed |-> p.undo \cap Compensatable]
    BY <1>0, <1>5, <2>3, StandingBackward, PhaseOf DEF Abstract
  <2> QED BY <2>2, <2>7, <2>8, <2>9, BackMoves DEF Promise!Moves
<1>6. CASE r.status = "compensating" /\ q = CompensationRefused(r)
  <2>1. q \in Row BY <1>6, CompensationRefusedInv DEF RowInv
  <2> QED BY <1>0, <1>6, <2>1, FailedFields, StuckMoves DEF Promise!Moves
<1>7. CASE r.status = "compensating" /\ q = CompensationFailed(r)
  <2>1. q \in Row BY <1>7, CompensationFailedInv DEF RowInv
  <2> QED BY <1>0, <1>7, <2>1, FailedFields, StuckMoves DEF Promise!Moves
<1>8. CASE IsActive(r) /\ q = HandleStale(r)
  <2>1. CASE r.status = "started" /\ HasCompensatableWork(r)
    BY <1>8, <2>1, <1>b DEF HandleStale, HandleStaleExecution, Promise!Moves
  <2>2. CASE r.status = "started" /\ ~HasCompensatableWork(r)
    <3>1. q = [r EXCEPT !.status = "timed_out"]
      BY <1>8, <2>2 DEF HandleStale, HandleStaleExecution
    <3>2. /\ q \in Row /\ q.status = "timed_out" /\ q.undo = r.undo
          /\ q.undoSent = r.undoSent /\ q.steps = r.steps
      BY <1>0, <3>1 DEF Row, SagaStatus
    <3>3. Standing(q) = Standing(r) BY <3>2 DEF Standing
    <3>4. Phase(q) = "timed_out" /\ Phase(r) = "forward"
      BY <1>0, <2>2, <3>2, PhaseOf
    <3>5. Standing(r) \cap (r.undo \cap Compensatable) = {}
      <4>1. \A i \in Standing(r) : r.steps[i] = "succeeded"
        BY <1>0, <2>2 DEF Standing, RowInv, RowProgress
      <4> QED BY <4>1, <2>2 DEF HasCompensatableWork, CompensatableWork
    <3> QED BY <3>2, <3>3, <3>4, <3>5 DEF Abstract, Promise!Moves, Promise!TimesOut
  <2>3. CASE r.status = "compensating" /\ r.error_detail = "reemitted"
    <3>1. q = CompensationFailed(r)
      BY <1>8, <2>3 DEF HandleStale, HandleStaleCompensation
    <3> QED BY <1>7, <2>3, <3>1
  <2>4. CASE r.status = "compensating" /\ r.error_detail = "plain"
    <3>1. /\ q.status = "compensating" /\ q.undo = r.undo /\ q.steps = r.steps
          /\ r.undoSent[c] = 1
          /\ \A i \in Steps : q.undoSent[i] = IF i = c THEN 2 ELSE r.undoSent[i]
      BY <1>8, <2>4, ReemittedFields
    <3>2. Standing(q) = Standing(r) BY <3>1 DEF Standing
    <3>3. Phase(q) = Phase(r) BY <2>4, <3>1 DEF Phase
    <3> QED BY <3>1, <3>2, <3>3 DEF Abstract
  <2> QED BY <1>0, <1>8, <2>1, <2>2, <2>3, <2>4 DEF IsActive
<1> QED BY <1>1, <1>2, <1>3, <1>4, <1>5, <1>6, <1>8 DEF RowStep

(***************************************************************************)
(* The engine implements SagaPromise: whatever replies are lost, repeated  *)
(* or late, and however the sweeps of check_timeouts interleave with the   *)
(* consumers, the rows it commits do their steps in order, take work back  *)
(* only from the top and only on a participant's word, and end as promised.*)
(***************************************************************************)
THEOREM EngineKeepsPromise == Spec => KeepsPromise
<1>1. Init => Promise!Init
  <2> SUFFICES ASSUME Init PROVE [s \in Sagas |-> Abstract(saga[s])] = [s \in Sagas |-> Promise!Unborn]
    BY DEF Promise!Init
  <2>1. Promise!Begins(Abstract(NoRow), Abstract(StartedRow)) BY StartingMoves
  <2>2. Abstract(NoRow) = Promise!Unborn BY <2>1 DEF Promise!Begins
  <2> QED BY <2>2 DEF Init
<1>2. IInv /\ HistoryInv /\ [Next]_vars
        => [Promise!Next]_([s \in Sagas |-> Abstract(saga[s])])
  <2> SUFFICES ASSUME IInv, HistoryInv, [Next]_vars, NEW s \in Sagas
               PROVE  \/ Abstract(saga'[s]) = Abstract(saga[s])
                      \/ Promise!Moves(Abstract(saga[s]), Abstract(saga'[s]))
    BY DEF Promise!Next
  <2>1. RowStep(s, saga[s], saga'[s]) BY RowSteps
  <2>2. RowInv(saga[s]) /\ WayBack(saga[s]) BY DEF IInv, HistoryInv, HistoryRow
  <2> QED BY <2>1, <2>2, RowMoves
<1> QED BY <1>1, <1>2, Invariance, HistoryHolds, PTL DEF Spec, KeepsPromise, Promise!Spec
=============================================================================
