----------------------------- MODULE SyncProofs -----------------------------
(***************************************************************************)
(* Proofs about the bank sync: its claim (SyncClaim), for any number of    *)
(* requests and deliveries, any TTL and any clock; and its import          *)
(* (SyncImport), for any number of sagas, handlers, retries and runs, any  *)
(* chunk size, and whatever the bank and the files hold.                   *)
(***************************************************************************)
EXTENDS SyncClaim, SyncImport, WellFoundedInduction, NaturalsInduction, TLAPS

-----------------------------------------------------------------------------
(* The claim: one completion event per saga, a user's own sync is reported *)
(* as manual, and a saga in flight keeps the claim unless the TTL or an    *)
(* older saga's command took it.                                           *)

LEMMA InitClaimInv == ClaimInit => ClaimInv
<1> SUFFICES ASSUME ClaimInit PROVE ClaimInv
  OBVIOUS
<1> USE NullAssumption, ManualAssumption
<1>1. TypeOK
  <2>1. <<>> \in Seq(Trigger) OBVIOUS
  <2>2. NoClaim \in [saga : Requests \cup {Null}, at : Nat, trigger : Trigger \cup {Null}]
    BY DEF NoClaim
  <2>3. Free \in [saga : Requests \cup {Null}, whose : {"own", "foreign"},
                  trigger : Trigger \cup {Null}]
    BY DEF Free
  <2> QED BY <2>1, <2>2, <2>3 DEF ClaimInit, TypeOK, PC, SagaState
<1>2. CallsInv BY DEF ClaimInit, CallsInv
<1>3. EventsInv BY DEF ClaimInit, EventsInv
<1>4. ManualInv BY DEF ClaimInit, ManualInv, OwnManualHeard, NoClaim, Free
<1>5. ClaimHeldInFlight BY DEF ClaimInit, ClaimHeldInFlight, InFlight
<1> QED BY <1>1, <1>2, <1>3, <1>4, <1>5 DEF ClaimInv

LEMMA NextClaimInv == ClaimInv /\ [ClaimNext]_claimVars => ClaimInv'
<1> SUFFICES ASSUME ClaimInv, [ClaimNext]_claimVars PROVE ClaimInv'
  OBVIOUS
<1> USE NullAssumption, ManualAssumption, TimeAssumption DEF ClaimInv
<1>1. ASSUME NEW r \in Requests, Due(r) PROVE ClaimInv'
  <2>1. TypeOK' BY <1>1 DEF Due, list_active_synced_before, Goto, reqVars, history, TypeOK, PC, SagaState, Trigger, TriggerOf, NoClaim, Free
  <2>2. CallsInv' BY <1>1 DEF Due, list_active_synced_before, Goto, reqVars, history, CallsInv, TypeOK, IsTerminal, Terminal
  <2>3. EventsInv' BY <1>1 DEF Due, list_active_synced_before, Goto, reqVars, history, EventsInv, TypeOK, Free, Trigger, ManualInv
  <2>4. ManualInv' BY <1>1 DEF Due, list_active_synced_before, Goto, reqVars, history, ManualInv, OwnManualHeard, TypeOK, NoClaim, Free, Trigger, TriggerOf
  <2>5. ClaimHeldInFlight' BY <1>1 DEF Due, list_active_synced_before, Goto, reqVars, history, ClaimHeldInFlight, InFlight, TypeOK, NoClaim, CallsInv, IsTerminal, Terminal
  <2> QED BY <2>1, <2>2, <2>3, <2>4, <2>5
<1>2. ASSUME NEW r \in Requests, Begin(r) PROVE ClaimInv'
  <2>1. TypeOK' BY <1>2 DEF Begin, sync_transactions, Goto, reqVars, history, TypeOK, PC, SagaState, Trigger, TriggerOf, NoClaim, Free
  <2>2. CallsInv' BY <1>2 DEF Begin, sync_transactions, Goto, reqVars, history, CallsInv, TypeOK, IsTerminal, Terminal
  <2>3. EventsInv' BY <1>2 DEF Begin, sync_transactions, Goto, reqVars, history, EventsInv, TypeOK, Free, Trigger, ManualInv
  <2>4. ManualInv' BY <1>2 DEF Begin, sync_transactions, Goto, reqVars, history, ManualInv, OwnManualHeard, TypeOK, NoClaim, Free, Trigger, TriggerOf
  <2>5. ClaimHeldInFlight' BY <1>2 DEF Begin, sync_transactions, Goto, reqVars, history, ClaimHeldInFlight, InFlight, TypeOK, NoClaim, CallsInv, IsTerminal, Terminal
  <2> QED BY <2>1, <2>2, <2>3, <2>4, <2>5
<1>3. ASSUME NEW r \in Requests, TryClaim(r) PROVE ClaimInv'
  <2>1. TypeOK'
    <3>1. CASE Claimable(now[r])
      <4>1. /\ claim' = [saga |-> r, at |-> now[r], trigger |-> TriggerOf(r)]
            /\ saga' = [saga EXCEPT ![r] = "requested"] /\ pc' = [pc EXCEPT ![r] = "done"]
            /\ answer' = [answer EXCEPT ![r] = r] /\ lapsed' = lapsed \cup ({claim.saga} \ {Null})
        BY <1>3, <3>1 DEF TryClaim, Claims, Returns, Goto
      <4>2. now[r] \in Nat /\ TriggerOf(r) \in Trigger BY DEF TypeOK, TriggerOf, Trigger
      <4>3. claim' \in [saga : Requests \cup {Null}, at : Nat, trigger : Trigger \cup {Null}]
        BY <4>1, <4>2
      <4>4. lapsed' \subseteq Requests BY <4>1 DEF TypeOK
      <4> QED BY <1>3, <4>1, <4>3, <4>4 DEF TryClaim, TypeOK, PC, SagaState
    <3>2. CASE ~Claimable(now[r])
      BY <1>3, <3>2 DEF TryClaim, Goto, TypeOK, PC
    <3> QED BY <3>1, <3>2
  <2>2. CallsInv' BY <1>3 DEF TryClaim, Goto, Returns, Claims, Claimable, reqVars, history, CallsInv, TypeOK, IsTerminal, Terminal
  <2>3. EventsInv' BY <1>3 DEF TryClaim, Goto, Returns, Claims, Claimable, reqVars, history, EventsInv, TypeOK, Free, Trigger, ManualInv
  <2>4. ManualInv' BY <1>3 DEF TryClaim, Goto, Returns, Claims, Claimable, reqVars, history, ManualInv, OwnManualHeard, TypeOK, NoClaim, Free, Trigger, TriggerOf
  <2>5. ClaimHeldInFlight' BY <1>3 DEF TryClaim, Goto, Returns, Claims, Claimable, reqVars, history, ClaimHeldInFlight, InFlight, TypeOK, NoClaim, CallsInv, IsTerminal, Terminal
  <2> QED BY <2>1, <2>2, <2>3, <2>4, <2>5
<1>4. ASSUME NEW r \in Requests, ReadClaim(r) PROVE ClaimInv'
  <2>1. TypeOK' BY <1>4 DEF ReadClaim, Goto, reqVars, history, TypeOK, PC, SagaState, Trigger, TriggerOf, NoClaim, Free
  <2>2. CallsInv' BY <1>4 DEF ReadClaim, Goto, reqVars, history, CallsInv, TypeOK, IsTerminal, Terminal
  <2>3. EventsInv' BY <1>4 DEF ReadClaim, Goto, reqVars, history, EventsInv, TypeOK, Free, Trigger, ManualInv
  <2>4. ManualInv' BY <1>4 DEF ReadClaim, Goto, reqVars, history, ManualInv, OwnManualHeard, TypeOK, NoClaim, Free, Trigger, TriggerOf
  <2>5. ClaimHeldInFlight' BY <1>4 DEF ReadClaim, Goto, reqVars, history, ClaimHeldInFlight, InFlight, TypeOK, NoClaim, CallsInv, IsTerminal, Terminal
  <2> QED BY <2>1, <2>2, <2>3, <2>4, <2>5
<1>5. ASSUME NEW r \in Requests, AskStatus(r) PROVE ClaimInv'
  <2>1. TypeOK' BY <1>5 DEF AskStatus, get_saga_status, Terminal, Goto, reqVars, history, TypeOK, PC, SagaState, Trigger, TriggerOf, NoClaim, Free
  <2>2. CallsInv' BY <1>5 DEF AskStatus, get_saga_status, Terminal, Goto, reqVars, history, CallsInv, TypeOK, IsTerminal
  <2>3. EventsInv' BY <1>5 DEF AskStatus, get_saga_status, Terminal, Goto, reqVars, history, EventsInv, TypeOK, Free, Trigger, ManualInv
  <2>4. ManualInv' BY <1>5 DEF AskStatus, get_saga_status, Terminal, Goto, reqVars, history, ManualInv, OwnManualHeard, TypeOK, NoClaim, Free, Trigger, TriggerOf
  <2>5. ClaimHeldInFlight' BY <1>5 DEF AskStatus, get_saga_status, Terminal, Goto, reqVars, history, ClaimHeldInFlight, InFlight, TypeOK, NoClaim, CallsInv, IsTerminal
  <2> QED BY <2>1, <2>2, <2>3, <2>4, <2>5
<1>6. ASSUME NEW r \in Requests, Steal(r) PROVE ClaimInv'
  <2>w. CASE claim.saga = seen[r]
    <3>1. /\ claim' = [saga |-> r, at |-> now[r], trigger |-> TriggerOf(r)]
          /\ saga' = [saga EXCEPT ![r] = "requested"] /\ pc' = [pc EXCEPT ![r] = "done"]
          /\ answer' = [answer EXCEPT ![r] = r] /\ pc[r] = "stealing"
          /\ UNCHANGED <<clock, synced, now, seen, handler, inbox, events, lapsed, wiped>>
      BY <1>6, <2>w DEF Steal, Claims, Returns, Goto, history
    <3>2. claim.saga \in Requests /\ IsTerminal(claim.saga) /\ saga[r] = "none"
      BY <2>w, <3>1 DEF CallsInv
    <3>t. TypeOK'
      <4>2. now[r] \in Nat /\ TriggerOf(r) \in Trigger BY DEF TypeOK, TriggerOf, Trigger
      <4>3. claim' \in [saga : Requests \cup {Null}, at : Nat, trigger : Trigger \cup {Null}]
        BY <3>1, <4>2
      <4> QED BY <3>1, <4>3 DEF TypeOK, PC, SagaState
    <3>c. CallsInv'
      <4>1. \A x \in Requests : x # r => pc'[x] = pc[x] /\ saga'[x] = saga[x]
        BY <3>1 DEF TypeOK
      <4>2. pc'[r] = "done" BY <3>1 DEF TypeOK
      <4>3. \A x \in Requests : IsTerminal(x) => IsTerminal(x)'
        BY <3>2, <4>1 DEF IsTerminal, Terminal
      <4> QED BY <3>1, <4>1, <4>2, <4>3 DEF CallsInv
    <3>e. EventsInv' BY <3>1 DEF EventsInv
    <3>m. ManualInv' BY <3>1 DEF ManualInv, OwnManualHeard, TriggerOf, Trigger
    <3>h. ClaimHeldInFlight'
      <4> SUFFICES ASSUME NEW x \in Requests, InFlight(x)'
                   PROVE  claim'.saga = x \/ x \in lapsed' \cup wiped'
        BY DEF ClaimHeldInFlight
      <4>1. CASE x = r BY <4>1, <3>1
      <4>2. CASE x # r
        <5>1. saga'[x] = saga[x] /\ InFlight(x) BY <4>2, <3>1 DEF TypeOK, InFlight
        <5>2. x # claim.saga BY <5>1, <3>2 DEF InFlight, IsTerminal, Terminal
        <5> QED BY <5>1, <5>2, <3>1 DEF ClaimHeldInFlight
      <4> QED BY <4>1, <4>2
    <3> QED BY <3>t, <3>c, <3>e, <3>m, <3>h
  <2>l. CASE claim.saga # seen[r]
    <3>1. /\ pc' = [pc EXCEPT ![r] = "lostSteal"] /\ pc[r] = "stealing"
          /\ UNCHANGED <<clock, claim, synced, now, seen, answer, saga, handler, inbox, events,
                         lapsed, wiped>>
      BY <1>6, <2>l DEF Steal, Goto, history
    <3>t. TypeOK' BY <3>1 DEF TypeOK, PC
    <3>c. CallsInv' BY <3>1 DEF CallsInv, TypeOK, IsTerminal, Terminal
    <3>e. EventsInv' BY <3>1 DEF EventsInv
    <3>m. ManualInv' BY <3>1 DEF ManualInv, OwnManualHeard
    <3>h. ClaimHeldInFlight' BY <3>1 DEF ClaimHeldInFlight, InFlight
    <3> QED BY <3>t, <3>c, <3>e, <3>m, <3>h
  <2> QED BY <2>w, <2>l
<1>7. ASSUME NEW r \in Requests, ReadWinner(r) PROVE ClaimInv'
  <2>1. TypeOK' BY <1>7 DEF ReadWinner, Goto, reqVars, history, TypeOK, PC, SagaState, Trigger, TriggerOf, NoClaim, Free
  <2>2. CallsInv' BY <1>7 DEF ReadWinner, Goto, reqVars, history, CallsInv, TypeOK, IsTerminal, Terminal
  <2>3. EventsInv' BY <1>7 DEF ReadWinner, Goto, reqVars, history, EventsInv, TypeOK, Free, Trigger, ManualInv
  <2>4. ManualInv' BY <1>7 DEF ReadWinner, Goto, reqVars, history, ManualInv, OwnManualHeard, TypeOK, NoClaim, Free, Trigger, TriggerOf
  <2>5. ClaimHeldInFlight' BY <1>7 DEF ReadWinner, Goto, reqVars, history, ClaimHeldInFlight, InFlight, TypeOK, NoClaim, CallsInv, IsTerminal, Terminal
  <2> QED BY <2>1, <2>2, <2>3, <2>4, <2>5
<1>8. ASSUME NEW r \in Requests, Defer(r) PROVE ClaimInv'
  <2>1. TypeOK'
    <3>1. claim' \in [saga : Requests \cup {Null}, at : Nat, trigger : Trigger \cup {Null}]
      BY <1>8 DEF Defer, escalate_trigger_to_manual, TypeOK, Trigger
    <3>2. seen[r] \in Requests BY <1>8 DEF Defer, escalate_trigger_to_manual, CallsInv
    <3> QED BY <1>8, <3>1, <3>2 DEF Defer, escalate_trigger_to_manual, Returns, Goto, history, TypeOK, PC
  <2>2. CallsInv' BY <1>8 DEF Defer, escalate_trigger_to_manual, Returns, Goto, reqVars, history, CallsInv, TypeOK, IsTerminal, Terminal
  <2>3. EventsInv' BY <1>8 DEF Defer, escalate_trigger_to_manual, Returns, Goto, reqVars, history, EventsInv, TypeOK, Free, Trigger, ManualInv
  <2>4. ManualInv' BY <1>8 DEF Defer, escalate_trigger_to_manual, Returns, Goto, reqVars, history, ManualInv, OwnManualHeard, TypeOK, NoClaim, Free, Trigger, TriggerOf
  <2>5. ClaimHeldInFlight' BY <1>8 DEF Defer, escalate_trigger_to_manual, Returns, Goto, reqVars, history, ClaimHeldInFlight, InFlight, TypeOK, NoClaim, CallsInv, IsTerminal, Terminal
  <2> QED BY <2>1, <2>2, <2>3, <2>4, <2>5
<1>9. ASSUME NEW r \in Requests, SagaProceeds(r) PROVE ClaimInv'
  <2>1. TypeOK' BY <1>9 DEF SagaProceeds, reqVars, history, TypeOK, PC, SagaState, Trigger, TriggerOf, NoClaim, Free
  <2>2. CallsInv'
    <3>0. \A x \in Requests : saga[x] \in {"none", "failed", "finished"} => saga'[x] = saga[x]
      BY <1>9 DEF SagaProceeds, TypeOK
    <3>1. \A x \in Requests : /\ saga[x] = "none" => saga'[x] = "none"
                             /\ IsTerminal(x) => IsTerminal(x)'
      BY <3>0 DEF IsTerminal, Terminal
    <3>2. UNCHANGED <<pc, seen>> BY <1>9 DEF SagaProceeds, reqVars
    <3> QED BY <3>0, <3>2 DEF CallsInv, IsTerminal, Terminal
  <2>3. EventsInv' BY <1>9 DEF SagaProceeds, reqVars, history, EventsInv, TypeOK, Free, Trigger, ManualInv
  <2>4. ManualInv' BY <1>9 DEF SagaProceeds, reqVars, history, ManualInv, OwnManualHeard, TypeOK, NoClaim, Free, Trigger, TriggerOf
  <2>5. ClaimHeldInFlight' BY <1>9 DEF SagaProceeds, reqVars, history, ClaimHeldInFlight, InFlight, TypeOK, NoClaim, CallsInv, IsTerminal, Terminal
  <2> QED BY <2>1, <2>2, <2>3, <2>4, <2>5
<1>10. ASSUME NEW d \in Deliveries, NEW s \in Requests, MarkRead(d, s) PROVE ClaimInv'
  <2>1. TypeOK' BY <1>10 DEF MarkRead, Whose, CommandSent, reqVars, history, TypeOK, PC, SagaState, Trigger, TriggerOf, NoClaim, Free
  <2>2. CallsInv' BY <1>10 DEF MarkRead, Whose, CommandSent, reqVars, history, CallsInv, TypeOK, IsTerminal, Terminal
  <2>3. EventsInv' BY <1>10 DEF MarkRead, Whose, CommandSent, reqVars, history, EventsInv, TypeOK, Free, Trigger, ManualInv
  <2>4. ManualInv' BY <1>10 DEF MarkRead, Whose, CommandSent, reqVars, history, ManualInv, OwnManualHeard, TypeOK, NoClaim, Free, Trigger, TriggerOf
  <2>5. ClaimHeldInFlight' BY <1>10 DEF MarkRead, Whose, CommandSent, reqVars, history, ClaimHeldInFlight, InFlight, TypeOK, NoClaim, CallsInv, IsTerminal, Terminal
  <2> QED BY <2>1, <2>2, <2>3, <2>4, <2>5
<1>11. ASSUME NEW d \in Deliveries, MarkCommit(d) PROVE ClaimInv'
  <2> DEFINE h == handler[d]
  <2>0. h.saga \in Requests /\ h.trigger \in Trigger /\ h # Free
    BY <1>11 DEF MarkCommit, EventsInv
  <2>u. UNCHANGED <<clock, pc, now, seen, answer, saga, lapsed>>
        /\ handler' = [handler EXCEPT ![d] = Free]
    BY <1>11 DEF MarkCommit, reqVars
  <2>i. CASE h.saga \in inbox
    <3>1. UNCHANGED <<claim, synced, inbox, events, wiped>>
      BY <1>11, <2>i DEF MarkCommit
    <3>t. TypeOK' BY <2>u, <3>1 DEF TypeOK, Free
    <3>c. CallsInv' BY <2>u DEF CallsInv, IsTerminal, Terminal
    <3>e. EventsInv' BY <2>u, <3>1 DEF EventsInv, TypeOK
    <3>m. ManualInv' BY <2>u, <3>1 DEF ManualInv, OwnManualHeard, TypeOK, Free
    <3>h. ClaimHeldInFlight' BY <2>u, <3>1 DEF ClaimHeldInFlight, InFlight
    <3> QED BY <3>t, <3>c, <3>e, <3>m, <3>h
  <2>n. CASE h.saga \notin inbox
    <3>1. /\ synced' = TRUE
          /\ claim' = IF h.whose = "own" THEN NoClaim ELSE claim
          /\ wiped' = IF h.whose = "own" THEN wiped \cup ({claim.saga} \ {h.saga, Null}) ELSE wiped
          /\ events' = [events EXCEPT ![h.saga] = Append(@, h.trigger)]
          /\ inbox' = inbox \cup {h.saga}
      BY <1>11, <2>n DEF MarkCommit
    <3>2. /\ \A x \in Requests : x # h.saga => events'[x] = events[x]
          /\ events'[h.saga] = Append(events[h.saga], h.trigger)
          /\ events[h.saga] \in Seq(Trigger) /\ Len(events[h.saga]) = 0
      BY <2>0, <2>n, <3>1 DEF TypeOK, EventsInv
    <3>3. Len(events'[h.saga]) = 1 /\ events'[h.saga][1] = h.trigger
      BY <2>0, <3>2
    <3>t. TypeOK'
      <4>1. claim' \in [saga : Requests \cup {Null}, at : Nat, trigger : Trigger \cup {Null}]
        BY <3>1 DEF TypeOK, NoClaim
      <4>2. Append(events[h.saga], h.trigger) \in Seq(Trigger) BY <2>0, <3>2
      <4>3. events' \in [Requests -> Seq(Trigger)] BY <3>1, <4>2 DEF TypeOK
      <4>4. wiped' \subseteq Requests /\ inbox' \subseteq Requests BY <2>0, <3>1 DEF TypeOK
      <4>5. handler' \in [Deliveries -> [saga : Requests \cup {Null}, whose : {"own", "foreign"},
                                         trigger : Trigger \cup {Null}]]
        BY <2>u DEF TypeOK, Free
      <4> QED BY <2>u, <3>1, <4>1, <4>3, <4>4, <4>5 DEF TypeOK
    <3>c. CallsInv' BY <2>u DEF CallsInv, IsTerminal, Terminal
    <3>e. EventsInv'
      <4>1. \A x \in Requests : Len(events'[x]) = IF x \in inbox' THEN 1 ELSE 0
        BY <3>1, <3>2, <3>3 DEF EventsInv
      <4>2. \A e \in Deliveries : handler'[e] # Free =>
              handler'[e].saga \in Requests /\ handler'[e].trigger \in Trigger
        BY <2>u DEF EventsInv, TypeOK
      <4> QED BY <4>1, <4>2 DEF EventsInv
    <3>m. ManualInv'
      <4>1. claim'.saga # Null => claim' = claim BY <3>1 DEF NoClaim
      <4>2. claim'.saga \in Manual => claim' = claim BY <3>1 DEF NoClaim
      <4>3. \A e \in Deliveries : handler'[e].saga \in Manual => handler'[e].trigger = "manual"
        BY <2>u DEF ManualInv, TypeOK, Free
      <4>4. h.saga \in Manual => h.trigger = "manual" BY DEF ManualInv
      <4>5. ASSUME NEW x \in Manual, NEW i \in 1..Len(events'[x]) PROVE events'[x][i] = "manual"
        <5>1. CASE x = h.saga
          <6>1. i = 1 BY <5>1, <3>3, <4>5
          <6> QED BY <6>1, <5>1, <3>3, <4>4
        <5>2. CASE x # h.saga
          <6>1. events'[x] = events[x] BY <5>2, <3>2
          <6> QED BY <6>1, <4>5 DEF ManualInv, OwnManualHeard
        <5> QED BY <5>1, <5>2
      <4>6. OwnManualHeard' BY <4>5 DEF OwnManualHeard
      <4> QED BY <4>1, <4>2, <4>3, <4>6 DEF ManualInv
    <3>h. ClaimHeldInFlight'
      <4> SUFFICES ASSUME NEW x \in Requests, InFlight(x)'
                   PROVE  claim'.saga = x \/ x \in lapsed' \cup wiped'
        BY DEF ClaimHeldInFlight
      <4>1. InFlight(x) /\ x # h.saga BY <2>u, <3>1 DEF InFlight
      <4>2. claim.saga = x \/ x \in lapsed \cup wiped BY <4>1 DEF ClaimHeldInFlight
      <4> QED BY <4>1, <4>2, <3>1, <2>u
    <3> QED BY <3>t, <3>c, <3>e, <3>m, <3>h
  <2> QED BY <2>i, <2>n
<1>12. ASSUME NEW d \in Deliveries, MarkAbort(d) PROVE ClaimInv'
  <2>1. TypeOK' BY <1>12 DEF MarkAbort, reqVars, history, TypeOK, PC, SagaState, Trigger, TriggerOf, NoClaim, Free
  <2>2. CallsInv' BY <1>12 DEF MarkAbort, reqVars, history, CallsInv, TypeOK, IsTerminal, Terminal
  <2>3. EventsInv' BY <1>12 DEF MarkAbort, reqVars, history, EventsInv, TypeOK, Free, Trigger, ManualInv
  <2>4. ManualInv' BY <1>12 DEF MarkAbort, reqVars, history, ManualInv, OwnManualHeard, TypeOK, NoClaim, Free, Trigger, TriggerOf
  <2>5. ClaimHeldInFlight' BY <1>12 DEF MarkAbort, reqVars, history, ClaimHeldInFlight, InFlight, TypeOK, NoClaim, CallsInv, IsTerminal, Terminal
  <2> QED BY <2>1, <2>2, <2>3, <2>4, <2>5
<1>13. ASSUME Tick PROVE ClaimInv'
  <2>1. TypeOK' BY <1>13 DEF Tick, reqVars, history, TypeOK, PC, SagaState, Trigger, TriggerOf, NoClaim, Free
  <2>2. CallsInv' BY <1>13 DEF Tick, reqVars, history, CallsInv, TypeOK, IsTerminal, Terminal
  <2>3. EventsInv' BY <1>13 DEF Tick, reqVars, history, EventsInv, TypeOK, Free, Trigger, ManualInv
  <2>4. ManualInv' BY <1>13 DEF Tick, reqVars, history, ManualInv, OwnManualHeard, TypeOK, NoClaim, Free, Trigger, TriggerOf
  <2>5. ClaimHeldInFlight' BY <1>13 DEF Tick, reqVars, history, ClaimHeldInFlight, InFlight, TypeOK, NoClaim, CallsInv, IsTerminal, Terminal
  <2> QED BY <2>1, <2>2, <2>3, <2>4, <2>5
<1>14. CASE UNCHANGED claimVars
  BY <1>14 DEF claimVars, reqVars, history, TypeOK, CallsInv, EventsInv, ManualInv, OwnManualHeard, ClaimHeldInFlight, InFlight, IsTerminal, Terminal
<1> QED BY <1>1, <1>2, <1>3, <1>4, <1>5, <1>6, <1>7, <1>8, <1>9, <1>10, <1>11, <1>12, <1>13, <1>14 DEF ClaimNext

(* The invariant holds in every reachable state. *)
THEOREM ClaimInvariance == ClaimSpec => []ClaimInv
<1> QED BY InitClaimInv, NextClaimInv, PTL DEF ClaimSpec

(* However often, and however concurrently, mark_sync_complete is delivered,
   a saga publishes at most one BankSyncCompletedEvent. *)
THEOREM OneEvent == ClaimSpec => []OneEventPerSaga
<1>1. ClaimInv => OneEventPerSaga
  <2> SUFFICES ASSUME ClaimInv, NEW s \in Requests PROVE Len(events[s]) <= 1
    BY DEF OneEventPerSaga
  <2>1. CASE s \in inbox
    <3>1. Len(events[s]) = 1 BY <2>1 DEF ClaimInv, EventsInv
    <3> QED BY <3>1
  <2>2. CASE s \notin inbox
    <3>1. Len(events[s]) = 0 BY <2>2 DEF ClaimInv, EventsInv
    <3> QED BY <3>1
  <2> QED BY <2>1, <2>2
<1> QED BY <1>1, ClaimInvariance, PTL

(* A sync started by a user is never reported as scheduled. *)
THEOREM ManualReported == ClaimSpec => []OwnManualHeard
<1>1. ClaimInv => OwnManualHeard BY DEF ClaimInv, ManualInv
<1> QED BY <1>1, ClaimInvariance, PTL

(* A saga in flight holds the claim of its connection unless the TTL or the
   command of an older saga took it away. *)
THEOREM ClaimHeld == ClaimSpec => []ClaimHeldInFlight
<1>1. ClaimInv => ClaimHeldInFlight BY DEF ClaimInv
<1> QED BY <1>1, ClaimInvariance, PTL

-----------------------------------------------------------------------------
(* The import.                                                             *)

-----------------------------------------------------------------------------
(* The inductive invariant *)

RowIds == {r.id : r \in rows}

IsRow(r) ==
    /\ r = [id |-> r.id, ext |-> r.ext, fuzzy |-> r.fuzzy, by |-> r.by, live |-> r.live]
    /\ r.id[1] \in Nat /\ r.id[1] <= runs /\ r.live \in BOOLEAN

(* The primary key; a row is never removed. *)
TableOK ==
    /\ runs \in Nat
    /\ \A r \in rows : IsRow(r)
    /\ \A r, q \in rows : r.id = q.id => r = q

(* A deletion and the tombstone are one commit. *)
DeletionsOK ==
    /\ \A d \in deletions : \E r \in rows : r.id = d.id /\ ~ Live(r) /\ d.by \in {None, r.by}
    /\ \A r \in rows : ~ Live(r) => \E d \in deletions : d.id = r.id
    /\ \A d, e \in deletions : d.id = e.id => d = e

(* The saga has taken its answer to the import: ids[s] stays as it is. *)
Answered(s) == phase[s] \notin {"idle", "importing"}

Cmd == [kind : {"import", "rollback"}, saga : Sagas, retries : Nat]

CommandsOK == cmds \subseteq Cmd /\ \A m \in cmds : m.kind = "rollback" => Answered(m.saga)

(* Of a saga's rows with these ids none is left. *)
Gone(I) == \A r \in rows : r.id \in I => ~ Live(r)

Covered(item) == \E r \in rows : Covers(r, item)

AllCovered(s) == \A i \in DOMAIN Fetched[s] : Covered(Fetched[s][i])

(* The fields of a job. *)
ImportRec(run, msg, sg, chunk, at, fresh, made) ==
    [job |-> "import", run |-> run, msg |-> msg, saga |-> sg, chunk |-> chunk, at |-> at,
     fresh |-> fresh, made |-> made]

CsvRec(run, at, items, fresh) ==
    [job |-> "csv", run |-> run, at |-> at, items |-> items, fresh |-> fresh]

RollbackRec(run, msg, sg, at, todo, row, failed) ==
    [job |-> "rollback", run |-> run, msg |-> msg, saga |-> sg, at |-> at, todo |-> todo,
     row |-> row, failed |-> failed]

DeleteRec(run, at, todo, row, failed) ==
    [job |-> "delete", run |-> run, at |-> at, todo |-> todo, row |-> row, failed |-> failed]

(* An import has made the rows of its run, chunk by chunk, and each item of
   the chunks behind it has a row; of the chunk it is to insert, each item
   has a row or the key of an item that will get one. *)
ImportOK(j) ==
    /\ j.job = "import"
    /\ j = ImportRec(j.run, j.msg, j.saga, j.chunk, j.at, j.fresh, j.made)
    /\ j.msg \in Cmd /\ j.msg.kind = "import" /\ j.msg.saga = j.saga
    /\ j.chunk \in Nat \ {0}
    /\ j.at \in {"lookup", "insert", "reply", "replied", "retried"}
    /\ \A r \in rows : r.id[1] = j.run => r.by = j.saga /\ r.id \in j.made
    /\ j.made \subseteq RowIds /\ \A i \in j.made : i[1] = j.run
    /\ j.at \in {"lookup", "insert"} =>
          /\ \A r \in rows : r.id[1] = j.run => r.id[2] \in Int /\ r.id[2] <= (j.chunk - 1) * ChunkSize
          /\ \A i \in DOMAIN Fetched[j.saga] :
                i <= (j.chunk - 1) * ChunkSize => Covered(Fetched[j.saga][i])
    /\ j.at = "insert" =>
          /\ j.fresh \subseteq Chunk(Fetched[j.saga], j.chunk)
          /\ \A i \in Chunk(Fetched[j.saga], j.chunk) :
                \/ Covered(Fetched[j.saga][i])
                \/ \E k \in j.fresh : SameKey(Fetched[j.saga][i], Fetched[j.saga][k])
    /\ j.at \in {"reply", "replied"} => AllCovered(j.saga)

CsvOK(j) ==
    /\ j.job = "csv"
    /\ j = CsvRec(j.run, j.at, j.items, j.fresh)
    /\ j.at \in {"lookup", "insert"} /\ j.items \in Parsed
    /\ \A r \in rows : r.id[1] # j.run

(* A rollback has deleted what it need not try again and did not fail on. *)
RollbackOK(j) ==
    /\ j.job = "rollback"
    /\ j = RollbackRec(j.run, j.msg, j.saga, j.at, j.todo, j.row, j.failed)
    /\ j.msg \in Cmd /\ j.msg.kind = "rollback" /\ j.msg.saga = j.saga /\ Answered(j.saga)
    /\ j.at \in {"find", "delete", "replied", "retried"}
    /\ j.todo \subseteq ids[j.saga] /\ (j.at = "delete" => j.row \in j.todo)
    /\ Gone(ids[j.saga] \ (j.todo \cup j.failed))

DeleteOK(j) ==
    /\ j.job = "delete"
    /\ j = DeleteRec(j.run, j.at, j.todo, j.row, j.failed)
    /\ j.at \in {"find", "delete"}

JobOK(j) == ImportOK(j) \/ CsvOK(j) \/ RollbackOK(j) \/ DeleteOK(j)

JobsOK ==
    /\ worker = [w \in Workers |-> worker[w]]
    /\ \A w \in Workers : worker[w] # Idle =>
          JobOK(worker[w]) /\ worker[w].run \in Nat /\ worker[w].run <= runs
    /\ \A v, w \in Workers : worker[v] # Idle /\ worker[w] # Idle /\ worker[v].run = worker[w].run => v = w

Inserting(j) == j.job \in {"import", "csv"} /\ j.at \in {"lookup", "insert"}

(* These are all the rows of some runs, which insert no more; and s made them. *)
Whole(I, s) ==
    /\ I \subseteq RowIds
    /\ \A r \in rows, i \in I : i[1] = r.id[1] => r.id \in I
    /\ \A r \in rows : r.id \in I => r.by = s

Settled(I) == \A w \in Workers, i \in I : Inserting(worker[w]) => i[1] # worker[w].run

ReplyOK(m) ==
    /\ m.saga \in Sagas
    /\ ~ m.compensation /\ m.success => Whole(m.ids, m.saga) /\ AllCovered(m.saga)
    /\ m.compensation /\ m.success => Answered(m.saga) /\ Gone(ids[m.saga])

RepliesOK ==
    \A m \in replies : ReplyOK(m) /\ (~ m.compensation /\ m.success => Settled(m.ids))

SagaOK(s) ==
    /\ Whole(ids[s], s)
    /\ phase[s] = "rolledBack" => Gone(ids[s])
    /\ phase[s] \in {"imported", "completed"} => AllCovered(s)

SagasOK ==
    /\ phase = [s \in Sagas |-> phase[s]] /\ ids = [s \in Sagas |-> ids[s]]
    /\ \A s \in Sagas : SagaOK(s) /\ Settled(ids[s])

SyncInv == TableOK /\ DeletionsOK /\ CommandsOK /\ JobsOK /\ RepliesOK /\ SagasOK

(* With one handler, nothing changes between the lookup of a batch and its
   insert. *)
OneWorker == \A v, w \in Workers : v = w

FreshNow ==
    \A w \in Workers :
        Inserting(worker[w]) /\ worker[w].at = "insert" =>
            worker[w].fresh = Fresh(Items(worker[w]), Batch(worker[w]))

DistinctLive ==
    \A r, q \in rows :
        Live(r) /\ Live(q) /\ r.id # q.id /\ r.fuzzy = q.fuzzy =>
            r.ext # q.ext /\ (None \in {r.ext, q.ext} => r.id[1] = q.id[1])

-----------------------------------------------------------------------------
(* Steps that leave the table alone *)

LEMMA InitInv == Init => SyncInv
<1> SUFFICES ASSUME Init PROVE SyncInv OBVIOUS
<1> USE DEF Init
<1>1. TableOK /\ DeletionsOK /\ CommandsOK /\ RepliesOK
  BY DEF TableOK, DeletionsOK, CommandsOK, RepliesOK
<1>2. JobsOK BY DEF JobsOK
<1>3. SagasOK BY DEF SagasOK, SagaOK, Whole, Settled
<1> QED BY <1>1, <1>2, <1>3 DEF SyncInv

(* What a job has to satisfy depends on the table and the sagas only. *)
LEMMA JobFrame ==
  ASSUME UNCHANGED <<rows, phase, ids>>, NEW j
  PROVE  JobOK(j)' <=> JobOK(j)
<1>1. ImportOK(j)' <=> ImportOK(j) BY DEF ImportOK, RowIds, Covered, AllCovered
<1>2. CsvOK(j)' <=> CsvOK(j) BY DEF CsvOK
<1>3. RollbackOK(j)' <=> RollbackOK(j) BY DEF RollbackOK, Answered, Gone
<1> QED BY <1>1, <1>2, <1>3 DEF JobOK, DeleteOK

LEMMA NotInserting == ~ Inserting(Idle)
BY DEF Inserting, Idle

LEMMA WorkerMoves ==
  ASSUME SyncInv, UNCHANGED <<rows, deletions, phase, ids>>, NEW w \in Workers, NEW j,
         worker' = [worker EXCEPT ![w] = j], runs' \in Nat, runs <= runs',
         j # Idle => /\ JobOK(j) /\ j.run \in Nat /\ j.run <= runs'
                     /\ \/ worker[w] # Idle /\ j.run = worker[w].run
                           /\ (Inserting(j) => Inserting(worker[w]))
                        \/ j.run > runs,
         CommandsOK',
         \A m \in replies' : \/ m \in replies
                             \/ ReplyOK(m) /\ (~ m.compensation /\ m.success => Settled(m.ids)')
  PROVE  SyncInv'
<1>0. TableOK /\ JobsOK /\ RepliesOK /\ SagasOK /\ runs \in Nat BY DEF SyncInv, TableOK
<1>1. TableOK' BY <1>0 DEF TableOK, IsRow
<1>2. DeletionsOK' BY DEF SyncInv, DeletionsOK
<1>3. worker'[w] = j /\ \A v \in Workers : v # w => worker'[v] = worker[v]
  BY <1>0 DEF JobsOK
<1>4. JobsOK'
  <2>1. worker' = [v \in Workers |-> worker'[v]] BY <1>0 DEF JobsOK
  <2>2. \A v \in Workers : worker'[v] # Idle =>
          JobOK(worker[v])' /\ worker'[v].run \in Nat /\ worker'[v].run <= runs'
    <3>1. \A x : JobOK(x)' <=> JobOK(x) BY JobFrame
    <3> QED BY <1>0, <1>3, <3>1 DEF JobsOK
  <2>3. \A u, v \in Workers :
          worker'[u] # Idle /\ worker'[v] # Idle /\ worker'[u].run = worker'[v].run => u = v
    BY <1>0, <1>3 DEF JobsOK
  <2> QED BY <2>1, <2>2, <2>3 DEF JobsOK
<1>5. ASSUME NEW I, I \subseteq RowIds, Settled(I) PROVE Settled(I)'
  <2>1. \A i \in I : i[1] \in Nat /\ i[1] <= runs BY <1>0, <1>5 DEF RowIds, TableOK, IsRow
  <2> QED BY <1>0, <1>3, <1>5, <2>1, NotInserting DEF Settled
<1>6. \A I, s : Whole(I, s)' <=> Whole(I, s) BY DEF Whole, RowIds
<1>7. RepliesOK'
  <2> SUFFICES ASSUME NEW m \in replies'
               PROVE  ReplyOK(m)' /\ (~ m.compensation /\ m.success => Settled(m.ids)')
    BY DEF RepliesOK
  <2>1. ReplyOK(m)' <=> ReplyOK(m)
    BY <1>6 DEF ReplyOK, AllCovered, Covered, Answered, Gone
  <2>2. ReplyOK(m) BY <1>0 DEF RepliesOK
  <2>3. ~ m.compensation /\ m.success => m.ids \subseteq RowIds BY <2>2 DEF ReplyOK, Whole
  <2>4. ~ m.compensation /\ m.success => Settled(m.ids)' BY <1>0, <1>5, <2>3 DEF RepliesOK
  <2> QED BY <2>1, <2>2, <2>4
<1>8. SagasOK'
  <2>1. \A s \in Sagas : SagaOK(s)' <=> SagaOK(s)
    BY <1>6 DEF SagaOK, Gone, AllCovered, Covered
  <2>2. \A s \in Sagas : ids[s] \subseteq RowIds BY <1>0 DEF SagasOK, SagaOK, Whole
  <2>3. \A s \in Sagas : Settled(ids[s])' BY <1>0, <1>5, <2>2 DEF SagasOK
  <2> QED BY <1>0, <2>1, <2>3 DEF SagasOK
<1> QED BY <1>1, <1>2, <1>4, <1>7, <1>8 DEF SyncInv

(* A step of a saga. *)
LEMMA SagaMoves ==
  ASSUME SyncInv, UNCHANGED <<rows, deletions, replies, worker, runs>>, NEW s \in Sagas, NEW p,
         phase' = [phase EXCEPT ![s] = p], p # "idle", p = "importing" => phase[s] = "idle",
         NEW I, ids' = [ids EXCEPT ![s] = I],
         \/ I = ids[s]
         \/ phase[s] = "importing" /\ Whole(I, s) /\ Settled(I),
         p = "rolledBack" => Gone(I), p \in {"imported", "completed"} => AllCovered(s),
         \/ cmds' = cmds
         \/ cmds' = cmds \cup {Command("import", s)}
         \/ cmds' = cmds \cup {Command("rollback", s)} /\ p # "importing"
  PROVE  SyncInv'
<1>0. TableOK /\ CommandsOK /\ JobsOK /\ RepliesOK /\ SagasOK BY DEF SyncInv
<1>1. /\ phase'[s] = p /\ \A t \in Sagas : t # s => phase'[t] = phase[t]
      /\ ids'[s] = I /\ \A t \in Sagas : t # s => ids'[t] = ids[t]
  BY <1>0 DEF SagasOK
<1>2. \A t \in Sagas : Answered(t) => Answered(t)' /\ ids'[t] = ids[t]
  BY <1>1 DEF Answered
<1>3. TableOK' /\ DeletionsOK' BY DEF SyncInv, TableOK, IsRow, DeletionsOK
<1>4. CommandsOK'
  <2>1. Command("import", s) \in Cmd /\ Command("import", s).kind = "import" BY DEF Cmd, Command
  <2>2. Command("rollback", s) \in Cmd /\ Command("rollback", s).saga = s BY DEF Cmd, Command
  <2>3. \A m \in Cmd : m.saga \in Sagas BY DEF Cmd
  <2>4. p # "importing" => Answered(s)' BY <1>1 DEF Answered
  <2> QED BY <1>0, <1>2, <2>1, <2>2, <2>3, <2>4 DEF CommandsOK
<1>5. ASSUME NEW j, JobOK(j) PROVE JobOK(j)'
  <2>1. ImportOK(j) => ImportOK(j)' BY DEF ImportOK, RowIds, Covered, AllCovered
  <2>2. CsvOK(j) => CsvOK(j)' BY DEF CsvOK
  <2>3. ASSUME RollbackOK(j) PROVE RollbackOK(j)'
    <3>1. j.saga \in Sagas BY <2>3 DEF RollbackOK, Cmd
    <3>2. Answered(j.saga)' /\ ids'[j.saga] = ids[j.saga] BY <2>3, <3>1, <1>2 DEF RollbackOK
    <3> QED BY <2>3, <3>2 DEF RollbackOK, Gone
  <2> QED BY <1>5, <2>1, <2>2, <2>3 DEF JobOK, DeleteOK
<1>6. JobsOK' BY <1>0, <1>5 DEF JobsOK
<1>7. \A J, t : Whole(J, t)' <=> Whole(J, t) BY DEF Whole, RowIds
<1>8. \A J : Settled(J)' <=> Settled(J) BY DEF Settled
<1>9. \A J : Gone(J)' <=> Gone(J) BY DEF Gone
<1>10. \A t : AllCovered(t)' <=> AllCovered(t) BY DEF AllCovered, Covered
<1>11. RepliesOK'
  <2> SUFFICES ASSUME NEW m \in replies
               PROVE  ReplyOK(m)' /\ (~ m.compensation /\ m.success => Settled(m.ids)')
    BY DEF RepliesOK
  <2>1. ReplyOK(m) BY <1>0 DEF RepliesOK
  <2>2. ReplyOK(m)' BY <1>2, <1>7, <1>9, <1>10, <2>1 DEF ReplyOK
  <2> QED BY <1>0, <1>8, <2>2 DEF RepliesOK
<1>12. SagasOK'
  <2>1. phase' = [t \in Sagas |-> phase'[t]] /\ ids' = [t \in Sagas |-> ids'[t]]
    BY <1>0 DEF SagasOK
  <2>2. ASSUME NEW t \in Sagas PROVE SagaOK(t)' /\ Settled(ids[t])'
    <3>1. SagaOK(t) /\ Settled(ids[t]) BY <1>0 DEF SagasOK
    <3>2. CASE t # s
      BY <1>1, <1>7, <1>8, <1>9, <1>10, <3>1, <3>2 DEF SagaOK
    <3>3. CASE t = s
      BY <1>1, <1>7, <1>8, <1>9, <1>10, <3>1, <3>3 DEF SagaOK
    <3> QED BY <3>2, <3>3
  <2> QED BY <2>1, <2>2 DEF SagasOK
<1> QED BY <1>3, <1>4, <1>6, <1>11, <1>12 DEF SyncInv

LEMMA SagaStepsInv ==
  ASSUME SyncInv, NEW s \in Sagas,
         \/ FetchFails(s) \/ SendImport(s) \/ ImportTimesOut(s) \/ SyncCompletes(s) \/ SyncFails(s)
         \/ RollbackTimesOut(s)
         \/ \E m \in replies : ImportReplied(s, m) \/ RollbackReplied(s, m)
  PROVE  SyncInv'
<1>0. SagaOK(s) /\ [ids EXCEPT ![s] = ids[s]] = ids BY DEF SyncInv, SagasOK
<1>k. ASSUME NEW p, Enter(s, p), UNCHANGED <<rows, deletions, replies, worker, runs, ids>>,
             p # "idle", p = "importing" => phase[s] = "idle",
             p = "rolledBack" => Gone(ids[s]), p \in {"imported", "completed"} => AllCovered(s),
             \/ cmds' = cmds
             \/ cmds' = cmds \cup {Command("import", s)}
             \/ cmds' = cmds \cup {Command("rollback", s)} /\ p # "importing"
      PROVE  SyncInv'
  <2>1. phase' = [phase EXCEPT ![s] = p] /\ ids' = [ids EXCEPT ![s] = ids[s]]
    BY <1>0, <1>k DEF Enter
  <2> QED BY <1>k, <2>1, SagaMoves
<1>1. CASE FetchFails(s) BY <1>1, <1>k DEF FetchFails
<1>2. CASE SendImport(s) BY <1>2, <1>k DEF SendImport
<1>3. CASE ImportTimesOut(s) BY <1>3, <1>k DEF ImportTimesOut
<1>4. CASE SyncCompletes(s)
  <2>1. AllCovered(s) BY <1>0, <1>4 DEF SagaOK, SyncCompletes
  <2> QED BY <1>4, <1>k, <2>1 DEF SyncCompletes
<1>5. CASE SyncFails(s)
  <2>1. CASE Enter(s, "failed") BY <1>5, <1>k, <2>1 DEF SyncFails
  <2>2. CASE Enter(s, "compensating") BY <1>5, <1>k, <2>2 DEF SyncFails
  <2> QED BY <1>5, <2>1, <2>2 DEF SyncFails
<1>6. CASE RollbackTimesOut(s)
  <2>1. CASE Enter(s, "failed") BY <1>6, <1>k, <2>1 DEF RollbackTimesOut
  <2>2. CASE Enter(s, "compensatingAgain") BY <1>6, <1>k, <2>2 DEF RollbackTimesOut
  <2> QED BY <1>6, <2>1, <2>2 DEF RollbackTimesOut
<1>7. ASSUME NEW m \in replies, ImportReplied(s, m) PROVE SyncInv'
  <2>1. CASE m.success
    <3>1. Whole(m.ids, s) /\ AllCovered(s) /\ Settled(m.ids)
      BY <1>7, <2>1 DEF SyncInv, RepliesOK, ReplyOK, ImportReplied
    <3> QED BY <1>7, <2>1, <3>1, SagaMoves DEF ImportReplied, Enter
  <2>2. CASE ~ m.success BY <1>7, <1>k, <2>2 DEF ImportReplied
  <2> QED BY <2>1, <2>2
<1>8. ASSUME NEW m \in replies, RollbackReplied(s, m) PROVE SyncInv'
  <2> DEFINE p == IF m.success THEN "rolledBack" ELSE "failed"
  <2>1. m.success => Gone(ids[s]) BY <1>8 DEF SyncInv, RepliesOK, ReplyOK, RollbackReplied
  <2>2. p = "rolledBack" => Gone(ids[s]) BY <2>1
  <2>3. p \in {"rolledBack", "failed"} OBVIOUS
  <2>4. /\ phase' = [phase EXCEPT ![s] = p] /\ ids' = [ids EXCEPT ![s] = ids[s]]
        /\ UNCHANGED <<rows, deletions, replies, worker, runs, cmds>>
    BY <1>0, <1>8 DEF RollbackReplied, Enter
  <2> HIDE DEF p
  <2> QED BY <2>2, <2>3, <2>4, SagaMoves
<1> QED BY <1>1, <1>2, <1>3, <1>4, <1>5, <1>6, <1>7, <1>8

-----------------------------------------------------------------------------
(* Steps of a handler that leave the table alone *)

LEMMA KindOfJob ==
  ASSUME SyncInv, NEW w \in Workers, worker[w] # Idle
  PROVE  /\ worker[w].job = "import" => ImportOK(worker[w])
         /\ worker[w].job = "csv" => CsvOK(worker[w])
         /\ worker[w].job = "rollback" => RollbackOK(worker[w])
         /\ worker[w].job = "delete" => DeleteOK(worker[w])
         /\ worker[w].job \in {"import", "csv", "rollback", "delete"}
         /\ worker[w].run \in Nat /\ worker[w].run <= runs /\ runs \in Nat
BY DEF SyncInv, TableOK, JobsOK, JobOK, ImportOK, CsvOK, RollbackOK, DeleteOK

LEMMA Busy == \A j : j.job \in {"import", "csv", "rollback", "delete"} => j # Idle
BY DEF Idle

(* Updates of a job's fields. *)
LEMMA ImportAt ==
  ASSUME NEW j, j = ImportRec(j.run, j.msg, j.saga, j.chunk, j.at, j.fresh, j.made), NEW x
  PROVE  [j EXCEPT !.at = x] = ImportRec(j.run, j.msg, j.saga, j.chunk, x, j.fresh, j.made)
BY DEF ImportRec

LEMMA ImportFound ==
  ASSUME NEW j, j = ImportRec(j.run, j.msg, j.saga, j.chunk, j.at, j.fresh, j.made), NEW x, NEW y
  PROVE  [j EXCEPT !.fresh = x, !.at = y] = ImportRec(j.run, j.msg, j.saga, j.chunk, y, x, j.made)
<1> DEFINE f == [j EXCEPT !.fresh = x]
<1>1. f = ImportRec(j.run, j.msg, j.saga, j.chunk, j.at, x, j.made) BY DEF ImportRec
<1>2. [j EXCEPT !.fresh = x, !.at = y] = [f EXCEPT !.at = y] OBVIOUS
<1> HIDE DEF f
<1>3. [f EXCEPT !.at = y] = ImportRec(j.run, j.msg, j.saga, j.chunk, y, x, j.made)
  BY <1>1 DEF ImportRec
<1> QED BY <1>2, <1>3

LEMMA ImportInserted ==
  ASSUME NEW j, j = ImportRec(j.run, j.msg, j.saga, j.chunk, j.at, j.fresh, j.made), NEW new,
         NEW goes, goes = IF IsLast(j) THEN "reply" ELSE "lookup"
  PROVE  AfterInsert(j, new)
           = ImportRec(j.run, j.msg, j.saga, j.chunk + 1, goes, j.fresh, j.made \cup new)
<1> DEFINE x == j.made \cup new
           y == j.chunk + 1
           m == [j EXCEPT !.made = x]
           c == [m EXCEPT !.chunk = y]
<1>1. j.job = "import" BY DEF ImportRec
<1>2. AfterInsert(j, new) = [j EXCEPT !.made = x, !.chunk = y, !.at = goes]
  BY <1>1 DEF AfterInsert
<1> HIDE DEF x, y
<1>3. m = ImportRec(j.run, j.msg, j.saga, j.chunk, j.at, j.fresh, x) BY DEF ImportRec
<1>4. AfterInsert(j, new) = [c EXCEPT !.at = goes] BY <1>2
<1> HIDE DEF m
<1>5. c = ImportRec(j.run, j.msg, j.saga, y, j.at, j.fresh, x) BY <1>3 DEF ImportRec
<1> HIDE DEF c
<1>6. [c EXCEPT !.at = goes] = ImportRec(j.run, j.msg, j.saga, y, goes, j.fresh, x)
  BY <1>5 DEF ImportRec
<1> QED BY <1>4, <1>6 DEF x, y

LEMMA ImportFields ==
  ASSUME NEW run, NEW msg, NEW sg, NEW chunk, NEW at, NEW fresh, NEW made, NEW n,
         n = ImportRec(run, msg, sg, chunk, at, fresh, made)
  PROVE  /\ n.job = "import" /\ n.run = run /\ n.msg = msg /\ n.saga = sg
         /\ n.chunk = chunk /\ n.at = at /\ n.fresh = fresh /\ n.made = made
         /\ n = ImportRec(n.run, n.msg, n.saga, n.chunk, n.at, n.fresh, n.made)
BY DEF ImportRec

LEMMA CsvFields ==
  ASSUME NEW j, j = CsvRec(j.run, j.at, j.items, j.fresh), NEW x, NEW y
  PROVE  [j EXCEPT !.fresh = x, !.at = y] = CsvRec(j.run, y, j.items, x)
<1> DEFINE f == [j EXCEPT !.fresh = x]
<1>1. f = CsvRec(j.run, j.at, j.items, x) BY DEF CsvRec
<1>2. [j EXCEPT !.fresh = x, !.at = y] = [f EXCEPT !.at = y] OBVIOUS
<1> HIDE DEF f
<1>3. [f EXCEPT !.at = y] = CsvRec(j.run, y, j.items, x) BY <1>1 DEF CsvRec
<1> QED BY <1>2, <1>3

LEMMA RollbackAt ==
  ASSUME NEW j, j = RollbackRec(j.run, j.msg, j.saga, j.at, j.todo, j.row, j.failed), NEW x
  PROVE  [j EXCEPT !.at = x] = RollbackRec(j.run, j.msg, j.saga, x, j.todo, j.row, j.failed)
BY DEF RollbackRec

LEMMA RollbackFound ==
  ASSUME NEW j, j = RollbackRec(j.run, j.msg, j.saga, j.at, j.todo, j.row, j.failed), NEW x, NEW y
  PROVE  [j EXCEPT !.row = x, !.at = y] = RollbackRec(j.run, j.msg, j.saga, y, j.todo, x, j.failed)
<1> DEFINE r == [j EXCEPT !.row = x]
<1>1. r = RollbackRec(j.run, j.msg, j.saga, j.at, j.todo, x, j.failed) BY DEF RollbackRec
<1>2. [j EXCEPT !.row = x, !.at = y] = [r EXCEPT !.at = y] OBVIOUS
<1> HIDE DEF r
<1>3. [r EXCEPT !.at = y] = RollbackRec(j.run, j.msg, j.saga, y, j.todo, x, j.failed)
  BY <1>1 DEF RollbackRec
<1> QED BY <1>2, <1>3

LEMMA RollbackPassed ==
  ASSUME NEW j, j = RollbackRec(j.run, j.msg, j.saga, j.at, j.todo, j.row, j.failed), NEW x
  PROVE  [j EXCEPT !.todo = @ \ {x}]
           = RollbackRec(j.run, j.msg, j.saga, j.at, j.todo \ {x}, j.row, j.failed)
BY DEF RollbackRec

LEMMA RollbackDone ==
  ASSUME NEW j, j = RollbackRec(j.run, j.msg, j.saga, j.at, j.todo, j.row, j.failed), NEW x
  PROVE  Done(j, x) = RollbackRec(j.run, j.msg, j.saga, "find", j.todo \ {x}, j.row, j.failed)
<1> DEFINE t == [j EXCEPT !.todo = @ \ {x}]
<1>1. t = RollbackRec(j.run, j.msg, j.saga, j.at, j.todo \ {x}, j.row, j.failed) BY RollbackPassed
<1>2. Done(j, x) = [t EXCEPT !.at = "find"] BY DEF Done
<1> HIDE DEF t
<1>3. [t EXCEPT !.at = "find"]
        = RollbackRec(j.run, j.msg, j.saga, "find", j.todo \ {x}, j.row, j.failed)
  BY <1>1 DEF RollbackRec
<1> QED BY <1>2, <1>3

LEMMA RollbackFailed ==
  ASSUME NEW j, j = RollbackRec(j.run, j.msg, j.saga, j.at, j.todo, j.row, j.failed), NEW x
  PROVE  [Done(j, x) EXCEPT !.failed = @ \cup {x}]
           = RollbackRec(j.run, j.msg, j.saga, "find", j.todo \ {x}, j.row, j.failed \cup {x})
<1> DEFINE d == Done(j, x)
<1>1. d = RollbackRec(j.run, j.msg, j.saga, "find", j.todo \ {x}, j.row, j.failed) BY RollbackDone
<1> HIDE DEF d
<1>2. [d EXCEPT !.failed = @ \cup {x}]
        = RollbackRec(j.run, j.msg, j.saga, "find", j.todo \ {x}, j.row, j.failed \cup {x})
  BY <1>1 DEF RollbackRec
<1> QED BY <1>2 DEF d

LEMMA DeleteFound ==
  ASSUME NEW j, j = DeleteRec(j.run, j.at, j.todo, j.row, j.failed), NEW x, NEW y
  PROVE  [j EXCEPT !.row = x, !.at = y] = DeleteRec(j.run, y, j.todo, x, j.failed)
<1> DEFINE r == [j EXCEPT !.row = x]
<1>1. r = DeleteRec(j.run, j.at, j.todo, x, j.failed) BY DEF DeleteRec
<1>2. [j EXCEPT !.row = x, !.at = y] = [r EXCEPT !.at = y] OBVIOUS
<1> HIDE DEF r
<1>3. [r EXCEPT !.at = y] = DeleteRec(j.run, y, j.todo, x, j.failed) BY <1>1 DEF DeleteRec
<1> QED BY <1>2, <1>3

LEMMA DeletePassed ==
  ASSUME NEW j, j = DeleteRec(j.run, j.at, j.todo, j.row, j.failed), NEW x
  PROVE  [j EXCEPT !.todo = @ \ {x}] = DeleteRec(j.run, j.at, j.todo \ {x}, j.row, j.failed)
BY DEF DeleteRec

LEMMA DeleteDone ==
  ASSUME NEW j, j = DeleteRec(j.run, j.at, j.todo, j.row, j.failed), NEW x
  PROVE  Done(j, x) = DeleteRec(j.run, "find", j.todo \ {x}, j.row, j.failed)
<1> DEFINE t == [j EXCEPT !.todo = @ \ {x}]
<1>1. t = DeleteRec(j.run, j.at, j.todo \ {x}, j.row, j.failed) BY DeletePassed
<1>2. Done(j, x) = [t EXCEPT !.at = "find"] BY DEF Done
<1> HIDE DEF t
<1>3. [t EXCEPT !.at = "find"] = DeleteRec(j.run, "find", j.todo \ {x}, j.row, j.failed)
  BY <1>1 DEF DeleteRec
<1> QED BY <1>2, <1>3

(* A handler goes on with its job, or ends it; nothing is sent. *)
LEMMA JobGoesOn ==
  ASSUME SyncInv, NEW w \in Workers, NEW j, Step(w, j), worker[w] # Idle,
         \/ j = Idle
         \/ JobOK(j) /\ j.run = worker[w].run /\ (Inserting(j) => Inserting(worker[w])),
         UNCHANGED <<rows, deletions, cmds, replies, phase, ids, runs>>
  PROVE  SyncInv'
<1>1. CommandsOK' BY DEF SyncInv, CommandsOK, Answered
<1>2. worker[w].run \in Nat /\ worker[w].run <= runs /\ runs \in Nat BY KindOfJob
<1>3. worker' = [worker EXCEPT ![w] = j] BY DEF Step
<1>4. \A m \in replies' : m \in replies OBVIOUS
<1>5. runs' \in Nat /\ runs <= runs' BY <1>2
<1>6. j # Idle => /\ JobOK(j) /\ j.run \in Nat /\ j.run <= runs'
                  /\ worker[w] # Idle /\ j.run = worker[w].run
                  /\ (Inserting(j) => Inserting(worker[w]))
  BY <1>2
<1> QED BY <1>1, <1>3, <1>4, <1>5, <1>6, WorkerMoves

(* A handler takes up a job. *)
LEMMA JobStarts ==
  ASSUME SyncInv, NEW w \in Workers, NEW j, Starts(w, j), JobOK(j), j.run = runs + 1,
         UNCHANGED <<rows, deletions, cmds, replies, phase, ids>>
  PROVE  SyncInv'
<1>1. CommandsOK' BY DEF SyncInv, CommandsOK, Answered
<1>2. runs \in Nat BY DEF SyncInv, TableOK
<1>3. runs' = runs + 1 /\ worker' = [worker EXCEPT ![w] = j] BY DEF Starts, Step
<1>4. runs' \in Nat /\ runs <= runs' /\ j.run \in Nat /\ j.run <= runs' /\ j.run > runs
  BY <1>2, <1>3
<1> QED BY <1>1, <1>3, <1>4, WorkerMoves

LEMMA ImportStarts ==
  ASSUME SyncInv, NEW m \in cmds, m.kind = "import"
  PROVE  JobOK(Importing(runs + 1, m)) /\ Importing(runs + 1, m).run = runs + 1
<1> DEFINE j == Importing(runs + 1, m)
           F == Fetched[m.saga]
<1>1. m \in Cmd /\ m.saga \in Sagas BY DEF SyncInv, CommandsOK, Cmd
<1>2. runs \in Nat /\ \A r \in rows : r.id[1] # runs + 1 BY DEF SyncInv, TableOK, IsRow
<1>3. Len(F) \in Nat /\ DOMAIN F = 1..Len(F) BY <1>1, ItemsAssumption
<1>4. /\ j.job = "import" /\ j.run = runs + 1 /\ j.msg = m /\ j.saga = m.saga /\ j.chunk = 1
      /\ j.at = (IF F = <<>> THEN "reply" ELSE "lookup") /\ j.fresh = {} /\ j.made = {}
      /\ j = ImportRec(j.run, j.msg, j.saga, j.chunk, j.at, j.fresh, j.made)
  BY DEF Importing, ImportRec
<1> HIDE DEF j
<1>5. (1 - 1) * ChunkSize = 0 BY ChunkAssumption
<1>6. \A i \in DOMAIN F : ~ (i <= (1 - 1) * ChunkSize) BY <1>3, <1>5
<1>7. j.at = "reply" => AllCovered(j.saga)
  <2>1. F = <<>> => DOMAIN F = {} OBVIOUS
  <2> QED BY <1>4, <2>1 DEF AllCovered
<1>8. ImportOK(j) BY <1>1, <1>2, <1>4, <1>6, <1>7 DEF ImportOK
<1> QED BY <1>4, <1>8 DEF JobOK, j

LEMMA RollbackStarts ==
  ASSUME SyncInv, NEW m \in cmds, m.kind # "import"
  PROVE  JobOK(RollingBack(runs + 1, m)) /\ RollingBack(runs + 1, m).run = runs + 1
<1> DEFINE j == RollingBack(runs + 1, m)
<1>1. m \in Cmd /\ m.kind = "rollback" /\ Answered(m.saga) BY DEF SyncInv, CommandsOK, Cmd
<1>2. /\ j.job = "rollback" /\ j.run = runs + 1 /\ j.msg = m /\ j.saga = m.saga /\ j.at = "find"
      /\ j.todo = ids[m.saga] /\ j.failed = {}
      /\ j = RollbackRec(j.run, j.msg, j.saga, j.at, j.todo, j.row, j.failed)
  BY DEF RollingBack, RollbackRec
<1> HIDE DEF j
<1>3. Gone(ids[j.saga] \ (j.todo \cup j.failed)) BY <1>2 DEF Gone
<1>4. RollbackOK(j) BY <1>1, <1>2, <1>3 DEF RollbackOK
<1> QED BY <1>2, <1>4 DEF JobOK, j

LEMMA StartsInv ==
  ASSUME SyncInv, NEW w \in Workers,
         \/ \E m \in cmds : Deliver(w, m)
         \/ \E items \in Parsed : UploadCsv(w, items)
         \/ \E r \in rows : UserDelete(w, r)
  PROVE  SyncInv'
<1>1. ASSUME NEW m \in cmds, Deliver(w, m) PROVE SyncInv'
  <2>1. CASE m.kind = "import" BY <1>1, <2>1, ImportStarts, JobStarts DEF Deliver
  <2>2. CASE m.kind # "import" BY <1>1, <2>2, RollbackStarts, JobStarts DEF Deliver
  <2> QED BY <2>1, <2>2
<1>2. ASSUME NEW items \in Parsed, UploadCsv(w, items) PROVE SyncInv'
  <2> DEFINE j == [job |-> "csv", run |-> runs + 1, at |-> "lookup", items |-> items, fresh |-> {}]
  <2>1. runs \in Nat /\ \A r \in rows : r.id[1] # runs + 1 BY DEF SyncInv, TableOK, IsRow
  <2>2. CsvOK(j) /\ j.run = runs + 1 BY <2>1 DEF CsvOK, CsvRec
  <2>3. Starts(w, j) /\ UNCHANGED <<rows, deletions, cmds, replies, phase, ids>>
    BY <1>2 DEF UploadCsv
  <2> HIDE DEF j
  <2> QED BY <2>2, <2>3, JobStarts DEF JobOK
<1>3. ASSUME NEW r \in rows, UserDelete(w, r) PROVE SyncInv'
  <2> DEFINE j == [job |-> "delete", run |-> runs + 1, at |-> "find", todo |-> {r.id},
                   row |-> None, failed |-> {}]
  <2>1. DeleteOK(j) /\ j.run = runs + 1 BY DEF DeleteOK, DeleteRec
  <2>2. Starts(w, j) /\ UNCHANGED <<rows, deletions, cmds, replies, phase, ids>>
    BY <1>3 DEF UserDelete
  <2> HIDE DEF j
  <2> QED BY <2>1, <2>2, JobStarts DEF JobOK
<1> QED BY <1>1, <1>2, <1>3

LEMMA ChunkBounds ==
  ASSUME NEW items, NEW k \in Nat \ {0}
  PROVE  /\ (k - 1) * ChunkSize \in Int /\ k * ChunkSize \in Int
         /\ (k - 1) * ChunkSize <= k * ChunkSize /\ ((k + 1) - 1) * ChunkSize = k * ChunkSize
         /\ \A i \in Chunk(items, k) : i \in Nat /\ (k - 1) * ChunkSize < i /\ i <= k * ChunkSize
<1>1. ChunkSize \in Nat BY ChunkAssumption
<1>2. k \in Nat /\ k - 1 \in Int /\ (k + 1) - 1 = k OBVIOUS
<1>3. (k - 1) * ChunkSize = k * ChunkSize - ChunkSize BY <1>1, <1>2
<1>4. k * ChunkSize \in Nat BY <1>1, <1>2
<1>5. \A i \in Chunk(items, k) : i \in Nat /\ (k - 1) * ChunkSize < i /\ i <= k * ChunkSize
  BY DEF Chunk
<1> QED BY <1>1, <1>2, <1>3, <1>4, <1>5

(* A nonempty set of naturals has a least element. *)
LEMMA Least ==
  ASSUME NEW S \in SUBSET Nat, S # {}
  PROVE  \E k \in S : \A i \in S : ~ (i < k)
<1> DEFINE R == OpToRel(<, Nat)
<1>1. IsWellFoundedOn(R, Nat) BY NatLessThanWellFounded
<1>2. \A x, y \in Nat : y < x => <<y, x>> \in R BY DEF OpToRel
<1> HIDE DEF R
<1>3. PICK k \in S : \A i \in S : ~ (<<i, k>> \in R) BY <1>1, WFMin
<1> QED BY <1>2, <1>3

(* What bulk_import skips has a row, or shares its key with an item of the
   batch that is inserted. *)
LEMMA LookupFinds ==
  ASSUME NEW items, NEW B \in SUBSET Nat, NEW i \in B
  PROVE  Covered(items[i]) \/ \E k \in Fresh(items, B) : SameKey(items[i], items[k])
<1>1. CASE Duplicate(items, i)
  <2>1. Covered(items[i])
    BY <1>1 DEF Duplicate, FuzzyKeys, LegacyKeys, ExternalIds, Covered, Covers
  <2> QED BY <2>1
<1>2. CASE ~ Duplicate(items, i)
  <2> DEFINE new == {k \in B : ~ Duplicate(items, k)}
             S == {k \in new : SameKey(items[i], items[k])}
  <2>1. i \in S BY <1>2 DEF SameKey
  <2>2. S \in SUBSET Nat OBVIOUS
  <2>3. PICK k \in S : \A l \in S : ~ (l < k)
    <3> HIDE DEF S
    <3> QED BY <2>1, <2>2, Least
  <2>4. \A l \in new : l < k => ~ SameKey(items[k], items[l])
    <3> SUFFICES ASSUME NEW l \in new, l < k, SameKey(items[k], items[l]) PROVE FALSE OBVIOUS
    <3>1. SameKey(items[i], items[l]) BY DEF SameKey
    <3> QED BY <2>3, <3>1
  <2>5. k \in Fresh(items, B) BY <2>4 DEF Fresh
  <2> QED BY <2>5
<1> QED BY <1>1, <1>2

LEMMA LookupInv ==
  ASSUME SyncInv, NEW w \in Workers, Lookup(w)
  PROVE  SyncInv'
<1> DEFINE j == worker[w]
           F == Fresh(Items(j), Batch(j))
           n == [j EXCEPT !.fresh = F, !.at = "insert"]
<1>1. /\ j.job \in {"import", "csv"} /\ j.at = "lookup" /\ Step(w, n)
      /\ UNCHANGED <<rows, deletions, cmds, replies, phase, ids, runs>>
  BY DEF Lookup
<1>2. j # Idle BY <1>1, Busy
<1>3. F \subseteq Batch(j) BY DEF Fresh
<1>4. CASE j.job = "import"
  <2>1. ImportOK(j) BY <1>2, <1>4, KindOfJob
  <2> DEFINE X == Fetched[j.saga]
             B == Chunk(X, j.chunk)
  <2>2. Items(j) = X /\ Batch(j) = B BY <1>4 DEF Items, Batch
  <2>3. B \in SUBSET Nat BY <2>1, ChunkBounds DEF ImportOK
  <2>4. \A i \in B : Covered(X[i]) \/ \E k \in F : SameKey(X[i], X[k])
    <3> HIDE DEF B, X
    <3> QED BY <2>2, <2>3, LookupFinds
  <2>5. /\ n.job = "import" /\ n.run = j.run /\ n.msg = j.msg /\ n.saga = j.saga
        /\ n.chunk = j.chunk /\ n.at = "insert" /\ n.fresh = F /\ n.made = j.made
        /\ n = ImportRec(n.run, n.msg, n.saga, n.chunk, n.at, n.fresh, n.made)
    <3> HIDE DEF F
    <3>0. j = ImportRec(j.run, j.msg, j.saga, j.chunk, j.at, j.fresh, j.made) BY <2>1 DEF ImportOK
    <3>1. n = ImportRec(j.run, j.msg, j.saga, j.chunk, "insert", F, j.made) BY <3>0, ImportFound
    <3> HIDE DEF n
    <3> QED BY <3>1 DEF ImportRec
  <2> HIDE DEF n, F
  <2>6. ImportOK(n) BY <1>1, <1>3, <2>1, <2>2, <2>4, <2>5 DEF ImportOK
  <2>7. Inserting(j) BY <1>1 DEF Inserting
  <2> QED BY <1>1, <1>2, <2>5, <2>6, <2>7, JobGoesOn DEF JobOK
<1>5. CASE j.job = "csv"
  <2>1. CsvOK(j) BY <1>2, <1>5, KindOfJob
  <2>2. CsvOK(n) /\ n.run = j.run
    <3> HIDE DEF F
    <3>0. j = CsvRec(j.run, j.at, j.items, j.fresh) BY <2>1 DEF CsvOK
    <3>1. n = CsvRec(j.run, "insert", j.items, F) BY <3>0, CsvFields
    <3> HIDE DEF n
    <3>2. /\ n.job = "csv" /\ n.run = j.run /\ n.at = "insert" /\ n.items = j.items
          /\ n = CsvRec(n.run, n.at, n.items, n.fresh)
      BY <3>1 DEF CsvRec
    <3> QED BY <2>1, <3>2 DEF CsvOK
  <2>3. Inserting(j) BY <1>1 DEF Inserting
  <2> HIDE DEF n
  <2> QED BY <1>1, <1>2, <2>2, <2>3, JobGoesOn DEF JobOK
<1> QED BY <1>1, <1>4, <1>5

(* The reads of a deletion, and a deletion that fails. *)
LEMMA FindInv ==
  ASSUME SyncInv, NEW w \in Workers, Find(w) \/ DeleteFails(w)
  PROVE  SyncInv'
<1> DEFINE j == worker[w]
<1>1. j.job \in {"rollback", "delete"} BY DEF Find, DeleteFails
<1>2. j # Idle BY <1>1, Busy
<1>3. UNCHANGED <<rows, deletions, cmds, replies, phase, ids, runs>> BY DEF Find, DeleteFails
<1>4. ASSUME NEW n, Step(w, n), RollbackOK(n) \/ DeleteOK(n), n.run = j.run PROVE SyncInv'
  <2>1. ~ Inserting(n) BY <1>4 DEF Inserting, RollbackOK, DeleteOK
  <2> QED BY <1>2, <1>3, <1>4, <2>1, JobGoesOn DEF JobOK
<1>r. j.job = "rollback" =>
        RollbackOK(j) /\ j = RollbackRec(j.run, j.msg, j.saga, j.at, j.todo, j.row, j.failed)
  BY <1>2, KindOfJob DEF RollbackOK
<1>d. j.job = "delete" => DeleteOK(j) /\ j = DeleteRec(j.run, j.at, j.todo, j.row, j.failed)
  BY <1>2, KindOfJob DEF DeleteOK
<1>s. ASSUME NEW n, NEW at, NEW todo, NEW row, NEW failed, Step(w, n),
             n = DeleteRec(j.run, at, todo, row, failed), at \in {"find", "delete"}
      PROVE  SyncInv'
  <2>1. DeleteOK(n) /\ n.run = j.run BY <1>s DEF DeleteOK, DeleteRec
  <2> QED BY <1>4, <1>s, <2>1
<1>t. ASSUME j.job = "rollback", NEW n, NEW at, NEW todo, NEW row, NEW failed, Step(w, n),
             n = RollbackRec(j.run, j.msg, j.saga, at, todo, row, failed), at \in {"find", "delete"},
             todo \subseteq j.todo, at = "delete" => row \in todo,
             Gone(ids[j.saga] \ (todo \cup failed))
      PROVE  SyncInv'
  <2>1. /\ n.job = "rollback" /\ n.run = j.run /\ n.msg = j.msg /\ n.saga = j.saga /\ n.at = at
        /\ n.todo = todo /\ n.row = row /\ n.failed = failed
        /\ n = RollbackRec(n.run, n.msg, n.saga, n.at, n.todo, n.row, n.failed)
    BY <1>t DEF RollbackRec
  <2>2. RollbackOK(n) BY <1>r, <1>t, <2>1 DEF RollbackOK
  <2> QED BY <1>4, <1>t, <2>1, <2>2
<1>g. j.job = "rollback" => Gone(ids[j.saga] \ (j.todo \cup j.failed)) BY <1>r DEF RollbackOK
<1>5. ASSUME NEW i \in j.todo, Step(w, [j EXCEPT !.row = i, !.at = "delete"]) PROVE SyncInv'
  <2> DEFINE n == [j EXCEPT !.row = i, !.at = "delete"]
  <2>1. CASE j.job = "rollback"
    <3>1. n = RollbackRec(j.run, j.msg, j.saga, "delete", j.todo, i, j.failed)
      BY <1>r, <2>1, RollbackFound
    <3> QED BY <1>5, <1>g, <1>t, <2>1, <3>1
  <2>2. CASE j.job = "delete"
    <3>1. n = DeleteRec(j.run, "delete", j.todo, i, j.failed) BY <1>d, <2>2, DeleteFound
    <3> QED BY <1>5, <1>s, <3>1
  <2> QED BY <1>1, <2>1, <2>2
<1>6. ASSUME NEW i, ~ \E r \in rows : r.id = i /\ Live(r), Step(w, [j EXCEPT !.todo = @ \ {i}]),
             j.at = "find"
      PROVE  SyncInv'
  <2> DEFINE n == [j EXCEPT !.todo = @ \ {i}]
             t == j.todo \ {i}
  <2>1. CASE j.job = "rollback"
    <3>1. n = RollbackRec(j.run, j.msg, j.saga, "find", t, j.row, j.failed)
      BY <1>r, <1>6, <2>1, RollbackPassed
    <3>2. Gone(ids[j.saga] \ (t \cup j.failed)) BY <1>g, <1>6, <2>1 DEF Gone
    <3>3. t \subseteq j.todo OBVIOUS
    <3> HIDE DEF n, t
    <3>4. Step(w, n) BY <1>6 DEF n
    <3> QED BY <1>t, <2>1, <3>1, <3>2, <3>3, <3>4
  <2>2. CASE j.job = "delete"
    <3>1. n = DeleteRec(j.run, "find", t, j.row, j.failed) BY <1>d, <1>6, <2>2, DeletePassed
    <3> HIDE DEF n, t
    <3>2. Step(w, n) BY <1>6 DEF n
    <3> QED BY <1>s, <3>1, <3>2
  <2> QED BY <1>1, <2>1, <2>2
<1>7. ASSUME NEW i, Step(w, [Done(j, i) EXCEPT !.failed = @ \cup {i}]), j.job = "rollback"
      PROVE  SyncInv'
  <2> DEFINE n == [Done(j, i) EXCEPT !.failed = @ \cup {i}]
             t == j.todo \ {i}
             f == j.failed \cup {i}
  <2>1. n = RollbackRec(j.run, j.msg, j.saga, "find", t, j.row, f) BY <1>r, <1>7, RollbackFailed
  <2>2. Gone(ids[j.saga] \ (t \cup f)) BY <1>g, <1>7 DEF Gone
  <2>3. t \subseteq j.todo OBVIOUS
  <2> HIDE DEF n, t, f
  <2>4. Step(w, n) BY <1>7 DEF n
  <2> QED BY <1>t, <1>7, <2>1, <2>2, <2>3, <2>4
<1>8. CASE Find(w)
  <2>1. PICK i \in j.todo :
          Step(w, IF \E r \in rows : r.id = i /\ Live(r)
                  THEN [j EXCEPT !.row = i, !.at = "delete"] ELSE [j EXCEPT !.todo = @ \ {i}])
    BY <1>8 DEF Find
  <2>2. j.at = "find" BY <1>8 DEF Find
  <2>3. CASE \E r \in rows : r.id = i /\ Live(r) BY <1>5, <2>1, <2>3
  <2>4. CASE ~ \E r \in rows : r.id = i /\ Live(r) BY <1>6, <2>1, <2>2, <2>4
  <2> QED BY <2>3, <2>4
<1>9. CASE DeleteFails(w)
  <2>1. PICK i : Step(w, [Done(j, i) EXCEPT !.failed = @ \cup {i}]) BY <1>9 DEF DeleteFails
  <2>2. j.job = "rollback" BY <1>9 DEF DeleteFails
  <2> QED BY <1>7, <2>1, <2>2
<1> QED BY <1>8, <1>9

(* A job ends; Ack takes its command from the queue. *)
LEMMA EndsInv ==
  ASSUME SyncInv, NEW w \in Workers, DeleteReturns(w) \/ Ack(w) \/ Crash(w)
  PROVE  SyncInv'
<1>1. worker' = [worker EXCEPT ![w] = Idle] BY DEF DeleteReturns, Ack, Crash, Step
<1>2. cmds' \subseteq cmds /\ UNCHANGED <<rows, deletions, replies, phase, ids, runs>>
  BY DEF DeleteReturns, Ack, Crash
<1>3. CommandsOK' BY <1>2 DEF SyncInv, CommandsOK, Answered
<1>4. runs' \in Nat /\ runs <= runs' BY <1>2 DEF SyncInv, TableOK
<1> QED BY <1>1, <1>2, <1>3, <1>4, WorkerMoves

(* A job that only waits for its acknowledgement, or to be tried again. *)
LEMMA JobParked ==
  ASSUME SyncInv, NEW w \in Workers, NEW at \in {"replied", "retried"},
         worker[w].job \in {"import", "rollback"},
         worker[w].job = "import" /\ at = "replied" => worker[w].at = "reply"
  PROVE  LET j == worker[w]
             n == [j EXCEPT !.at = at]
         IN  JobOK(n) /\ n.run = j.run /\ ~ Inserting(n)
<1> DEFINE j == worker[w]
           n == [j EXCEPT !.at = at]
<1>0. j # Idle BY Busy
<1>1. CASE j.job = "import"
  <2>0. ImportOK(j) BY <1>0, <1>1, KindOfJob
  <2>1. j = ImportRec(j.run, j.msg, j.saga, j.chunk, j.at, j.fresh, j.made) BY <2>0 DEF ImportOK
  <2>2. n = ImportRec(j.run, j.msg, j.saga, j.chunk, at, j.fresh, j.made) BY <2>1, ImportAt
  <2> HIDE DEF n
  <2>3. /\ n.job = "import" /\ n.run = j.run /\ n.msg = j.msg /\ n.saga = j.saga
        /\ n.chunk = j.chunk /\ n.at = at /\ n.fresh = j.fresh /\ n.made = j.made
        /\ n = ImportRec(n.run, n.msg, n.saga, n.chunk, n.at, n.fresh, n.made)
    BY <2>2 DEF ImportRec
  <2>4. ImportOK(n) BY <1>1, <2>0, <2>3 DEF ImportOK
  <2>5. ~ Inserting(n) BY <2>3 DEF Inserting
  <2> QED BY <2>3, <2>4, <2>5 DEF JobOK, n
<1>2. CASE j.job = "rollback"
  <2>0. RollbackOK(j) BY <1>0, <1>2, KindOfJob
  <2>1. j = RollbackRec(j.run, j.msg, j.saga, j.at, j.todo, j.row, j.failed) BY <2>0 DEF RollbackOK
  <2>2. n = RollbackRec(j.run, j.msg, j.saga, at, j.todo, j.row, j.failed) BY <2>1, RollbackAt
  <2> HIDE DEF n
  <2>3. /\ n.job = "rollback" /\ n.run = j.run /\ n.msg = j.msg /\ n.saga = j.saga
        /\ n.at = at /\ n.todo = j.todo /\ n.row = j.row /\ n.failed = j.failed
        /\ n = RollbackRec(n.run, n.msg, n.saga, n.at, n.todo, n.row, n.failed)
    BY <2>2 DEF RollbackRec
  <2>4. RollbackOK(n) BY <2>0, <2>3 DEF RollbackOK
  <2>5. ~ Inserting(n) BY <2>3 DEF Inserting
  <2> QED BY <2>3, <2>4, <2>5 DEF JobOK, n
<1> QED BY <1>1, <1>2

(* The ids of a finished import are all the rows of its run. *)
LEMMA ReplyInv ==
  ASSUME SyncInv, NEW w \in Workers, PublishReply(w)
  PROVE  SyncInv'
<1> DEFINE j == worker[w]
           n == [j EXCEPT !.at = "replied"]
<1>1. /\ j.job \in {"import", "rollback"} /\ (j.job = "import" => j.at = "reply")
      /\ worker' = [worker EXCEPT ![w] = n]
      /\ UNCHANGED <<rows, deletions, cmds, phase, ids, runs>>
  BY DEF PublishReply, Step
<1>2. j # Idle BY <1>1, Busy
<1>3. JobOK(n) /\ n.run = j.run /\ ~ Inserting(n) BY <1>1, JobParked
<1>4. j.run \in Nat /\ j.run <= runs' /\ runs' \in Nat /\ runs <= runs' BY <1>1, <1>2, KindOfJob
<1> HIDE DEF n
<1>5. n # Idle => /\ JobOK(n) /\ n.run \in Nat /\ n.run <= runs'
                  /\ worker[w] # Idle /\ n.run = worker[w].run
                  /\ (Inserting(n) => Inserting(worker[w]))
  BY <1>2, <1>3, <1>4
<1>6. CommandsOK' BY <1>1 DEF SyncInv, CommandsOK, Answered
<1>7. \A m \in replies' : \/ m \in replies
                          \/ ReplyOK(m) /\ (~ m.compensation /\ m.success => Settled(m.ids)')
  <2>1. CASE j.job = "import"
    <3> DEFINE m == [saga |-> j.saga, compensation |-> FALSE, success |-> TRUE, ids |-> j.made]
    <3>1. replies' = replies \cup {m} BY <2>1 DEF PublishReply
    <3>2. ImportOK(j) BY <1>2, <2>1, KindOfJob
    <3>3. j.saga \in Sagas BY <3>2 DEF ImportOK, Cmd
    <3>4. Whole(j.made, j.saga) BY <3>2 DEF ImportOK, Whole
    <3>5. AllCovered(j.saga) BY <1>1, <2>1, <3>2 DEF ImportOK
    <3>6. ReplyOK(m) BY <3>3, <3>4, <3>5 DEF ReplyOK
    <3>7. \A i \in j.made : i[1] = j.run BY <3>2 DEF ImportOK
    <3>8. \A v \in Workers : Inserting(worker'[v]) => worker'[v].run # j.run
      <4>1. worker'[w] = n /\ \A v \in Workers : v # w => worker'[v] = worker[v]
        BY <1>1 DEF SyncInv, JobsOK
      <4>2. \A v \in Workers : v # w /\ worker[v] # Idle => worker[v].run # j.run
        BY <1>2 DEF SyncInv, JobsOK
      <4> QED BY <1>3, <4>1, <4>2, NotInserting
    <3> DEFINE I == j.made
    <3>9. ASSUME NEW J, J = I PROVE Settled(J)'
      <4> HIDE DEF j
      <4> QED BY <3>7, <3>8, <3>9 DEF Settled, Inserting
    <3>10. ASSUME NEW x, x = m PROVE ReplyOK(x) /\ Settled(x.ids)'
      <4>1. x.ids = I BY <3>10
      <4>2. ReplyOK(x) BY <3>6, <3>10
      <4> HIDE DEF m, I, j
      <4> QED BY <3>9, <4>1, <4>2
    <3> HIDE DEF m
    <3> QED BY <3>1, <3>10
  <2>2. CASE j.job = "rollback"
    <3> DEFINE m == [saga |-> j.saga, compensation |-> TRUE, success |-> j.failed = {}, ids |-> {}]
    <3>1. replies' = replies \cup {m} /\ j.todo = {} BY <2>2 DEF PublishReply
    <3>2. RollbackOK(j) BY <1>2, <2>2, KindOfJob
    <3>3. j.saga \in Sagas /\ Answered(j.saga) BY <3>2 DEF RollbackOK, Cmd
    <3>4. j.failed = {} => Gone(ids[j.saga]) BY <3>1, <3>2 DEF RollbackOK
    <3>5. ReplyOK(m) /\ m.compensation BY <3>3, <3>4 DEF ReplyOK
    <3> HIDE DEF m
    <3> QED BY <3>1, <3>5
  <2> QED BY <1>1, <2>1, <2>2
<1> QED BY <1>1, <1>4, <1>5, <1>6, <1>7, WorkerMoves

LEMMA RetryInv ==
  ASSUME SyncInv, NEW w \in Workers, Retry(w)
  PROVE  SyncInv'
<1> DEFINE j == worker[w]
           n == [j EXCEPT !.at = "retried"]
           again == [j.msg EXCEPT !.retries = @ + 1]
           m == [saga |-> j.saga, compensation |-> FALSE, success |-> FALSE, ids |-> {}]
<1>1. /\ j.job \in {"import", "rollback"} /\ worker' = [worker EXCEPT ![w] = n]
      /\ UNCHANGED <<rows, deletions, phase, ids, runs>>
      /\ \/ replies' = replies \cup {m} /\ cmds' = cmds
         \/ replies' = replies /\ cmds' = cmds \cup {again}
  BY DEF Retry, Step
<1>2. j # Idle BY <1>1, Busy
<1>3. JobOK(n) /\ n.run = j.run /\ ~ Inserting(n) BY <1>1, JobParked
<1>4. j.run \in Nat /\ j.run <= runs' /\ runs' \in Nat /\ runs <= runs' BY <1>1, <1>2, KindOfJob
<1>5. j.msg \in Cmd /\ j.msg.saga = j.saga /\ (j.msg.kind = "rollback" => Answered(j.msg.saga))
  <2>1. CASE j.job = "import" BY <1>2, <2>1, KindOfJob DEF ImportOK
  <2>2. CASE j.job = "rollback" BY <1>2, <2>2, KindOfJob DEF RollbackOK
  <2> QED BY <1>1, <2>1, <2>2
<1>6. again \in Cmd /\ again.kind = j.msg.kind /\ again.saga = j.msg.saga BY <1>5 DEF Cmd
<1>7. ReplyOK(m) /\ m.success = FALSE
  <2>1. j.saga \in Sagas BY <1>5 DEF Cmd
  <2> QED BY <2>1 DEF ReplyOK
<1> HIDE DEF n, again, m
<1>8. CommandsOK' BY <1>1, <1>5, <1>6 DEF SyncInv, CommandsOK, Answered
<1>9. n # Idle => /\ JobOK(n) /\ n.run \in Nat /\ n.run <= runs'
                  /\ worker[w] # Idle /\ n.run = worker[w].run
                  /\ (Inserting(n) => Inserting(worker[w]))
  BY <1>2, <1>3, <1>4
<1>10. \A x \in replies' : \/ x \in replies
                           \/ ReplyOK(x) /\ (~ x.compensation /\ x.success => Settled(x.ids)')
  <2> SUFFICES ASSUME NEW x \in replies', x \notin replies
               PROVE  ReplyOK(x) /\ (~ x.compensation /\ x.success => Settled(x.ids)')
    OBVIOUS
  <2>1. x = m BY <1>1
  <2>2. ReplyOK(x) BY <1>7, <2>1
  <2>3. x.success = FALSE BY <1>7, <2>1
  <2> QED BY <2>2, <2>3
<1> QED BY <1>1, <1>4, <1>8, <1>9, <1>10, WorkerMoves

-----------------------------------------------------------------------------
(* Steps of a handler that change the table *)

(* A row stays, or is deleted; a new row is one of the handler's own run. *)
SameRow(r, q) ==
    q.id = r.id /\ q.ext = r.ext /\ q.fuzzy = r.fuzzy /\ q.by = r.by /\ (Live(q) => Live(r))

TableGrows(run) ==
    /\ \A r \in rows : \E q \in rows' : SameRow(r, q)
    /\ \A q \in rows' : (\E r \in rows : SameRow(r, q)) \/ (q.id[1] = run /\ q.id \notin RowIds)

LEMMA GoneStays ==
  ASSUME NEW run, TableGrows(run), NEW I, I \subseteq RowIds, Gone(I)
  PROVE  Gone(I)'
BY DEF TableGrows, SameRow, Gone, RowIds

LEMMA CoveredStays ==
  ASSUME NEW run, TableGrows(run), NEW item, Covered(item)
  PROVE  Covered(item)'
BY DEF TableGrows, SameRow, Covered, Covers

LEMMA AllCoveredStays ==
  ASSUME NEW run, TableGrows(run), NEW s, AllCovered(s)
  PROVE  AllCovered(s)'
BY CoveredStays DEF AllCovered

LEMMA IdsStay ==
  ASSUME NEW run, TableGrows(run)
  PROVE  RowIds \subseteq RowIds'
BY DEF TableGrows, SameRow, RowIds

LEMMA WholeStays ==
  ASSUME NEW run, TableGrows(run), NEW I, NEW s, Whole(I, s),
         \A i \in I : i[1] = run => RowIds' = RowIds
  PROVE  Whole(I, s)'
<1>1. (I \subseteq RowIds)' BY IdsStay DEF Whole
<1>2. ASSUME NEW q \in rows', NEW i \in I, i[1] = q.id[1] PROVE q.id \in I
  <2>1. ASSUME NEW r \in rows, q.id = r.id PROVE q.id \in I BY <1>2, <2>1 DEF Whole
  <2>2. \E r \in rows : q.id = r.id
    <3>1. CASE \E r \in rows : SameRow(r, q) BY <3>1 DEF SameRow
    <3>2. CASE q.id[1] = run
      <4>1. q.id \in RowIds' BY DEF RowIds
      <4>2. RowIds' = RowIds BY <1>2, <3>2
      <4> QED BY <4>1, <4>2 DEF RowIds
    <3> QED BY <3>1, <3>2 DEF TableGrows
  <2> QED BY <2>1, <2>2
<1>3. \A q \in rows' : q.id \in I => q.by = s
  BY DEF TableGrows, SameRow, Whole
<1> QED BY <1>1, <1>2, <1>3 DEF Whole

(* The job of a handler of another run. *)
LEMMA OtherJob ==
  ASSUME SyncInv, NEW run, TableGrows(run), UNCHANGED <<phase, ids>>,
         NEW j, JobOK(j), j.run # run
  PROVE  JobOK(j)'
<1>1. ASSUME ImportOK(j) PROVE ImportOK(j)'
  <2>1. \A q \in rows' : q.id[1] = j.run => \E r \in rows : SameRow(r, q) BY DEF TableGrows
  <2>2. \A q \in rows' : q.id[1] = j.run => q.by = j.saga /\ q.id \in j.made
    BY <1>1, <2>1 DEF ImportOK, SameRow
  <2>3. (j.made \subseteq RowIds)' BY <1>1, IdsStay DEF ImportOK
  <2>4. j.at \in {"lookup", "insert"} =>
          /\ \A q \in rows' : q.id[1] = j.run => q.id[2] \in Int /\ q.id[2] <= (j.chunk - 1) * ChunkSize
          /\ \A i \in DOMAIN Fetched[j.saga] :
                i <= (j.chunk - 1) * ChunkSize => Covered(Fetched[j.saga][i])'
    BY <1>1, <2>1, CoveredStays DEF ImportOK, SameRow
  <2>5. j.at = "insert" =>
          \A i \in Chunk(Fetched[j.saga], j.chunk) :
             \/ Covered(Fetched[j.saga][i])'
             \/ \E k \in j.fresh : SameKey(Fetched[j.saga][i], Fetched[j.saga][k])
    BY <1>1, CoveredStays DEF ImportOK
  <2>6. j.at \in {"reply", "replied"} => AllCovered(j.saga)' BY <1>1, AllCoveredStays DEF ImportOK
  <2> QED BY <1>1, <2>2, <2>3, <2>4, <2>5, <2>6 DEF ImportOK
<1>2. CsvOK(j) => CsvOK(j)' BY DEF CsvOK, TableGrows, SameRow
<1>3. ASSUME RollbackOK(j) PROVE RollbackOK(j)'
  <2>1. j.saga \in Sagas BY <1>3 DEF RollbackOK, Cmd
  <2>2. ids[j.saga] \subseteq RowIds BY <2>1 DEF SyncInv, SagasOK, SagaOK, Whole
  <2> DEFINE I == ids[j.saga] \ (j.todo \cup j.failed)
  <2>3. Gone(I) /\ I \subseteq RowIds BY <1>3, <2>2 DEF RollbackOK
  <2>4. ASSUME NEW J, J = I PROVE Gone(J)' BY <2>3, <2>4, GoneStays
  <2>5. Gone(ids[j.saga] \ (j.todo \cup j.failed))'
    BY <2>4 DEF Gone
  <2> QED BY <1>3, <2>5 DEF RollbackOK, Answered
<1> QED BY <1>1, <1>2, <1>3 DEF JobOK, DeleteOK

(* A handler changes the table and goes on. *)
LEMMA TableMoves ==
  ASSUME SyncInv, NEW w \in Workers, NEW n, Step(w, n), worker[w] # Idle,
         n # Idle => JobOK(n)' /\ n.run = worker[w].run /\ (Inserting(n) => Inserting(worker[w])),
         NEW run, run = worker[w].run, TableGrows(run),
         Inserting(worker[w]) \/ RowIds' = RowIds,
         UNCHANGED <<cmds, replies, phase, ids, runs>>, TableOK', DeletionsOK'
  PROVE  SyncInv'
<1>0. TableOK /\ JobsOK /\ RepliesOK /\ SagasOK BY DEF SyncInv
<1>1. worker'[w] = n /\ \A v \in Workers : v # w => worker'[v] = worker[v]
  BY <1>0 DEF JobsOK, Step
<1>2. CommandsOK' BY DEF SyncInv, CommandsOK, Answered
<1>3. JobsOK'
  <2>1. worker' = [v \in Workers |-> worker'[v]] BY <1>0 DEF JobsOK, Step
  <2>2. worker[w].run \in Nat /\ worker[w].run <= runs BY KindOfJob
  <2>3. \A v \in Workers : v # w /\ worker[v] # Idle => worker[v].run # run BY <1>0 DEF JobsOK
  <2>4. \A u, v \in Workers :
          worker'[u] # Idle /\ worker'[v] # Idle /\ worker'[u].run = worker'[v].run => u = v
    BY <1>0, <1>1, <2>3 DEF JobsOK
  <2>5. ASSUME NEW v \in Workers, worker'[v] # Idle
        PROVE  JobOK(worker[v])' /\ worker'[v].run \in Nat /\ worker'[v].run <= runs'
    <3>1. CASE v = w BY <1>1, <2>2, <2>5, <3>1
    <3>2. CASE v # w
      <4>1. JobOK(worker[v]) /\ worker[v].run # run /\ worker[v].run \in Nat /\ worker[v].run <= runs
        BY <1>0, <1>1, <2>3, <2>5, <3>2 DEF JobsOK
      <4>2. ASSUME NEW x, x = worker[v] PROVE JobOK(x)' BY <4>1, <4>2, OtherJob
      <4> QED BY <1>1, <3>2, <4>1, <4>2
    <3> QED BY <3>1, <3>2
  <2> QED BY <2>1, <2>4, <2>5 DEF JobsOK
<1>4. ASSUME NEW I, Settled(I) PROVE Settled(I)' BY <1>1, <1>4, NotInserting DEF Settled
<1>5. ASSUME NEW I, NEW s, Settled(I), Whole(I, s) PROVE Whole(I, s)'
  <2>1. \A i \in I : i[1] = run => RowIds' = RowIds BY <1>5 DEF Settled
  <2> QED BY <1>5, <2>1, WholeStays
<1>6. ASSUME NEW s \in Sagas PROVE ids[s] \subseteq RowIds BY <1>0 DEF SagasOK, SagaOK, Whole
<1>7. ASSUME NEW s \in Sagas, Gone(ids[s]) PROVE Gone(ids[s])'
  <2>1. ASSUME NEW J, J = ids[s] PROVE Gone(J)' BY <1>6, <1>7, <2>1, GoneStays
  <2> QED BY <2>1 DEF Gone
<1>8. RepliesOK'
  <2> SUFFICES ASSUME NEW m \in replies
               PROVE  ReplyOK(m)' /\ (~ m.compensation /\ m.success => Settled(m.ids)')
    BY DEF RepliesOK
  <2>1. ReplyOK(m) /\ (~ m.compensation /\ m.success => Settled(m.ids)) BY <1>0 DEF RepliesOK
  <2>2. ~ m.compensation /\ m.success =>
          Whole(m.ids, m.saga)' /\ AllCovered(m.saga)' /\ Settled(m.ids)'
    BY <1>4, <1>5, <2>1, AllCoveredStays DEF ReplyOK
  <2>3. m.compensation /\ m.success => Answered(m.saga)' /\ Gone(ids[m.saga])'
    BY <1>7, <2>1 DEF ReplyOK, Answered
  <2> QED BY <2>1, <2>2, <2>3 DEF ReplyOK
<1>9. SagasOK'
  <2>1. ASSUME NEW s \in Sagas PROVE SagaOK(s)' /\ Settled(ids[s])'
    <3>1. SagaOK(s) /\ Settled(ids[s]) BY <1>0 DEF SagasOK
    <3>2. ASSUME NEW J, J = ids[s] PROVE Whole(J, s)' /\ Settled(J)'
      BY <1>4, <1>5, <3>1, <3>2 DEF SagaOK
    <3>3. Whole(ids[s], s)' /\ Settled(ids[s])' BY <3>2 DEF Whole, Settled
    <3>4. phase[s] \in {"imported", "completed"} => AllCovered(s)'
      BY <3>1, AllCoveredStays DEF SagaOK
    <3> QED BY <1>7, <3>1, <3>3, <3>4 DEF SagaOK
  <2> QED BY <1>0, <2>1 DEF SagasOK
<1> QED BY <1>2, <1>3, <1>8, <1>9 DEF SyncInv

(* The row made of an item of a batch. *)
NewRow(j, i) ==
    [id |-> <<j.run, i>>, ext |-> Items(j)[i].ext, fuzzy |-> Items(j)[i].fuzzy,
     by |-> IF j.job = "csv" THEN None ELSE j.saga, live |-> TRUE]

LEMMA NewRowFields ==
  \A j, i : /\ NewRow(j, i).id = <<j.run, i>> /\ NewRow(j, i).live = TRUE
            /\ NewRow(j, i).ext = Items(j)[i].ext /\ NewRow(j, i).fuzzy = Items(j)[i].fuzzy
            /\ NewRow(j, i).by = IF j.job = "csv" THEN None ELSE j.saga
BY DEF NewRow

LEMMA NewRowShape ==
  \A j, i : LET r == NewRow(j, i)
            IN  r = [id |-> r.id, ext |-> r.ext, fuzzy |-> r.fuzzy, by |-> r.by, live |-> r.live]
BY DEF NewRow

(* A batch gets ids that no row has. *)
LEMMA NewIds ==
  ASSUME SyncInv, NEW w \in Workers, worker[w].job \in {"import", "csv"}, worker[w].at = "insert"
  PROVE  \A i \in worker[w].fresh : <<worker[w].run, i>> \notin RowIds
<1> DEFINE j == worker[w]
<1>1. j # Idle BY Busy
<1> SUFFICES ASSUME NEW i \in j.fresh, NEW r \in rows, r.id = <<j.run, i>> PROVE FALSE
  BY DEF RowIds
<1>2. r.id[1] = j.run /\ r.id[2] = i OBVIOUS
<1>3. CASE j.job = "import"
  <2>1. ImportOK(j) BY <1>1, <1>3, KindOfJob
  <2>2. r.id[2] \in Int /\ r.id[2] <= (j.chunk - 1) * ChunkSize BY <1>2, <2>1 DEF ImportOK
  <2>3. i \in Chunk(Fetched[j.saga], j.chunk) /\ j.chunk \in Nat \ {0} BY <2>1 DEF ImportOK
  <2>4. i \in Nat /\ (j.chunk - 1) * ChunkSize < i /\ (j.chunk - 1) * ChunkSize \in Int
    BY <2>3, ChunkBounds
  <2> QED BY <1>2, <2>2, <2>4
<1>4. CASE j.job = "csv"
  <2>1. CsvOK(j) BY <1>1, <1>4, KindOfJob
  <2> QED BY <1>2, <2>1 DEF CsvOK
<1> QED BY <1>3, <1>4

LEMMA InsertShape ==
  ASSUME NEW w \in Workers, Insert(w)
  PROVE  LET j == worker[w] IN
         /\ j.job \in {"import", "csv"} /\ j.at = "insert" /\ ~ Violates(j)
         /\ rows' = rows \cup {NewRow(j, i) : i \in j.fresh}
         /\ Step(w, AfterInsert(j, {<<j.run, i>> : i \in j.fresh}))
         /\ UNCHANGED <<deletions, cmds, replies, phase, ids, runs>>
<1> DEFINE j == worker[w]
           new == {NewRow(j, i) : i \in j.fresh}
<1>1. /\ j.job \in {"import", "csv"} /\ j.at = "insert" /\ ~ Violates(j) /\ rows' = rows \cup new
      /\ Step(w, AfterInsert(j, {r.id : r \in new}))
      /\ UNCHANGED <<deletions, cmds, replies, phase, ids, runs>>
  BY DEF Insert, NewRow
<1>2. \A i : NewRow(j, i).id = <<j.run, i>> BY NewRowFields
<1>3. {r.id : r \in new} = {<<j.run, i>> : i \in j.fresh}
  <2> HIDE DEF j
  <2> QED BY <1>2
<1> QED BY <1>1, <1>3

LEMMA InsertGrows ==
  ASSUME SyncInv, NEW w \in Workers, Insert(w), NEW run, run = worker[w].run
  PROVE  TableGrows(run) /\ TableOK' /\ DeletionsOK'
<1> DEFINE j == worker[w]
           new == {NewRow(j, i) : i \in j.fresh}
<1>1. /\ j.job \in {"import", "csv"} /\ j.at = "insert" /\ rows' = rows \cup new
      /\ UNCHANGED <<deletions, runs>>
  BY InsertShape
<1>2. j # Idle BY <1>1, Busy
<1>3. j.run \in Nat /\ j.run <= runs BY <1>2, KindOfJob
<1>4. \A r \in new : /\ r.id[1] = j.run /\ r.id \notin RowIds /\ r.live = TRUE
                     /\ r = [id |-> r.id, ext |-> r.ext, fuzzy |-> r.fuzzy, by |-> r.by, live |-> r.live]
  <2>1. \A i : NewRow(j, i).id = <<j.run, i>> /\ NewRow(j, i).live = TRUE BY NewRowFields
  <2>2. \A i \in j.fresh : <<j.run, i>> \notin RowIds BY <1>1, NewIds
  <2> SUFFICES ASSUME NEW r \in new
               PROVE  /\ r.id[1] = j.run /\ r.id \notin RowIds /\ r.live = TRUE
                      /\ r = [id |-> r.id, ext |-> r.ext, fuzzy |-> r.fuzzy, by |-> r.by,
                              live |-> r.live]
    OBVIOUS
  <2> PICK i \in j.fresh : r = NewRow(j, i) OBVIOUS
  <2>3. r.id = <<j.run, i>> /\ r.live = TRUE BY <2>1
  <2>4. r = [id |-> r.id, ext |-> r.ext, fuzzy |-> r.fuzzy, by |-> r.by, live |-> r.live]
    BY NewRowShape
  <2> QED BY <2>2, <2>3, <2>4
<1>5. \A r, q \in new : r.id = q.id => r = q
  <2> SUFFICES ASSUME NEW i \in j.fresh, NEW k \in j.fresh, NewRow(j, i).id = NewRow(j, k).id
               PROVE  NewRow(j, i) = NewRow(j, k)
    OBVIOUS
  <2>1. NewRow(j, i).id = <<j.run, i>> /\ NewRow(j, k).id = <<j.run, k>> BY NewRowFields
  <2>2. <<j.run, i>> = <<j.run, k>> BY <2>1
  <2>3. i = k BY <2>2
  <2> QED BY <2>3
<1> HIDE DEF new
<1>6. \A r \in new : IsRow(r)' BY <1>1, <1>3, <1>4 DEF IsRow
<1>7. TableOK'
  <2>1. runs' \in Nat BY <1>1 DEF SyncInv, TableOK
  <2>2. \A r \in rows' : IsRow(r)' BY <1>1, <1>6 DEF SyncInv, TableOK, IsRow
  <2>3. \A r \in rows : r.id \in RowIds BY DEF RowIds
  <2>4. \A r, q \in rows' : r.id = q.id => r = q BY <1>1, <1>4, <1>5, <2>3 DEF SyncInv, TableOK
  <2> QED BY <2>1, <2>2, <2>4 DEF TableOK
<1>8. DeletionsOK' BY <1>1, <1>4 DEF SyncInv, DeletionsOK, Live
<1>9. TableGrows(run)
  <2>1. \A r : SameRow(r, r) BY DEF SameRow
  <2>2. \A r \in rows' : r \in rows \/ r \in new BY <1>1
  <2>3. \A r \in new : r.id[1] = run /\ r.id \notin RowIds BY <1>4
  <2>4. \A r \in rows : r \in rows' BY <1>1
  <2> QED BY <2>1, <2>2, <2>3, <2>4 DEF TableGrows
<1> QED BY <1>7, <1>8, <1>9

(* An import goes on to the next chunk, or to its reply: each item of the
   chunk has a row now. *)
LEMMA ChunkInserted ==
  ASSUME SyncInv, NEW w \in Workers, Insert(w), worker[w].job = "import", NEW n,
         n = AfterInsert(worker[w], {<<worker[w].run, i>> : i \in worker[w].fresh})
  PROVE  ImportOK(n)' /\ n.run = worker[w].run
<1> DEFINE j == worker[w]
           X == Fetched[j.saga]
           all == j.made \cup {<<j.run, i>> : i \in j.fresh}
           goes == IF IsLast(j) THEN "reply" ELSE "lookup"
           more == j.chunk + 1
<1>r. \A i : /\ NewRow(j, i).id = <<j.run, i>> /\ NewRow(j, i).ext = Items(j)[i].ext
             /\ NewRow(j, i).fuzzy = Items(j)[i].fuzzy
             /\ NewRow(j, i).by = IF j.job = "csv" THEN None ELSE j.saga
  BY NewRowFields
<1>1. /\ j.at = "insert" /\ rows' = rows \cup {NewRow(j, i) : i \in j.fresh}
  BY InsertShape
<1>2. j # Idle BY Busy
<1>3. ImportOK(j) /\ Items(j) = X BY <1>2, KindOfJob DEF Items
<1>4. n = ImportRec(j.run, j.msg, j.saga, more, goes, j.fresh, all)
  <2>1. j = ImportRec(j.run, j.msg, j.saga, j.chunk, j.at, j.fresh, j.made) BY <1>3 DEF ImportOK
  <2> QED BY <2>1, ImportInserted
<1>5. /\ n.job = "import" /\ n.run = j.run /\ n.msg = j.msg /\ n.saga = j.saga
      /\ n.chunk = more /\ n.at = goes /\ n.fresh = j.fresh /\ n.made = all
      /\ n = ImportRec(n.run, n.msg, n.saga, n.chunk, n.at, n.fresh, n.made)
  <2> HIDE DEF all, goes, more
  <2> QED BY <1>4, ImportFields
<1>6. j.saga \in Sagas /\ j.chunk \in Nat \ {0} BY <1>3 DEF ImportOK, Cmd
<1>7. Len(X) \in Nat /\ DOMAIN X = 1..Len(X) BY <1>6, ItemsAssumption
<1> DEFINE lo == (j.chunk - 1) * ChunkSize
           hi == j.chunk * ChunkSize
<1>8. /\ lo \in Int /\ hi \in Int /\ lo <= hi /\ (n.chunk - 1) * ChunkSize = hi
      /\ \A i \in Chunk(X, j.chunk) : i \in Nat /\ lo < i /\ i <= hi
  BY <1>5, <1>6, ChunkBounds
<1>9. \A i \in j.fresh : i \in Nat /\ i <= hi BY <1>1, <1>3, <1>8 DEF ImportOK
<1>10. \A r \in rows' : r.id[1] = j.run =>
          r.by = j.saga /\ r.id \in all /\ r.id[2] \in Int /\ r.id[2] <= hi
  <2>1. ASSUME NEW r \in rows, r.id[1] = j.run
        PROVE  r.by = j.saga /\ r.id \in all /\ r.id[2] \in Int /\ r.id[2] <= hi
    <3>1. r.by = j.saga /\ r.id \in j.made /\ r.id[2] \in Int /\ r.id[2] <= lo
      BY <1>1, <1>3, <2>1 DEF ImportOK
    <3> QED BY <1>8, <3>1
  <2>2. ASSUME NEW i \in j.fresh, NEW r, r = NewRow(j, i)
        PROVE  r.by = j.saga /\ r.id \in all /\ r.id[2] \in Int /\ r.id[2] <= hi
    <3>1. r.by = j.saga /\ r.id = <<j.run, i>> /\ r.id[2] = i
      <4>1. j.job # "csv" OBVIOUS
      <4> QED BY <1>r, <2>2, <4>1
    <3> QED BY <1>9, <3>1
  <2> QED BY <1>1, <2>1, <2>2
<1>11. all \subseteq RowIds' /\ \A i \in all : i[1] = j.run
  <2>1. RowIds \subseteq RowIds' BY <1>1 DEF RowIds
  <2>2. \A i \in j.fresh : <<j.run, i>> \in RowIds' BY <1>1, <1>r DEF RowIds
  <2>3. j.made \subseteq RowIds /\ \A i \in j.made : i[1] = j.run BY <1>3 DEF ImportOK
  <2> QED BY <2>1, <2>2, <2>3
<1>12. ASSUME NEW i \in DOMAIN X, i <= hi, NEW item, item = X[i] PROVE Covered(item)'
  <2>1. ASSUME Covered(item) PROVE Covered(item)' BY <1>1, <2>1 DEF Covered
  <2>2. CASE i <= lo BY <1>1, <1>3, <1>12, <2>1, <2>2 DEF ImportOK
  <2>3. CASE ~ (i <= lo)
    <3>1. i \in Chunk(X, j.chunk) BY <1>7, <1>8, <1>12, <2>3 DEF Chunk
    <3>2. CASE Covered(X[i]) BY <1>12, <2>1, <3>2
    <3>3. CASE ~ Covered(X[i])
      <4>1. PICK k \in j.fresh : SameKey(X[i], X[k]) BY <1>1, <1>3, <3>1, <3>3 DEF ImportOK
      <4>2. NewRow(j, k).ext = X[k].ext /\ NewRow(j, k).fuzzy = X[k].fuzzy BY <1>3, <1>r
      <4>3. Covers(NewRow(j, k), item) BY <1>12, <4>1, <4>2 DEF Covers, SameKey
      <4> QED BY <1>1, <4>3 DEF Covered
    <3> QED BY <3>2, <3>3
  <2> QED BY <2>2, <2>3
<1>13. goes = "reply" => \A i \in DOMAIN X : i <= hi
  <2>1. goes = "reply" => hi >= Len(X) BY <1>3 DEF IsLast
  <2> QED BY <1>7, <1>8, <2>1
<1>14. goes \in {"lookup", "reply"} OBVIOUS
<1> HIDE DEF all, goes, hi, lo
<1>15. ASSUME NEW s, s = j.saga, goes = "reply" PROVE AllCovered(s)'
  BY <1>12, <1>13, <1>15 DEF AllCovered
<1>16. \A r \in rows' : r.id[1] = n.run => r.by = n.saga /\ r.id \in n.made BY <1>5, <1>10
<1>17. n.made \subseteq RowIds' /\ \A i \in n.made : i[1] = n.run BY <1>5, <1>11
<1>18. /\ \A r \in rows' : r.id[1] = n.run => r.id[2] \in Int /\ r.id[2] <= (n.chunk - 1) * ChunkSize
       /\ \A i \in DOMAIN Fetched[n.saga] :
             i <= (n.chunk - 1) * ChunkSize => Covered(Fetched[n.saga][i])'
  <2>1. ASSUME NEW i \in DOMAIN Fetched[n.saga], i <= (n.chunk - 1) * ChunkSize
        PROVE  Covered(Fetched[n.saga][i])'
    BY <1>5, <1>8, <1>12, <2>1
  <2> QED BY <1>5, <1>8, <1>10, <2>1
<1>19. n.at \in {"reply", "replied"} => AllCovered(n.saga)' BY <1>5, <1>14, <1>15
<1>20. n.msg \in Cmd /\ n.msg.kind = "import" /\ n.msg.saga = n.saga /\ n.chunk \in Nat \ {0}
  BY SMTT(30), <1>3, <1>5, <1>6 DEF ImportOK
<1> QED BY <1>5, <1>14, <1>16, <1>17, <1>18, <1>19, <1>20 DEF ImportOK

LEMMA InsertInv ==
  ASSUME SyncInv, NEW w \in Workers, Insert(w)
  PROVE  SyncInv'
<1> DEFINE j == worker[w]
<1>1. /\ j.job \in {"import", "csv"} /\ j.at = "insert"
      /\ Step(w, AfterInsert(j, {<<j.run, i>> : i \in j.fresh}))
      /\ UNCHANGED <<deletions, cmds, replies, phase, ids, runs>>
  BY InsertShape
<1>2. j # Idle /\ Inserting(j) BY <1>1, Busy DEF Inserting
<1>3. ASSUME NEW n, n = AfterInsert(j, {<<j.run, i>> : i \in j.fresh}) PROVE SyncInv'
  <2>1. Step(w, n) BY <1>1, <1>3
  <2>2. n # Idle => JobOK(n)' /\ n.run = j.run
    <3>1. CASE j.job = "import" BY <1>3, <3>1, ChunkInserted DEF JobOK
    <3>2. CASE j.job = "csv" BY <1>3, <3>2 DEF AfterInsert
    <3> QED BY <1>1, <3>1, <3>2
  <2>3. ASSUME NEW run, run = j.run PROVE SyncInv'
    <3>1. TableGrows(run) /\ TableOK' /\ DeletionsOK' BY <2>3, InsertGrows
    <3> QED BY <1>1, <1>2, <2>1, <2>2, <2>3, <3>1, TableMoves
  <2> QED BY <2>3
<1> QED BY <1>3

LEMMA Tombstone ==
  ASSUME NEW r, IsRow(r), NEW q, q = [r EXCEPT !.live = FALSE]
  PROVE  /\ q.id = r.id /\ q.ext = r.ext /\ q.fuzzy = r.fuzzy /\ q.by = r.by /\ q.live = FALSE
         /\ IsRow(q)
<1>1. /\ q.id = r.id /\ q.ext = r.ext /\ q.fuzzy = r.fuzzy /\ q.by = r.by /\ q.live = FALSE
      /\ q = [id |-> q.id, ext |-> q.ext, fuzzy |-> q.fuzzy, by |-> q.by, live |-> q.live]
  BY DEF IsRow
<1> QED BY <1>1 DEF IsRow

(* One row becomes a tombstone, with its event, or nothing changes. *)
LEMMA DeleteShape ==
  ASSUME SyncInv, NEW w \in Workers, Delete(w)
  PROVE  LET j == worker[w] IN
         /\ j.job \in {"rollback", "delete"} /\ j.at = "delete" /\ Step(w, Done(j, j.row))
         /\ UNCHANGED <<cmds, replies, phase, ids, runs>>
         /\ \/ rows' = rows /\ deletions' = deletions /\ \A r \in rows : r.id = j.row => ~ Live(r)
            \/ \E r \in rows :
                 /\ r.id = j.row /\ Live(r)
                 /\ rows' = (rows \ {r}) \cup {[r EXCEPT !.live = FALSE]}
                 /\ deletions' = deletions \cup
                      {[id |-> r.id, run |-> j.run, by |-> IF j.job = "delete" THEN None ELSE j.saga]}
<1> DEFINE j == worker[w]
           hit == {r \in rows : Matches(j, r)}
           Dead(r) == [r EXCEPT !.live = FALSE]
           Event(r) == [id |-> r.id, run |-> j.run, by |-> IF j.job = "delete" THEN None ELSE j.saga]
<1>1. /\ j.job \in {"rollback", "delete"} /\ j.at = "delete" /\ Step(w, Done(j, j.row))
      /\ UNCHANGED <<cmds, replies, phase, ids, runs>>
      /\ rows' = (rows \ hit) \cup {Dead(r) : r \in hit}
      /\ deletions' = deletions \cup {Event(r) : r \in hit}
  BY DEF Delete
<1>2. CASE hit = {}
  <2>1. rows' = rows /\ deletions' = deletions BY <1>1, <1>2
  <2>2. \A r \in rows : r.id = j.row => ~ Live(r) BY <1>2 DEF Matches
  <2> QED BY <1>1, <2>1, <2>2
<1>3. CASE hit # {}
  <2>1. PICK r \in rows : r.id = j.row /\ Live(r) BY <1>3 DEF Matches
  <2>2. hit = {r} BY <2>1 DEF Matches, SyncInv, TableOK
  <2> HIDE DEF hit, Dead, Event
  <2>3. rows' = (rows \ {r}) \cup {Dead(r)} /\ deletions' = deletions \cup {Event(r)}
    BY <1>1, <2>2
  <2> QED BY <1>1, <2>1, <2>3 DEF Dead, Event
<1> QED BY <1>2, <1>3

LEMMA RowDeleted ==
  ASSUME SyncInv, NEW run, NEW by, NEW r \in rows, Live(r), by \in {None, r.by}, UNCHANGED runs,
         rows' = (rows \ {r}) \cup {[r EXCEPT !.live = FALSE]},
         NEW d, d.id = r.id, d.by = by, deletions' = deletions \cup {d}
  PROVE  /\ TableGrows(run) /\ RowIds' = RowIds /\ TableOK' /\ DeletionsOK'
         /\ \A x \in rows' : x.id = r.id => ~ Live(x)
<1> DEFINE q == [r EXCEPT !.live = FALSE]
<1>0. TableOK /\ DeletionsOK /\ IsRow(r) BY DEF SyncInv, TableOK
<1>1. /\ q.id = r.id /\ q.ext = r.ext /\ q.fuzzy = r.fuzzy /\ q.by = r.by /\ q.live = FALSE
      /\ IsRow(q)
  BY <1>0, Tombstone
<1>2. rows' = (rows \ {r}) \cup {q} OBVIOUS
<1> HIDE DEF q
<1>3. \A x, y \in rows : x.id = y.id => x = y BY <1>0 DEF TableOK
<1>4. TableOK'
  <2>1. \A x : IsRow(x)' <=> IsRow(x) BY DEF IsRow
  <2>2. runs' \in Nat /\ \A x \in rows' : IsRow(x)' BY <1>0, <1>1, <1>2, <2>1 DEF TableOK
  <2>3. \A x, y \in rows' : x.id = y.id => x = y BY <1>1, <1>2, <1>3
  <2> QED BY <2>2, <2>3 DEF TableOK
<1>5. RowIds' = RowIds BY <1>1, <1>2 DEF RowIds
<1>6. \A x \in rows' : x.id = r.id => ~ Live(x) BY <1>1, <1>2, <1>3 DEF Live
<1>7. TableGrows(run)
  <2>1. SameRow(r, q) /\ \A x : SameRow(x, x) BY <1>1 DEF SameRow, Live
  <2> QED BY <1>2, <2>1 DEF TableGrows
<1>8. DeletionsOK'
  <2>1. \A e \in deletions : e.id # r.id BY <1>0, <1>3 DEF DeletionsOK
  <2>2. \A e \in deletions : \E x \in rows' : x.id = e.id /\ ~ Live(x) /\ e.by \in {None, x.by}
    BY <1>0, <1>2, <2>1 DEF DeletionsOK
  <2>3. \E x \in rows' : x.id = d.id /\ ~ Live(x) /\ d.by \in {None, x.by} BY <1>1, <1>2 DEF Live
  <2>4. \A x \in rows' : ~ Live(x) => \E e \in deletions' : e.id = x.id
    BY <1>0, <1>1, <1>2 DEF DeletionsOK
  <2>5. \A e, f \in deletions' : e.id = f.id => e = f BY <1>0, <2>1 DEF DeletionsOK
  <2> QED BY <2>2, <2>3, <2>4, <2>5 DEF DeletionsOK
<1> QED BY <1>4, <1>5, <1>6, <1>7, <1>8

LEMMA DeleteInv ==
  ASSUME SyncInv, NEW w \in Workers, Delete(w)
  PROVE  SyncInv'
<1> DEFINE j == worker[w]
<1>1. /\ j.job \in {"rollback", "delete"} /\ j.at = "delete" /\ Step(w, Done(j, j.row))
      /\ UNCHANGED <<cmds, replies, phase, ids, runs>>
  BY DeleteShape
<1>2. j # Idle BY <1>1, Busy
<1>3. ASSUME NEW run, run = j.run
      PROVE  /\ TableGrows(run) /\ RowIds' = RowIds /\ TableOK' /\ DeletionsOK'
             /\ \A r \in rows' : r.id = j.row => ~ Live(r)
  <2>1. CASE rows' = rows /\ deletions' = deletions /\ \A r \in rows : r.id = j.row => ~ Live(r)
    <3>1. TableOK' /\ DeletionsOK' /\ RowIds' = RowIds
      BY <1>1, <2>1 DEF SyncInv, TableOK, IsRow, DeletionsOK, RowIds
    <3>2. \A x : SameRow(x, x) BY DEF SameRow
    <3> QED BY <2>1, <3>1, <3>2 DEF TableGrows
  <2>2. ASSUME NEW r \in rows, r.id = j.row, Live(r),
               rows' = (rows \ {r}) \cup {[r EXCEPT !.live = FALSE]},
               deletions' = deletions \cup
                 {[id |-> r.id, run |-> j.run, by |-> IF j.job = "delete" THEN None ELSE j.saga]}
        PROVE  /\ TableGrows(run) /\ RowIds' = RowIds /\ TableOK' /\ DeletionsOK'
               /\ \A x \in rows' : x.id = j.row => ~ Live(x)
    <3> DEFINE by == IF j.job = "delete" THEN None ELSE j.saga
               d == [id |-> r.id, run |-> j.run, by |-> by]
    <3>1. by \in {None, r.by}
      <4>1. CASE j.job = "rollback"
        <5>1. RollbackOK(j) BY <1>2, <4>1, KindOfJob
        <5>2. j.saga \in Sagas /\ r.id \in ids[j.saga]
          BY <1>1, <2>2, <5>1 DEF RollbackOK, Cmd
        <5> QED BY <4>1, <5>2 DEF SyncInv, SagasOK, SagaOK, Whole
      <4>2. CASE j.job = "delete" BY <4>2
      <4> QED BY <1>1, <4>1, <4>2
    <3>2. d.id = r.id /\ d.by = by OBVIOUS
    <3>3. deletions' = deletions \cup {d} BY <2>2
    <3> HIDE DEF by, d
    <3>4. /\ TableGrows(run) /\ RowIds' = RowIds /\ TableOK' /\ DeletionsOK'
          /\ \A x \in rows' : x.id = r.id => ~ Live(x)
      BY ZenonT(40), <1>1, <2>2, <3>1, <3>2, <3>3, RowDeleted
    <3> QED BY <2>2, <3>4
  <2> QED BY <2>1, <2>2, DeleteShape
<1>4. ASSUME NEW n, n = Done(j, j.row) PROVE JobOK(n)' /\ n.run = j.run /\ ~ Inserting(n)
  <2>1. CASE j.job = "rollback"
    <3>1. RollbackOK(j) BY <1>2, <2>1, KindOfJob
    <3> DEFINE t == j.todo \ {j.row}
    <3>2. n = RollbackRec(j.run, j.msg, j.saga, "find", t, j.row, j.failed)
      BY <1>4, <3>1, RollbackDone DEF RollbackOK
    <3> HIDE DEF t
    <3>3. /\ n.job = "rollback" /\ n.run = j.run /\ n.msg = j.msg /\ n.saga = j.saga
          /\ n.at = "find" /\ n.todo = t /\ n.row = j.row /\ n.failed = j.failed
          /\ n = RollbackRec(n.run, n.msg, n.saga, n.at, n.todo, n.row, n.failed)
      BY <3>2 DEF RollbackRec
    <3>4. j.saga \in Sagas BY <3>1 DEF RollbackOK, Cmd
    <3>5. ids[j.saga] \subseteq RowIds BY <3>4 DEF SyncInv, SagasOK, SagaOK, Whole
    <3>6. ASSUME NEW I, I = ids[j.saga] \ (j.todo \cup j.failed) PROVE Gone(I)'
      <4>1. I \subseteq RowIds /\ Gone(I) BY <3>1, <3>5, <3>6 DEF RollbackOK
      <4>2. ASSUME NEW run, run = j.run PROVE Gone(I)' BY <1>3, <4>1, <4>2, GoneStays
      <4> QED BY <4>2
    <3>7. \A r \in rows' : r.id \in ids[j.saga] \ (t \cup j.failed) => ~ Live(r)
      BY <1>3, <3>6 DEF Gone, t
    <3>8. Gone(ids[n.saga] \ (n.todo \cup n.failed))' BY <1>1, <3>3, <3>7 DEF Gone
    <3>9. t \subseteq ids[j.saga] BY <3>1 DEF RollbackOK, t
    <3>10. RollbackOK(n)'
      BY <1>1, <3>1, <3>3, <3>8, <3>9 DEF RollbackOK, Answered
    <3> QED BY <3>3, <3>10 DEF JobOK, Inserting
  <2>2. CASE j.job = "delete"
    <3>1. DeleteOK(j) BY <1>2, <2>2, KindOfJob
    <3> DEFINE t == j.todo \ {j.row}
    <3>2. n = DeleteRec(j.run, "find", t, j.row, j.failed) BY <1>4, <3>1, DeleteDone DEF DeleteOK
    <3> HIDE DEF t
    <3>3. DeleteOK(n) /\ n.run = j.run /\ n.job = "delete" BY <3>2 DEF DeleteOK, DeleteRec
    <3> QED BY <3>3 DEF JobOK, DeleteOK, Inserting
  <2> QED BY <1>1, <2>1, <2>2
<1>5. ASSUME NEW n, n = Done(j, j.row), NEW run, run = j.run PROVE SyncInv'
  <2>1. Step(w, n) BY <1>1, <1>5
  <2>2. n # Idle => JobOK(n)' /\ n.run = j.run /\ (Inserting(n) => Inserting(j)) BY <1>4, <1>5
  <2>3. TableGrows(run) /\ RowIds' = RowIds /\ TableOK' /\ DeletionsOK' BY <1>3, <1>5
  <2> HIDE DEF j
  <2> QED BY <1>1, <1>2, <1>5, <2>1, <2>2, <2>3, TableMoves DEF j
<1> QED BY <1>5

-----------------------------------------------------------------------------
(* The theorems *)

(***************************************************************************)
(* What every step of the import keeps, whatever the interleaving of the   *)
(* handlers of bulk_import, rollback_import and delete_transaction.        *)
(***************************************************************************)
THEOREM SyncInvariance == Spec => []SyncInv
<1>1. Init => SyncInv BY InitInv
<1>2. SyncInv /\ [Next]_vars => SyncInv'
  <2> SUFFICES ASSUME SyncInv, [Next]_vars PROVE SyncInv' OBVIOUS
  <2>1. CASE UNCHANGED vars
    <3>1. /\ UNCHANGED <<rows, deletions, cmds, replies, phase, ids, worker, runs>>
      BY <2>1 DEF vars
    <3>2. \A j : JobOK(j)' <=> JobOK(j) BY <3>1, JobFrame
    <3>3. TableOK' /\ DeletionsOK' /\ CommandsOK'
      BY <3>1 DEF SyncInv, TableOK, IsRow, DeletionsOK, CommandsOK, Answered
    <3>4. JobsOK' BY <3>1, <3>2 DEF SyncInv, JobsOK
    <3>5. \A I, s : Whole(I, s)' <=> Whole(I, s) BY <3>1 DEF Whole, RowIds
    <3>6. \A I : (Settled(I)' <=> Settled(I)) /\ (Gone(I)' <=> Gone(I))
      BY <3>1 DEF Settled, Gone
    <3>7. \A s : (AllCovered(s)' <=> AllCovered(s)) /\ (Answered(s)' <=> Answered(s))
      BY <3>1 DEF AllCovered, Covered, Answered
    <3>8. RepliesOK' BY <3>1, <3>5, <3>6, <3>7 DEF SyncInv, RepliesOK, ReplyOK
    <3>9. SagasOK' BY <3>1, <3>5, <3>6, <3>7 DEF SyncInv, SagasOK, SagaOK
    <3> QED BY <3>3, <3>4, <3>8, <3>9 DEF SyncInv
  <2>2. CASE Next
    <3>1. ASSUME NEW w \in Workers,
                 \/ \E m \in cmds : Deliver(w, m)
                 \/ \E items \in Parsed : UploadCsv(w, items)
                 \/ \E r \in rows : UserDelete(w, r)
                 \/ Lookup(w) \/ Insert(w) \/ Find(w) \/ Delete(w) \/ DeleteFails(w)
                 \/ DeleteReturns(w) \/ PublishReply(w) \/ Ack(w) \/ Retry(w) \/ Crash(w)
          PROVE  SyncInv'
      <4>1. CASE \/ \E m \in cmds : Deliver(w, m)
                 \/ \E items \in Parsed : UploadCsv(w, items)
                 \/ \E r \in rows : UserDelete(w, r)
        BY <4>1, StartsInv
      <4>2. CASE Lookup(w) BY <4>2, LookupInv
      <4>3. CASE Insert(w) BY <4>3, InsertInv
      <4>4. CASE Find(w) \/ DeleteFails(w) BY <4>4, FindInv
      <4>5. CASE Delete(w) BY <4>5, DeleteInv
      <4>6. CASE DeleteReturns(w) \/ Ack(w) \/ Crash(w) BY <4>6, EndsInv
      <4>7. CASE PublishReply(w) BY <4>7, ReplyInv
      <4>8. CASE Retry(w) BY <4>8, RetryInv
      <4> QED BY <3>1, <4>1, <4>2, <4>3, <4>4, <4>5, <4>6, <4>7, <4>8
    <3>2. ASSUME NEW s \in Sagas,
                 \/ FetchFails(s) \/ SendImport(s) \/ ImportTimesOut(s) \/ SyncCompletes(s)
                 \/ SyncFails(s) \/ RollbackTimesOut(s)
                 \/ \E m \in replies : ImportReplied(s, m) \/ RollbackReplied(s, m)
          PROVE  SyncInv'
      BY <3>2, SagaStepsInv
    <3> QED BY <2>2, <3>1, <3>2 DEF Next
  <2> QED BY <2>1, <2>2
<1> QED BY <1>1, <1>2, PTL DEF Spec

(***************************************************************************)
(* delete_transaction stamps deleted_at and writes its event in one        *)
(* commit: of the rollback, its redeliveries and the users that delete a   *)
(* row, exactly one announces it.                                          *)
(***************************************************************************)
THEOREM DeletionAnnouncedOnce == Spec => []DeletedOnce
<1>1. SyncInv => DeletedOnce BY DEF SyncInv, TableOK, DeletionsOK, DeletedOnce
<1> QED BY <1>1, SyncInvariance, PTL

(***************************************************************************)
(* rollback_import works through imported_ids, and those are rows that the *)
(* import of its own saga inserted.                                        *)
(***************************************************************************)
THEOREM RollbackSparesOthers == Spec => []RollsBackOwnRows
<1>1. SyncInv => RollsBackOwnRows BY DEF SyncInv, TableOK, DeletionsOK, RollsBackOwnRows
<1> QED BY <1>1, SyncInvariance, PTL

(***************************************************************************)
(* A compensation that is answered with success has deleted every row of   *)
(* the run whose reply the saga took: the reply carried all its chunks.    *)
(***************************************************************************)
THEOREM RollbackComplete == Spec => []AcceptedRunUndone
<1>1. SyncInv => AcceptedRunUndone
  BY DEF SyncInv, SagasOK, SagaOK, Whole, Gone, AcceptedRunUndone
<1> QED BY <1>1, SyncInvariance, PTL

(***************************************************************************)
(* A sync that completes has looked at every item it fetched, in every     *)
(* chunk, and each of them has a row: inserted by this import, by another  *)
(* delivery of its command, or there before.                               *)
(***************************************************************************)
THEOREM NothingSkipped == Spec => [](\A s \in Sagas : phase[s] = "completed" => AllCovered(s))
<1>1. SyncInv => \A s \in Sagas : phase[s] = "completed" => AllCovered(s)
  BY DEF SyncInv, SagasOK, SagaOK
<1> QED BY <1>1, SyncInvariance, PTL

-----------------------------------------------------------------------------
(* One handler at a time *)

(* A batch that was just looked up. *)
LEMMA LookedUp ==
  ASSUME SyncInv, NEW w \in Workers, Lookup(w), NEW n, n = worker'[w]
  PROVE  n.fresh = Fresh(Items(n), Batch(n)) /\ UNCHANGED rows
<1> DEFINE j == worker[w]
           F == Fresh(Items(j), Batch(j))
<1>1. /\ j.job \in {"import", "csv"}
      /\ worker' = [worker EXCEPT ![w] = [j EXCEPT !.fresh = F, !.at = "insert"]] /\ UNCHANGED rows
  BY DEF Lookup, Step
<1>2. j # Idle BY <1>1, Busy
<1>3. n = [j EXCEPT !.fresh = F, !.at = "insert"] BY <1>1 DEF SyncInv, JobsOK
<1> HIDE DEF F
<1>4. CASE j.job = "import"
  <2>1. j = ImportRec(j.run, j.msg, j.saga, j.chunk, j.at, j.fresh, j.made)
    BY <1>2, <1>4, KindOfJob DEF ImportOK
  <2>2. n = ImportRec(j.run, j.msg, j.saga, j.chunk, "insert", F, j.made)
    BY ZenonT(40), <1>3, <2>1, ImportFound
  <2>3. n.job = j.job /\ n.saga = j.saga /\ n.chunk = j.chunk /\ n.fresh = F
    BY <1>4, <2>2, ImportFields
  <2>4. Items(n) = Items(j) /\ Batch(n) = Batch(j) BY <1>4, <2>3 DEF Items, Batch
  <2> QED BY <1>1, <2>3, <2>4 DEF F
<1>5. CASE j.job = "csv"
  <2>1. j = CsvRec(j.run, j.at, j.items, j.fresh) BY <1>2, <1>5, KindOfJob DEF CsvOK
  <2>2. n = CsvRec(j.run, "insert", j.items, F) BY <1>3, <2>1, CsvFields
  <2>3. n.job = j.job /\ n.items = j.items /\ n.fresh = F BY <1>5, <2>2 DEF CsvRec
  <2>4. Items(n) = Items(j) /\ Batch(n) = Batch(j) BY <1>5, <2>3 DEF Items, Batch
  <2> QED BY <1>1, <2>3, <2>4 DEF F
<1> QED BY <1>1, <1>4, <1>5

LEMMA DeletionKeepsKind ==
  ASSUME NEW j, NEW i,
         \/ j = RollbackRec(j.run, j.msg, j.saga, j.at, j.todo, j.row, j.failed)
         \/ j = DeleteRec(j.run, j.at, j.todo, j.row, j.failed)
  PROVE  /\ ([j EXCEPT !.row = i, !.at = "delete"]).job \in {"rollback", "delete"}
         /\ ([j EXCEPT !.todo = @ \ {i}]).job \in {"rollback", "delete"}
         /\ Done(j, i).job \in {"rollback", "delete"}
         /\ ([Done(j, i) EXCEPT !.failed = @ \cup {i}]).job \in {"rollback", "delete"}
BY DEF RollbackRec, DeleteRec, Done

(* After any other step of the handler, no batch waits to be inserted. *)
LEMMA NothingLookedUp ==
  ASSUME SyncInv, NEW w \in Workers, NEW n, n = worker'[w],
         \/ \E m \in cmds : Deliver(w, m)
         \/ \E items \in Parsed : UploadCsv(w, items)
         \/ \E r \in rows : UserDelete(w, r)
         \/ Insert(w) \/ Find(w) \/ Delete(w) \/ DeleteFails(w) \/ DeleteReturns(w)
         \/ PublishReply(w) \/ Ack(w) \/ Retry(w) \/ Crash(w)
  PROVE  ~ (Inserting(n) /\ n.at = "insert")
<1> DEFINE j == worker[w]
<1>0. \A x : Step(w, x) => n = x BY DEF SyncInv, JobsOK, Step
<1>1. ASSUME NEW m, Deliver(w, m) PROVE n.at # "insert"
  <2>1. n = Importing(runs + 1, m) \/ n = RollingBack(runs + 1, m) BY <1>0, <1>1 DEF Deliver, Starts
  <2> QED BY <2>1 DEF Importing, RollingBack
<1>2. ASSUME NEW items, UploadCsv(w, items) PROVE n.at # "insert"
  BY <1>0, <1>2 DEF UploadCsv, Starts
<1>3. ASSUME NEW r, UserDelete(w, r) PROVE n.at # "insert"
  BY <1>0, <1>3 DEF UserDelete, Starts
<1>4. CASE Insert(w)
  <2>1. /\ j.job \in {"import", "csv"} /\ Step(w, AfterInsert(j, {<<j.run, i>> : i \in j.fresh}))
    BY <1>4, InsertShape
  <2>2. n = AfterInsert(j, {<<j.run, i>> : i \in j.fresh}) BY <1>0, <2>1
  <2>3. CASE j.job = "import"
    <3>1. j = ImportRec(j.run, j.msg, j.saga, j.chunk, j.at, j.fresh, j.made)
      BY <2>3, Busy, KindOfJob DEF ImportOK
    <3> DEFINE goes == IF IsLast(j) THEN "reply" ELSE "lookup"
               new == {<<j.run, i>> : i \in j.fresh}
    <3>2. n = ImportRec(j.run, j.msg, j.saga, j.chunk + 1, goes, j.fresh, j.made \cup new)
      BY <2>2, <3>1, ImportInserted
    <3>3. goes # "insert" OBVIOUS
    <3> HIDE DEF goes, new
    <3> QED BY <3>2, <3>3, ImportFields
  <2>4. CASE j.job = "csv" BY <2>2, <2>4, NotInserting DEF AfterInsert
  <2> QED BY <2>1, <2>3, <2>4
<1>5. CASE Find(w) \/ Delete(w) \/ DeleteFails(w)
  <2>1. j.job \in {"rollback", "delete"} BY <1>5 DEF Find, Delete, DeleteFails
  <2>2. j # Idle BY <2>1, Busy
  <2>3. \/ j = RollbackRec(j.run, j.msg, j.saga, j.at, j.todo, j.row, j.failed)
        \/ j = DeleteRec(j.run, j.at, j.todo, j.row, j.failed)
    BY <2>1, <2>2, KindOfJob DEF RollbackOK, DeleteOK
  <2>4. n.job \in {"rollback", "delete"}
    <3>1. CASE Find(w)
      <4>1. PICK i \in j.todo :
              n = IF \E r \in rows : r.id = i /\ Live(r)
                  THEN [j EXCEPT !.row = i, !.at = "delete"] ELSE [j EXCEPT !.todo = @ \ {i}]
        BY <1>0, <3>1 DEF Find
      <4>2. CASE n = [j EXCEPT !.row = i, !.at = "delete"] BY <2>3, <4>2, DeletionKeepsKind
      <4>3. CASE n = [j EXCEPT !.todo = @ \ {i}] BY <2>3, <4>3, DeletionKeepsKind
      <4> QED BY <4>1, <4>2, <4>3
    <3>2. CASE Delete(w) BY <1>0, <2>3, <3>2, DeletionKeepsKind DEF Delete
    <3>3. CASE DeleteFails(w)
      <4>1. PICK i : n = [Done(j, i) EXCEPT !.failed = @ \cup {i}] BY <1>0, <3>3 DEF DeleteFails
      <4> QED BY <2>3, <4>1, DeletionKeepsKind
    <3> QED BY <1>5, <3>1, <3>2, <3>3
  <2> QED BY <2>4 DEF Inserting
<1>6. CASE DeleteReturns(w) \/ Ack(w) \/ Crash(w)
  BY <1>0, <1>6, NotInserting DEF DeleteReturns, Ack, Crash
<1>7. CASE PublishReply(w)
  <2>1. n = [j EXCEPT !.at = "replied"] /\ j.job \in {"import", "rollback"}
        /\ (j.job = "import" => j.at = "reply")
    BY <1>0, <1>7 DEF PublishReply
  <2> QED BY <2>1, JobParked
<1>8. CASE Retry(w)
  <2>1. n = [j EXCEPT !.at = "retried"] /\ j.job \in {"import", "rollback"}
    BY <1>0, <1>8 DEF Retry
  <2> QED BY <2>1, JobParked
<1> QED BY <1>1, <1>2, <1>3, <1>4, <1>5, <1>6, <1>7, <1>8

(* The rows of a batch differ from each other and from the rows there are. *)
LEMMA InsertKeepsDistinct ==
  ASSUME SyncInv, DistinctLive, NEW w \in Workers, Insert(w),
         worker[w].fresh = Fresh(Items(worker[w]), Batch(worker[w]))
  PROVE  DistinctLive'
<1> DEFINE j == worker[w]
           X == Items(j)
<1>1. /\ j.job \in {"import", "csv"} /\ rows' = rows \cup {NewRow(j, i) : i \in j.fresh}
  BY InsertShape
<1>2. j # Idle BY <1>1, Busy
<1>3. Batch(j) \subseteq Nat
  <2>1. CASE j.job = "import"
    <3>1. j.chunk \in Nat \ {0} BY <1>2, <2>1, KindOfJob DEF ImportOK
    <3> QED BY <2>1, <3>1, ChunkBounds DEF Batch
  <2>2. CASE j.job = "csv"
    <3>1. j.items \in Parsed BY <1>2, <2>2, KindOfJob DEF CsvOK
    <3>2. DOMAIN j.items = 1..Len(j.items) /\ Len(j.items) \in Nat BY <3>1, ItemsAssumption
    <3> QED BY <2>2, <3>2 DEF Batch
  <2> QED BY <1>1, <2>1, <2>2
<1>4. \A i \in j.fresh : /\ i \in Nat /\ ~ Duplicate(X, i)
                         /\ \A k \in j.fresh : k < i => ~ SameKey(X[i], X[k])
  BY <1>3 DEF Fresh
<1>5. \A i : /\ NewRow(j, i).id = <<j.run, i>> /\ NewRow(j, i).ext = X[i].ext
             /\ NewRow(j, i).fuzzy = X[i].fuzzy
  BY NewRowFields
<1> HIDE DEF X
<1>6. ASSUME NEW r \in rows, NEW i \in j.fresh, NEW q, q = NewRow(j, i), Live(r), r.fuzzy = q.fuzzy
      PROVE  r.ext # q.ext /\ r.ext # None /\ q.ext # None
  BY <1>4, <1>5, <1>6 DEF Duplicate, FuzzyKeys, LegacyKeys, ExternalIds
<1>7. ASSUME NEW i \in j.fresh, NEW k \in j.fresh, NEW r, r = NewRow(j, i), NEW q, q = NewRow(j, k),
             r.id # q.id, r.fuzzy = q.fuzzy
      PROVE  r.ext # q.ext /\ r.id[1] = q.id[1]
  <2>1. i # k BY <1>7
  <2>2. i < k \/ k < i BY <1>4, <2>1
  <2>3. ~ SameKey(X[i], X[k]) \/ ~ SameKey(X[k], X[i]) BY <1>4, <2>2
  <2>4. r.ext # q.ext BY <1>5, <1>7, <2>3 DEF SameKey
  <2>5. r.id = <<j.run, i>> /\ q.id = <<j.run, k>> BY <1>5, <1>7
  <2> QED BY <2>4, <2>5
<1>8. ASSUME NEW r \in rows', NEW q \in rows', Live(r), Live(q), r.id # q.id, r.fuzzy = q.fuzzy
      PROVE  r.ext # q.ext /\ (None \in {r.ext, q.ext} => r.id[1] = q.id[1])
  <2>1. CASE r \in rows /\ q \in rows BY <1>8, <2>1 DEF DistinctLive
  <2>2. CASE r \in rows /\ q \notin rows
    <3>1. PICK k \in j.fresh : q = NewRow(j, k) BY <1>1, <2>2
    <3> QED BY <1>6, <1>8, <2>2, <3>1
  <2>3. CASE r \notin rows /\ q \in rows
    <3>1. PICK k \in j.fresh : r = NewRow(j, k) BY <1>1, <2>3
    <3>2. q.ext # r.ext /\ q.ext # None /\ r.ext # None BY <1>6, <1>8, <2>3, <3>1
    <3> QED BY <3>2
  <2>4. CASE r \notin rows /\ q \notin rows
    <3>1. PICK i \in j.fresh : r = NewRow(j, i) BY <1>1, <2>4
    <3>2. PICK k \in j.fresh : q = NewRow(j, k) BY <1>1, <2>4
    <3> QED BY <1>7, <1>8, <3>1, <3>2
  <2> QED BY <2>1, <2>2, <2>3, <2>4
<1> QED BY <1>8 DEF DistinctLive

(* No other step adds a live row. *)
LEMMA OthersKeepDistinct ==
  ASSUME DistinctLive, \A r \in rows' : Live(r) => r \in rows
  PROVE  DistinctLive'
BY DEF DistinctLive

LEMMA FreshKept ==
  ASSUME FreshNow, UNCHANGED <<rows, worker>>
  PROVE  FreshNow'
<1>1. \A X, B : Fresh(X, B)' = Fresh(X, B)
  <2>1. \A X, i : Duplicate(X, i)' <=> Duplicate(X, i)
    BY DEF Duplicate, ExternalIds, FuzzyKeys, LegacyKeys
  <2> QED BY <2>1 DEF Fresh
<1> QED BY <1>1 DEF FreshNow

(***************************************************************************)
(* While one handler at a time works on the table, the lookups and the     *)
(* seen-sets of bulk_import and import_csv keep every transaction single,  *)
(* whatever is delivered again, deleted or uploaded in between.            *)
(***************************************************************************)
THEOREM ImportedOnce ==
  ASSUME OneWorker
  PROVE  Spec => []EachOnce
<1>1. Init => FreshNow /\ DistinctLive
  <2>1. Init => \A w \in Workers : worker[w] = Idle BY DEF Init
  <2> QED BY <2>1, NotInserting DEF Init, FreshNow, DistinctLive
<1>2. ASSUME SyncInv, FreshNow, DistinctLive, [Next]_vars PROVE FreshNow' /\ DistinctLive'
  <2>1. ASSUME UNCHANGED <<rows, worker>> PROVE FreshNow' /\ DistinctLive'
    BY <1>2, <2>1, FreshKept, OthersKeepDistinct
  <2>2. ASSUME NEW w \in Workers, Lookup(w) PROVE FreshNow' /\ DistinctLive'
    <3>1. \A v \in Workers : v = w BY DEF OneWorker
    <3>2. ASSUME NEW n, n = worker'[w]
          PROVE  n.fresh = Fresh(Items(n), Batch(n))' /\ UNCHANGED rows
      <4>1. n.fresh = Fresh(Items(n), Batch(n)) /\ UNCHANGED rows BY <1>2, <2>2, <3>2, LookedUp
      <4> QED BY <4>1 DEF Fresh, Duplicate, ExternalIds, FuzzyKeys, LegacyKeys
    <3>3. FreshNow' BY <3>1, <3>2 DEF FreshNow
    <3> QED BY <1>2, <3>2, <3>3, OthersKeepDistinct
  <2>3. ASSUME NEW w \in Workers,
               \/ \E m \in cmds : Deliver(w, m)
               \/ \E items \in Parsed : UploadCsv(w, items)
               \/ \E r \in rows : UserDelete(w, r)
               \/ Insert(w) \/ Find(w) \/ Delete(w) \/ DeleteFails(w) \/ DeleteReturns(w)
               \/ PublishReply(w) \/ Ack(w) \/ Retry(w) \/ Crash(w)
        PROVE  FreshNow' /\ DistinctLive'
    <3>1. \A v \in Workers : v = w BY DEF OneWorker
    <3>2. ~ (Inserting(worker'[w]) /\ worker'[w].at = "insert")
      BY <1>2, <2>3, NothingLookedUp
    <3>3. FreshNow' BY <3>1, <3>2 DEF FreshNow
    <3>4. CASE Insert(w)
      <4>1. Inserting(worker[w]) /\ worker[w].at = "insert" BY <3>4 DEF Insert, Inserting
      <4> QED BY <1>2, <3>3, <3>4, <4>1, InsertKeepsDistinct DEF FreshNow
    <3>5. CASE Delete(w)
      <4>1. \A r \in rows' : Live(r) => r \in rows
        <5>1. CASE rows' = rows BY <5>1
        <5>2. ASSUME NEW r \in rows, rows' = (rows \ {r}) \cup {[r EXCEPT !.live = FALSE]}
              PROVE  \A q \in rows' : Live(q) => q \in rows
          <6>1. IsRow(r) BY <1>2 DEF SyncInv, TableOK
          <6> QED BY <5>2, <6>1, Tombstone DEF Live
        <5> QED BY <1>2, <3>5, <5>1, <5>2, DeleteShape
      <4> QED BY <1>2, <3>3, <4>1, OthersKeepDistinct
    <3>6. CASE ~ Insert(w) /\ ~ Delete(w)
      <4>1. UNCHANGED rows
        BY <2>3, <3>6 DEF Deliver, UploadCsv, UserDelete, Find, DeleteFails, DeleteReturns,
                          PublishReply, Ack, Retry, Crash
      <4> QED BY <1>2, <3>3, <4>1, OthersKeepDistinct
    <3> QED BY <3>4, <3>5, <3>6
  <2>4. ASSUME NEW s \in Sagas,
               \/ FetchFails(s) \/ SendImport(s) \/ ImportTimesOut(s) \/ SyncCompletes(s)
               \/ SyncFails(s) \/ RollbackTimesOut(s)
               \/ \E m \in replies : ImportReplied(s, m) \/ RollbackReplied(s, m)
        PROVE  UNCHANGED <<rows, worker>>
    BY <2>4 DEF FetchFails, SendImport, ImportTimesOut, SyncCompletes, SyncFails, RollbackTimesOut,
                ImportReplied, RollbackReplied
  <2>5. CASE UNCHANGED vars BY <2>1, <2>5 DEF vars
  <2>6. CASE Next BY <2>1, <2>2, <2>3, <2>4, <2>6 DEF Next
  <2> QED BY <1>2, <2>5, <2>6
<1>3. SyncInv /\ DistinctLive => EachOnce
  BY DEF SyncInv, SagasOK, SagaOK, AllCovered, Covered, DistinctLive, EachOnce
<1>4. Spec => [](FreshNow /\ DistinctLive)
  <2>1. SyncInv /\ (FreshNow /\ DistinctLive) /\ [Next]_vars => (FreshNow /\ DistinctLive)' BY <1>2
  <2> QED BY <1>1, <2>1, SyncInvariance, PTL DEF Spec
<1> QED BY <1>3, <1>4, SyncInvariance, PTL
=============================================================================
