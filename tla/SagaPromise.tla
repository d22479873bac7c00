----------------------------- MODULE SagaPromise -----------------------------
(***************************************************************************)
(* What an orchestrated saga promises, without commands, replies, locks or *)
(* timeouts.  Its steps are done in order; when it turns back, the work    *)
(* that stands is taken away from the top, never from the middle.  It ends *)
(* completed with everything standing, rolled back with nothing standing,  *)
(* timed out with nothing standing that could be undone, or stuck because  *)
(* undoing did not work out.                                               *)
(***************************************************************************)
EXTENDS Naturals

CONSTANTS Sagas, LastStep

VARIABLE st  \* saga -> [phase, standing: steps whose work stands,
             \*          owed: steps that have something to undo]

Steps == 0..LastStep

Unborn == [phase |-> "none", standing |-> {}, owed |-> {}]

Begins(a, b) == a = Unborn /\ b = [Unborn EXCEPT !.phase = "forward"]

(* The next step in order is done; the last one completes the saga. *)
Does(a, b) ==
    \E i \in Steps :
        /\ a.phase = "forward"
        /\ a.standing = {j \in Steps : j < i}
        /\ b.standing = a.standing \cup {i}
        /\ b.owed \in {a.owed, a.owed \cup {i}}
        /\ b.phase = IF i = LastStep THEN "completed" ELSE "forward"

(***************************************************************************)
(* Turning back, or one more step back: only the work below k stays.  An   *)
(* owed step is taken away only while already going back and only as the   *)
(* topmost one; the way back pauses at the next owed step or ends.         *)
(***************************************************************************)
GoesBack(a, b) ==
    \E k \in 0..LastStep + 1 :
        /\ a.phase \in {"forward", "backward"}
        /\ b.standing = {i \in a.standing : i < k}
        /\ b.owed = a.owed
        /\ \A i \in a.standing \cap a.owed :
             i >= k => a.phase = "backward" /\ \A j \in a.standing : j <= i
        /\ b.phase = IF b.standing = {} THEN "rolled_back" ELSE "backward"
        /\ b.standing # {} => \E top \in b.standing \cap b.owed : \A j \in b.standing : j <= top

(* Compensation was refused or never answered: what stands stays. *)
GetsStuck(a, b) == a.phase = "backward" /\ b = [a EXCEPT !.phase = "stuck"]

TimesOut(a, b) ==
    /\ a.phase = "forward"
    /\ a.standing \cap a.owed = {}
    /\ b = [a EXCEPT !.phase = "timed_out"]

Moves(a, b) == Begins(a, b) \/ Does(a, b) \/ GoesBack(a, b) \/ GetsStuck(a, b) \/ TimesOut(a, b)

Init == st = [s \in Sagas |-> Unborn]

(* One sweep of the timeout worker commits the moves of several sagas at once. *)
Next == \A s \in Sagas : st'[s] = st[s] \/ Moves(st[s], st'[s])

Spec == Init /\ [][Next]_st
=============================================================================
