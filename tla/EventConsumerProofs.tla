------------------------- MODULE EventConsumerProofs -------------------------
(***************************************************************************)
(* Proofs about EventConsumer for any events, any number of handlers, any  *)
(* retry limit and any number of copies and faults.  An action touches one *)
(* delivery and adds at most one message to an end of the queue, so it is  *)
(* enough to know that delivery, the queue's messages and that the inbox   *)
(* and the failure counts only grow.                                       *)
(***************************************************************************)
EXTENDS EventConsumer, SequenceTheorems, TLAPS

-----------------------------------------------------------------------------
(* The inductive invariant *)

Msg == [event : Events, retries : Nat]

Job == [at : {"check", "handle", "commit", "ack", "retry", "republished"},
        msg : Msg, orphan : BOOLEAN]

TypeOK ==
    /\ queue \in Seq(Msg)
    /\ worker \in [Workers -> Job \cup {Idle}]
    /\ inbox \in SUBSET Events
    /\ dlq \in SUBSET Events
    /\ published \in [Events -> Nat]
    /\ applied \in [Events -> Nat]
    /\ failures \in [Events -> Nat]

(* A copy at its n-th retry stands for n exceptions. *)
Counted(m) == m.retries <= failures[m.event]

(* A delivery whose handler raised stands for one more, and one that is to be
   acknowledged has its inbox row. *)
Sound(j) ==
    /\ Counted(j.msg)
    /\ j.at = "retry" => j.msg.retries < failures[j.msg.event]
    /\ j.at = "ack" => j.msg.event \in inbox

(* Someone still has to work on e: the deliveries whose republished copy is
   already in the queue do not count. *)
Held(e) ==
    \/ \E m \in Range(queue) : m.event = e
    \/ \E w \in Workers : /\ worker[w] \in Job /\ ~worker[w].orphan
                          /\ worker[w].msg.event = e /\ worker[w].at # "republished"

Kept == \A e \in Events : published[e] > 0 => e \in inbox \/ e \in dlq \/ Held(e)

Exhausted == \A e \in dlq \ Poison : failures[e] > MaxRetries

Once == \A e \in Events : applied[e] = IF e \in inbox THEN 1 ELSE 0

CountsOK ==
    /\ \A m \in Range(queue) : Counted(m)
    /\ \A w \in Workers : worker[w] \in Job => Sound(worker[w])

ConsumerInv == TypeOK /\ CountsOK /\ Kept /\ Exhausted /\ Once

-----------------------------------------------------------------------------
(* The queue *)

(* The messages of a queue after one is added at either end. *)
LEMMA QueueEnds ==
  ASSUME NEW q \in Seq(Msg), NEW m \in Msg
  PROVE  /\ Append(q, m) \in Seq(Msg) /\ Range(Append(q, m)) = Range(q) \cup {m}
         /\ <<m>> \o q \in Seq(Msg) /\ Range(<<m>> \o q) = Range(q) \cup {m}
<1>1. Append(q, m) = q \o <<m>> OBVIOUS
<1>2. <<m>> \in Seq(Msg) /\ Range(<<m>>) = {m}
  BY DEF Range
<1>3. q \o <<m>> \in Seq(Msg) /\ <<m>> \o q \in Seq(Msg) BY <1>2
<1>c. ASSUME NEW x \in Seq(Msg), NEW y \in Seq(Msg)
      PROVE  Range(x \o y) = Range(x) \cup Range(y)
  BY RangeConcatenation
<1>4. Range(q \o <<m>>) = Range(q) \cup {m} BY <1>2, <1>c
<1>5. Range(<<m>> \o q) = Range(q) \cup {m}
  <2> DEFINE x == <<m>>
  <2>1. x \in Seq(Msg) /\ Range(x) = {m} BY <1>2
  <2> HIDE DEF x
  <2>2. Range(x \o q) = Range(q) \cup {m} BY <2>1, <1>c
  <2> QED BY <2>2 DEF x
<1> QED BY <1>1, <1>3, <1>4, <1>5

(* Taking the first message leaves the others. *)
LEMMA QueueHead ==
  ASSUME NEW q \in Seq(Msg), q # <<>>
  PROVE  /\ Head(q) \in Msg /\ Tail(q) \in Seq(Msg)
         /\ Range(q) = Range(Tail(q)) \cup {Head(q)}
<1>1. Head(q) \in Msg /\ Tail(q) \in Seq(Msg) BY HeadTailProperties
<1>2. q = <<Head(q)>> \o Tail(q)  BY HeadTailProperties
<1> QED BY <1>1, <1>2, QueueEnds

(* What is in the queue is a message. *)
LEMMA QueueMessages ==
  ASSUME NEW q \in Seq(Msg), NEW m \in Range(q)
  PROVE  m \in Msg
BY RangeOfSeq

-----------------------------------------------------------------------------
(* One step of one delivery *)

(* The deliveries that Held counts. *)
Busy(j, e) == j \in Job /\ ~j.orphan /\ j.msg.event = e /\ j.at # "republished"

(***************************************************************************)
(* What an action may do to the invariant: it changes one delivery, keeps  *)
(* every message or hands it to that delivery, and lets go of the          *)
(* delivery's event only when it is settled or back in the queue.          *)
(***************************************************************************)
LEMMA StepInv ==
  ASSUME ConsumerInv, NEW w \in Workers, NEW j \in Job \cup {Idle},
         worker' = [worker EXCEPT ![w] = j], published' = published,
         j \in Job => Sound(j)',
         queue' \in Seq(Msg),
         \A m \in Range(queue') : m \in Range(queue) \/ Counted(m)',
         \A m \in Range(queue) : m \in Range(queue') \/ Busy(j, m.event),
         \A e \in Events : Busy(worker[w], e) =>
             \/ e \in inbox' \/ e \in dlq' \/ Busy(j, e)
             \/ \E m \in Range(queue') : m.event = e,
         inbox' \in SUBSET Events, inbox \subseteq inbox',
         dlq' \in SUBSET Events, dlq \subseteq dlq',
         \A e \in dlq' : e \in dlq \cup Poison \/ failures'[e] > MaxRetries,
         failures' \in [Events -> Nat], \A e \in Events : failures[e] <= failures'[e],
         applied' \in [Events -> Nat], Once'
  PROVE  ConsumerInv'
<1> USE LimitsAssumption
<1>t. TypeOK /\ CountsOK /\ Kept /\ Exhausted BY DEF ConsumerInv
<1>1. TypeOK' BY <1>t DEF TypeOK
<1>2. ASSUME NEW m \in Msg, Counted(m) PROVE Counted(m)'
  <2>1. m.event \in Events /\ m.retries \in Nat BY DEF Msg
  <2>2. failures[m.event] \in Nat /\ failures'[m.event] \in Nat BY <2>1, <1>t DEF TypeOK
  <2> QED BY <1>2, <2>1, <2>2 DEF Counted
<1>4. CountsOK'
  <2>1. ASSUME NEW m \in Range(queue') PROVE Counted(m)'
    <3>1. CASE m \in Range(queue)
      <4>1. m \in Msg /\ Counted(m) BY <1>t, <3>1, QueueMessages DEF TypeOK, CountsOK
      <4> QED BY <4>1, <1>2
    <3> QED BY <2>1, <3>1
  <2>2. ASSUME NEW x \in Workers, worker'[x] \in Job PROVE Sound(worker[x])'
    <3>1. CASE x = w
      <4>1. worker'[x] = j BY <3>1, <1>t DEF TypeOK
      <4>2. Sound(j)' BY <4>1, <2>2
      <4> QED BY <4>1, <4>2 DEF Sound, Counted
    <3>2. CASE x # w
      <4>1. worker'[x] = worker[x] BY <3>2, <1>t DEF TypeOK
      <4>2. worker[x] \in Job /\ Sound(worker[x]) BY <4>1, <2>2, <1>t DEF CountsOK
      <4>3. /\ worker[x].msg.event \in Events /\ worker[x].msg.retries \in Nat
            /\ failures[worker[x].msg.event] \in Nat
            /\ failures'[worker[x].msg.event] \in Nat
        BY <4>2, <1>t DEF Job, Msg, TypeOK
      <4>4. failures[worker[x].msg.event] <= failures'[worker[x].msg.event] BY <4>3
      <4> QED BY <4>1, <4>2, <4>3, <4>4 DEF Sound, Counted
    <3> QED BY <3>1, <3>2
  <2> QED BY <2>1, <2>2 DEF CountsOK
<1>5. Kept'
  <2> SUFFICES ASSUME NEW e \in Events, published[e] > 0
               PROVE  e \in inbox' \/ e \in dlq' \/ Held(e)'
    BY DEF Kept
  <2>1. ASSUME \E m \in Range(queue') : m.event = e PROVE Held(e)'
    BY <2>1 DEF Held
  <2>2. ASSUME NEW x \in Workers, Busy(worker'[x], e) PROVE Held(e)'
    BY <2>2 DEF Held, Busy
  <2>w. worker'[w] = j BY <1>t DEF TypeOK
  <2>3. CASE e \in inbox \/ e \in dlq BY <2>3
  <2>4. ASSUME NEW m \in Range(queue), m.event = e PROVE Held(e)'
    BY <2>1, <2>2, <2>4, <2>w
  <2>5. ASSUME NEW x \in Workers, Busy(worker[x], e)
        PROVE  e \in inbox' \/ e \in dlq' \/ Held(e)'
    <3>1. CASE x = w BY <3>1, <2>5, <2>1, <2>2, <2>w
    <3>2. CASE x # w
      <4>1. worker'[x] = worker[x] BY <3>2, <1>t DEF TypeOK
      <4> QED BY <4>1, <2>5, <2>2
    <3> QED BY <3>1, <3>2
  <2> QED BY <1>t, <2>3, <2>4, <2>5 DEF Kept, Held, Busy
<1>6. Exhausted'
  <2> SUFFICES ASSUME NEW e \in dlq', e \notin Poison PROVE failures'[e] > MaxRetries
    BY DEF Exhausted
  <2>1. CASE e \in dlq
    <3>1. failures[e] > MaxRetries BY <2>1, <1>t DEF Exhausted
    <3>2. e \in Events /\ failures[e] \in Nat /\ failures'[e] \in Nat BY <1>t DEF TypeOK
    <3> QED BY <3>1, <3>2
  <2> QED BY <2>1
<1> QED BY <1>1, <1>4, <1>5, <1>6 DEF ConsumerInv

(* A worker that is somewhere in the ladder has a delivery. *)
LEMMA AtWork ==
  ASSUME ConsumerInv, NEW w \in Workers, worker[w] # Idle
  PROVE  /\ worker[w] \in Job /\ worker[w].msg \in Msg /\ worker[w].msg.event \in Events
         /\ worker[w].msg.retries \in Nat /\ worker[w].orphan \in BOOLEAN
         /\ Sound(worker[w])
<1>1. worker[w] \in Job BY DEF ConsumerInv, TypeOK
<1>2. worker[w].msg \in Msg /\ worker[w].orphan \in BOOLEAN BY <1>1 DEF Job
<1> QED BY <1>1, <1>2 DEF Msg, ConsumerInv, CountsOK

(* Moving a delivery on within the ladder. *)
LEMMA Moving ==
  ASSUME ConsumerInv, NEW w \in Workers, worker[w] # Idle,
         NEW l \in {"check", "handle", "commit", "ack", "retry", "republished"}, Goto(w, l)
  PROVE  \E j \in Job : /\ worker' = [worker EXCEPT ![w] = j]
                        /\ j.at = l /\ j.msg = worker[w].msg /\ j.orphan = worker[w].orphan
<1> DEFINE j == [worker[w] EXCEPT !.at = l]
<1>1. worker[w] \in Job BY AtWork
<1>2. j \in Job /\ j.at = l /\ j.msg = worker[w].msg /\ j.orphan = worker[w].orphan
  BY <1>1 DEF Job
<1>3. worker' = [worker EXCEPT ![w] = j] BY DEF Goto
<1> QED BY <1>2, <1>3

(* Nothing is published yet. *)
LEMMA InitInv == Init => ConsumerInv
<1> SUFFICES ASSUME Init PROVE ConsumerInv OBVIOUS
<1>1. TypeOK BY DEF Init, TypeOK
<1>2. Range(queue) = {} BY DEF Init, Range
<1>3. \A w \in Workers : worker[w] \notin Job
  <2> SUFFICES ASSUME NEW w \in Workers, worker[w] \in Job PROVE FALSE OBVIOUS
  <2>1. worker[w].at # "idle" BY DEF Job
  <2>2. worker[w].at = "idle" BY DEF Init, Idle
  <2> QED BY <2>1, <2>2
<1> QED BY <1>1, <1>2, <1>3 DEF Init, ConsumerInv, CountsOK, Kept, Exhausted, Once

(* Publishing adds a copy that has not failed yet. *)
LEMMA PublishInv ==
  ASSUME ConsumerInv, NEW e \in Events, Publish(e)
  PROVE  ConsumerInv'
<1>t. TypeOK /\ CountsOK /\ Kept /\ Exhausted /\ Once BY DEF ConsumerInv
<1> DEFINE m == Message(e, 0)
<1>1. m \in Msg /\ m.event = e /\ m.retries = 0 BY DEF Message, Msg
<1>2. queue' = Append(queue, m) BY DEF Publish
<1> HIDE DEF m
<1>3. queue' \in Seq(Msg) /\ Range(queue') = Range(queue) \cup {m}
  BY <1>1, <1>2, <1>t, QueueEnds DEF TypeOK
<1>u. UNCHANGED <<worker, inbox, dlq, applied, failures>> BY DEF Publish
<1>4. published' \in [Events -> Nat] /\ \A f \in Events : f # e => published'[f] = published[f]
  BY <1>t DEF TypeOK, Publish
<1>5. TypeOK' BY <1>t, <1>u, <1>3, <1>4 DEF TypeOK
<1>6. CountsOK'
  <2>1. failures[e] \in Nat BY <1>t DEF TypeOK
  <2> QED BY <1>t, <1>u, <1>1, <1>3, <2>1 DEF CountsOK, Counted, Sound
<1>7. Kept'
  <2> SUFFICES ASSUME NEW f \in Events, published'[f] > 0
               PROVE  f \in inbox' \/ f \in dlq' \/ Held(f)'
    BY DEF Kept
  <2>1. CASE f = e BY <2>1, <1>1, <1>3 DEF Held
  <2>2. CASE f # e
    <3>1. f \in inbox \/ f \in dlq \/ Held(f) BY <2>2, <1>4, <1>t DEF Kept
    <3> QED BY <3>1, <1>u, <1>3 DEF Held
  <2> QED BY <2>1, <2>2
<1>8. Exhausted' /\ Once' BY <1>t, <1>u DEF Exhausted, Once
<1> QED BY <1>5, <1>6, <1>7, <1>8 DEF ConsumerInv

(* The same for the actions that touch only the delivery and the queue. *)
LEMMA QuietInv ==
  ASSUME ConsumerInv, NEW w \in Workers, NEW j \in Job \cup {Idle},
         worker' = [worker EXCEPT ![w] = j],
         UNCHANGED <<inbox, dlq, published, applied, failures>>,
         j \in Job => Sound(j),
         queue' \in Seq(Msg),
         \A m \in Range(queue') : m \in Range(queue) \/ Counted(m),
         \A m \in Range(queue) : m \in Range(queue') \/ Busy(j, m.event),
         \A e \in Events : Busy(worker[w], e) =>
             \/ e \in inbox \/ e \in dlq \/ Busy(j, e)
             \/ \E m \in Range(queue') : m.event = e
  PROVE  ConsumerInv'
<1>t. TypeOK /\ Once BY DEF ConsumerInv
<1>1. \A e \in Events : failures[e] <= failures'[e] BY <1>t DEF TypeOK
<1>2. j \in Job => Sound(j)' BY DEF Sound, Counted
<1>3. \A m \in Range(queue') : m \in Range(queue) \/ Counted(m)' BY DEF Counted
<1>4. Once' BY <1>t DEF Once
<1>5. inbox' \in SUBSET Events /\ dlq' \in SUBSET Events BY <1>t DEF TypeOK
<1>6. failures' \in [Events -> Nat] /\ applied' \in [Events -> Nat] BY <1>t DEF TypeOK
<1>7. published' = published /\ inbox \subseteq inbox' /\ dlq \subseteq dlq'
      /\ (\A e \in dlq' : e \in dlq \cup Poison \/ failures'[e] > MaxRetries)
  OBVIOUS
<1>8. \A e \in Events : Busy(worker[w], e) =>
             \/ e \in inbox' \/ e \in dlq' \/ Busy(j, e)
             \/ \E m \in Range(queue') : m.event = e
  OBVIOUS
<1> QED BY <1>1, <1>2, <1>3, <1>4, <1>5, <1>6, <1>7, <1>8, StepInv

(* The broker hands the first message to an idle handler. *)
LEMMA DeliverInv ==
  ASSUME ConsumerInv, NEW w \in Workers, Deliver(w)
  PROVE  ConsumerInv'
<1>t. TypeOK /\ CountsOK BY DEF ConsumerInv
<1> DEFINE h == Head(queue)
           j == [at |-> "check", msg |-> h, orphan |-> FALSE]
<1>1. queue # <<>> /\ queue' = Tail(queue) BY DEF Deliver
<1>2. h \in Msg /\ queue' \in Seq(Msg) /\ Range(queue) = Range(queue') \cup {h}
  BY <1>1, <1>t, QueueHead DEF TypeOK
<1>3. worker' = [worker EXCEPT ![w] = j] BY DEF Deliver
<1>u. UNCHANGED <<inbox, dlq, published, applied, failures>> BY DEF Deliver
<1>4. Counted(h) BY <1>2, <1>t DEF CountsOK
<1> HIDE DEF h
<1>5. j \in Job /\ Sound(j) /\ Busy(j, h.event) BY <1>2, <1>4 DEF Job, Sound, Busy
<1>6. \A e : ~Busy(worker[w], e)
  <2> SUFFICES ASSUME worker[w] \in Job PROVE FALSE BY DEF Busy
  <2>1. worker[w].at = "idle" BY DEF Deliver, Idle
  <2>2. worker[w].at # "idle" BY DEF Job
  <2> QED BY <2>1, <2>2
<1> HIDE DEF j
<1>7. \A m \in Range(queue) : m \in Range(queue') \/ Busy(j, m.event) BY <1>2, <1>5
<1>8. \A m \in Range(queue') : m \in Range(queue) BY <1>2
<1> QED BY <1>2, <1>3, <1>u, <1>5, <1>6, <1>7, <1>8, QuietInv

(* Moving on without touching anything else. *)
LEMMA WalkInv ==
  ASSUME ConsumerInv, NEW w \in Workers, worker[w] # Idle,
         NEW l \in {"check", "handle", "commit", "ack"}, Goto(w, l),
         l = "ack" => worker[w].msg.event \in inbox,
         worker[w].at # "republished",
         UNCHANGED <<queue, inbox, dlq, published, applied, failures>>
  PROVE  ConsumerInv'
<1>1. PICK j \in Job : /\ worker' = [worker EXCEPT ![w] = j]
                       /\ j.at = l /\ j.msg = worker[w].msg /\ j.orphan = worker[w].orphan
  BY Moving
<1>2. Sound(worker[w]) BY AtWork
<1>3. Sound(j) BY <1>1, <1>2 DEF Sound
<1>4. \A e \in Events : Busy(worker[w], e) => Busy(j, e) BY <1>1 DEF Busy
<1>5. queue' \in Seq(Msg) /\ Range(queue') = Range(queue) BY DEF ConsumerInv, TypeOK
<1> QED BY <1>1, <1>3, <1>4, <1>5, QuietInv

(* A delivery that ends without settling its event: its message is back in
   the queue, or it is no longer the broker's delivery. *)
LEMMA EndInv ==
  ASSUME ConsumerInv, NEW w \in Workers, worker[w] # Idle, Finish(w),
         \/ queue' = queue /\ (worker[w].orphan \/ worker[w].at = "republished")
         \/ queue' = queue /\ worker[w].msg.event \in inbox \cup dlq
         \/ queue' = Requeued(w),
         UNCHANGED <<inbox, dlq, published, applied, failures>>
  PROVE  ConsumerInv'
<1>t. TypeOK BY DEF ConsumerInv
<1> DEFINE k == worker[w]
<1>1. k.msg \in Msg /\ Sound(k) BY AtWork
<1>2. worker' = [worker EXCEPT ![w] = Idle] BY DEF Finish
<1>3. Idle \notin Job
  <2>1. Idle.at = "idle" BY DEF Idle
  <2>2. Idle \in Job => Idle.at # "idle" BY DEF Job
  <2> QED BY <2>1, <2>2
<1>4. CASE queue' = queue
  <2>1. queue' \in Seq(Msg) /\ Range(queue') = Range(queue) BY <1>4, <1>t DEF TypeOK
  <2>2. \A e \in Events : Busy(k, e) => \/ e \in inbox \/ e \in dlq
                                        \/ \E m \in Range(queue') : m.event = e
    <3>1. CASE k.orphan \/ k.at = "republished" BY <3>1 DEF Busy
    <3>2. CASE k.msg.event \in inbox \cup dlq BY <3>2 DEF Busy
    <3>3. CASE queue' = Requeued(w)
      <4>1. k.msg \in Range(queue') BY <1>1, <1>t, <3>3, QueueEnds DEF Requeued, TypeOK
      <4> QED BY <4>1 DEF Busy
    <3> QED BY <3>1, <3>2, <3>3
  <2> QED BY <1>2, <1>3, <2>1, <2>2, QuietInv
<1>5. CASE queue' = Requeued(w)
  <2>1. queue' \in Seq(Msg) /\ Range(queue') = Range(queue) \cup {k.msg}
    BY <1>5, <1>1, <1>t, QueueEnds DEF Requeued, TypeOK
  <2>2. Counted(k.msg) BY <1>1 DEF Sound
  <2>3. \A e \in Events : Busy(k, e) => \E m \in Range(queue') : m.event = e
    BY <2>1 DEF Busy
  <2> HIDE DEF k
  <2>4. \A m \in Range(queue') : m \in Range(queue) \/ Counted(m) BY <2>1, <2>2
  <2>5. \A m \in Range(queue) : m \in Range(queue') BY <2>1
  <2> QED BY <1>2, <1>3, <2>1, <2>3, <2>4, <2>5, QuietInv DEF k
<1> QED BY <1>4, <1>5

(* nack(requeue=False): of an unreadable message, or at the last retry. *)
LEMMA DeadLetterInv ==
  ASSUME ConsumerInv, NEW w \in Workers, worker[w] # Idle, DeadLetter(w),
         \/ worker[w].msg.event \in Poison
         \/ worker[w].at = "retry" /\ ~CanRetry(worker[w].msg),
         UNCHANGED <<queue, inbox, published, applied, failures>>
  PROVE  ConsumerInv'
<1> USE LimitsAssumption
<1>t. TypeOK /\ Once BY DEF ConsumerInv
<1> DEFINE k == worker[w]
           e == k.msg.event
<1>1. /\ k \in Job /\ e \in Events /\ k.msg.retries \in Nat /\ k.orphan \in BOOLEAN /\ Sound(k)
  BY AtWork
<1>2. CASE k.orphan
  <2>1. Finish(w) /\ dlq' = dlq BY <1>2 DEF DeadLetter
  <2> QED BY <1>2, <2>1, EndInv
<1>3. CASE ~k.orphan
  <2>1. worker' = [worker EXCEPT ![w] = Idle] /\ dlq' = dlq \cup {e}
    BY <1>3 DEF DeadLetter, Finish
  <2>2. Idle \notin Job
    <3>1. Idle.at = "idle" BY DEF Idle
    <3>2. Idle \in Job => Idle.at # "idle" BY DEF Job
    <3> QED BY <3>1, <3>2
  <2>3. e \in Poison \/ failures'[e] > MaxRetries
    <3>1. failures[e] \in Nat BY <1>1, <1>t DEF TypeOK
    <3> QED BY <1>1, <3>1 DEF CanRetry, Sound
  <2>4. \A f \in Events : Busy(k, f) => f \in dlq' BY <2>1 DEF Busy
  <2>5. \A f \in Events : failures[f] <= failures'[f] BY <1>t DEF TypeOK
  <2>6. Once' BY <1>t DEF Once
  <2>7. /\ queue' \in Seq(Msg) /\ Range(queue') = Range(queue)
        /\ inbox' \in SUBSET Events /\ inbox \subseteq inbox'
        /\ failures' \in [Events -> Nat] /\ applied' \in [Events -> Nat]
    BY <1>t DEF TypeOK
  <2>8. /\ dlq' \in SUBSET Events /\ dlq \subseteq dlq'
        /\ \A f \in dlq' : f \in dlq \cup Poison \/ failures'[f] > MaxRetries
    BY <1>1, <1>t, <2>1, <2>3 DEF TypeOK
  <2> HIDE DEF k, e
  <2> QED BY <2>1, <2>2, <2>4, <2>5, <2>6, <2>7, <2>8, StepInv DEF k
<1> QED BY <1>1, <1>2, <1>3

(* The effect and the inbox row are committed together, or another handler
   of the same event has committed them. *)
LEMMA CommitInv ==
  ASSUME ConsumerInv, NEW w \in Workers, worker[w] # Idle, Commit(w)
  PROVE  ConsumerInv'
<1>t. TypeOK /\ Once /\ Exhausted BY DEF ConsumerInv
<1> DEFINE k == worker[w]
           e == k.msg.event
<1>1. k \in Job /\ e \in Events /\ Sound(k) /\ k.at = "commit" BY AtWork DEF Commit
<1>2. CASE e \in inbox
  <2>1. Goto(w, "ack") /\ UNCHANGED <<queue, inbox, dlq, published, applied, failures>>
    BY <1>2 DEF Commit
  <2> QED BY <1>1, <1>2, <2>1, WalkInv
<1>3. CASE e \notin inbox
  <2>1. /\ inbox' = inbox \cup {e} /\ applied' = [applied EXCEPT ![e] = @ + 1]
        /\ Goto(w, "ack") /\ UNCHANGED <<queue, dlq, published, failures>>
    BY <1>3 DEF Commit
  <2>2. PICK j \in Job : /\ worker' = [worker EXCEPT ![w] = j]
                         /\ j.at = "ack" /\ j.msg = k.msg /\ j.orphan = k.orphan
    BY <2>1, Moving
  <2>3. Sound(j)' BY <1>1, <2>1, <2>2 DEF Sound, Counted
  <2>4. applied[e] = 0 /\ applied'[e] = 1 BY <1>1, <1>3, <1>t, <2>1 DEF Once, TypeOK
  <2>5. Once'
    <3> SUFFICES ASSUME NEW f \in Events PROVE applied'[f] = IF f \in inbox' THEN 1 ELSE 0
      BY DEF Once
    <3>1. CASE f = e BY <3>1, <2>1, <2>4
    <3>2. CASE f # e BY <3>2, <2>1, <1>t DEF Once, TypeOK
    <3> QED BY <3>1, <3>2
  <2>6. applied' \in [Events -> Nat] BY <1>1, <1>t, <2>1 DEF TypeOK
  <2>7. \A f \in Events : failures[f] <= failures'[f] BY <1>t, <2>1 DEF TypeOK
  <2>8. /\ queue' \in Seq(Msg) /\ Range(queue') = Range(queue)
        /\ inbox' \in SUBSET Events /\ inbox \subseteq inbox'
        /\ failures' \in [Events -> Nat] /\ dlq' \in SUBSET Events /\ dlq' = dlq
    BY <1>1, <1>t, <2>1 DEF TypeOK
  <2>9. \A f \in Events : Busy(k, f) => f \in inbox' BY <2>1 DEF Busy
  <2> HIDE DEF k, e
  <2> QED BY <2>1, <2>2, <2>3, <2>5, <2>6, <2>7, <2>8, <2>9, StepInv DEF k
<1> QED BY <1>2, <1>3

(* The handler raises, or the acknowledgement of an orphan does. *)
LEMMA RaiseInv ==
  ASSUME ConsumerInv, NEW w \in Workers, worker[w] # Idle, Goto(w, "retry"),
         worker[w].at # "republished",
         failures' = [failures EXCEPT ![worker[w].msg.event] = @ + 1],
         UNCHANGED <<queue, inbox, dlq, published, applied>>
  PROVE  ConsumerInv'
<1>t. TypeOK /\ Once BY DEF ConsumerInv
<1> DEFINE k == worker[w]
           e == k.msg.event
<1>1. k \in Job /\ e \in Events /\ k.msg.retries \in Nat /\ Sound(k) BY AtWork
<1>2. PICK j \in Job : /\ worker' = [worker EXCEPT ![w] = j]
                       /\ j.at = "retry" /\ j.msg = k.msg /\ j.orphan = k.orphan
  BY Moving
<1>3. failures' \in [Events -> Nat] /\ failures[e] \in Nat /\ failures'[e] = failures[e] + 1
  BY <1>1, <1>t DEF TypeOK
<1>4. \A f \in Events : failures[f] <= failures'[f] BY <1>1, <1>t, <1>3 DEF TypeOK
<1>5. Sound(j)' BY <1>1, <1>2, <1>3 DEF Sound, Counted
<1>6. Once' BY <1>t DEF Once
<1>7. \A f \in Events : Busy(k, f) => Busy(j, f) BY <1>2 DEF Busy
<1>8. /\ queue' \in Seq(Msg) /\ Range(queue') = Range(queue)
      /\ inbox' \in SUBSET Events /\ inbox' = inbox /\ dlq' \in SUBSET Events /\ dlq' = dlq
      /\ applied' \in [Events -> Nat] /\ published' = published
  BY <1>t DEF TypeOK
<1> HIDE DEF k, e
<1> QED BY <1>2, <1>3, <1>4, <1>5, <1>6, <1>7, <1>8, StepInv DEF k

(* The copy that is published for a retry counts the exception. *)
LEMMA RepublishInv ==
  ASSUME ConsumerInv, NEW w \in Workers, worker[w] # Idle, Republish(w)
  PROVE  ConsumerInv'
<1>t. TypeOK BY DEF ConsumerInv
<1> DEFINE k == worker[w]
           m == Message(k.msg.event, k.msg.retries + 1)
<1>1. k \in Job /\ k.msg.event \in Events /\ k.msg.retries \in Nat /\ Sound(k) BY AtWork
<1>2. PICK j \in Job : /\ worker' = [worker EXCEPT ![w] = j]
                       /\ j.at = "republished" /\ j.msg = k.msg /\ j.orphan = k.orphan
  BY Moving DEF Republish
<1>3. m \in Msg /\ m.event = k.msg.event /\ m.retries = k.msg.retries + 1
  BY <1>1 DEF Message, Msg
<1>4. Counted(m)
  <2>1. failures[k.msg.event] \in Nat BY <1>1, <1>t DEF TypeOK
  <2>2. k.msg.retries < failures[k.msg.event] BY <1>1 DEF Republish, Sound
  <2> QED BY <1>1, <1>3, <2>1, <2>2 DEF Counted
<1>5. queue' = Append(queue, m) BY DEF Republish
<1>u. UNCHANGED <<inbox, dlq, published, applied, failures>> BY DEF Republish
<1> HIDE DEF m
<1>6. queue' \in Seq(Msg) /\ Range(queue') = Range(queue) \cup {m}
  BY <1>3, <1>5, <1>t, QueueEnds DEF TypeOK
<1>7. Sound(j) BY <1>1, <1>2 DEF Sound
<1>8. \A e \in Events : Busy(k, e) => \E x \in Range(queue') : x.event = e
  BY <1>3, <1>6 DEF Busy
<1>9. /\ \A x \in Range(queue') : x \in Range(queue) \/ Counted(x)
      /\ \A x \in Range(queue) : x \in Range(queue')
  BY <1>4, <1>6
<1> HIDE DEF k
<1> QED BY <1>2, <1>u, <1>6, <1>7, <1>8, <1>9, QuietInv DEF k

(* The broker takes the message back while its handler keeps running. *)
LEMMA LoseConnectionInv ==
  ASSUME ConsumerInv, NEW w \in Workers, LoseConnection(w)
  PROVE  ConsumerInv'
<1>t. TypeOK BY DEF ConsumerInv
<1> DEFINE k == worker[w]
           j == [k EXCEPT !.orphan = TRUE]
<1>0. k # Idle BY DEF LoseConnection
<1>1. k \in Job /\ k.msg \in Msg /\ Sound(k) BY <1>0, AtWork
<1>2. j \in Job /\ j.at = k.at /\ j.msg = k.msg /\ j.orphan BY <1>1 DEF Job
<1>3. worker' = [worker EXCEPT ![w] = j] BY DEF LoseConnection
<1>4. queue' = <<k.msg>> \o queue BY DEF LoseConnection, Requeued
<1>u. UNCHANGED <<inbox, dlq, published, applied, failures>> BY DEF LoseConnection
<1>5. queue' \in Seq(Msg) /\ Range(queue') = Range(queue) \cup {k.msg}
  BY <1>1, <1>4, <1>t, QueueEnds DEF TypeOK
<1> HIDE DEF j
<1>6. Sound(j) BY <1>1, <1>2 DEF Sound
<1>7. Counted(k.msg) BY <1>1 DEF Sound
<1>8. \A e \in Events : Busy(k, e) => \E x \in Range(queue') : x.event = e
  BY <1>5 DEF Busy
<1> HIDE DEF k
<1>9. /\ \A x \in Range(queue') : x \in Range(queue) \/ Counted(x)
      /\ \A x \in Range(queue) : x \in Range(queue')
  BY <1>5, <1>7
<1> QED BY <1>2, <1>3, <1>u, <1>5, <1>6, <1>8, <1>9, QuietInv DEF k

(* Every action preserves the invariant. *)
LEMMA NextInv == ConsumerInv /\ [Next]_vars => ConsumerInv'
<1> SUFFICES ASSUME ConsumerInv, [Next]_vars PROVE ConsumerInv' OBVIOUS
<1>a. ASSUME NEW w \in Workers, worker[w].at # "idle" PROVE worker[w] # Idle
  BY <1>a DEF Idle
<1>1. ASSUME NEW e \in Events, Publish(e) PROVE ConsumerInv' BY <1>1, PublishInv
<1>2. ASSUME NEW w \in Workers, Deliver(w) PROVE ConsumerInv' BY <1>2, DeliverInv
<1>3. ASSUME NEW w \in Workers, Check(w) PROVE ConsumerInv'
  <2>0. worker[w] # Idle /\ worker[w].at # "republished" BY <1>3, <1>a DEF Check
  <2>u. UNCHANGED <<queue, inbox, published, applied, failures>> BY <1>3 DEF Check
  <2>1. CASE worker[w].msg.event \in Poison
    <3>1. DeadLetter(w) BY <1>3, <2>1 DEF Check
    <3> QED BY <2>0, <2>u, <2>1, <3>1, DeadLetterInv
  <2>2. CASE worker[w].msg.event \notin Poison
    <3>1. Goto(w, "handle") /\ UNCHANGED dlq BY <1>3, <2>2 DEF Check
    <3> QED BY <2>0, <2>u, <3>1, WalkInv
  <2> QED BY <2>1, <2>2
<1>4. ASSUME NEW w \in Workers, ReadInbox(w) PROVE ConsumerInv'
  <2>0. worker[w] # Idle /\ worker[w].at # "republished" BY <1>4, <1>a DEF ReadInbox
  <2>u. UNCHANGED <<queue, inbox, dlq, published, applied, failures>> BY <1>4 DEF ReadInbox
  <2>1. CASE worker[w].msg.event \in inbox
    <3>1. Goto(w, "ack") BY <1>4, <2>1 DEF ReadInbox
    <3> QED BY <2>0, <2>u, <2>1, <3>1, WalkInv
  <2>2. CASE worker[w].msg.event \notin inbox
    <3>1. Goto(w, "commit") BY <1>4, <2>2 DEF ReadInbox
    <3> QED BY <2>0, <2>u, <3>1, WalkInv
  <2> QED BY <2>1, <2>2
<1>5. ASSUME NEW w \in Workers, Commit(w) PROVE ConsumerInv'
  <2>1. worker[w] # Idle BY <1>5, <1>a DEF Commit
  <2> QED BY <1>5, <2>1, CommitInv
<1>6. ASSUME NEW w \in Workers, Raise(w) PROVE ConsumerInv'
  <2>1. worker[w] # Idle /\ worker[w].at # "republished" BY <1>6, <1>a DEF Raise
  <2> QED BY <1>6, <2>1, RaiseInv DEF Raise
<1>7. ASSUME NEW w \in Workers, Ack(w) PROVE ConsumerInv'
  <2>0. worker[w] # Idle /\ worker[w].at = "ack" BY <1>7, <1>a DEF Ack
  <2>u. UNCHANGED <<queue, inbox, dlq, published, applied>> BY <1>7 DEF Ack
  <2>1. CASE worker[w].orphan
    BY <1>7, <2>0, <2>u, <2>1, RaiseInv DEF Ack
  <2>2. CASE ~worker[w].orphan
    <3>1. Finish(w) /\ UNCHANGED failures BY <1>7, <2>2 DEF Ack
    <3>2. worker[w].msg.event \in inbox BY <2>0, AtWork DEF Sound
    <3> QED BY <2>0, <2>u, <3>1, <3>2, EndInv
  <2> QED BY <2>1, <2>2
<1>8. ASSUME NEW w \in Workers, Republish(w) PROVE ConsumerInv'
  <2>1. worker[w] # Idle BY <1>8, <1>a DEF Republish
  <2> QED BY <1>8, <2>1, RepublishInv
<1>9. ASSUME NEW w \in Workers, RepublishFails(w) PROVE ConsumerInv'
  <2>1. worker[w] # Idle BY <1>9, <1>a DEF RepublishFails
  <2> QED BY <1>9, <2>1, EndInv DEF RepublishFails
<1>10. ASSUME NEW w \in Workers, AckRepublished(w) PROVE ConsumerInv'
  <2>1. worker[w] # Idle BY <1>10, <1>a DEF AckRepublished
  <2> QED BY <1>10, <2>1, EndInv DEF AckRepublished
<1>11. ASSUME NEW w \in Workers, GiveUp(w) PROVE ConsumerInv'
  <2>1. worker[w] # Idle BY <1>11, <1>a DEF GiveUp
  <2> QED BY <1>11, <2>1, DeadLetterInv DEF GiveUp
<1>12. ASSUME NEW w \in Workers, LoseConnection(w) PROVE ConsumerInv'
  BY <1>12, LoseConnectionInv
<1>13. ASSUME NEW w \in Workers, Crash(w) PROVE ConsumerInv'
  BY <1>13, EndInv DEF Crash
<1>14. CASE UNCHANGED vars
  BY <1>14 DEF vars, ConsumerInv, TypeOK, CountsOK, Counted, Sound, Kept, Held, Exhausted, Once
<1> QED
  BY <1>1, <1>2, <1>3, <1>4, <1>5, <1>6, <1>7, <1>8, <1>9, <1>10, <1>11, <1>12, <1>13, <1>14
  DEF Next

-----------------------------------------------------------------------------
(* Theorems *)

(* The invariant holds for every consumer built on ConsumerBase with an inbox. *)
THEOREM ConsumerInvariance == Spec => []ConsumerInv
BY InitInv, NextInv, PTL DEF Spec

(***************************************************************************)
(* The account projection applies an event at most once and exactly when   *)
(* its inbox row says so, whatever is redelivered, republished, duplicated *)
(* or handled by an orphan that races the redelivery of its own message.   *)
(***************************************************************************)
THEOREM EffectOnce == Spec => []AppliedOnce
<1>1. ConsumerInv => AppliedOnce BY DEF ConsumerInv, Once, AppliedOnce
<1> QED BY <1>1, ConsumerInvariance, PTL

(***************************************************************************)
(* The ladder of _on_message loses no published event, and dead-letters a  *)
(* readable one only after it failed more than max_retries times.          *)
(***************************************************************************)
THEOREM NoEventLost == Spec => []NothingLost
<1>1. ConsumerInv => NothingLost
  <2> SUFFICES ASSUME ConsumerInv PROVE NothingLost OBVIOUS
  <2>1. \A w \in Workers : worker[w] \in Job => worker[w] # Idle
    <3> SUFFICES ASSUME NEW w \in Workers, worker[w] \in Job PROVE worker[w] # Idle OBVIOUS
    <3>1. worker[w].at # "idle" BY DEF Job
    <3> QED BY <3>1 DEF Idle
  <2>2. \A e \in Events : Held(e) => Outstanding(e) BY <2>1 DEF Held, Outstanding
  <2> QED BY <2>2 DEF ConsumerInv, Kept, Exhausted, NothingLost
<1> QED BY <1>1, ConsumerInvariance, PTL
=============================================================================
