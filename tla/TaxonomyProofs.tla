--------------------------- MODULE TaxonomyProofs ---------------------------
(***************************************************************************)
(* The taxonomy and what depends on it: that the read copy follows the     *)
(* master, that a transaction keeps a pair of category and subcategory     *)
(* that belong together, that a manual choice stays and that the learned   *)
(* rule decides; and of its installation and the move of the references    *)
(* to it, that only what was approved is written and a key has one id, for *)
(* any taxonomy, references, mapping and number of scans, installations    *)
(* and requests.                                                           *)
(***************************************************************************)
EXTENDS Categorization, Reclassification, FiniteSetTheorems, SequenceTheorems, NaturalsInduction, WellFoundedInduction, TLAPS

-----------------------------------------------------------------------------
(* The taxonomy: its tables, the log of its events and the read copy.      *)

CategoryTypes == {"category.created", "category.updated", "category.deleted"}

SubTypes == {"subcategory.created", "subcategory.updated", "subcategory.deleted"}

Deletions == {"category.deleted", "subcategory.deleted"}

CategoryNames == Names \cup {StoredCategories[c] : c \in DOMAIN StoredCategories}

SubRows ==
    [name : SubNames, parent : CategoryIds] \cup {StoredSubs[s] : s \in DOMAIN StoredSubs}

TaxonomyEvents ==
    [type : CategoryTypes, key : {"category"} \X CategoryIds, row : CategoryNames]
        \cup [type : SubTypes, key : {"sub"} \X SubIds, row : SubRows]

Table(f, ids, rows) == DOMAIN f \subseteq ids /\ f \in [DOMAIN f -> rows]

TaxonomyTypeOK ==
    /\ Table(categories, CategoryIds, CategoryNames) /\ Table(subcategories, SubIds, SubRows)
    /\ Table(copyCategories, CategoryIds, CategoryNames) /\ Table(copySubs, SubIds, SubRows)
    /\ log \in Seq(TaxonomyEvents) /\ queue \in Seq(1..Len(log))
    /\ inbox \subseteq 1..Len(log)
    /\ disturbed \in BOOLEAN

(* While nothing disturbed the queue, the events handled are the first of  *)
(* the log, and those not handled wait in the order of the log.            *)
QueueInOrder ==
    ~ disturbed =>
        /\ \A n \in inbox : \A m \in 1..n : m \in inbox
        /\ \A n \in 1..Len(log) : n \in inbox \/ \E i \in 1..Len(queue) : queue[i] = n
        /\ \A i, j \in 1..Len(queue) :
              i < j /\ queue[i] \notin inbox /\ queue[j] \notin inbox => queue[i] < queue[j]

(* A table has what the last of the events S about a row says, and what    *)
(* was seeded where there is none.                                         *)
Untouched(l, S, key, held, stored) ==
    /\ \A n \in S : l[n].key # key
    /\ key[2] \in DOMAIN held <=> key[2] \in DOMAIN stored
    /\ key[2] \in DOMAIN stored => held[key[2]] = stored[key[2]]

LastSays(l, S, key, held) ==
    \E n \in S :
        /\ l[n].key = key
        /\ \A m \in S : l[m].key = key => m <= n
        /\ key[2] \in DOMAIN held <=> l[n].type \notin Deletions
        /\ key[2] \in DOMAIN held => held[key[2]] = l[n].row

Settled(l, S, key, held, stored) == Untouched(l, S, key, held, stored) \/ LastSays(l, S, key, held)

SettledTables(l, S, cats, subs) ==
    /\ \A c \in CategoryIds : Settled(l, S, <<"category", c>>, cats, StoredCategories)
    /\ \A s \in SubIds : Settled(l, S, <<"sub", s>>, subs, StoredSubs)

MasterSettled == SettledTables(log, 1..Len(log), categories, subcategories)

CopySettled == ~ disturbed => SettledTables(log, inbox, copyCategories, copySubs)

CopyInv == TaxonomyTypeOK /\ QueueInOrder /\ MasterSettled /\ CopySettled
-----------------------------------------------------------------------------
(* The pairs of a category and one of its subcategories, wherever they are *)
(* kept: in the tables, in the events, in the engines and in a session.    *)

PairKnown(row) == row.sub # 0 => <<row.category, row.sub>> \in parents

(* In a row of the ledger it may also be the pair the row was entered with. *)
PairKept(row) == row.sub # 0 => <<row.category, row.sub>> \in parents \cup {row.sent}

TaxonomyPairs ==
    /\ \A pair \in parents : pair = <<pair[1], pair[2]>>
    /\ \A s \in DOMAIN subcategories : <<subcategories[s].parent, s>> \in parents
    /\ \A s \in DOMAIN copySubs : <<copySubs[s].parent, s>> \in parents
    /\ \A n \in 1..Len(log) :
          log[n].key[1] = "sub" => <<log[n].row.parent, log[n].key[2]>> \in parents

(* An engine's lookup and fallback name subcategories it was built from.   *)
EngineOK(e) ==
    /\ \A s \in DOMAIN e.subs : <<e.subs[s].parent, s>> \in parents
    /\ \A n \in DOMAIN e.lookup : e.lookup[n] \in DOMAIN e.subs /\ e.subs[e.lookup[n]].name = n
    /\ DOMAIN e.lookup = {e.subs[s].name : s \in DOMAIN e.subs}
    /\ e.fallback \in DOMAIN e.subs \cup {0}

EnginesOK == DOMAIN engine = Processes /\ \A p \in Processes : EngineOK(engine[p])

EventsOK ==
    \A e \in bus :
        /\ e.type = "transaction.created" => e.description \in Descriptions
        /\ e.type = "transaction.categorized" => PairKnown(e)

RowFields == {"state", "description", "category", "sub", "tier", "sent"}

IsRow(row) == row = [f \in RowFields |-> row[f]]

RowsOK ==
    /\ importing \subseteq Descriptions
    /\ DOMAIN transactions \subseteq TxIds
    /\ \A t \in DOMAIN transactions : IsRow(transactions[t])

(* A session holds the row as it is, but for a deletion, unless another    *)
(* session committed meanwhile.                                            *)
Holds(session) ==
    session.tx # 0 =>
        /\ session.tx \in DOMAIN transactions
        /\ IsRow(session.read) /\ IsRow(session.new)
        /\ session.new.state = session.read.state
        /\ session.tx \notin overlapped =>
              /\ PairKept(session.new)
              /\ \A f \in RowFields \ {"state"} : session.read[f] = transactions[session.tx][f]

(* A categorisation leaves a manual choice as it read it. *)
LeavesManual ==
    categorizing.tx # 0 /\ categorizing.read.tier = "manual" => categorizing.new = categorizing.read

SessionsOK == Holds(editing) /\ Holds(categorizing) /\ LeavesManual

LedgerInv == TaxonomyPairs /\ EnginesOK /\ EventsOK /\ RowsOK /\ SessionsOK /\ PairsBelong

(* Where a rule came from shows in its priority, and its target is there.  *)
RuleOK(k) ==
    /\ k = <<k[1], k[2]>>
    /\ rules[k].target \in DOMAIN subcategories
    /\ rules[k].priority \in {LEARNED_RULE_PRIORITY} \cup 20..90
    /\ rules[k].priority = LEARNED_RULE_PRIORITY => k[1] = "merchant"

RulesOK == \A k \in DOMAIN rules : RuleOK(k)

-----------------------------------------------------------------------------
(* Tables and sequences *)

(* A row is inserted into a table, or written over the one it has. *)
LEMMA WithTable ==
    ASSUME NEW f, NEW ids, NEW rows, Table(f, ids, rows), NEW x \in ids, NEW row \in rows
    PROVE  /\ Table(With(f, x, row), ids, rows)
           /\ DOMAIN With(f, x, row) = DOMAIN f \cup {x}
           /\ With(f, x, row)[x] = row
           /\ \A y \in DOMAIN f \ {x} : With(f, x, row)[y] = f[y]
  BY DEF Table, With

LEMMA ExceptTable ==
    ASSUME NEW f, NEW ids, NEW rows, Table(f, ids, rows), NEW x \in DOMAIN f, NEW row \in rows
    PROVE  /\ Table([f EXCEPT ![x] = row], ids, rows)
           /\ DOMAIN [f EXCEPT ![x] = row] = DOMAIN f
           /\ [f EXCEPT ![x] = row][x] = row
           /\ \A y \in DOMAIN f \ {x} : [f EXCEPT ![x] = row][y] = f[y]
  BY DEF Table

LEMMA WithoutTable ==
    ASSUME NEW f, NEW ids, NEW rows, Table(f, ids, rows), NEW x
    PROVE  /\ Table(Without(f, x), ids, rows)
           /\ DOMAIN Without(f, x) = DOMAIN f \ {x}
           /\ \A y \in DOMAIN f \ {x} : Without(f, x)[y] = f[y]
  BY DEF Table, Without

LEMMA AppendTo ==
    ASSUME NEW S, NEW s \in Seq(S), NEW T, S \subseteq T, NEW x \in T
    PROVE  /\ Append(s, x) \in Seq(T) /\ Len(s) \in Nat
           /\ Len(Append(s, x)) = Len(s) + 1
           /\ \A i \in 1..Len(s) : Append(s, x)[i] = s[i]
           /\ Append(s, x)[Len(s) + 1] = x
  BY SMTT(20)

LEMMA TailOf ==
    ASSUME NEW S, NEW s \in Seq(S), s # <<>>
    PROVE  /\ Len(s) \in Nat /\ Len(s) >= 1
           /\ Head(s) = s[1] /\ Head(s) \in S
           /\ Tail(s) \in Seq(S) /\ Len(Tail(s)) = Len(s) - 1
           /\ \A i \in 1..Len(s) - 1 : Tail(s)[i] = s[i + 1]
  BY SMTT(20)

LEMMA Least ==
    ASSUME NEW S \in SUBSET Nat, S # {}
    PROVE  \E k \in S : \A i \in S : ~ (i < k)
  <1> DEFINE R == OpToRel(<, Nat)
  <1>1. IsWellFoundedOn(R, Nat)
    BY NatLessThanWellFounded
  <1>2. \A x, y \in Nat : y < x => <<y, x>> \in R
    BY DEF OpToRel
  <1> HIDE DEF R
  <1>3. PICK k \in S : \A i \in S : ~ (<<i, k>> \in R)
    BY <1>1, WFMin
  <1> QED
    BY <1>2, <1>3

(* A nonempty set of naturals has a least element, and Min finds it.       *)
LEMMA MinOfNats ==
    ASSUME NEW S, S \subseteq Nat, S # {}
    PROVE  Min(S) \in S /\ \A n \in S : Min(S) <= n
  <1>1. PICK k \in S : \A i \in S : ~ (i < k)
    BY Least
  <1>2. \A i \in S : k <= i
    BY <1>1
  <1> QED
    BY <1>2 DEF Min

-----------------------------------------------------------------------------
(* The master: every change appends its event. *)

LEMMA CopyInitially ==
    ASSUME TaxonomyInit
    PROVE  CopyInv
  <1>1. Table(StoredCategories, CategoryIds, CategoryNames) /\ Table(StoredSubs, SubIds, SubRows)
    BY TaxonomyAssumption DEF Table, CategoryNames, SubRows
  <1>2. Len(log) = 0 /\ log \in Seq(TaxonomyEvents) /\ queue \in Seq(1..Len(log))
    BY DEF TaxonomyInit
  <1>3. TaxonomyTypeOK
    BY <1>1, <1>2 DEF TaxonomyInit, TaxonomyTypeOK
  <1>4. QueueInOrder
    BY <1>2 DEF TaxonomyInit, QueueInOrder
  <1>5. 1..Len(log) = {} /\ inbox = {}
    BY <1>2 DEF TaxonomyInit
  <1>6. SettledTables(log, {}, StoredCategories, StoredSubs)
    BY DEF SettledTables, Settled, Untouched
  <1>7. MasterSettled /\ CopySettled
    BY <1>5, <1>6 DEF MasterSettled, CopySettled, TaxonomyInit
  <1> QED
    BY <1>3, <1>4, <1>7 DEF CopyInv

LEMMA LogGrows ==
    ASSUME CopyInv, NEW type, NEW key, NEW row,
           [type |-> type, key |-> key, row |-> row] \in TaxonomyEvents,
           Announce(type, key, row), UNCHANGED <<inbox, disturbed>>
    PROVE  /\ log' \in Seq(TaxonomyEvents) /\ queue' \in Seq(1..Len(log'))
           /\ inbox' \subseteq 1..Len(log')
           /\ Len(log) \in Nat /\ Len(log') = Len(log) + 1
           /\ log'[Len(log) + 1] = [type |-> type, key |-> key, row |-> row]
           /\ \A n \in 1..Len(log) : log'[n] = log[n]
           /\ QueueInOrder'
  <1> DEFINE e == [type |-> type, key |-> key, row |-> row]
  <1> HIDE DEF e
  <1>1. log \in Seq(TaxonomyEvents) /\ queue \in Seq(1..Len(log)) /\ inbox \subseteq 1..Len(log)
    BY DEF CopyInv, TaxonomyTypeOK
  <1>2. log' = Append(log, e) /\ queue' = Append(queue, Len(log) + 1) /\ e \in TaxonomyEvents
    BY DEF Announce, e
  <1>3. /\ log' \in Seq(TaxonomyEvents) /\ Len(log) \in Nat /\ Len(log') = Len(log) + 1
        /\ \A n \in 1..Len(log) : log'[n] = log[n]
        /\ log'[Len(log) + 1] = e
    BY <1>1, <1>2, AppendTo
  <1>4. /\ queue' \in Seq(1..Len(log')) /\ Len(queue) \in Nat /\ Len(queue') = Len(queue) + 1
        /\ \A i \in 1..Len(queue) : queue'[i] = queue[i]
        /\ queue'[Len(queue) + 1] = Len(log) + 1
    <2>1. 1..Len(log) \subseteq 1..Len(log') /\ Len(log) + 1 \in 1..Len(log')
      BY <1>3
    <2> QED
      BY <1>1, <1>2, <2>1, AppendTo
  <1>5. inbox' \subseteq 1..Len(log')
    BY <1>1, <1>3
  <1>6. QueueInOrder'
    <2> SUFFICES ASSUME ~ disturbed PROVE QueueInOrder'
      BY DEF QueueInOrder
    <2>1. /\ \A n \in inbox : \A m \in 1..n : m \in inbox
          /\ \A n \in 1..Len(log) : n \in inbox \/ \E i \in 1..Len(queue) : queue[i] = n
          /\ \A i, j \in 1..Len(queue) :
                i < j /\ queue[i] \notin inbox /\ queue[j] \notin inbox => queue[i] < queue[j]
      BY DEF CopyInv, QueueInOrder
    <2>2. ASSUME NEW n \in 1..Len(log') PROVE n \in inbox' \/ \E i \in 1..Len(queue') : queue'[i] = n
      <3>1. CASE n = Len(log) + 1
        BY <3>1, <1>4
      <3>2. CASE n # Len(log) + 1
        <4>1. n \in 1..Len(log)
          BY <3>2, <1>3
        <4>2. CASE n \in inbox
          BY <4>2
        <4>3. CASE n \notin inbox
          <5>1. PICK i \in 1..Len(queue) : queue[i] = n
            BY <2>1, <4>1, <4>3
          <5>2. i \in 1..Len(queue') /\ queue'[i] = n
            BY <5>1, <1>4
          <5> QED
            BY <5>2
        <4> QED
          BY <4>2, <4>3
      <3> QED
        BY <3>1, <3>2
    <2>3. ASSUME NEW i \in 1..Len(queue'), NEW j \in 1..Len(queue'), i < j,
                 queue'[i] \notin inbox', queue'[j] \notin inbox'
          PROVE  queue'[i] < queue'[j]
      <3>1. i \in 1..Len(queue) /\ queue'[i] = queue[i] /\ queue[i] \in 1..Len(log)
        BY SMTT(30), <2>3, <1>4, <1>1
      <3>2. CASE j = Len(queue) + 1
        BY <3>1, <3>2, <1>4, <1>3
      <3>3. CASE j # Len(queue) + 1
        <4>1. j \in 1..Len(queue) /\ queue'[j] = queue[j]
          BY <3>3, <1>4
        <4> QED
          BY <4>1, <3>1, <2>1, <2>3
      <3> QED
        BY <3>2, <3>3
    <2> QED
      BY <2>1, <2>2, <2>3 DEF QueueInOrder
  <1> QED
    BY <1>3, <1>4, <1>5, <1>6 DEF e

(* What is settled stays so: the row and the events about it are the same. *)
LEMMA StaysSettled ==
    ASSUME NEW l, NEW S, NEW key, NEW f, NEW stored, Settled(l, S, key, f, stored),
           NEW l2, NEW T, NEW g,
           S \subseteq T, \A n \in S : l2[n].key = l[n].key /\ l2[n].type = l[n].type /\ l2[n].row = l[n].row,
           \A n \in T \ S : l2[n].key # key,
           key[2] \in DOMAIN g <=> key[2] \in DOMAIN f,
           key[2] \in DOMAIN f => g[key[2]] = f[key[2]]
    PROVE  Settled(l2, T, key, g, stored)
  <1>1. CASE Untouched(l, S, key, f, stored)
    <2>1. Untouched(l2, T, key, g, stored)
      BY <1>1 DEF Untouched
    <2> QED
      BY <2>1 DEF Settled
  <1>2. CASE LastSays(l, S, key, f)
    <2>1. PICK n \in S : /\ l[n].key = key
                         /\ \A m \in S : l[m].key = key => m <= n
                         /\ key[2] \in DOMAIN f <=> l[n].type \notin Deletions
                         /\ key[2] \in DOMAIN f => f[key[2]] = l[n].row
      BY <1>2 DEF LastSays
    <2>2. n \in T /\ l2[n].key = key
      BY <2>1
    <2>3. \A m \in T : l2[m].key = key => m <= n
      BY <2>1
    <2>4. key[2] \in DOMAIN g <=> l2[n].type \notin Deletions
      BY <2>1
    <2>5. key[2] \in DOMAIN g => g[key[2]] = l2[n].row
      BY <2>1
    <2>6. LastSays(l2, T, key, g)
      BY <2>2, <2>3, <2>4, <2>5 DEF LastSays
    <2> QED
      BY <2>6 DEF Settled
  <1> QED
    BY <1>1, <1>2 DEF Settled

(* The row an event is about is settled by it when no later one is known. *)
LEMMA SettledByLast ==
    ASSUME NEW l, NEW T, NEW key, NEW g, NEW stored, NEW n \in T,
           l[n].key = key, \A m \in T : m <= n,
           key[2] \in DOMAIN g <=> l[n].type \notin Deletions,
           key[2] \in DOMAIN g => g[key[2]] = l[n].row
    PROVE  Settled(l, T, key, g, stored)
  BY DEF Settled, LastSays

LEMMA SettledCopyKept ==
    ASSUME CopyInv, NEW type, NEW key, NEW row,
           [type |-> type, key |-> key, row |-> row] \in TaxonomyEvents,
           Announce(type, key, row), UNCHANGED <<inbox, copyCategories, copySubs, disturbed>>
    PROVE  CopySettled'
  <1> SUFFICES ASSUME ~ disturbed PROVE SettledTables(log', inbox, copyCategories, copySubs)
    BY DEF CopySettled
  <1>1. SettledTables(log, inbox, copyCategories, copySubs)
    BY DEF CopyInv, CopySettled
  <1>2. \A n \in inbox : log'[n] = log[n]
    BY LogGrows DEF CopyInv, TaxonomyTypeOK
  <1>3. ASSUME NEW c \in CategoryIds
        PROVE  Settled(log', inbox, <<"category", c>>, copyCategories, StoredCategories)
    <2>1. Settled(log, inbox, <<"category", c>>, copyCategories, StoredCategories)
      BY <1>1 DEF SettledTables
    <2> QED
      BY <2>1, <1>2, StaysSettled
  <1>4. ASSUME NEW s \in SubIds
        PROVE  Settled(log', inbox, <<"sub", s>>, copySubs, StoredSubs)
    <2>1. Settled(log, inbox, <<"sub", s>>, copySubs, StoredSubs)
      BY <1>1 DEF SettledTables
    <2> QED
      BY <2>1, <1>2, StaysSettled
  <1> QED
    BY <1>3, <1>4 DEF SettledTables

(* One row of the master changes and its event says so. *)
LEMMA CategoryChanges ==
    ASSUME CopyInv, NEW type \in CategoryTypes, NEW c \in CategoryIds, NEW row \in CategoryNames,
           Announce(type, <<"category", c>>, row),
           UNCHANGED <<subcategories, inbox, copyCategories, copySubs, disturbed>>,
           Table(categories', CategoryIds, CategoryNames),
           c \in DOMAIN categories' <=> type \notin Deletions,
           c \in DOMAIN categories' => categories'[c] = row,
           \A d \in CategoryIds \ {c} :
               /\ d \in DOMAIN categories' <=> d \in DOMAIN categories
               /\ d \in DOMAIN categories => categories'[d] = categories[d]
    PROVE  CopyInv'
  <1>1. [type |-> type, key |-> <<"category", c>>, row |-> row] \in TaxonomyEvents
    BY DEF TaxonomyEvents
  <1>2. /\ log' \in Seq(TaxonomyEvents) /\ queue' \in Seq(1..Len(log'))
        /\ inbox' \subseteq 1..Len(log') /\ Len(log) \in Nat /\ Len(log') = Len(log) + 1
        /\ log'[Len(log) + 1] = [type |-> type, key |-> <<"category", c>>, row |-> row]
        /\ \A n \in 1..Len(log) : log'[n] = log[n]
        /\ QueueInOrder'
    BY <1>1, LogGrows
  <1>3. TaxonomyTypeOK'
    BY <1>2 DEF CopyInv, TaxonomyTypeOK
  <1>4. CopySettled'
    BY <1>1, SettledCopyKept
  <1>5. SettledTables(log, 1..Len(log), categories, subcategories)
    BY DEF CopyInv, MasterSettled
  <1>6. ASSUME NEW s \in SubIds
        PROVE  Settled(log', 1..Len(log'), <<"sub", s>>, subcategories', StoredSubs)
    <2>1. Settled(log, 1..Len(log), <<"sub", s>>, subcategories, StoredSubs)
      BY <1>5 DEF SettledTables
    <2>2. \A n \in (1..Len(log')) \ (1..Len(log)) : log'[n].key # <<"sub", s>>
      BY <1>2
    <2>3. 1..Len(log) \subseteq 1..Len(log')
      BY <1>2
    <2>4. \A n \in 1..Len(log) : /\ log'[n].key = log[n].key /\ log'[n].type = log[n].type
                                 /\ log'[n].row = log[n].row
      BY <1>2
    <2> QED
      BY <2>1, <2>2, <2>3, <2>4, StaysSettled
  <1>7. ASSUME NEW d \in CategoryIds
        PROVE  Settled(log', 1..Len(log'), <<"category", d>>, categories', StoredCategories)
    <2>1. CASE d = c
      <3>1. Len(log') \in 1..Len(log') /\ \A m \in 1..Len(log') : m <= Len(log')
        BY <1>2
      <3>2. /\ log'[Len(log')].key = <<"category", d>> /\ log'[Len(log')].type = type
            /\ log'[Len(log')].row = row
        BY <1>2, <2>1
      <3> QED
        BY <3>1, <3>2, <2>1, SettledByLast
    <2>2. CASE d # c
      <3>1. Settled(log, 1..Len(log), <<"category", d>>, categories, StoredCategories)
        BY <1>5 DEF SettledTables
      <3>2. \A n \in (1..Len(log')) \ (1..Len(log)) : log'[n].key # <<"category", d>>
        BY <1>2, <2>2
      <3>3. 1..Len(log) \subseteq 1..Len(log')
        BY <1>2
      <3>4. \A n \in 1..Len(log) : /\ log'[n].key = log[n].key /\ log'[n].type = log[n].type
                                   /\ log'[n].row = log[n].row
        BY <1>2
      <3>5. /\ d \in DOMAIN categories' <=> d \in DOMAIN categories
            /\ d \in DOMAIN categories => categories'[d] = categories[d]
        BY <2>2
      <3> QED
        BY ONLY <3>1, <3>2, <3>3, <3>4, <3>5, StaysSettled
    <2> QED
      BY <2>1, <2>2
  <1>8. MasterSettled'
    BY <1>6, <1>7 DEF MasterSettled, SettledTables
  <1> QED
    BY <1>2, <1>3, <1>4, <1>8 DEF CopyInv

LEMMA SubChanges ==
    ASSUME CopyInv, NEW type \in SubTypes, NEW s \in SubIds, NEW row \in SubRows,
           Announce(type, <<"sub", s>>, row),
           UNCHANGED <<categories, inbox, copyCategories, copySubs, disturbed>>,
           Table(subcategories', SubIds, SubRows),
           s \in DOMAIN subcategories' <=> type \notin Deletions,
           s \in DOMAIN subcategories' => subcategories'[s] = row,
           \A d \in SubIds \ {s} :
               /\ d \in DOMAIN subcategories' <=> d \in DOMAIN subcategories
               /\ d \in DOMAIN subcategories => subcategories'[d] = subcategories[d]
    PROVE  CopyInv'
  <1>1. [type |-> type, key |-> <<"sub", s>>, row |-> row] \in TaxonomyEvents
    BY DEF TaxonomyEvents
  <1>2. /\ log' \in Seq(TaxonomyEvents) /\ queue' \in Seq(1..Len(log'))
        /\ inbox' \subseteq 1..Len(log') /\ Len(log) \in Nat /\ Len(log') = Len(log) + 1
        /\ log'[Len(log) + 1] = [type |-> type, key |-> <<"sub", s>>, row |-> row]
        /\ \A n \in 1..Len(log) : log'[n] = log[n]
        /\ QueueInOrder'
    BY <1>1, LogGrows
  <1>3. TaxonomyTypeOK'
    BY <1>2 DEF CopyInv, TaxonomyTypeOK
  <1>4. CopySettled'
    BY <1>1, SettledCopyKept
  <1>5. SettledTables(log, 1..Len(log), categories, subcategories)
    BY DEF CopyInv, MasterSettled
  <1>6. ASSUME NEW c \in CategoryIds
        PROVE  Settled(log', 1..Len(log'), <<"category", c>>, categories', StoredCategories)
    <2>1. Settled(log, 1..Len(log), <<"category", c>>, categories, StoredCategories)
      BY <1>5 DEF SettledTables
    <2>2. \A n \in (1..Len(log')) \ (1..Len(log)) : log'[n].key # <<"category", c>>
      BY <1>2
    <2>3. 1..Len(log) \subseteq 1..Len(log')
      BY <1>2
    <2>4. \A n \in 1..Len(log) : /\ log'[n].key = log[n].key /\ log'[n].type = log[n].type
                                 /\ log'[n].row = log[n].row
      BY <1>2
    <2> QED
      BY <2>1, <2>2, <2>3, <2>4, StaysSettled
  <1>7. ASSUME NEW d \in SubIds
        PROVE  Settled(log', 1..Len(log'), <<"sub", d>>, subcategories', StoredSubs)
    <2>1. CASE d = s
      <3>1. Len(log') \in 1..Len(log') /\ \A m \in 1..Len(log') : m <= Len(log')
        BY <1>2
      <3>2. /\ log'[Len(log')].key = <<"sub", d>> /\ log'[Len(log')].type = type
            /\ log'[Len(log')].row = row
        BY <1>2, <2>1
      <3> QED
        BY <3>1, <3>2, <2>1, SettledByLast
    <2>2. CASE d # s
      <3>1. Settled(log, 1..Len(log), <<"sub", d>>, subcategories, StoredSubs)
        BY <1>5 DEF SettledTables
      <3>2. \A n \in (1..Len(log')) \ (1..Len(log)) : log'[n].key # <<"sub", d>>
        BY <1>2, <2>2
      <3>3. 1..Len(log) \subseteq 1..Len(log')
        BY <1>2
      <3>4. \A n \in 1..Len(log) : /\ log'[n].key = log[n].key /\ log'[n].type = log[n].type
                                   /\ log'[n].row = log[n].row
        BY <1>2
      <3>5. /\ d \in DOMAIN subcategories' <=> d \in DOMAIN subcategories
            /\ d \in DOMAIN subcategories => subcategories'[d] = subcategories[d]
        BY <2>2
      <3> QED
        BY ONLY <3>1, <3>2, <3>3, <3>4, <3>5, StaysSettled
    <2> QED
      BY <2>1, <2>2
  <1>8. MasterSettled'
    BY <1>6, <1>7 DEF MasterSettled, SettledTables
  <1> QED
    BY <1>2, <1>3, <1>4, <1>8 DEF CopyInv

LEMMA CategoryRoutes ==
    ASSUME CopyInv, NEW name \in Names,
           post_category(name) \/ \E c \in CategoryIds : put_category(c, name)
    PROVE  CopyInv'
  <1>1. /\ Table(categories, CategoryIds, CategoryNames)
        /\ UNCHANGED <<subcategories, inbox, copyCategories, copySubs, disturbed>>
        /\ name \in CategoryNames
    BY DEF CopyInv, TaxonomyTypeOK, post_category, put_category, create_category,
           update_category, TaxonomyRoute, CategoryNames
  <1>2. CASE post_category(name)
    <2>1. PICK c \in NextId(CategoryIds, categories, "category") :
             insert_category(c, name) /\ Announce("category.created", <<"category", c>>, name)
      BY <1>2 DEF post_category, create_category
    <2>2. c \in CategoryIds
      BY DEF NextId
    <2>3. categories' = With(categories, c, name)
      BY <2>1 DEF insert_category
    <2>4. /\ Table(categories', CategoryIds, CategoryNames)
          /\ DOMAIN categories' = DOMAIN categories \cup {c}
          /\ categories'[c] = name
          /\ \A y \in DOMAIN categories \ {c} : categories'[y] = categories[y]
      BY <1>1, <2>2, <2>3 DEF Table, With
    <2>5. \A d \in CategoryIds \ {c} : /\ d \in DOMAIN categories' <=> d \in DOMAIN categories
                                      /\ d \in DOMAIN categories => categories'[d] = categories[d]
      BY <2>4
    <2>6. "category.created" \in CategoryTypes /\ "category.created" \notin Deletions
      BY DEF CategoryTypes, Deletions
    <2> QED
      BY <1>1, <2>1, <2>2, <2>4, <2>5, <2>6, CategoryChanges
  <1>3. ASSUME NEW k \in CategoryIds, put_category(k, name) PROVE CopyInv'
    <2>1. /\ k \in DOMAIN categories /\ categories' = [categories EXCEPT ![k] = name]
          /\ Announce("category.updated", <<"category", k>>, name)
      BY <1>3 DEF put_category, update_category, find_category, write_category
    <2>2. /\ Table(categories', CategoryIds, CategoryNames)
          /\ DOMAIN categories' = DOMAIN categories
          /\ categories'[k] = name
          /\ \A y \in DOMAIN categories \ {k} : categories'[y] = categories[y]
      BY <1>1, <2>1, ExceptTable
    <2> QED
      BY <1>1, <2>1, <2>2, CategoryChanges DEF CategoryTypes, Deletions
  <1> QED
    BY <1>2, <1>3

LEMMA RemoveCategoryRoute ==
    ASSUME CopyInv, NEW k \in CategoryIds, remove_category_route(k)
    PROVE  CopyInv'
  <1>1. /\ Table(categories, CategoryIds, CategoryNames)
        /\ UNCHANGED <<subcategories, inbox, copyCategories, copySubs, disturbed>>
    BY DEF CopyInv, TaxonomyTypeOK, remove_category_route, delete_category, TaxonomyRoute
  <1>2. /\ k \in DOMAIN categories /\ categories' = Without(categories, k)
        /\ Announce("category.deleted", <<"category", k>>, categories[k])
    BY DEF remove_category_route, delete_category, find_category, remove_category
  <1>3. /\ Table(categories', CategoryIds, CategoryNames)
        /\ DOMAIN categories' = DOMAIN categories \ {k}
        /\ \A y \in DOMAIN categories \ {k} : categories'[y] = categories[y]
    BY <1>1, <1>2, WithoutTable
  <1>4. categories[k] \in CategoryNames
    BY <1>1, <1>2 DEF Table
  <1> QED
    BY <1>1, <1>2, <1>3, <1>4, CategoryChanges DEF CategoryTypes, Deletions

LEMMA SubRoutes ==
    ASSUME CopyInv, NEW c \in CategoryIds, NEW name \in SubNames,
           post_subcategory(c, name) \/ \E s \in SubIds : put_subcategory(s, name, c)
    PROVE  CopyInv'
  <1>1. /\ Table(subcategories, SubIds, SubRows)
        /\ UNCHANGED <<categories, inbox, copyCategories, copySubs, disturbed>>
        /\ SubCategoryRow(name, c) \in SubRows
    BY DEF CopyInv, TaxonomyTypeOK, post_subcategory, put_subcategory, create_subcategory,
           update_subcategory, TaxonomyRoute, SubCategoryRow, SubRows
  <1>2. CASE post_subcategory(c, name)
    <2>1. PICK s \in NextId(SubIds, subcategories, "sub") :
             /\ insert_subcategory(s, SubCategoryRow(name, c))
             /\ Announce("subcategory.created", <<"sub", s>>, SubCategoryRow(name, c))
      BY <1>2 DEF post_subcategory, create_subcategory
    <2>2. s \in SubIds
      BY DEF NextId
    <2>3. subcategories' = With(subcategories, s, SubCategoryRow(name, c))
      BY <2>1 DEF insert_subcategory
    <2>4. /\ Table(subcategories', SubIds, SubRows)
          /\ DOMAIN subcategories' = DOMAIN subcategories \cup {s}
          /\ subcategories'[s] = SubCategoryRow(name, c)
          /\ \A y \in DOMAIN subcategories \ {s} : subcategories'[y] = subcategories[y]
      <3> DEFINE new == With(subcategories, s, SubCategoryRow(name, c))
      <3>1. /\ Table(new, SubIds, SubRows)
            /\ DOMAIN new = DOMAIN subcategories \cup {s}
            /\ new[s] = SubCategoryRow(name, c)
            /\ \A y \in DOMAIN subcategories \ {s} : new[y] = subcategories[y]
        BY <1>1, <2>2, WithTable
      <3> QED
        BY <2>3, <3>1
    <2>5. \A d \in SubIds \ {s} : /\ d \in DOMAIN subcategories' <=> d \in DOMAIN subcategories
                                 /\ d \in DOMAIN subcategories => subcategories'[d] = subcategories[d]
      BY <2>4
    <2>6. "subcategory.created" \in SubTypes /\ "subcategory.created" \notin Deletions
      BY DEF SubTypes, Deletions
    <2> QED
      BY <1>1, <2>1, <2>2, <2>4, <2>5, <2>6, SubChanges
  <1>3. ASSUME NEW k \in SubIds, put_subcategory(k, name, c) PROVE CopyInv'
    <2>1. /\ k \in DOMAIN subcategories
          /\ subcategories' = [subcategories EXCEPT ![k] = SubCategoryRow(name, c)]
          /\ Announce("subcategory.updated", <<"sub", k>>, SubCategoryRow(name, c))
      BY <1>3 DEF put_subcategory, update_subcategory, find_subcategory, write_subcategory
    <2>2. /\ Table(subcategories', SubIds, SubRows)
          /\ DOMAIN subcategories' = DOMAIN subcategories
          /\ subcategories'[k] = SubCategoryRow(name, c)
          /\ \A y \in DOMAIN subcategories \ {k} : subcategories'[y] = subcategories[y]
      BY <1>1, <2>1, ExceptTable
    <2> QED
      BY <1>1, <2>1, <2>2, SubChanges DEF SubTypes, Deletions
  <1> QED
    BY <1>2, <1>3

LEMMA RemoveSubRoute ==
    ASSUME CopyInv, NEW k \in SubIds, remove_subcategory_route(k)
    PROVE  CopyInv'
  <1>1. /\ Table(subcategories, SubIds, SubRows)
        /\ UNCHANGED <<categories, inbox, copyCategories, copySubs, disturbed>>
    BY DEF CopyInv, TaxonomyTypeOK, remove_subcategory_route, delete_subcategory, TaxonomyRoute
  <1>2. /\ k \in DOMAIN subcategories /\ subcategories' = Without(subcategories, k)
        /\ Announce("subcategory.deleted", <<"sub", k>>, subcategories[k])
    BY DEF remove_subcategory_route, delete_subcategory, find_subcategory, remove_subcategory
  <1>3. /\ Table(subcategories', SubIds, SubRows)
        /\ DOMAIN subcategories' = DOMAIN subcategories \ {k}
        /\ \A y \in DOMAIN subcategories \ {k} : subcategories'[y] = subcategories[y]
    BY <1>1, <1>2, WithoutTable
  <1>4. subcategories[k] \in SubRows
    BY <1>1, <1>2 DEF Table
  <1> QED
    BY <1>1, <1>2, <1>3, <1>4, SubChanges DEF SubTypes, Deletions

LEMMA TaxonomyRequestKeepsCopy ==
    ASSUME CopyInv, TaxonomyRequest
    PROVE  CopyInv'
  <1>1. ASSUME NEW name \in Names, post_category(name) \/ \E c \in CategoryIds : put_category(c, name)
        PROVE  CopyInv'
    BY <1>1, CategoryRoutes
  <1>2. ASSUME NEW c \in CategoryIds, remove_category_route(c)
        PROVE  CopyInv'
    BY <1>2, RemoveCategoryRoute
  <1>3. ASSUME NEW c \in CategoryIds, NEW name \in SubNames,
               post_subcategory(c, name) \/ \E s \in SubIds : put_subcategory(s, name, c)
        PROVE  CopyInv'
    BY <1>3, SubRoutes
  <1>4. ASSUME NEW s \in SubIds, remove_subcategory_route(s)
        PROVE  CopyInv'
    BY <1>4, RemoveSubRoute
  <1> QED
    BY <1>1, <1>2, <1>3, <1>4 DEF TaxonomyRequest

-----------------------------------------------------------------------------
(* The read copy: a delivery is handled, fails or is repeated. *)

LEMMA EventShape ==
    ASSUME NEW e \in TaxonomyEvents
    PROVE  \/ e.type \in CategoryTypes /\ e.key[1] = "category" /\ e.key[2] \in CategoryIds
                /\ e.key = <<"category", e.key[2]>> /\ e.row \in CategoryNames
           \/ e.type \in SubTypes /\ e.key[1] = "sub" /\ e.key[2] \in SubIds
                /\ e.key = <<"sub", e.key[2]>> /\ e.row \in SubRows
  BY DEF TaxonomyEvents

(* A delivery that is new is the first of the log that is not handled.     *)
LEMMA HeadIsNext ==
    ASSUME CopyInv, ~ disturbed, queue # <<>>, Head(queue) \notin inbox
    PROVE  /\ Head(queue) \in 1..Len(log)
           /\ \A n \in inbox : n < Head(queue)
           /\ \A n \in 1..Len(log) : n < Head(queue) => n \in inbox
  <1>1. queue \in Seq(1..Len(log)) /\ inbox \subseteq 1..Len(log) /\ Len(log) \in Nat
    BY DEF CopyInv, TaxonomyTypeOK
  <1>2. /\ \A n \in inbox : \A m \in 1..n : m \in inbox
        /\ \A n \in 1..Len(log) : n \in inbox \/ \E i \in 1..Len(queue) : queue[i] = n
        /\ \A i, j \in 1..Len(queue) :
              i < j /\ queue[i] \notin inbox /\ queue[j] \notin inbox => queue[i] < queue[j]
    BY DEF CopyInv, QueueInOrder
  <1>3. Len(queue) \in Nat /\ Len(queue) >= 1 /\ Head(queue) = queue[1] /\ Head(queue) \in 1..Len(log)
    BY <1>1, TailOf
  <1>4. ASSUME NEW n \in inbox PROVE n < Head(queue)
    <2>1. n \in 1..Len(log) /\ ~ Head(queue) \in 1..n
      BY <1>1, <1>2
    <2> QED
      BY <2>1, <1>3
  <1>5. ASSUME NEW n \in 1..Len(log), n < Head(queue), n \notin inbox PROVE FALSE
    <2>1. PICK i \in 1..Len(queue) : queue[i] = n
      BY <1>2, <1>5
    <2>2. i # 1 /\ 1 \in 1..Len(queue) /\ 1 < i
      BY <2>1, <1>3, <1>5
    <2>3. queue[1] < queue[i]
      BY <2>1, <2>2, <1>2, <1>3, <1>5
    <2> QED
      BY <2>1, <2>3, <1>3, <1>5
  <1> QED
    BY <1>3, <1>4, <1>5

LEMMA QueueShrinks ==
    ASSUME CopyInv, queue # <<>>, queue' = Tail(queue), inbox' = inbox \cup {Head(queue)},
           UNCHANGED <<log, disturbed>>
    PROVE  queue' \in Seq(1..Len(log)) /\ inbox' \subseteq 1..Len(log) /\ QueueInOrder'
  <1>1. queue \in Seq(1..Len(log)) /\ inbox \subseteq 1..Len(log) /\ Len(log) \in Nat
    BY DEF CopyInv, TaxonomyTypeOK
  <1>2. /\ Len(queue) \in Nat /\ Len(queue) >= 1 /\ Head(queue) = queue[1] /\ Head(queue) \in 1..Len(log)
        /\ queue' \in Seq(1..Len(log)) /\ Len(queue') = Len(queue) - 1
        /\ \A i \in 1..Len(queue) - 1 : queue'[i] = queue[i + 1]
    BY <1>1, TailOf
  <1>3. inbox' \subseteq 1..Len(log)
    BY <1>1, <1>2
  <1>4. QueueInOrder'
    <2> SUFFICES ASSUME ~ disturbed PROVE QueueInOrder'
      BY DEF QueueInOrder
    <2>1. /\ \A n \in inbox : \A m \in 1..n : m \in inbox
          /\ \A n \in 1..Len(log) : n \in inbox \/ \E i \in 1..Len(queue) : queue[i] = n
          /\ \A i, j \in 1..Len(queue) :
                i < j /\ queue[i] \notin inbox /\ queue[j] \notin inbox => queue[i] < queue[j]
      BY DEF CopyInv, QueueInOrder
    <2>2. ASSUME NEW n \in inbox', NEW m \in 1..n PROVE m \in inbox'
      <3>1. CASE n \in inbox
        BY <3>1, <2>1
      <3>2. CASE n \notin inbox
        <4>1. n = Head(queue)
          BY <3>2
        <4>2. CASE m = n
          BY <4>1, <4>2
        <4>3. CASE m # n
          <5>1. m \in 1..Len(log) /\ m < Head(queue)
            BY <4>1, <4>3, <1>2
          <5>2. m \in inbox
            BY <5>1, <4>1, <3>2, HeadIsNext
          <5> QED
            BY <5>2
        <4> QED
          BY <4>2, <4>3
      <3> QED
        BY <3>1, <3>2
    <2>3. ASSUME NEW n \in 1..Len(log), n \notin inbox' PROVE \E i \in 1..Len(queue') : queue'[i] = n
      <3>1. PICK i \in 1..Len(queue) : queue[i] = n
        BY <2>1, <2>3
      <3>2. i # 1
        BY <3>1, <2>3, <1>2
      <3>3. i - 1 \in 1..Len(queue') /\ queue'[i - 1] = n
        BY <3>1, <3>2, <1>2
      <3> QED
        BY <3>3
    <2>4. ASSUME NEW i \in 1..Len(queue'), NEW j \in 1..Len(queue'), i < j,
                 queue'[i] \notin inbox', queue'[j] \notin inbox'
          PROVE  queue'[i] < queue'[j]
      <3>1. /\ i + 1 \in 1..Len(queue) /\ j + 1 \in 1..Len(queue) /\ i + 1 < j + 1
            /\ queue'[i] = queue[i + 1] /\ queue'[j] = queue[j + 1]
        BY <2>4, <1>2
      <3>2. queue[i + 1] \notin inbox /\ queue[j + 1] \notin inbox
        BY <3>1, <2>4
      <3> QED
        BY <3>1, <3>2, <2>1
    <2> QED
      BY <2>2, <2>3, <2>4 DEF QueueInOrder
  <1> QED
    BY <1>2, <1>3, <1>4

(* What a delivery does to the copy, by the kind of the row it is about.   *)
LEMMA Dispatched ==
    ASSUME CopyInv, NEW e \in TaxonomyEvents, _dispatch(e)
    PROVE  /\ Table(copyCategories', CategoryIds, CategoryNames)
           /\ Table(copySubs', SubIds, SubRows)
           /\ e.key[1] = "category" =>
                 /\ e.key[2] \in DOMAIN copyCategories' <=> e.type \notin Deletions
                 /\ e.key[2] \in DOMAIN copyCategories' => copyCategories'[e.key[2]] = e.row
                 /\ \A c \in CategoryIds \ {e.key[2]} :
                       /\ c \in DOMAIN copyCategories' <=> c \in DOMAIN copyCategories
                       /\ c \in DOMAIN copyCategories => copyCategories'[c] = copyCategories[c]
                 /\ copySubs' = copySubs
           /\ e.key[1] = "sub" =>
                 /\ e.key[2] \in DOMAIN copySubs' <=> e.type \notin Deletions
                 /\ e.key[2] \in DOMAIN copySubs' => copySubs'[e.key[2]] = e.row
                 /\ \A s \in SubIds \ {e.key[2]} :
                       /\ s \in DOMAIN copySubs' <=> s \in DOMAIN copySubs
                       /\ s \in DOMAIN copySubs => copySubs'[s] = copySubs[s]
                 /\ copyCategories' = copyCategories
  <1>1. Table(copyCategories, CategoryIds, CategoryNames) /\ Table(copySubs, SubIds, SubRows)
    BY DEF CopyInv, TaxonomyTypeOK
  <1>2. CASE e.type \in CategoryTypes
    <2>1. e.key[1] = "category" /\ e.key[2] \in CategoryIds /\ e.row \in CategoryNames
      BY <1>2, EventShape DEF CategoryTypes, SubTypes
    <2>2. CASE e.type = "category.deleted"
      <3>1. copyCategories' = Without(copyCategories, e.key[2]) /\ copySubs' = copySubs
        BY <2>2 DEF _dispatch, _delete_category
      <3> QED
        BY <1>1, <2>1, <2>2, <3>1 DEF Without, Table, Deletions
    <2>3. CASE e.type # "category.deleted"
      <3>1. copyCategories' = With(copyCategories, e.key[2], e.row) /\ copySubs' = copySubs
        BY <1>2, <2>3 DEF _dispatch, _upsert_category, CategoryTypes
      <3>2. e.type \notin Deletions
        BY <1>2, <2>3 DEF Deletions, CategoryTypes
      <3> QED
        BY <1>1, <2>1, <3>1, <3>2 DEF With, Table
    <2> QED
      BY <2>2, <2>3
  <1>3. CASE e.type \in SubTypes
    <2>1. e.key[1] = "sub" /\ e.key[2] \in SubIds /\ e.row \in SubRows
      BY <1>3, EventShape DEF CategoryTypes, SubTypes
    <2>2. CASE e.type = "subcategory.deleted"
      <3>1. copySubs' = Without(copySubs, e.key[2]) /\ copyCategories' = copyCategories
        BY <2>2 DEF _dispatch, _delete_subcategory
      <3> QED
        BY <1>1, <2>1, <2>2, <3>1 DEF Without, Table, Deletions
    <2>3. CASE e.type # "subcategory.deleted"
      <3>1. copySubs' = With(copySubs, e.key[2], e.row) /\ copyCategories' = copyCategories
        BY <1>3, <2>3 DEF _dispatch, _upsert_subcategory, SubTypes
      <3>2. e.type \notin Deletions
        BY <1>3, <2>3 DEF Deletions, SubTypes
      <3> QED
        BY <1>1, <2>1, <3>1, <3>2 DEF With, Table
    <2> QED
      BY <2>2, <2>3
  <1> QED
    BY <1>2, <1>3, EventShape

LEMMA SyncHandlesKeepsCopy ==
    ASSUME CopyInv, SyncHandles
    PROVE  CopyInv'
  <1>1. /\ queue # <<>> /\ queue' = Tail(queue)
        /\ UNCHANGED <<categories, subcategories, log, disturbed>>
    BY DEF SyncHandles
  <1>2. log \in Seq(TaxonomyEvents) /\ queue \in Seq(1..Len(log)) /\ inbox \subseteq 1..Len(log)
    BY DEF CopyInv, TaxonomyTypeOK
  <1> DEFINE h == Head(queue)
  <1>3. h \in 1..Len(log) /\ log[h] \in TaxonomyEvents
    BY <1>1, <1>2, TailOf
  <1>4. MasterSettled'
    BY <1>1 DEF CopyInv, MasterSettled
  <1>5. inbox' = inbox \cup {h}
    BY DEF SyncHandles, _is_duplicate
  <1>6. queue' \in Seq(1..Len(log)) /\ inbox' \subseteq 1..Len(log) /\ QueueInOrder'
    BY <1>1, <1>5, QueueShrinks
  <1>7. CASE h \in inbox
    <2>1. UNCHANGED <<inbox, copyCategories, copySubs>>
      BY <1>7 DEF SyncHandles, _is_duplicate
    <2>2. TaxonomyTypeOK' /\ CopySettled'
      BY <1>1, <1>6, <2>1 DEF CopyInv, TaxonomyTypeOK, CopySettled
    <2> QED
      BY <1>4, <1>6, <2>2 DEF CopyInv
  <1>8. CASE h \notin inbox
    <2> DEFINE e == log[h]
    <2>1. _dispatch(e)
      BY <1>8 DEF SyncHandles, _is_duplicate
    <2>2. /\ Table(copyCategories', CategoryIds, CategoryNames)
          /\ Table(copySubs', SubIds, SubRows)
          /\ e.key[1] = "category" =>
                /\ e.key[2] \in DOMAIN copyCategories' <=> e.type \notin Deletions
                /\ e.key[2] \in DOMAIN copyCategories' => copyCategories'[e.key[2]] = e.row
                /\ \A c \in CategoryIds \ {e.key[2]} :
                      /\ c \in DOMAIN copyCategories' <=> c \in DOMAIN copyCategories
                      /\ c \in DOMAIN copyCategories => copyCategories'[c] = copyCategories[c]
                /\ copySubs' = copySubs
          /\ e.key[1] = "sub" =>
                /\ e.key[2] \in DOMAIN copySubs' <=> e.type \notin Deletions
                /\ e.key[2] \in DOMAIN copySubs' => copySubs'[e.key[2]] = e.row
                /\ \A s \in SubIds \ {e.key[2]} :
                      /\ s \in DOMAIN copySubs' <=> s \in DOMAIN copySubs
                      /\ s \in DOMAIN copySubs => copySubs'[s] = copySubs[s]
                /\ copyCategories' = copyCategories
      <3> HIDE DEF e
      <3>1. e \in TaxonomyEvents
        BY <1>3 DEF e
      <3> QED
        BY <2>1, <3>1, Dispatched
    <2>3. TaxonomyTypeOK'
      BY <1>1, <1>6, <2>2 DEF CopyInv, TaxonomyTypeOK
    <2>4. CopySettled'
      <3> SUFFICES ASSUME ~ disturbed PROVE SettledTables(log, inbox', copyCategories', copySubs')
        BY <1>1 DEF CopySettled
      <3>1. SettledTables(log, inbox, copyCategories, copySubs)
        BY DEF CopyInv, CopySettled
      <3>2. h \in inbox' /\ inbox \subseteq inbox' /\ \A n \in inbox' \ inbox : n = h
        BY <1>5
      <3>3. \A n \in inbox' : n <= h
        BY <1>1, <1>3, <1>5, <1>8, <1>2, HeadIsNext
      <3>4. ASSUME NEW c \in CategoryIds
            PROVE  Settled(log, inbox', <<"category", c>>, copyCategories', StoredCategories)
        <4>1. CASE log[h].key = <<"category", c>>
          BY <4>1, <2>2, <3>2, <3>3, SettledByLast
        <4>2. CASE log[h].key # <<"category", c>>
          <5>1. Settled(log, inbox, <<"category", c>>, copyCategories, StoredCategories)
            BY <3>1 DEF SettledTables
          <5>2. /\ c \in DOMAIN copyCategories' <=> c \in DOMAIN copyCategories
                /\ c \in DOMAIN copyCategories => copyCategories'[c] = copyCategories[c]
            BY <4>2, <2>2, <1>3, EventShape
          <5>3. \A n \in inbox' \ inbox : log[n].key # <<"category", c>>
            BY <4>2, <3>2
          <5> QED
            BY <5>1, <5>2, <5>3, <3>2, StaysSettled
        <4> QED
          BY <4>1, <4>2
      <3>5. ASSUME NEW s \in SubIds
            PROVE  Settled(log, inbox', <<"sub", s>>, copySubs', StoredSubs)
        <4>1. CASE log[h].key = <<"sub", s>>
          BY <4>1, <2>2, <3>2, <3>3, SettledByLast
        <4>2. CASE log[h].key # <<"sub", s>>
          <5>1. Settled(log, inbox, <<"sub", s>>, copySubs, StoredSubs)
            BY <3>1 DEF SettledTables
          <5>2. /\ s \in DOMAIN copySubs' <=> s \in DOMAIN copySubs
                /\ s \in DOMAIN copySubs => copySubs'[s] = copySubs[s]
            BY <4>2, <2>2, <1>3, EventShape
          <5>3. \A n \in inbox' \ inbox : log[n].key # <<"sub", s>>
            BY <4>2, <3>2
          <5> QED
            BY <5>1, <5>2, <5>3, <3>2, StaysSettled
        <4> QED
          BY <4>1, <4>2
      <3> QED
        BY <3>4, <3>5 DEF SettledTables
    <2> QED
      BY <1>4, <1>6, <2>3, <2>4 DEF CopyInv
  <1> QED
    BY <1>7, <1>8

LEMMA QueueDisturbed ==
    ASSUME CopyInv, SyncFails \/ PublishedAgain
    PROVE  CopyInv'
  <1>1. /\ UNCHANGED <<categories, subcategories, log, inbox, copyCategories, copySubs>>
        /\ queue \in Seq(1..Len(log)) /\ inbox \subseteq 1..Len(log) /\ Len(log) \in Nat
    BY DEF SyncFails, PublishedAgain, CopyInv, TaxonomyTypeOK
  <1>2. ASSUME queue' \in Seq(1..Len(log)), disturbed' \in BOOLEAN, disturbed => disturbed', QueueInOrder'
        PROVE  CopyInv'
    BY <1>1, <1>2 DEF CopyInv, TaxonomyTypeOK, MasterSettled, CopySettled
  <1>3. CASE SyncFails
    <2>1. Len(queue) > 0 /\ queue' = Append(Tail(queue), Head(queue))
          /\ disturbed' = (disturbed \/ Len(queue) > 1) /\ disturbed \in BOOLEAN
      BY <1>3 DEF SyncFails, CopyInv, TaxonomyTypeOK
    <2>2. queue # <<>>
      BY <2>1, <1>1
    <2>3. /\ Head(queue) = queue[1] /\ Head(queue) \in 1..Len(log) /\ Len(queue) \in Nat
          /\ Tail(queue) \in Seq(1..Len(log)) /\ Len(Tail(queue)) = Len(queue) - 1
      BY <1>1, <2>2, TailOf
    <2>4. queue' \in Seq(1..Len(log)) /\ Len(queue') = Len(queue) /\ queue'[Len(queue)] = queue[1]
      BY <2>1, <2>3, AppendTo
    <2>5. QueueInOrder'
      <3>1. CASE Len(queue) = 1
        <4>1. Len(queue') = 1 /\ queue'[1] = queue[1]
          BY <2>4, <3>1
        <4>2. ASSUME ~ disturbed
              PROVE  /\ \A n \in inbox : \A m \in 1..n : m \in inbox
                     /\ \A n \in 1..Len(log) : n \in inbox \/ \E i \in 1..1 : queue[i] = n
          BY <4>2, <3>1 DEF CopyInv, QueueInOrder
        <4>3. ASSUME ~ disturbed, NEW n \in 1..Len(log), n \notin inbox
              PROVE  \E i \in 1..Len(queue') : queue'[i] = n
          BY <4>1, <4>2, <4>3
        <4>4. \A i, j \in 1..Len(queue') : ~ i < j
          BY <4>1
        <4>5. disturbed' = disturbed
          BY <2>1, <3>1
        <4>6. ASSUME ~ disturbed', NEW n \in inbox', NEW m \in 1..n PROVE m \in inbox'
          BY <4>2, <4>5, <4>6, <1>1
        <4>7. ASSUME ~ disturbed', NEW n \in 1..Len(log'), n \notin inbox'
              PROVE  \E i \in 1..Len(queue') : queue'[i] = n
          BY <4>3, <4>5, <4>7, <1>1
        <4> QED
          BY <4>4, <4>6, <4>7 DEF QueueInOrder
      <3>2. CASE Len(queue) # 1
        <4>1. Len(queue) > 1
          BY <3>2, <2>1, <2>3
        <4>2. disturbed'
          BY <4>1, <2>1
        <4> QED
          BY <4>2 DEF QueueInOrder
      <3> QED
        BY <3>1, <3>2
    <2> QED
      BY <2>1, <2>4, <2>5, <1>2
  <1>4. CASE PublishedAgain
    <2>1. PICK m \in inbox : queue' = Append(queue, m)
      BY <1>4 DEF PublishedAgain
    <2>2. disturbed' = disturbed /\ disturbed \in BOOLEAN
      BY <1>4 DEF PublishedAgain, CopyInv, TaxonomyTypeOK
    <2>3. /\ queue' \in Seq(1..Len(log)) /\ Len(queue) \in Nat /\ Len(queue') = Len(queue) + 1
          /\ \A i \in 1..Len(queue) : queue'[i] = queue[i]
          /\ queue'[Len(queue) + 1] = m
      BY <1>1, <2>1, AppendTo
    <2>4. QueueInOrder'
      <3> SUFFICES ASSUME ~ disturbed PROVE QueueInOrder'
        BY <2>2 DEF QueueInOrder
      <3>1. /\ \A n \in inbox : \A k \in 1..n : k \in inbox
            /\ \A n \in 1..Len(log) : n \in inbox \/ \E i \in 1..Len(queue) : queue[i] = n
            /\ \A i, j \in 1..Len(queue) :
                  i < j /\ queue[i] \notin inbox /\ queue[j] \notin inbox => queue[i] < queue[j]
        BY DEF CopyInv, QueueInOrder
      <3>2. ASSUME NEW n \in 1..Len(log), n \notin inbox PROVE \E i \in 1..Len(queue') : queue'[i] = n
        <4>1. PICK i \in 1..Len(queue) : queue[i] = n
          BY <3>1, <3>2
        <4>2. i \in 1..Len(queue') /\ queue'[i] = n
          BY <4>1, <2>3
        <4> QED
          BY <4>2
      <3>3. ASSUME NEW i \in 1..Len(queue'), NEW j \in 1..Len(queue'), i < j,
                   queue'[i] \notin inbox, queue'[j] \notin inbox
            PROVE  queue'[i] < queue'[j]
        <4>1. i # Len(queue) + 1 /\ j # Len(queue) + 1
          BY <2>3, <3>3
        <4>2. i \in 1..Len(queue) /\ j \in 1..Len(queue)
          BY <4>1, <2>3
        <4> QED
          BY <4>2, <2>3, <3>1, <3>3
      <3> QED
        BY <3>1, <3>2, <3>3, <1>1 DEF QueueInOrder
    <2> QED
      BY <2>2, <2>3, <2>4, <1>2
  <1> QED
    BY <1>3, <1>4

LEMMA CopyStep ==
    ASSUME CopyInv, [Next]_vars
    PROVE  CopyInv'
  <1>1. CASE TaxonomyRequest
    BY <1>1, TaxonomyRequestKeepsCopy
  <1>2. CASE SyncNext
    BY <1>2, SyncHandlesKeepsCopy, QueueDisturbed DEF SyncNext
  <1>3. CASE RuleRequest
    <2>1. UNCHANGED taxonomyVars
      BY <1>3 DEF RuleRequest, post_rule, put_rule, remove_rule_route, RuleRoute
    <2> QED
      BY <2>1 DEF taxonomyVars, CopyInv, TaxonomyTypeOK, QueueInOrder, MasterSettled, CopySettled
  <1>4. CASE RulesStep \/ LedgerStep \/ UNCHANGED vars
    <2>1. UNCHANGED taxonomyVars
      BY <1>4 DEF RulesStep, LedgerStep, vars
    <2> QED
      BY <2>1 DEF taxonomyVars, CopyInv, TaxonomyTypeOK, QueueInOrder, MasterSettled, CopySettled
  <1> QED
    BY <1>1, <1>2, <1>3, <1>4 DEF Next

(* With nothing left in the queue every event is in the inbox, and what    *)
(* the last event about a row says is the same for both tables.            *)
LEMMA CopyCaughtUp ==
    ASSUME CopyInv, queue = <<>>, ~ disturbed
    PROVE  copyCategories = categories /\ copySubs = subcategories
  <1>1. /\ Table(categories, CategoryIds, CategoryNames) /\ Table(subcategories, SubIds, SubRows)
        /\ Table(copyCategories, CategoryIds, CategoryNames) /\ Table(copySubs, SubIds, SubRows)
        /\ inbox \subseteq 1..Len(log) /\ Len(log) \in Nat
    BY DEF CopyInv, TaxonomyTypeOK
  <1>2. inbox = 1..Len(log)
    <2>1. 1..Len(queue) = {}
      OBVIOUS
    <2>2. \A n \in 1..Len(log) : n \in inbox
      BY <2>1 DEF CopyInv, QueueInOrder
    <2> QED
      BY <1>1, <2>2
  <1>3. ASSUME NEW key, NEW f, NEW g, NEW stored,
               Settled(log, inbox, key, f, stored), Settled(log, inbox, key, g, stored)
        PROVE  /\ key[2] \in DOMAIN f <=> key[2] \in DOMAIN g
               /\ key[2] \in DOMAIN f => f[key[2]] = g[key[2]]
    <2>1. CASE Untouched(log, inbox, key, f, stored)
      <3>1. ~ LastSays(log, inbox, key, g)
        BY <2>1 DEF Untouched, LastSays
      <3> QED
        BY <2>1, <3>1, <1>3 DEF Untouched, Settled
    <2>2. CASE LastSays(log, inbox, key, f)
      <3>1. PICK n \in inbox : /\ log[n].key = key
                               /\ \A m \in inbox : log[m].key = key => m <= n
                               /\ key[2] \in DOMAIN f <=> log[n].type \notin Deletions
                               /\ key[2] \in DOMAIN f => f[key[2]] = log[n].row
        BY <2>2 DEF LastSays
      <3>2. LastSays(log, inbox, key, g)
        BY <3>1, <1>3 DEF Settled, Untouched
      <3>3. PICK m \in inbox : /\ log[m].key = key
                               /\ \A k \in inbox : log[k].key = key => k <= m
                               /\ key[2] \in DOMAIN g <=> log[m].type \notin Deletions
                               /\ key[2] \in DOMAIN g => g[key[2]] = log[m].row
        BY <3>2 DEF LastSays
      <3>4. m = n
        BY <3>1, <3>3, <1>1
      <3> QED
        BY <3>1, <3>3, <3>4
    <2> QED
      BY <2>1, <2>2, <1>3 DEF Settled
  <1>4. /\ SettledTables(log, inbox, categories, subcategories)
        /\ SettledTables(log, inbox, copyCategories, copySubs)
    BY <1>2 DEF CopyInv, MasterSettled, CopySettled
  <1>5. ASSUME NEW c \in CategoryIds
        PROVE  /\ c \in DOMAIN copyCategories <=> c \in DOMAIN categories
               /\ c \in DOMAIN copyCategories => copyCategories[c] = categories[c]
    <2> DEFINE key == <<"category", c>>
    <2>1. /\ Settled(log, inbox, key, copyCategories, StoredCategories)
          /\ Settled(log, inbox, key, categories, StoredCategories)
      BY <1>4 DEF SettledTables
    <2>2. key[2] = c
      OBVIOUS
    <2> HIDE DEF key
    <2> QED
      BY <2>1, <2>2, <1>3
  <1>6. ASSUME NEW s \in SubIds
        PROVE  /\ s \in DOMAIN copySubs <=> s \in DOMAIN subcategories
               /\ s \in DOMAIN copySubs => copySubs[s] = subcategories[s]
    <2> DEFINE key == <<"sub", s>>
    <2>1. /\ Settled(log, inbox, key, copySubs, StoredSubs)
          /\ Settled(log, inbox, key, subcategories, StoredSubs)
      BY <1>4 DEF SettledTables
    <2>2. key[2] = s
      OBVIOUS
    <2> HIDE DEF key
    <2> QED
      BY <2>1, <2>2, <1>3
  <1>7. ASSUME NEW f, NEW g, NEW ids, NEW rows, Table(f, ids, rows), Table(g, ids, rows),
               \A i \in ids : (i \in DOMAIN f <=> i \in DOMAIN g) /\ (i \in DOMAIN f => f[i] = g[i])
        PROVE  f = g
    <2>1. DOMAIN f = DOMAIN g
      BY <1>7 DEF Table
    <2> QED
      BY <1>7, <2>1 DEF Table
  <1> QED
    BY <1>1, <1>5, <1>6, <1>7

(* The read copy of the taxonomy in transaction-service catches up with    *)
(* categorization-service, for every taxonomy and every number of changes, *)
(* repetitions and failures.                                               *)
THEOREM CopyFollowsMasterAlways == Spec => []CopyFollowsMaster
  <1>1. Init => CopyInv
    BY CopyInitially DEF Init
  <1>2. CopyInv /\ [Next]_vars => CopyInv'
    BY CopyStep
  <1>3. CopyInv => CopyFollowsMaster
    BY CopyCaughtUp DEF CopyFollowsMaster
  <1> QED
    BY <1>1, <1>2, <1>3, PTL DEF Spec

-----------------------------------------------------------------------------
(* The pairs: what a change of the taxonomy does to them. *)

LEMMA ParentsNoted ==
    ASSUME TaxonomyPairs, TaxonomyRoute
    PROVE  /\ parents \subseteq parents'
           /\ \A pair \in parents' : pair = <<pair[1], pair[2]>>
           /\ \A s \in DOMAIN subcategories' :
                 subcategories'[s].parent \in DOMAIN categories' => <<subcategories'[s].parent, s>> \in parents'
  <1>1. parents' = parents \cup
            UNION {{<<c, s>> : s \in {x \in DOMAIN subcategories' : subcategories'[x].parent = c}} : c \in DOMAIN categories'}
    BY DEF TaxonomyRoute, list_subcategories, list_categories, find_by_category_id
  <1>2. ASSUME NEW pair \in parents' PROVE pair = <<pair[1], pair[2]>>
    BY <1>1 DEF TaxonomyPairs
  <1>3. ASSUME NEW s \in DOMAIN subcategories', subcategories'[s].parent \in DOMAIN categories'
        PROVE  <<subcategories'[s].parent, s>> \in parents'
    BY <1>1, <1>3
  <1> QED
    BY <1>1, <1>2, <1>3

LEMMA PairsStay ==
    ASSUME LedgerInv, parents \subseteq parents', UNCHANGED <<bus, ruleVars, ledgerVars>>
    PROVE  EnginesOK' /\ EventsOK' /\ RowsOK' /\ SessionsOK' /\ PairsBelong'
  <1>1. EnginesOK'
    BY DEF LedgerInv, EnginesOK, EngineOK, ruleVars
  <1>2. EventsOK'
    BY DEF LedgerInv, EventsOK, PairKnown
  <1>3. RowsOK'
    BY DEF LedgerInv, RowsOK, ledgerVars
  <1>4. Holds(editing)' /\ Holds(categorizing)' /\ LeavesManual'
    BY DEF LedgerInv, SessionsOK, Holds, LeavesManual, PairKept, ledgerVars
  <1>5. PairsBelong'
    BY DEF LedgerInv, PairsBelong, ledgerVars
  <1> QED
    BY <1>1, <1>2, <1>3, <1>4, <1>5 DEF SessionsOK

LEMMA CategoryPairs ==
    ASSUME CopyInv, LedgerInv, TaxonomyRoute, UNCHANGED subcategories,
           NEW type \in CategoryTypes, NEW c \in CategoryIds, NEW row \in CategoryNames,
           Announce(type, <<"category", c>>, row)
    PROVE  LedgerInv'
  <1>1. [type |-> type, key |-> <<"category", c>>, row |-> row] \in TaxonomyEvents
    BY DEF TaxonomyEvents
  <1>2. /\ Len(log) \in Nat /\ Len(log') = Len(log) + 1
        /\ log'[Len(log) + 1] = [type |-> type, key |-> <<"category", c>>, row |-> row]
        /\ \A n \in 1..Len(log) : log'[n] = log[n]
    BY <1>1, LogGrows DEF TaxonomyRoute
  <1>3. parents \subseteq parents' /\ \A pair \in parents' : pair = <<pair[1], pair[2]>>
    BY ParentsNoted DEF LedgerInv
  <1>4. TaxonomyPairs'
    BY <1>2, <1>3 DEF LedgerInv, TaxonomyPairs, TaxonomyRoute
  <1>5. EnginesOK' /\ EventsOK' /\ RowsOK' /\ SessionsOK' /\ PairsBelong'
    BY <1>3, PairsStay DEF TaxonomyRoute
  <1> QED
    BY <1>4, <1>5 DEF LedgerInv

LEMMA SubPairs ==
    ASSUME CopyInv, LedgerInv, TaxonomyRoute, UNCHANGED categories,
           NEW type \in SubTypes, NEW s \in SubIds, NEW row \in SubRows,
           Announce(type, <<"sub", s>>, row),
           row.parent \in DOMAIN categories \/ <<row.parent, s>> \in parents,
           s \in DOMAIN subcategories' => subcategories'[s] = row,
           type \notin Deletions => s \in DOMAIN subcategories',
           \A d \in DOMAIN subcategories' \ {s} : d \in DOMAIN subcategories /\ subcategories'[d] = subcategories[d],
           type \in Deletions => <<row.parent, s>> \in parents
    PROVE  LedgerInv'
  <1>1. [type |-> type, key |-> <<"sub", s>>, row |-> row] \in TaxonomyEvents
    BY DEF TaxonomyEvents
  <1>2. /\ Len(log) \in Nat /\ Len(log') = Len(log) + 1
        /\ log'[Len(log) + 1] = [type |-> type, key |-> <<"sub", s>>, row |-> row]
        /\ \A n \in 1..Len(log) : log'[n] = log[n]
    BY SMTT(30), <1>1, LogGrows DEF TaxonomyRoute
  <1>3. /\ parents \subseteq parents' /\ \A pair \in parents' : pair = <<pair[1], pair[2]>>
        /\ \A d \in DOMAIN subcategories' :
              subcategories'[d].parent \in DOMAIN categories' => <<subcategories'[d].parent, d>> \in parents'
    BY ParentsNoted DEF LedgerInv
  <1>4. <<row.parent, s>> \in parents'
    BY <1>3
  <1>5. ASSUME NEW d \in DOMAIN subcategories' PROVE <<subcategories'[d].parent, d>> \in parents'
    BY <1>3, <1>4 DEF LedgerInv, TaxonomyPairs
  <1>6. ASSUME NEW n \in 1..Len(log'), log'[n].key[1] = "sub"
        PROVE  <<log'[n].row.parent, log'[n].key[2]>> \in parents'
    <2>1. CASE n = Len(log) + 1
      BY <2>1, <1>2, <1>4
    <2>2. CASE n # Len(log) + 1
      <3>1. n \in 1..Len(log)
        BY <2>2, <1>2
      <3> QED
        BY <3>1, <1>2, <1>3, <1>6 DEF LedgerInv, TaxonomyPairs
    <2> QED
      BY <2>1, <2>2
  <1>7. TaxonomyPairs'
    BY <1>3, <1>5, <1>6 DEF LedgerInv, TaxonomyPairs, TaxonomyRoute
  <1>8. EnginesOK' /\ EventsOK' /\ RowsOK' /\ SessionsOK' /\ PairsBelong'
    BY <1>3, PairsStay DEF TaxonomyRoute
  <1> QED
    BY <1>7, <1>8 DEF LedgerInv

LEMMA TaxonomyRequestKeepsPairs ==
    ASSUME CopyInv, LedgerInv, TaxonomyRequest
    PROVE  LedgerInv'
  <1>0. /\ Table(categories, CategoryIds, CategoryNames) /\ Table(subcategories, SubIds, SubRows)
        /\ \A s \in DOMAIN subcategories : <<subcategories[s].parent, s>> \in parents
    BY DEF CopyInv, TaxonomyTypeOK, LedgerInv, TaxonomyPairs
  <1>1. ASSUME NEW name \in Names, post_category(name)
        PROVE  LedgerInv'
    <2>1. PICK c \in NextId(CategoryIds, categories, "category") :
             Announce("category.created", <<"category", c>>, name)
      BY <1>1 DEF post_category, create_category
    <2>2. c \in CategoryIds /\ name \in CategoryNames /\ TaxonomyRoute /\ UNCHANGED subcategories
      BY <1>1 DEF NextId, CategoryNames, post_category, create_category
    <2>3. "category.created" \in CategoryTypes
      BY DEF CategoryTypes
    <2> QED
      BY <2>1, <2>2, <2>3, CategoryPairs
  <1>2. ASSUME NEW name \in Names, NEW c \in CategoryIds, put_category(c, name)
        PROVE  LedgerInv'
    <2>1. /\ Announce("category.updated", <<"category", c>>, name) /\ TaxonomyRoute
          /\ UNCHANGED subcategories /\ name \in CategoryNames
      BY <1>2 DEF put_category, update_category, CategoryNames
    <2>2. "category.updated" \in CategoryTypes
      BY DEF CategoryTypes
    <2> QED
      BY <2>1, <2>2, CategoryPairs
  <1>3. ASSUME NEW c \in CategoryIds, remove_category_route(c)
        PROVE  LedgerInv'
    <2>1. /\ Announce("category.deleted", <<"category", c>>, categories[c]) /\ TaxonomyRoute
          /\ UNCHANGED subcategories /\ c \in DOMAIN categories
      BY <1>3 DEF remove_category_route, delete_category, find_category
    <2>2. categories[c] \in CategoryNames
      BY <2>1, <1>0 DEF Table
    <2>3. "category.deleted" \in CategoryTypes
      BY DEF CategoryTypes
    <2> QED
      BY <2>1, <2>2, <2>3, CategoryPairs
  <1>4. ASSUME NEW c \in CategoryIds, NEW name \in SubNames
        PROVE  /\ SubCategoryRow(name, c) \in SubRows
               /\ SubCategoryRow(name, c).parent = c
    BY DEF SubCategoryRow, SubRows
  <1>5. ASSUME NEW c \in CategoryIds, NEW name \in SubNames, post_subcategory(c, name)
        PROVE  LedgerInv'
    <2> DEFINE row == SubCategoryRow(name, c)
    <2>1. PICK s \in NextId(SubIds, subcategories, "sub") :
             subcategories' = With(subcategories, s, row) /\ Announce("subcategory.created", <<"sub", s>>, row)
      BY <1>5 DEF post_subcategory, create_subcategory, insert_subcategory
    <2>2. /\ s \in SubIds /\ c \in DOMAIN categories /\ TaxonomyRoute /\ UNCHANGED categories
      BY <1>5 DEF NextId, post_subcategory, create_subcategory, find_category
    <2>3. row \in SubRows /\ row.parent = c
      BY <1>4
    <2> HIDE DEF row
    <2>4. /\ s \in DOMAIN subcategories' /\ subcategories'[s] = row
          /\ \A d \in DOMAIN subcategories' \ {s} : d \in DOMAIN subcategories /\ subcategories'[d] = subcategories[d]
      BY <2>1 DEF With
    <2>5. "subcategory.created" \in SubTypes /\ "subcategory.created" \notin Deletions
      BY DEF SubTypes, Deletions
    <2> QED
      BY <2>1, <2>2, <2>3, <2>4, <2>5, SubPairs
  <1>6. ASSUME NEW c \in CategoryIds, NEW name \in SubNames, NEW s \in SubIds, put_subcategory(s, name, c)
        PROVE  LedgerInv'
    <2> DEFINE row == SubCategoryRow(name, c)
    <2>1. /\ s \in DOMAIN subcategories /\ subcategories' = [subcategories EXCEPT ![s] = row]
          /\ Announce("subcategory.updated", <<"sub", s>>, row)
          /\ c \in DOMAIN categories /\ TaxonomyRoute /\ UNCHANGED categories
      BY <1>6 DEF put_subcategory, update_subcategory, write_subcategory, find_subcategory, find_category
    <2>3. row \in SubRows /\ row.parent = c
      BY <1>4
    <2> HIDE DEF row
    <2>4. /\ s \in DOMAIN subcategories' /\ subcategories'[s] = row
          /\ \A d \in DOMAIN subcategories' \ {s} : d \in DOMAIN subcategories /\ subcategories'[d] = subcategories[d]
      BY <2>1
    <2>5. "subcategory.updated" \in SubTypes /\ "subcategory.updated" \notin Deletions
      BY DEF SubTypes, Deletions
    <2> QED
      BY <2>1, <2>3, <2>4, <2>5, SubPairs
  <1>7. ASSUME NEW s \in SubIds, remove_subcategory_route(s)
        PROVE  LedgerInv'
    <2>1. /\ s \in DOMAIN subcategories /\ subcategories' = Without(subcategories, s)
          /\ Announce("subcategory.deleted", <<"sub", s>>, subcategories[s])
          /\ TaxonomyRoute /\ UNCHANGED categories
      BY <1>7 DEF remove_subcategory_route, delete_subcategory, remove_subcategory, find_subcategory
    <2>2. subcategories[s] \in SubRows /\ <<subcategories[s].parent, s>> \in parents
      BY <1>0, <2>1 DEF Table
    <2>3. /\ s \notin DOMAIN subcategories'
          /\ \A d \in DOMAIN subcategories' \ {s} : d \in DOMAIN subcategories /\ subcategories'[d] = subcategories[d]
      BY <2>1 DEF Without
    <2>4. "subcategory.deleted" \in SubTypes /\ "subcategory.deleted" \in Deletions
      BY DEF SubTypes, Deletions
    <2> QED
      BY <2>1, <2>2, <2>3, <2>4, SubPairs
  <1> QED
    BY <1>1, <1>2, <1>3, <1>5, <1>6, <1>7 DEF TaxonomyRequest

LEMMA SyncKeepsPairs ==
    ASSUME CopyInv, LedgerInv, SyncNext, UNCHANGED <<ruleVars, ledgerVars, parents>>
    PROVE  LedgerInv'
  <1>1. UNCHANGED <<bus, subcategories, log>>
    BY DEF SyncNext, SyncHandles, SyncFails, PublishedAgain
  <1>2. EnginesOK' /\ EventsOK' /\ RowsOK' /\ SessionsOK' /\ PairsBelong'
    BY <1>1, PairsStay
  <1>3. ASSUME NEW s \in DOMAIN copySubs' PROVE <<copySubs'[s].parent, s>> \in parents
    <2>1. CASE UNCHANGED copySubs
      BY <2>1, <1>3 DEF LedgerInv, TaxonomyPairs
    <2>2. CASE ~ UNCHANGED copySubs
      <3>1. queue # <<>> /\ _dispatch(log[Head(queue)])
        BY <2>2 DEF SyncNext, SyncHandles, SyncFails, PublishedAgain
      <3> DEFINE h == Head(queue)
                 e == log[h]
      <3>2. h \in 1..Len(log) /\ e \in TaxonomyEvents
        BY <3>1, TailOf DEF CopyInv, TaxonomyTypeOK
      <3>3. e.key[1] = "sub" => <<e.row.parent, e.key[2]>> \in parents
        BY <3>2 DEF LedgerInv, TaxonomyPairs
      <3>4. s \in SubIds
        <4>1. Table(copySubs', SubIds, SubRows)
          BY <3>1, <3>2, Dispatched
        <4> QED
          BY <4>1 DEF Table
      <3>5. /\ \A r \in DOMAIN copySubs : <<copySubs[r].parent, r>> \in parents
            /\ _dispatch(e)
        BY <3>1 DEF LedgerInv, TaxonomyPairs
      <3> HIDE DEF e
      <3>6. e.key[1] = "sub"
        BY <2>2, <3>2, <3>5, Dispatched, EventShape
      <3>7. CASE s = e.key[2]
        BY <3>7, <3>2, <3>3, <3>5, <3>6, Dispatched
      <3>8. CASE s # e.key[2]
        BY <3>8, <3>2, <3>4, <3>5, <3>6, Dispatched
      <3> QED
        BY <3>7, <3>8
    <2> QED
      BY <2>1, <2>2
  <1>4. TaxonomyPairs'
    BY <1>1, <1>3 DEF LedgerInv, TaxonomyPairs
  <1> QED
    BY <1>2, <1>4 DEF LedgerInv

LEMMA RulesKeepPairs ==
    ASSUME LedgerInv, RuleRequest \/ RulesStep
    PROVE  LedgerInv'
  <1>1. UNCHANGED <<bus, taxonomyVars, ledgerVars, parents>>
    BY DEF RuleRequest, RuleRoute, post_rule, put_rule, remove_rule_route, RulesStep,
           CorrectionHandled, OverlayLoads, EngineReloads
  <1>2. EnginesOK'
    <2>1. CASE UNCHANGED engine
      BY <1>1, <2>1 DEF LedgerInv, EnginesOK, EngineOK
    <2>2. CASE ~ UNCHANGED engine
      <3>1. PICK p \in Processes : _reload(p)
        BY <2>2 DEF RuleRequest, RuleRoute, post_rule, put_rule, remove_rule_route, RulesStep,
                    CorrectionHandled, OverlayLoads, EngineReloads
      <3>2. PICK lookup \in Lookups, fallback \in Fallbacks :
               engine' = [engine EXCEPT ![p] = Loaded(lookup, fallback)]
        BY <3>1 DEF _reload
      <3>3. fallback \in DOMAIN subcategories \cup {0}
        BY DEF Fallbacks, find_subcategory
      <3>4. /\ DOMAIN lookup = {subcategories[s].name : s \in DOMAIN subcategories}
            /\ \A n \in DOMAIN lookup : lookup[n] \in DOMAIN subcategories /\ subcategories[lookup[n]].name = n
        BY DEF Lookups
      <3>5. EngineOK(Loaded(lookup, fallback))
        BY <3>3, <3>4 DEF EngineOK, Loaded, LedgerInv, TaxonomyPairs
      <3> QED
        BY <3>2, <3>5, <1>1 DEF LedgerInv, EnginesOK, EngineOK
    <2> QED
      BY <2>1, <2>2
  <1>3. TaxonomyPairs'
    BY <1>1 DEF LedgerInv, TaxonomyPairs, taxonomyVars
  <1>4. EventsOK' /\ RowsOK' /\ PairsBelong'
    BY <1>1 DEF LedgerInv, EventsOK, PairKnown, RowsOK, PairsBelong, ledgerVars
  <1>5. SessionsOK'
    BY <1>1 DEF LedgerInv, SessionsOK, Holds, LeavesManual, PairKept, ledgerVars
  <1> QED
    BY <1>2, <1>3, <1>4, <1>5 DEF LedgerInv

-----------------------------------------------------------------------------
(* What the engines answer, and the rows of the ledger. *)

LEMMA RowShape ==
    ASSUME NEW d, NEW c, NEW s, NEW tier, NEW sent
    PROVE  IsRow(TransactionRow(d, c, s, tier, sent))
  BY DEF IsRow, RowFields, TransactionRow

LEMMA ConstrainedPaired ==
    ASSUME EnginesOK, NEW d \in Descriptions, NEW p \in Processes, NEW r \in constrained_match(p, d)
    PROVE  PairKnown(r)
  <1> DEFINE subs == engine[p].subs
             fits(x) == /\ x \in DOMAIN SeedRules /\ SeedRules[x].target \in DOMAIN subs
                        /\ SeedRules[x].direction \in {"any", DirectionOf[d]}
             hits == {n \in DOMAIN PatternsIn[d] : fits(PatternsIn[d][n])}
             target == SeedRules[PatternsIn[d][Min(hits)]].target
  <1>1. hits # {} /\ r = Result(target, subs[target].parent, "rule")
    BY DEF constrained_match
  <1>2. hits \subseteq Nat
    BY RulesAssumption
  <1>3. Min(hits) \in hits
    <2>1. hits # {}
      BY <1>1
    <2> HIDE DEF hits
    <2> QED
      BY <2>1, <1>2, MinOfNats
  <1>4. target \in DOMAIN subs
    BY <1>3
  <1>5. <<subs[target].parent, target>> \in parents
    BY <1>4 DEF EnginesOK, EngineOK
  <1> HIDE DEF target, subs
  <1> QED
    BY <1>1, <1>5 DEF PairKnown, Result

LEMMA KeywordPaired ==
    ASSUME EnginesOK, NEW tier, NEW d, NEW r \in keyword_match(tier, d)
    PROVE  PairKnown(r)
  <1> DEFINE lookup == engine["worker"].lookup
             subs == engine["worker"].subs
             matching(p) == {k \in DOMAIN tier : k[2] = p /\ tier[k] \in DOMAIN lookup}
             hits == {n \in DOMAIN PatternsIn[d] : matching(PatternsIn[d][n]) # {}}
  <1>1. PICK k \in matching(PatternsIn[d][Min(hits)]) :
           r = Result(lookup[tier[k]], subs[lookup[tier[k]]].parent, "rule")
    BY DEF keyword_match
  <1>2. tier[k] \in DOMAIN lookup
    BY <1>1
  <1>3. <<subs[lookup[tier[k]]].parent, lookup[tier[k]]>> \in parents
    BY <1>2 DEF EnginesOK, EngineOK, Processes
  <1> HIDE DEF lookup, subs
  <1> QED
    BY <1>1, <1>3 DEF PairKnown, Result

LEMMA FallbackPaired ==
    ASSUME EnginesOK, NEW p \in Processes
    PROVE  PairKnown(_absolute_fallback(p))
  BY DEF EnginesOK, EngineOK, PairKnown, _absolute_fallback, Result

(* Whatever an engine answers, its subcategory belongs to its category. *)
LEMMA AnswersPaired ==
    ASSUME EnginesOK, NEW d \in Descriptions
    PROVE  /\ \A r \in categorize_single(d) : PairKnown(r)
           /\ \A r \in _categorize(d) : PairKnown(r)
  <1>1. "api" \in Processes /\ "worker" \in Processes
    BY DEF Processes
  <1>2. ASSUME NEW r \in categorize_single(d) PROVE PairKnown(r)
    BY <1>1, ConstrainedPaired, FallbackPaired DEF categorize_single, _run_pipeline
  <1>3. ASSUME NEW r \in tiered_match(d) PROVE PairKnown(r)
    BY <1>1, ConstrainedPaired, KeywordPaired DEF tiered_match
  <1>4. ASSUME NEW r \in _categorize(d) PROVE PairKnown(r)
    BY <1>1, <1>3, FallbackPaired DEF _categorize, _run_pipeline
  <1> QED
    BY <1>2, <1>4

LEMMA EnteredPaired ==
    ASSUME LedgerInv, NEW d \in Descriptions, NEW choice \in SentPairs, NEW tier, NEW r \in categorize(d, tier)
    PROVE  /\ PairKept(Entered(d, choice, tier, r)) /\ IsRow(Entered(d, choice, tier, r))
           /\ Entered(d, choice, tier, r).description = d
  <1>1. choice = <<choice[1], choice[2]>>
    BY LedgerAssumption
  <1>2. r # Unreachable => PairKnown(r)
    BY AnswersPaired DEF categorize, LedgerInv
  <1>3. ASSUME NEW t2 PROVE PairKept(TransactionRow(d, choice[1], choice[2], t2, choice))
    BY <1>1 DEF PairKept, TransactionRow
  <1>4. r # Unreachable => PairKept(TransactionRow(d, r.category, r.sub, r.tier, NoPair))
    BY <1>2 DEF PairKept, PairKnown, TransactionRow
  <1>5. PairKept(Entered(d, choice, tier, r)) /\ IsRow(Entered(d, choice, tier, r))
    BY <1>3, <1>4, RowShape DEF Entered
  <1> QED
    BY <1>5 DEF Entered, TransactionRow

(* A new row: nothing that was there changes.                              *)
LEMMA RowEntered ==
    ASSUME LedgerInv, NEW t \in NextTx, NEW row, IsRow(row), PairKept(row),
           row.description \in Descriptions,
           transactions' = With(transactions, t, row),
           Emit({TransactionCreatedEvent(t, row)}), importing' \subseteq importing,
           UNCHANGED <<taxonomyVars, ruleVars, parents, editing, categorizing, categorized, overlapped>>
    PROVE  LedgerInv'
  <1>1. t \in TxIds /\ t \notin DOMAIN transactions
    BY DEF NextTx
  <1>2. /\ DOMAIN transactions' = DOMAIN transactions \cup {t} /\ transactions'[t] = row
        /\ \A u \in DOMAIN transactions : transactions'[u] = transactions[u]
    BY <1>1 DEF With
  <1>3. TaxonomyPairs' /\ EnginesOK'
    BY DEF LedgerInv, TaxonomyPairs, EnginesOK, EngineOK, taxonomyVars, ruleVars
  <1>4. EventsOK'
    <2> DEFINE e == TransactionCreatedEvent(t, row)
    <2>1. e.type = "transaction.created" /\ e.description \in Descriptions
      BY DEF TransactionCreatedEvent
    <2> HIDE DEF e
    <2>2. bus' = bus \cup {e} /\ parents' = parents
      BY DEF Emit, e
    <2> QED
      BY <2>1, <2>2 DEF LedgerInv, EventsOK, PairKnown
  <1>5. RowsOK'
    BY <1>1, <1>2 DEF LedgerInv, RowsOK, IsRow
  <1>6. Holds(editing)' /\ Holds(categorizing)' /\ LeavesManual'
    BY <1>2 DEF LedgerInv, SessionsOK, Holds, LeavesManual, PairKept
  <1>7. PairsBelong'
    BY <1>2 DEF LedgerInv, PairsBelong, PairKept
  <1> QED
    BY <1>3, <1>4, <1>5, <1>6, <1>7 DEF LedgerInv, SessionsOK

LEMMA EntryKeepsPairs ==
    ASSUME LedgerInv, UNCHANGED <<taxonomyVars, ruleVars, parents>>,
           \/ \E d \in Descriptions : \E choice \in SentPairs, tier \in SentTiers : post_transaction(d, choice, tier)
           \/ CsvCommits
    PROVE  LedgerInv'
  <1>1. ASSUME NEW d \in Descriptions, NEW choice \in SentPairs, NEW tier \in SentTiers,
               post_transaction(d, choice, tier)
        PROVE  LedgerInv'
    <2>1. PICK r \in categorize(d, tier), t \in NextTx :
             /\ transactions' = With(transactions, t, Entered(d, choice, tier, r))
             /\ Emit({TransactionCreatedEvent(t, Entered(d, choice, tier, r))})
      BY <1>1 DEF post_transaction, create_transaction, create
    <2> DEFINE row == Entered(d, choice, tier, r)
    <2>2. PairKept(row) /\ row.description \in Descriptions /\ IsRow(row)
      BY EnteredPaired
    <2> HIDE DEF row
    <2>3. UNCHANGED <<importing, editing, categorizing, categorized, overlapped>>
      BY <1>1 DEF post_transaction
    <2>4. transactions' = With(transactions, t, row) /\ Emit({TransactionCreatedEvent(t, row)})
      BY <2>1 DEF row
    <2> QED
      BY <2>2, <2>3, <2>4, RowEntered
  <1>2. CASE CsvCommits
    <2>1. PICK d \in importing, t \in NextTx :
             /\ transactions' = With(transactions, t, TransactionRow(d, 0, 0, "none", NoPair))
             /\ Emit({TransactionCreatedEvent(t, transactions'[t])})
             /\ importing' = importing \ {d}
      BY <1>2 DEF CsvCommits, bulk_create
    <2> DEFINE row == TransactionRow(d, 0, 0, "none", NoPair)
    <2>2. PairKept(row) /\ row.description \in Descriptions
      BY DEF PairKept, TransactionRow, LedgerInv, RowsOK
    <2>3. IsRow(row)
      BY RowShape
    <2>4. transactions'[t] = row
      BY <2>1 DEF With
    <2>5. UNCHANGED <<editing, categorizing, categorized, overlapped>> /\ importing' \subseteq importing
      BY <1>2, <2>1 DEF CsvCommits
    <2> HIDE DEF row
    <2>6. transactions' = With(transactions, t, row) /\ Emit({TransactionCreatedEvent(t, row)})
      BY <2>1, <2>4 DEF row
    <2> QED
      BY <2>2, <2>3, <2>5, <2>6, RowEntered
  <1> QED
    BY <1>1, <1>2

-----------------------------------------------------------------------------
(* Sessions: a row is read, and written over what it then is. *)

LEMMA EditedShape ==
    ASSUME NEW read, NEW c, NEW s, IsRow(read)
    PROVE  /\ IsRow(Edited(read, c, s)) /\ Edited(read, c, s).state = read.state
           /\ Edited(read, c, s).sent = read.sent
           /\ Edited(read, c, s).category = IF c = Unset THEN read.category ELSE c
           /\ Edited(read, c, s).sub =
                 IF s # Unset THEN s ELSE IF c \in {Unset, read.category} THEN read.sub ELSE 0
  BY DEF IsRow, RowFields, Edited

LEMMA AppliedShape ==
    ASSUME NEW read, NEW e, IsRow(read)
    PROVE  /\ IsRow(_apply_categorization(read, e)) /\ _apply_categorization(read, e).state = read.state
           /\ _apply_categorization(read, e).sent = read.sent
           /\ read.tier = "manual" => _apply_categorization(read, e) = read
           /\ read.tier # "manual" => /\ _apply_categorization(read, e).category = e.category
                                      /\ _apply_categorization(read, e).sub = e.sub
  BY DEF IsRow, RowFields, _apply_categorization

LEMMA EditReadsKeepsPairs ==
    ASSUME LedgerInv, NEW t \in TxIds, NEW c, NEW s, put_transaction(t, c, s),
           UNCHANGED <<taxonomyVars, ruleVars, parents>>
    PROVE  LedgerInv'
  <1> DEFINE read == transactions[t]
             new == Edited(read, c, s)
  <1>1. /\ t \in DOMAIN transactions /\ Validated(new, s)
        /\ editing'.tx = t /\ editing'.read = read /\ editing'.new = new
        /\ UNCHANGED <<bus, transactions, importing, categorizing, categorized, overlapped>>
    BY DEF put_transaction, EditReads, find_by_id
  <1>2. IsRow(read)
    BY <1>1 DEF LedgerInv, RowsOK
  <1>3. /\ IsRow(new) /\ new.state = read.state /\ new.sent = read.sent
        /\ new.category = IF c = Unset THEN read.category ELSE c
        /\ new.sub = IF s # Unset THEN s ELSE IF c \in {Unset, read.category} THEN read.sub ELSE 0
    <2> HIDE DEF read
    <2> QED
      BY <1>2, EditedShape
  <1>4. t \notin overlapped => PairKept(read)
    BY <1>1 DEF LedgerInv, PairsBelong, PairKept
  <1>5. s \notin {Unset, 0} => <<new.category, s>> \in parents
    BY <1>1 DEF Validated, LedgerInv, TaxonomyPairs
  <1>6. t \notin overlapped => PairKept(new)
    <2> HIDE DEF new, read
    <2> QED
      BY <1>3, <1>4, <1>5 DEF PairKept
  <1>7. Holds(editing)'
    <2> HIDE DEF new
    <2> QED
      BY <1>1, <1>2, <1>3, <1>6 DEF Holds, PairKept
  <1>8. Holds(categorizing)' /\ LeavesManual'
    BY <1>1 DEF LedgerInv, SessionsOK, Holds, LeavesManual, PairKept
  <1>9. TaxonomyPairs' /\ EnginesOK' /\ EventsOK' /\ RowsOK' /\ PairsBelong'
    BY <1>1 DEF LedgerInv, TaxonomyPairs, EnginesOK, EngineOK, taxonomyVars, ruleVars, EventsOK, PairKnown,
                RowsOK, PairsBelong
  <1> QED
    BY <1>7, <1>8, <1>9 DEF LedgerInv, SessionsOK

LEMMA CategorizedReadsKeepsPairs ==
    ASSUME LedgerInv, CategorizedReads, UNCHANGED <<taxonomyVars, ruleVars, parents>>
    PROVE  LedgerInv'
  <1>1. PICK e \in bus :
           /\ e.type = "transaction.categorized" /\ find_by_id(e.tx)
           /\ categorizing' = [tx |-> e.tx, read |-> transactions[e.tx],
                               new |-> _apply_categorization(transactions[e.tx], e)]
           /\ UNCHANGED <<bus, transactions, importing, editing, categorized, overlapped>>
    BY DEF CategorizedReads
  <1> DEFINE t == e.tx
             read == transactions[t]
             new == _apply_categorization(read, e)
  <1>2. /\ t \in DOMAIN transactions
        /\ categorizing'.tx = t /\ categorizing'.read = read /\ categorizing'.new = new
    BY <1>1 DEF find_by_id
  <1>3. IsRow(read)
    BY <1>2 DEF LedgerInv, RowsOK
  <1>4. /\ IsRow(new) /\ new.state = read.state /\ new.sent = read.sent
        /\ read.tier = "manual" => new = read
        /\ read.tier # "manual" => new.category = e.category /\ new.sub = e.sub
    <2> HIDE DEF read
    <2> QED
      BY <1>3, AppliedShape
  <1>5. t \notin overlapped => PairKept(read)
    BY <1>2 DEF LedgerInv, PairsBelong, PairKept
  <1>6. e.sub # 0 => <<e.category, e.sub>> \in parents
    BY <1>1 DEF LedgerInv, EventsOK, PairKnown
  <1>7. t \notin overlapped => PairKept(new)
    <2> HIDE DEF new, read
    <2> QED
      BY <1>4, <1>5, <1>6 DEF PairKept
  <1>8. Holds(categorizing)' /\ LeavesManual'
    <2> HIDE DEF new
    <2> QED
      BY <1>1, <1>2, <1>3, <1>4, <1>7 DEF Holds, PairKept, LeavesManual
  <1>9. Holds(editing)'
    BY <1>1 DEF LedgerInv, SessionsOK, Holds, PairKept
  <1>10. TaxonomyPairs' /\ EnginesOK' /\ EventsOK' /\ RowsOK' /\ PairsBelong'
    BY <1>1 DEF LedgerInv, TaxonomyPairs, EnginesOK, EngineOK, taxonomyVars, ruleVars, EventsOK, PairKnown,
                RowsOK, PairsBelong
  <1> QED
    BY <1>8, <1>9, <1>10 DEF LedgerInv, SessionsOK

(* The row after a commit: the session's own, but for a deletion, unless   *)
(* another session committed since it was read.                            *)
LEMMA Committed ==
    ASSUME RowsOK, NEW session, Holds(session), session.tx # 0,
           transactions' = Flushed(session.tx, session.read, session.new)
    PROVE  /\ DOMAIN transactions' = DOMAIN transactions /\ session.tx \in DOMAIN transactions
           /\ \A u \in DOMAIN transactions \ {session.tx} : transactions'[u] = transactions[u]
           /\ IsRow(transactions'[session.tx])
           /\ transactions'[session.tx].state = transactions[session.tx].state
           /\ session.tx \notin overlapped =>
                 /\ PairKept(transactions'[session.tx])
                 /\ \A f \in RowFields \ {"state"} : transactions'[session.tx][f] = session.new[f]
  <1> DEFINE t == session.tx
             row == transactions[t]
             now == [f \in DOMAIN row |-> IF session.new[f] = session.read[f] THEN row[f] ELSE session.new[f]]
  <1>1. t \in DOMAIN transactions /\ IsRow(row) /\ session.new.state = session.read.state
    BY DEF Holds, RowsOK
  <1>2. transactions' = [transactions EXCEPT ![t] = now]
    BY DEF Flushed
  <1>3. DOMAIN row = RowFields
    BY <1>1 DEF IsRow
  <1>4. now = [f \in RowFields |-> IF session.new[f] = session.read[f] THEN row[f] ELSE session.new[f]]
    BY <1>3
  <1>5. IsRow(now) /\ now.state = row.state
    BY <1>1, <1>4 DEF IsRow, RowFields
  <1>6. ASSUME t \notin overlapped
        PROVE  \A f \in RowFields \ {"state"} : now[f] = session.new[f]
    BY <1>4, <1>6 DEF Holds
  <1>7. ASSUME t \notin overlapped
        PROVE  PairKept(now)
    <2>1. now.sub = session.new.sub /\ now.category = session.new.category /\ now.sent = session.new.sent
      BY <1>6, <1>7 DEF RowFields
    <2> QED
      BY <2>1, <1>7 DEF Holds, PairKept
  <1> HIDE DEF now
  <1> QED
    BY <1>1, <1>2, <1>5, <1>6, <1>7

(* The commit of an edit or of a categorisation, which ends its session.   *)
LEMMA CommitKeepsPairs ==
    ASSUME LedgerInv, NEW session, Holds(session), session.tx # 0,
           transactions' = Flushed(session.tx, session.read, session.new),
           EventsOK', UNCHANGED <<taxonomyVars, ruleVars, parents, importing>>, overlapped \subseteq overlapped',
           \/ editing' = NoSession /\ categorizing' = categorizing /\ session = editing
              /\ (categorizing.tx = session.tx => session.tx \in overlapped')
           \/ categorizing' = NoSession /\ editing' = editing /\ session = categorizing
              /\ (editing.tx = session.tx => session.tx \in overlapped')
    PROVE  LedgerInv'
  <1> DEFINE t == session.tx
  <1>1. /\ DOMAIN transactions' = DOMAIN transactions /\ t \in DOMAIN transactions
        /\ \A u \in DOMAIN transactions \ {t} : transactions'[u] = transactions[u]
        /\ IsRow(transactions'[t])
        /\ t \notin overlapped => PairKept(transactions'[t])
    BY Committed DEF LedgerInv
  <1>2. TaxonomyPairs' /\ EnginesOK'
    BY DEF LedgerInv, TaxonomyPairs, EnginesOK, EngineOK, taxonomyVars, ruleVars
  <1>3. RowsOK'
    <2>1. \A u \in DOMAIN transactions' : IsRow(transactions'[u])
      BY <1>1 DEF LedgerInv, RowsOK
    <2> QED
      BY <1>1, <2>1 DEF LedgerInv, RowsOK, IsRow
  <1>4. PairsBelong'
    BY <1>1 DEF LedgerInv, PairsBelong, PairKept
  <1>5. NoSession.tx = 0
    BY DEF NoSession
  <1>6. CASE editing' = NoSession /\ categorizing' = categorizing /\ session = editing
             /\ (categorizing.tx = session.tx => session.tx \in overlapped')
    <2>1. Holds(editing)'
      BY <1>5, <1>6 DEF Holds
    <2>2. Holds(categorizing)' /\ LeavesManual'
      BY <1>1, <1>6 DEF LedgerInv, SessionsOK, Holds, LeavesManual, PairKept
    <2> QED
      BY <1>2, <1>3, <1>4, <2>1, <2>2 DEF LedgerInv, SessionsOK
  <1>7. CASE categorizing' = NoSession /\ editing' = editing /\ session = categorizing
             /\ (editing.tx = session.tx => session.tx \in overlapped')
    <2>1. Holds(categorizing)' /\ LeavesManual'
      BY <1>5, <1>7 DEF Holds, LeavesManual
    <2>2. Holds(editing)'
      BY <1>1, <1>7 DEF LedgerInv, SessionsOK, Holds, PairKept
    <2> QED
      BY <1>2, <1>3, <1>4, <2>1, <2>2 DEF LedgerInv, SessionsOK
  <1> QED
    BY <1>6, <1>7

LEMMA CommitsKeepPairs ==
    ASSUME LedgerInv, EditCommits \/ CategorizedCommits, UNCHANGED <<taxonomyVars, ruleVars, parents>>
    PROVE  LedgerInv'
  <1>0. Holds(editing) /\ Holds(categorizing)
    BY DEF LedgerInv, SessionsOK
  <1>1. CASE EditCommits
    <2>1. /\ editing.tx # 0 /\ transactions' = Flushed(editing.tx, editing.read, editing.new)
          /\ editing' = NoSession /\ categorizing' = categorizing /\ importing' = importing
          /\ overlapped' = IF categorizing.tx = editing.tx THEN overlapped \cup {editing.tx} ELSE overlapped
      BY <1>1 DEF EditCommits, Overlap
    <2>2. EventsOK'
      <3> DEFINE now == transactions'[editing.tx]
      <3>1. bus' = bus \cup CorrectedEvents(now) \cup {TransactionUpdatedEvent(editing.tx)}
        BY <1>1 DEF EditCommits, Emit
      <3> HIDE DEF now
      <3>2. \A e \in CorrectedEvents(now) \cup {TransactionUpdatedEvent(editing.tx)} :
               e.type # "transaction.categorized" /\ e.type # "transaction.created"
        BY DEF CorrectedEvents, TransactionUpdatedEvent, TransactionCategoryCorrectedEvent
      <3> QED
        BY <3>1, <3>2 DEF LedgerInv, EventsOK, PairKnown
    <2>3. overlapped \subseteq overlapped' /\ (categorizing.tx = editing.tx => editing.tx \in overlapped')
      BY <2>1
    <2> QED
      BY <1>0, <2>1, <2>2, <2>3, CommitKeepsPairs
  <1>2. CASE CategorizedCommits
    <2>1. /\ categorizing.tx # 0
          /\ transactions' = Flushed(categorizing.tx, categorizing.read, categorizing.new)
          /\ categorizing' = NoSession /\ editing' = editing /\ importing' = importing /\ bus' = bus
          /\ overlapped' = IF editing.tx = categorizing.tx THEN overlapped \cup {categorizing.tx} ELSE overlapped
      BY <1>2 DEF CategorizedCommits, Overlap
    <2>2. EventsOK'
      BY <2>1 DEF LedgerInv, EventsOK, PairKnown
    <2>3. overlapped \subseteq overlapped' /\ (editing.tx = categorizing.tx => categorizing.tx \in overlapped')
      BY <2>1
    <2> QED
      BY <1>0, <2>1, <2>2, <2>3, CommitKeepsPairs
  <1> QED
    BY <1>1, <1>2

(* A tombstone changes the state of the row only.                          *)
LEMMA Tombstoned ==
    ASSUME RowsOK, NEW t, remove_transaction(t)
    PROVE  /\ DOMAIN transactions' = DOMAIN transactions /\ t \in DOMAIN transactions
           /\ \A u \in DOMAIN transactions \ {t} : transactions'[u] = transactions[u]
           /\ IsRow(transactions'[t])
           /\ \A f \in RowFields \ {"state"} : transactions'[t][f] = transactions[t][f]
  <1>1. t \in DOMAIN transactions /\ transactions' = [transactions EXCEPT ![t].state = "deleted"]
    BY DEF remove_transaction, delete_transaction, tombstone, find_by_id
  <1>2. IsRow(transactions[t])
    BY <1>1 DEF RowsOK
  <1> QED
    BY <1>1, <1>2 DEF IsRow, RowFields

LEMMA RemovalKeepsPairs ==
    ASSUME LedgerInv, NEW t, remove_transaction(t), UNCHANGED <<taxonomyVars, ruleVars, parents>>
    PROVE  LedgerInv'
  <1>1. /\ DOMAIN transactions' = DOMAIN transactions /\ t \in DOMAIN transactions
        /\ \A u \in DOMAIN transactions \ {t} : transactions'[u] = transactions[u]
        /\ IsRow(transactions'[t])
        /\ \A f \in RowFields \ {"state"} : transactions'[t][f] = transactions[t][f]
    BY Tombstoned DEF LedgerInv
  <1>2. UNCHANGED <<importing, editing, categorizing, categorized, overlapped>>
    BY DEF remove_transaction
  <1>3. bus' = bus \cup {TransactionDeletedEvent(t)}
    BY DEF remove_transaction, delete_transaction, Emit
  <1>4. EventsOK'
    <2>1. TransactionDeletedEvent(t).type = "transaction.deleted"
      BY DEF TransactionDeletedEvent
    <2> QED
      BY <1>3, <2>1 DEF LedgerInv, EventsOK, PairKnown
  <1>5. TaxonomyPairs' /\ EnginesOK'
    BY DEF LedgerInv, TaxonomyPairs, EnginesOK, EngineOK, taxonomyVars, ruleVars
  <1>6. RowsOK'
    <2>1. \A u \in DOMAIN transactions' : IsRow(transactions'[u])
      BY <1>1 DEF LedgerInv, RowsOK
    <2> QED
      BY <1>1, <1>2, <2>1 DEF LedgerInv, RowsOK, IsRow
  <1>7. Holds(editing)' /\ Holds(categorizing)' /\ LeavesManual'
    BY <1>1, <1>2 DEF LedgerInv, SessionsOK, Holds, LeavesManual, PairKept
  <1>8. PairsBelong'
    <2>1. /\ transactions'[t].category = transactions[t].category /\ transactions'[t].sub = transactions[t].sub
          /\ transactions'[t].sent = transactions[t].sent
      BY <1>1 DEF RowFields
    <2> QED
      BY <1>1, <1>2, <2>1 DEF LedgerInv, PairsBelong
  <1> QED
    BY <1>4, <1>5, <1>6, <1>7, <1>8 DEF LedgerInv, SessionsOK

LEMMA WorkerKeepsPairs ==
    ASSUME LedgerInv, CategorizationRuns, UNCHANGED <<taxonomyVars, ruleVars, parents>>
    PROVE  LedgerInv'
  <1>1. PICK e \in bus : /\ e.type = "transaction.created"
                         /\ \E r \in _categorize(e.description) : Emit({TransactionCategorizedEvent(e.tx, r)})
    BY DEF CategorizationRuns
  <1>2. PICK r \in _categorize(e.description) : bus' = bus \cup {TransactionCategorizedEvent(e.tx, r)}
    BY <1>1 DEF Emit
  <1>3. e.description \in Descriptions
    BY <1>1 DEF LedgerInv, EventsOK
  <1>4. PairKnown(r)
    BY <1>3, AnswersPaired DEF LedgerInv
  <1>5. /\ TransactionCategorizedEvent(e.tx, r).type = "transaction.categorized"
        /\ PairKnown(TransactionCategorizedEvent(e.tx, r))
    BY <1>4 DEF TransactionCategorizedEvent, PairKnown
  <1>6. EventsOK'
    BY <1>2, <1>5 DEF LedgerInv, EventsOK, PairKnown
  <1>7. UNCHANGED <<transactions, importing, editing, categorizing, categorized, overlapped>>
    BY DEF CategorizationRuns
  <1>8. TaxonomyPairs' /\ EnginesOK' /\ RowsOK' /\ PairsBelong'
    BY <1>7 DEF LedgerInv, TaxonomyPairs, EnginesOK, EngineOK, taxonomyVars, ruleVars, RowsOK, PairsBelong
  <1>9. SessionsOK'
    BY <1>7 DEF LedgerInv, SessionsOK, Holds, LeavesManual, PairKept
  <1> QED
    BY <1>6, <1>8, <1>9 DEF LedgerInv

LEMMA OtherLedgerSteps ==
    ASSUME LedgerInv, UNCHANGED <<taxonomyVars, ruleVars, parents>>,
           \/ \E d \in Descriptions : post_csv(d)
           \/ CategorizedLost
    PROVE  LedgerInv'
  <1>1. /\ UNCHANGED <<bus, transactions, editing, overlapped>> /\ importing' \subseteq Descriptions
        /\ categorizing' = categorizing \/ categorizing' = NoSession
    BY DEF post_csv, import_csv, CategorizedLost, LedgerInv, RowsOK
  <1>2. NoSession.tx = 0
    BY DEF NoSession
  <1>3. TaxonomyPairs' /\ EnginesOK' /\ EventsOK' /\ RowsOK' /\ PairsBelong'
    BY <1>1 DEF LedgerInv, TaxonomyPairs, EnginesOK, EngineOK, taxonomyVars, ruleVars, EventsOK, PairKnown,
                RowsOK, PairsBelong
  <1>4. SessionsOK'
    BY <1>1, <1>2 DEF LedgerInv, SessionsOK, Holds, LeavesManual, PairKept
  <1> QED
    BY <1>3, <1>4 DEF LedgerInv

LEMMA LedgerStepKeepsPairs ==
    ASSUME LedgerInv, LedgerStep
    PROVE  LedgerInv'
  <1>1. UNCHANGED <<taxonomyVars, ruleVars, parents>>
    BY DEF LedgerStep
  <1>2. \/ \E d \in Descriptions : post_csv(d) \/ \E choice \in SentPairs, tier \in SentTiers : post_transaction(d, choice, tier)
        \/ \E t \in TxIds :
              \/ remove_transaction(t)
              \/ \E c \in CategoryIds \cup {0, Unset}, s \in SubIds \cup {0, Unset} : put_transaction(t, c, s)
        \/ CsvCommits \/ EditCommits
        \/ CategorizationRuns \/ CategorizedReads \/ CategorizedCommits \/ CategorizedLost
    BY DEF LedgerStep
  <1>3. CASE \/ \E d \in Descriptions : \E choice \in SentPairs, tier \in SentTiers : post_transaction(d, choice, tier)
             \/ CsvCommits
    BY <1>1, <1>3, EntryKeepsPairs
  <1>4. CASE (\E d \in Descriptions : post_csv(d)) \/ CategorizedLost
    BY <1>1, <1>4, OtherLedgerSteps
  <1>5. CASE \E t \in TxIds : remove_transaction(t)
    BY <1>1, <1>5, RemovalKeepsPairs
  <1>6. CASE \E t \in TxIds : \E c \in CategoryIds \cup {0, Unset}, s \in SubIds \cup {0, Unset} :
                put_transaction(t, c, s)
    BY <1>1, <1>6, EditReadsKeepsPairs
  <1>7. CASE EditCommits \/ CategorizedCommits
    BY <1>1, <1>7, CommitsKeepPairs
  <1>8. CASE CategorizationRuns
    BY <1>1, <1>8, WorkerKeepsPairs
  <1>9. CASE CategorizedReads
    BY <1>1, <1>9, CategorizedReadsKeepsPairs
  <1> QED
    BY <1>2, <1>3, <1>4, <1>5, <1>6, <1>7, <1>8, <1>9

LEMMA LedgerInitially ==
    ASSUME Init
    PROVE  LedgerInv
  <1>1. \A pair \in parents : pair = <<pair[1], pair[2]>>
    BY DEF Init, LedgerInit
  <1>2. \A s \in DOMAIN StoredSubs : <<StoredSubs[s].parent, s>> \in parents
    BY DEF Init, LedgerInit
  <1>3. Len(log) = 0
    BY DEF Init, TaxonomyInit
  <1>4. TaxonomyPairs
    BY <1>1, <1>2, <1>3 DEF TaxonomyPairs, Init, TaxonomyInit
  <1>5. EnginesOK
    <2>1. PICK lookup \in Lookups, fallback \in Fallbacks :
             engine = [p \in Processes |-> Loaded(lookup, fallback)]
      BY DEF Init, RulesInit
    <2>2. fallback \in DOMAIN subcategories \cup {0}
      BY DEF Fallbacks, find_subcategory
    <2>3. /\ DOMAIN lookup = {subcategories[s].name : s \in DOMAIN subcategories}
          /\ \A n \in DOMAIN lookup : lookup[n] \in DOMAIN subcategories /\ subcategories[lookup[n]].name = n
      BY DEF Lookups
    <2>4. EngineOK(Loaded(lookup, fallback))
      BY <2>2, <2>3, <1>4 DEF EngineOK, Loaded, TaxonomyPairs
    <2> QED
      BY <2>1, <2>4 DEF EnginesOK
  <1>6. EventsOK
    BY DEF EventsOK, Init, PlatformInit
  <1>7. RowsOK /\ PairsBelong
    BY DEF RowsOK, PairsBelong, Init, LedgerInit
  <1>8. SessionsOK
    BY DEF SessionsOK, Holds, LeavesManual, Init, LedgerInit, NoSession
  <1> QED
    BY <1>4, <1>5, <1>6, <1>7, <1>8 DEF LedgerInv

LEMMA PairsStep ==
    ASSUME CopyInv, LedgerInv, [Next]_vars
    PROVE  LedgerInv'
  <1>1. CASE TaxonomyRequest
    BY <1>1, TaxonomyRequestKeepsPairs
  <1>2. CASE RuleRequest \/ RulesStep
    BY <1>2, RulesKeepPairs
  <1>3. CASE LedgerStep
    BY <1>3, LedgerStepKeepsPairs
  <1>4. CASE SyncNext /\ UNCHANGED <<ruleVars, ledgerVars, parents>>
    BY <1>4, SyncKeepsPairs
  <1>5. CASE UNCHANGED vars
    <2>1. UNCHANGED <<bus, taxonomyVars, ruleVars, ledgerVars, parents>>
      BY <1>5 DEF vars, platform
    <2>2. EnginesOK' /\ EventsOK' /\ RowsOK' /\ SessionsOK' /\ PairsBelong'
      BY <2>1, PairsStay
    <2>3. TaxonomyPairs'
      BY <2>1 DEF LedgerInv, TaxonomyPairs, taxonomyVars
    <2> QED
      BY <2>2, <2>3 DEF LedgerInv
  <1> QED
    BY <1>1, <1>2, <1>3, <1>4, <1>5 DEF Next

(* A transaction's subcategory belongs, or once belonged, to its category, *)
(* for every taxonomy, all rules and any number of requests: suggestions,  *)
(* categorisations and edits of either field alone.                        *)
THEOREM PairsBelongAlways == Spec => []PairsBelong
  <1>1. Init => CopyInv /\ LedgerInv
    BY CopyInitially, LedgerInitially DEF Init
  <1>2. CopyInv /\ LedgerInv /\ [Next]_vars => CopyInv' /\ LedgerInv'
    BY CopyStep, PairsStep
  <1>3. LedgerInv => PairsBelong
    BY DEF LedgerInv
  <1> QED
    BY <1>1, <1>2, <1>3, PTL DEF Spec

-----------------------------------------------------------------------------
(* The user's choice. *)

LEMMA SameButState ==
    ASSUME NEW a, NEW b, IsRow(a), IsRow(b), \A f \in RowFields \ {"state"} : a[f] = b[f]
    PROVE  [a EXCEPT !.state = "live"] = [b EXCEPT !.state = "live"]
  BY DEF IsRow, RowFields

LEMMA LedgerStepKeepsManual ==
    ASSUME LedgerInv, LedgerStep, NEW t \in DOMAIN transactions, transactions[t].tier = "manual",
           t \notin overlapped', editing.tx # t
    PROVE  [transactions'[t] EXCEPT !.state = "live"] = [transactions[t] EXCEPT !.state = "live"]
  <1>0. IsRow(transactions[t]) /\ Holds(editing) /\ Holds(categorizing) /\ LeavesManual /\ RowsOK
    BY DEF LedgerInv, RowsOK, SessionsOK
  <1>1. \/ \E d \in Descriptions : post_csv(d) \/ \E choice \in SentPairs, tier \in SentTiers : post_transaction(d, choice, tier)
        \/ \E u \in TxIds :
              \/ remove_transaction(u)
              \/ \E c \in CategoryIds \cup {0, Unset}, s \in SubIds \cup {0, Unset} : put_transaction(u, c, s)
        \/ CsvCommits \/ EditCommits
        \/ CategorizationRuns \/ CategorizedReads \/ CategorizedCommits \/ CategorizedLost
    BY DEF LedgerStep
  <1>2. ASSUME NEW u \in NextTx, NEW row, transactions' = With(transactions, u, row)
        PROVE  transactions'[t] = transactions[t]
    BY <1>2 DEF With, NextTx
  <1>3. CASE \/ \E d \in Descriptions : \E choice \in SentPairs, tier \in SentTiers : post_transaction(d, choice, tier)
             \/ CsvCommits
    BY <1>2, <1>3 DEF post_transaction, create_transaction, create, CsvCommits, bulk_create
  <1>4. CASE \/ \E d \in Descriptions : post_csv(d)
             \/ \E u \in TxIds : \E c \in CategoryIds \cup {0, Unset}, s \in SubIds \cup {0, Unset} :
                    put_transaction(u, c, s)
             \/ CategorizationRuns \/ CategorizedReads \/ CategorizedLost
    BY <1>4 DEF post_csv, put_transaction, CategorizationRuns, CategorizedReads, CategorizedLost
  <1>5. ASSUME NEW u, remove_transaction(u)
        PROVE  [transactions'[t] EXCEPT !.state = "live"] = [transactions[t] EXCEPT !.state = "live"]
    <2>1. CASE u = t
      BY <1>0, <1>5, <2>1, Tombstoned, SameButState
    <2>2. CASE u # t
      BY <1>0, <1>5, <2>2, Tombstoned
    <2> QED
      BY <2>1, <2>2
  <1>6. CASE EditCommits
    <2>1. editing.tx # 0 /\ transactions' = Flushed(editing.tx, editing.read, editing.new)
      BY <1>6 DEF EditCommits
    <2> QED
      BY <1>0, <2>1, Committed
  <1>7. CASE CategorizedCommits
    <2>1. /\ categorizing.tx # 0 /\ overlapped \subseteq overlapped'
          /\ transactions' = Flushed(categorizing.tx, categorizing.read, categorizing.new)
      BY <1>7 DEF CategorizedCommits, Overlap
    <2>2. CASE categorizing.tx # t
      BY <1>0, <2>1, <2>2, Committed
    <2>3. CASE categorizing.tx = t
      <3>1. \A f \in RowFields \ {"state"} : categorizing.read[f] = transactions[t][f]
        BY <1>0, <2>1, <2>3 DEF Holds
      <3>2. categorizing.read.tier = "manual"
        BY <3>1 DEF RowFields
      <3>3. categorizing.new = categorizing.read
        BY <1>0, <2>1, <3>2 DEF LeavesManual
      <3>4. /\ IsRow(transactions'[t])
            /\ \A f \in RowFields \ {"state"} : transactions'[t][f] = categorizing.new[f]
        BY <1>0, <2>1, <2>3, Committed
      <3>5. \A f \in RowFields \ {"state"} : transactions'[t][f] = transactions[t][f]
        BY <3>1, <3>3, <3>4
      <3> QED
        BY <1>0, <3>4, <3>5, SameButState
    <2> QED
      BY <2>2, <2>3
  <1> QED
    BY <1>1, <1>3, <1>4, <1>5, <1>6, <1>7

(* A row pinned as manual changes by another edit or its deletion only,    *)
(* whatever categorisations arrive, late or repeated, unless a session had *)
(* read the row before the choice was committed.                           *)
THEOREM ManualKeptAlways == Spec => ManualKept
  <1>1. Init => CopyInv /\ LedgerInv
    BY CopyInitially, LedgerInitially DEF Init
  <1>2. CopyInv /\ LedgerInv /\ [Next]_vars => CopyInv' /\ LedgerInv'
    BY CopyStep, PairsStep
  <1>3. ASSUME LedgerInv, [Next]_vars
        PROVE  [\A t \in DOMAIN transactions :
                   transactions[t].tier = "manual" /\ t \notin overlapped' /\ editing.tx # t
                   => [transactions'[t] EXCEPT !.state = "live"] = [transactions[t] EXCEPT !.state = "live"]]_vars
    <2>1. CASE LedgerStep
      BY <1>3, <2>1, LedgerStepKeepsManual
    <2>2. CASE ~ LedgerStep
      <3>1. transactions' = transactions
        BY <1>3, <2>2 DEF Next, TaxonomyRequest, post_category, put_category, remove_category_route,
              post_subcategory, put_subcategory, remove_subcategory_route, TaxonomyRoute, RuleRequest,
              post_rule, put_rule, remove_rule_route, RuleRoute, RulesStep, ledgerVars, vars
      <3> QED
        BY <3>1
    <2> QED
      BY <2>1, <2>2
  <1> QED
    BY <1>1, <1>2, <1>3, PTL DEF Spec, ManualKept

-----------------------------------------------------------------------------
(* The rules: what a request or a correction leaves of them. *)

LEMMA RuleWritten ==
    ASSUME RulesOK, NEW k, NEW row, k = <<k[1], k[2]>>, row.target \in DOMAIN subcategories',
           row.priority \in {LEARNED_RULE_PRIORITY} \cup 20..90,
           row.priority = LEARNED_RULE_PRIORITY => k[1] = "merchant",
           NEW old, rules' = With(old, k, row),
           \A l \in DOMAIN old : l \in DOMAIN rules /\ old[l] = rules[l],
           subcategories' = subcategories
    PROVE  RulesOK'
  <1>1. DOMAIN rules' = DOMAIN old \cup {k}
    BY DEF With
  <1>2. ASSUME NEW l \in DOMAIN rules'
        PROVE  /\ l = <<l[1], l[2]>>
               /\ rules'[l].target \in DOMAIN subcategories
               /\ rules'[l].priority \in {LEARNED_RULE_PRIORITY} \cup 20..90
               /\ rules'[l].priority = LEARNED_RULE_PRIORITY => l[1] = "merchant"
    <2>1. CASE l = k
      <3>1. rules'[l] = row
        BY <2>1 DEF With
      <3> QED
        BY <2>1, <3>1
    <2>2. CASE l # k
      <3>1. l \in DOMAIN old /\ rules'[l] = old[l]
        BY <2>2, <1>1 DEF With
      <3> QED
        BY <3>1 DEF RulesOK, RuleOK
    <2> QED
      BY <2>1, <2>2
  <1> QED
    BY <1>2 DEF RulesOK, RuleOK

LEMMA RulesRequestKeepsRules ==
    ASSUME RulesOK, RuleRequest
    PROVE  RulesOK'
  <1>0. subcategories' = subcategories
    BY DEF RuleRequest, RuleRoute, post_rule, put_rule, remove_rule_route, taxonomyVars
  <1>1. ASSUME NEW p \in Patterns, NEW s \in SubIds, NEW prio \in Priorities, post_rule(p, s, prio)
        PROVE  RulesOK'
    <2> DEFINE k == <<"keyword", p>>
               row == RuleRow(s, prio, TRUE)
    <2>1. rules' = With(rules, k, row) /\ s \in DOMAIN subcategories
      BY <1>1 DEF post_rule, create_rule, insert_rule, find_subcategory
    <2>2. row.target = s /\ row.priority = prio /\ k = <<k[1], k[2]>>
      BY DEF RuleRow
    <2>3. prio \in 20..90 /\ prio # LEARNED_RULE_PRIORITY
      BY RulesAssumption DEF LEARNED_RULE_PRIORITY
    <2> HIDE DEF k, row
    <2> QED
      BY <1>0, <2>1, <2>2, <2>3, RuleWritten
  <1>2. ASSUME NEW p \in Patterns, NEW s \in SubIds, NEW prio \in Priorities,
               NEW k \in list_rules, NEW active \in BOOLEAN, put_rule(k, p, s, prio, active)
        PROVE  RulesOK'
    <2> DEFINE new == <<k[1], p>>
               row == RuleRow(s, prio, active)
               old == Without(rules, k)
    <2>1. rules' = With(old, new, row) /\ s \in DOMAIN subcategories
      BY <1>2 DEF put_rule, update_rule, write_rule, find_subcategory
    <2>2. row.target = s /\ row.priority = prio /\ new = <<new[1], new[2]>>
      BY DEF RuleRow
    <2>3. prio \in 20..90 /\ prio # LEARNED_RULE_PRIORITY
      BY RulesAssumption DEF LEARNED_RULE_PRIORITY
    <2>4. \A l \in DOMAIN old : l \in DOMAIN rules /\ old[l] = rules[l]
      BY DEF Without
    <2> HIDE DEF new, row, old
    <2> QED
      BY <1>0, <2>1, <2>2, <2>3, <2>4, RuleWritten
  <1>3. ASSUME NEW k, remove_rule_route(k)
        PROVE  RulesOK'
    <2>1. \A l \in DOMAIN rules' : l \in DOMAIN rules /\ rules'[l] = rules[l]
      BY <1>3 DEF remove_rule_route, delete_rule, remove_rule, Without
    <2> QED
      BY <1>0, <2>1 DEF RulesOK, RuleOK
  <1> QED
    BY <1>1, <1>2, <1>3 DEF RuleRequest

LEMMA CorrectionKeepsRules ==
    ASSUME RulesOK, CorrectionHandled, subcategories' = subcategories
    PROVE  RulesOK'
  <1>1. PICK e \in bus : IF Teaches(e) THEN Learn(e) ELSE UNCHANGED rules
    BY DEF CorrectionHandled
  <1>2. CASE Teaches(e)
    <2> DEFINE p == normalize_merchant_pattern(e.description)
               k == <<"merchant", p>>
    <2>1. e.sub \in DOMAIN subcategories
      BY <1>2 DEF Teaches, find_subcategory
    <2>2. CASE find_by_user_and_pattern("merchant", p) # {}
      <3> DEFINE row == RuleRow(e.sub, rules[k].priority, TRUE)
                 old == Without(rules, k)
      <3>1. k \in DOMAIN rules
        BY <2>2 DEF find_by_user_and_pattern, find_by_user
      <3>2. rules' = With(old, k, row)
        BY <1>1, <1>2, <2>2 DEF Learn, write_rule
      <3>3. row.target = e.sub /\ row.priority = rules[k].priority /\ k = <<k[1], k[2]>> /\ k[1] = "merchant"
        BY DEF RuleRow
      <3>4. \A l \in DOMAIN old : l \in DOMAIN rules /\ old[l] = rules[l]
        BY DEF Without
      <3>5. rules[k].priority \in {LEARNED_RULE_PRIORITY} \cup 20..90
        BY <3>1 DEF RulesOK, RuleOK
      <3> HIDE DEF k, row, old
      <3> QED
        BY <2>1, <3>2, <3>3, <3>4, <3>5, RuleWritten
    <2>3. CASE find_by_user_and_pattern("merchant", p) = {}
      <3> DEFINE row == RuleRow(e.sub, LEARNED_RULE_PRIORITY, TRUE)
      <3>1. rules' = With(rules, k, row)
        BY <1>1, <1>2, <2>3 DEF Learn, insert_rule
      <3>2. row.target = e.sub /\ row.priority = LEARNED_RULE_PRIORITY /\ k = <<k[1], k[2]>> /\ k[1] = "merchant"
        BY DEF RuleRow
      <3> HIDE DEF k, row
      <3> QED
        BY <2>1, <3>1, <3>2, RuleWritten
    <2> QED
      BY <2>2, <2>3
  <1>3. CASE ~ Teaches(e)
    BY <1>1, <1>3 DEF RulesOK, RuleOK
  <1> QED
    BY <1>2, <1>3

(* A subcategory that a rule names is not deleted. *)
LEMMA TaxonomyRequestKeepsRules ==
    ASSUME RulesOK, TaxonomyRequest
    PROVE  RulesOK'
  <1>1. rules' = rules
    BY DEF TaxonomyRequest, post_category, put_category, remove_category_route, post_subcategory,
           put_subcategory, remove_subcategory_route, TaxonomyRoute, ruleVars
  <1>2. ASSUME NEW s \in SubIds, remove_subcategory_route(s)
        PROVE  RulesOK'
    <2>1. find_by_subcategory_id(s) = {} /\ subcategories' = Without(subcategories, s)
      BY <1>2 DEF remove_subcategory_route, delete_subcategory, remove_subcategory
    <2>2. \A k \in DOMAIN rules : rules[k].target # s
      BY <2>1 DEF find_by_subcategory_id
    <2>3. DOMAIN subcategories' = DOMAIN subcategories \ {s}
      BY <2>1 DEF Without
    <2> QED
      BY <1>1, <2>2, <2>3 DEF RulesOK, RuleOK
  <1>3. CASE ~ \E s \in SubIds : remove_subcategory_route(s)
    <2>1. DOMAIN subcategories \subseteq DOMAIN subcategories'
      BY <1>3 DEF TaxonomyRequest, post_category, put_category, remove_category_route, post_subcategory,
             put_subcategory, create_category, update_category, delete_category, create_subcategory,
             update_subcategory, insert_subcategory, write_subcategory, With
    <2> QED
      BY <1>1, <2>1 DEF RulesOK, RuleOK
  <1> QED
    BY <1>2, <1>3

LEMMA RulesOKStep ==
    ASSUME RulesOK, [Next]_vars
    PROVE  RulesOK'
  <1>1. CASE RulesStep
    <2>1. subcategories' = subcategories
      BY <1>1 DEF RulesStep, taxonomyVars
    <2>2. CASE CorrectionHandled
      BY <2>1, <2>2, CorrectionKeepsRules
    <2>3. CASE OverlayLoads \/ \E p \in Processes : EngineReloads(p)
      BY <2>1, <2>3 DEF OverlayLoads, EngineReloads, RulesOK, RuleOK
    <2> QED
      BY <1>1, <2>2, <2>3 DEF RulesStep
  <1>2. CASE LedgerStep \/ (SyncNext /\ UNCHANGED <<ruleVars, ledgerVars, parents>>) \/ UNCHANGED vars
    <2>1. UNCHANGED <<rules, subcategories>>
      BY <1>2 DEF LedgerStep, SyncNext, SyncHandles, SyncFails, PublishedAgain, ruleVars, taxonomyVars, vars
    <2> QED
      BY <2>1 DEF RulesOK, RuleOK
  <1> QED
    BY <1>1, <1>2, TaxonomyRequestKeepsRules, RulesRequestKeepsRules DEF Next

-----------------------------------------------------------------------------
(* The tiers of the worker's engine for the user. *)

Matchable == {k \in DOMAIN rules : rules[k].active /\ rules[k].target \in DOMAIN subcategories}

TierNames(prio) ==
    [k \in {l \in Matchable : rules[l].priority = prio} |-> subcategories[rules[k].target].name]

(* A fresh overlay has a tier for each priority, which names the targets.  *)
LEMMA FreshTiers ==
    ASSUME EngineFresh, NEW tiers,
           tiers = IF overlay.loaded THEN overlay.tiers ELSE _load_user_engines.tiers
    PROVE  /\ DOMAIN tiers = {rules[k].priority : k \in Matchable}
           /\ \A prio \in DOMAIN tiers : tiers[prio] = TierNames(prio)
  <1>1. engine["worker"].subs = subcategories
    BY DEF EngineFresh
  <1>2. tiers = _load_user_engines.tiers
    <2>1. NotLoaded.loaded = FALSE /\ _load_user_engines.loaded = TRUE
      BY DEF NotLoaded, _load_user_engines
    <2>2. overlay = NotLoaded \/ overlay = _load_user_engines
      BY DEF EngineFresh
    <2> QED
      BY <2>1, <2>2
  <1>3. _load_user_engines.tiers =
           [prio \in {rules[k].priority : k \in Matchable} |-> TierNames(prio)]
    BY <1>1 DEF _load_user_engines, Matchable, TierNames
  <1> QED
    BY <1>2, <1>3

(* Of the patterns in a description, the learned one is the longest that a *)
(* learned rule has, and its rule the only one of the tier.                *)
LEMMA LearnedTierMatches ==
    ASSUME RulesOK, EnginesOK, EngineFresh, NEW d \in Descriptions, Applies(d),
           NEW k, k = <<"merchant", normalize_merchant_pattern(d)>>, k \in Matchable,
           rules[k].priority = LEARNED_RULE_PRIORITY, NameUnique(rules[k].target),
           NEW tier, tier = TierNames(LEARNED_RULE_PRIORITY)
    PROVE  keyword_match(tier, d) =
              {Result(rules[k].target, subcategories[rules[k].target].parent, "rule")}
  <1> DEFINE lookup == engine["worker"].lookup
             found == PatternsIn[d]
             matching(p) == {l \in DOMAIN tier : l[2] = p /\ tier[l] \in DOMAIN lookup}
             hits == {n \in DOMAIN found : matching(found[n]) # {}}
             name == subcategories[rules[k].target].name
  <1>1. /\ DOMAIN lookup = {subcategories[s].name : s \in DOMAIN subcategories}
        /\ \A n \in DOMAIN lookup : lookup[n] \in DOMAIN subcategories /\ subcategories[lookup[n]].name = n
        /\ engine["worker"].subs = subcategories
    BY DEF EnginesOK, EngineOK, EngineFresh, Processes
  <1>2. rules[k].target \in DOMAIN subcategories /\ k \in DOMAIN tier /\ tier[k] = name
    BY DEF Matchable, TierNames
  <1>3. name \in DOMAIN lookup
    BY <1>1, <1>2
  <1>4. lookup[name] = rules[k].target
    BY <1>1, <1>3 DEF NameUnique
  <1>5. ASSUME NEW l \in DOMAIN tier
        PROVE  l \in DOMAIN rules /\ l = <<"merchant", l[2]>>
    BY DEF Matchable, TierNames, RulesOK, RuleOK
  <1>6. PICK n \in DOMAIN found :
           /\ found[n] = k[2]
           /\ \A m \in DOMAIN found : m < n => <<"merchant", found[m]>> \notin DOMAIN rules
    BY DEF Applies
  <1>7. matching(k[2]) = {k}
    <2>1. k \in matching(k[2])
      BY <1>2, <1>3
    <2>2. ASSUME NEW l \in matching(k[2]) PROVE l = k
      BY <1>5, <2>2
    <2> QED
      BY <2>1, <2>2
  <1>8. n \in hits
    BY <1>6, <1>7
  <1>9. ASSUME NEW m \in hits PROVE ~ (m < n)
    <2>1. PICK l \in DOMAIN tier : l[2] = found[m]
      OBVIOUS
    <2>2. <<"merchant", found[m]>> \in DOMAIN rules
      BY <1>5, <2>1
    <2> QED
      BY <1>6, <2>2
  <1>10. hits \subseteq Nat
    BY RulesAssumption
  <1>11. Min(hits) = n
    <2>1. Min(hits) \in hits /\ Min(hits) <= n
      <3> HIDE DEF hits
      <3> QED
        BY <1>8, <1>10, MinOfNats
    <2>2. Min(hits) \in Nat /\ n \in Nat /\ ~ (Min(hits) < n)
      BY <1>8, <1>9, <1>10, <2>1
    <2> QED
      BY <2>1, <2>2
  <1>12. keyword_match(tier, d) =
            IF hits = {} THEN {}
            ELSE {Result(lookup[tier[l]], subcategories[lookup[tier[l]]].parent, "rule") :
                     l \in matching(found[Min(hits)])}
    BY <1>1 DEF keyword_match
  <1>13. matching(found[Min(hits)]) = {k} /\ hits # {}
    BY <1>6, <1>7, <1>8, <1>11
  <1> HIDE DEF hits, matching, lookup
  <1> QED
    BY <1>2, <1>4, <1>12, <1>13

(* The learned rules' tier comes first. *)
LEMMA LearnedRuleDecides ==
    ASSUME RulesOK, EnginesOK, EngineFresh, NEW d \in Descriptions, Applies(d),
           NEW k, k = <<"merchant", normalize_merchant_pattern(d)>>, k \in DOMAIN rules, rules[k].active,
           rules[k].priority = LEARNED_RULE_PRIORITY, NameUnique(rules[k].target)
    PROVE  _categorize(d) = {Result(rules[k].target, subcategories[rules[k].target].parent, "rule")}
  <1>0. PICK tiers : tiers = IF overlay.loaded THEN overlay.tiers ELSE _load_user_engines.tiers
    OBVIOUS
  <1> DEFINE hit == {t \in DOMAIN tiers : keyword_match(tiers[t], d) # {}}
             answer == Result(rules[k].target, subcategories[rules[k].target].parent, "rule")
             first == CHOOSE t \in hit : \A u \in hit : t <= u
  <1>1. k \in Matchable
    BY DEF Matchable, RulesOK, RuleOK
  <1>2. /\ DOMAIN tiers = {rules[l].priority : l \in Matchable}
        /\ \A prio \in DOMAIN tiers : tiers[prio] = TierNames(prio)
    BY <1>0, FreshTiers
  <1>3. LEARNED_RULE_PRIORITY \in DOMAIN tiers
    BY <1>1, <1>2
  <1>4. \A prio \in DOMAIN tiers : prio \in {LEARNED_RULE_PRIORITY} \cup 20..90
    BY <1>2 DEF Matchable, RulesOK, RuleOK
  <1>5. keyword_match(tiers[LEARNED_RULE_PRIORITY], d) = {answer}
    BY <1>1, <1>2, <1>3, LearnedTierMatches
  <1>6. LEARNED_RULE_PRIORITY \in hit /\ \A t \in hit : t \in {LEARNED_RULE_PRIORITY} \cup 20..90
    <2> HIDE DEF answer
    <2> QED
      BY <1>3, <1>4, <1>5
  <1>7. first = LEARNED_RULE_PRIORITY
    <2> HIDE DEF hit
    <2> QED
      BY <1>6 DEF LEARNED_RULE_PRIORITY
  <1>8. tiered_match(d) = {answer}
    <2>1. tiered_match(d) = IF hit = {} THEN constrained_match("worker", d) ELSE keyword_match(tiers[first], d)
      BY <1>0 DEF tiered_match
    <2> HIDE DEF hit, answer, first
    <2> QED
      BY <1>5, <1>6, <1>7, <2>1
  <1>9. tiered_match(d) # {}
    <2> HIDE DEF answer
    <2> QED
      BY <1>8
  <1>10. _categorize(d) = tiered_match(d)
    BY <1>9 DEF _categorize, _run_pipeline
  <1> QED
    BY <1>8, <1>10

(* No rule names a subcategory that is gone, and a learned rule decides    *)
(* where it applies, for every set of patterns, rules and priorities.      *)
THEOREM LearnedRuleWinsAlways == Spec => []LearnedRuleWins
  <1>1. Init => CopyInv /\ LedgerInv /\ RulesOK
    BY CopyInitially, LedgerInitially DEF Init, RulesInit, RulesOK
  <1>2. CopyInv /\ LedgerInv /\ RulesOK /\ [Next]_vars => CopyInv' /\ LedgerInv' /\ RulesOK'
    BY CopyStep, PairsStep, RulesOKStep
  <1>3. LedgerInv /\ RulesOK => LearnedRuleWins
    <2> SUFFICES ASSUME LedgerInv, RulesOK
                 PROVE  LearnedRuleWins
      OBVIOUS
    <2>1. \A k \in DOMAIN rules : find_subcategory(rules[k].target)
      BY DEF RulesOK, RuleOK, find_subcategory
    <2>2. EnginesOK
      BY DEF LedgerInv
    <2> QED
      BY <2>1, <2>2, LearnedRuleDecides DEF LearnedRuleWins
  <1> QED
    BY <1>1, <1>2, <1>3, PTL DEF Spec

-----------------------------------------------------------------------------
(* What was approved.  Every manifest from the draft of a summary on stays *)
(* within the mapping in force, and what a service is about to write is in *)
(* the manifest the owner approved, though its file changes later.         *)

Allowed(row) == row.target \in _allowed_targets(Mappings[CurrentMapping], row)

Within(ms) == \A s \in Services : \A x \in ms[s].rows : Allowed(x)

WrittenOK(ws) == \A w \in ws : w.row \in approved /\ Allowed(w.row)

ApprovalInv ==
    /\ drafting # Idle => Within(drafting.manifests)
    /\ summary # NoFile => Within(summary.manifests)
    /\ approval # NoFile =>
          /\ Within(approval.manifests)
          /\ \A s \in Services : approval.manifests[s].rows \subseteq approved
    /\ applying = [s \in Services |-> applying[s]]
    /\ \A s \in Services : WrittenOK(applying[s].writes)
    /\ WrittenOK(written)

reviewVars == <<drafting, summary, approval, applying, written, approved>>

LEMMA ApprovalStays ==
    ASSUME ApprovalInv, UNCHANGED reviewVars
    PROVE  ApprovalInv'
  BY DEF ApprovalInv, reviewVars, WrittenOK

LEMMA SummaryDrafted ==
    ASSUME ApprovalInv, NEW baseline, aggregate(baseline)
    PROVE  ApprovalInv'
  <1>1. WithinMapping(Mappings[CurrentMapping])
        /\ drafting' = [run |-> reports["transaction"].run, manifests |-> _execution_manifests]
        /\ UNCHANGED <<summary, approval, applying, written, approved>>
    BY DEF aggregate
  <1>2. Within(_execution_manifests)
    BY <1>1 DEF WithinMapping, Within, Allowed
  <1>3. drafting'.manifests = _execution_manifests
    BY <1>1
  <1>4. Within(drafting'.manifests)
    BY <1>2, <1>3
  <1> QED
    BY <1>1, <1>4 DEF ApprovalInv, WrittenOK

LEMMA ManifestsWritten ==
    ASSUME ApprovalInv, write_execution_manifests
    PROVE  ApprovalInv'
  <1>1. /\ drafting # Idle /\ drafting' = Idle /\ summary' \in {drafting, summary}
        /\ UNCHANGED <<approval, applying, written, approved>>
    BY DEF write_execution_manifests
  <1>2. summary' # NoFile => Within(summary'.manifests)
    BY <1>1 DEF ApprovalInv
  <1> QED
    BY <1>1, <1>2 DEF ApprovalInv, WrittenOK

LEMMA SummaryApproved ==
    ASSUME ApprovalInv, OwnerApproves
    PROVE  ApprovalInv'
  <1>1. /\ summary # NoFile /\ approval' = summary
        /\ approved' = approved \cup UNION {summary.manifests[s].rows : s \in Services}
        /\ UNCHANGED <<drafting, summary, applying, written>>
    BY DEF OwnerApproves
  <1>2. Within(approval'.manifests) /\ \A s \in Services : approval'.manifests[s].rows \subseteq approved'
    BY <1>1 DEF ApprovalInv
  <1> QED
    BY <1>1, <1>2 DEF ApprovalInv, WrittenOK

LEMMA ManifestApplied ==
    ASSUME ApprovalInv, NEW s \in Services, apply_reclassification(s)
    PROVE  ApprovalInv'
  <1> DEFINE rows == manifests[s].rows
             TargetOf(x) == CHOOSE t \in Resolved(s, x.target) : TRUE
             ws == {[row |-> x, to |-> TargetOf(x)] : x \in {y \in rows : Applicable(y, TargetOf(y))}}
             adds == {<<x.target, TargetOf(x)>> : x \in
                         {y \in rows : s = "transaction" /\ ActiveLeaf(copy, y.target) = {}}}
  <1>1. /\ authorize_execution(s)
        /\ applying' = [applying EXCEPT ![s] = [writes |-> ws, added |-> adds]]
        /\ UNCHANGED <<drafting, summary, approval, written, approved>>
    BY DEF apply_reclassification
  <1>2. \A x \in rows : x \in approved /\ Allowed(x)
    BY <1>1 DEF authorize_execution, ApprovalInv, Within
  <1>3. \A w \in ws : w.row \in rows
    OBVIOUS
  <1>4. WrittenOK(ws)
    BY <1>2, <1>3 DEF WrittenOK
  <1> HIDE DEF ws, adds
  <1>5. applying' = [u \in Services |-> applying'[u]]
    BY <1>1 DEF ApprovalInv
  <1>6. ASSUME NEW u \in Services PROVE WrittenOK(applying'[u].writes)
    BY <1>1, <1>4 DEF ApprovalInv
  <1> QED
    BY <1>1, <1>5, <1>6 DEF ApprovalInv, WrittenOK

LEMMA CommitsWrite ==
    ASSUME ApprovalInv, NEW s \in Services, ApplyCommits(s) \/ ApplyAborts(s)
    PROVE  ApprovalInv'
  <1>1. /\ applying' = [applying EXCEPT ![s] = Idle]
        /\ written' \in {written, written \cup applying[s].writes}
        /\ UNCHANGED <<drafting, summary, approval, approved>>
    BY DEF ApplyCommits, ApplyAborts
  <1>2. Idle.writes = {}
    BY DEF Idle
  <1>3. applying' = [u \in Services |-> applying'[u]]
    BY <1>1 DEF ApprovalInv
  <1>4. ASSUME NEW u \in Services PROVE WrittenOK(applying'[u].writes)
    BY <1>1, <1>2 DEF ApprovalInv, WrittenOK
  <1>5. WrittenOK(written')
    BY <1>1 DEF ApprovalInv, WrittenOK
  <1> QED
    BY <1>1, <1>3, <1>4, <1>5 DEF ApprovalInv, WrittenOK

LEMMA ApprovalStep ==
    ASSUME ApprovalInv, [ReclassificationNext]_allVars
    PROVE  ApprovalInv'
  <1>1. CASE UpgradeNext(ResultsNameTargets, RulesNameTargets) /\ UNCHANGED reclassVars
    BY <1>1, ApprovalStays DEF reclassVars, reviewVars
  <1>2. ASSUME NEW run \in Runs, \/ DryRunCategorization(run)
                                 \/ \E v \in DOMAIN Mappings :
                                       \/ DryRunBudget(run, v)
                                       \/ \E answers \in [RefsOf["transaction"] -> ToSet(ChildKeys) \cup {NoKey}] :
                                             DryRunTransaction(run, v, answers)
        PROVE  ApprovalInv'
    <2>1. UNCHANGED reviewVars
      BY <1>2 DEF DryRunCategorization, DryRunBudget, DryRunTransaction, write_report, reviewVars
    <2> QED
      BY <2>1, ApprovalStays
  <1>3. ASSUME NEW r \in Refs, UserRecategorizes(r) \/ UserDeletes(r)
        PROVE  ApprovalInv'
    <2>1. UNCHANGED reviewVars
      BY <1>3 DEF UserRecategorizes, UserDeletes, RowEdited, reviewVars
    <2> QED
      BY <2>1, ApprovalStays
  <1>4. CASE UNCHANGED allVars
    BY <1>4, ApprovalStays DEF allVars, reclassVars, reviewVars
  <1> QED
    BY <1>1, <1>2, <1>3, <1>4, SummaryDrafted, ManifestsWritten, SummaryApproved, ManifestApplied, CommitsWrite
    DEF ReclassificationNext

(* What the tools write was approved row by row, and is within the mapping *)
(* in force, whatever scans and manifests follow the approval.             *)
THEOREM OnlyApprovedWrittenAlways == ReclassificationSpec => []OnlyApprovedWritten
  <1>1. ReclassificationInit => ApprovalInv
    <2>1. Idle.writes = {}
      BY DEF Idle
    <2> QED
      BY <2>1 DEF ReclassificationInit, ApprovalInv, WrittenOK
  <1>2. ApprovalInv /\ [ReclassificationNext]_allVars => ApprovalInv'
    BY ApprovalStep
  <1>3. ApprovalInv => OnlyApprovedWritten
    BY DEF ApprovalInv, WrittenOK, Allowed, OnlyApprovedWritten
  <1> QED
    BY <1>1, <1>2, <1>3, PTL DEF ReclassificationSpec

-----------------------------------------------------------------------------
(* One id per key.  F names the id of every key.  Until the taxonomy is    *)
(* first installed nothing has a key, so any F will do; the installation   *)
(* decides which, and all that is announced, noted, looked up, copied or   *)
(* written from then on agrees with it.                                    *)

Named(F, kind, k, i) == k \in ToSet(Keys[kind]) /\ F[kind][k] = i

NodesNamed(F, kind, nodes) ==
    \A i \in DOMAIN nodes : nodes[i].key # NoKey => Named(F, kind, nodes[i].key, i)

ParentNamed(F, node) == node.parent = F["category"][ParentOf[node.key]]

EventNamed(F, e) ==
    e.kind \in Kinds /\ e.state # Gone /\ e.state.key # NoKey => Named(F, e.kind, e.state.key, e.node)

AllocationNamed(F, r) == r.kind \in Kinds /\ Named(F, r.kind, r.key, r.id)

(* A target: of a category key its category, of a leaf its subcategory.    *)
TargetNamed(F, k, t) ==
    /\ k \in ToSet(ParentKeys) => F["category"][k] = t.cat
    /\ k \in ToSet(ChildKeys) => F["subcategory"][k] = t.sub

AdditionNamed(F, a) ==
    /\ a[1] \in ToSet(ChildKeys)
    /\ F["category"][ParentOf[a[1]]] = a[2].cat /\ F["subcategory"][a[1]] = a[2].sub

Agreed(F) ==
    /\ \A kind \in Kinds : NodesNamed(F, kind, table[kind])
    /\ \A i \in Keyed("subcategory") : ParentNamed(F, table["subcategory"][i])
    /\ \A kind \in Kinds : NodesNamed(F, kind, copy[kind])
    /\ \A e \in bus : EventNamed(F, e)
    /\ \A r \in LedgerRows(ledger) : AllocationNamed(F, r)
    /\ \A w \in written : TargetNamed(F, w.row.target, w.to)
    /\ \A s \in Services : \A w \in applying[s].writes : TargetNamed(F, w.row.target, w.to)
    /\ \A s \in Services : applying[s] # Idle => \A a \in applying[s].added : AdditionNamed(F, a)

IsNode(n) == n = Node(n.key, n.parent, n.active)

ShapeOK ==
    /\ table = [kind \in Kinds |-> table[kind]] /\ copy = [kind \in Kinds |-> copy[kind]]
    /\ \A kind \in Kinds : \A i \in DOMAIN table[kind] : IsNode(table[kind][i])
    /\ applying = [s \in Services |-> applying[s]]

Installed == \E e \in bus : e.id[1] = "taxonomy-v1"

IdentityInv ==
    /\ ShapeOK
    /\ \A o \in outbox : \E e \in bus : e.id = o
    /\ ~ Installed => \A F : Agreed(F)
    /\ ~ reinstalled => \E F : Agreed(F)

-----------------------------------------------------------------------------
(* Keys *)

LEMMA KeysApart ==
    /\ Keys["category"] = ParentKeys /\ Keys["subcategory"] = ChildKeys
    /\ \A k \in ToSet(ChildKeys) : ParentOf[k] \in ToSet(ParentKeys) /\ k \notin ToSet(ParentKeys) /\ k # NoKey
    /\ \A k \in ToSet(ParentKeys) : k # NoKey
  BY UpgradeAssumption DEF Keys, AllKeys

LEMMA NodeShape ==
    ASSUME NEW k, NEW p, NEW a
    PROVE  /\ IsNode(Node(k, p, a))
           /\ Node(k, p, a).key = k /\ Node(k, p, a).parent = p /\ Node(k, p, a).active = a
  BY DEF IsNode, Node

LEMMA NodeActivated ==
    ASSUME NEW n, NEW a, IsNode(n)
    PROVE  /\ IsNode([n EXCEPT !.active = a])
           /\ [n EXCEPT !.active = a].key = n.key /\ [n EXCEPT !.active = a].parent = n.parent
  BY DEF IsNode, Node

LEMMA NodesMerged ==
    ASSUME NEW F, NEW kind, NEW f, NEW g, NodesNamed(F, kind, f), NodesNamed(F, kind, g)
    PROVE  NodesNamed(F, kind, Merged(f, g))
  BY DEF NodesNamed, Merged

LEMMA NodesWith ==
    ASSUME NEW F, NEW kind, NEW f, NEW i, NEW node, NodesNamed(F, kind, f),
           node.key # NoKey => Named(F, kind, node.key, i)
    PROVE  NodesNamed(F, kind, With(f, i, node))
  BY DEF NodesNamed, With

LEMMA NodesRest ==
    ASSUME NEW F, NEW kind, NEW f, NEW S, NodesNamed(F, kind, f)
    PROVE  NodesNamed(F, kind, Rest(f, S))
  BY DEF NodesNamed, Rest

(* Events are published, never taken back. *)
LEMMA AnnouncedNamed ==
    ASSUME NEW F, NEW events, Announced(events), \A e \in events : EventNamed(F, e),
           \A e \in bus : EventNamed(F, e)
    PROVE  \A e \in bus' : EventNamed(F, e)
  BY DEF Announced, Emit

LEMMA AnnouncedOnce ==
    ASSUME NEW events, Announced(events), \A o \in outbox : \E e \in bus : e.id = o
    PROVE  /\ bus \subseteq bus' /\ \A o \in outbox' : \E e \in bus' : e.id = o
           /\ \A e \in events : \E f \in bus' : f.id = e.id
  BY DEF Announced, Emit

-----------------------------------------------------------------------------
(* Resolving a target *)

LEMMA LeafNamed ==
    ASSUME NEW F, NEW nodes, NodesNamed(F, "subcategory", nodes["subcategory"]),
           NEW k, k # NoKey, NEW t \in ActiveLeaf(nodes, k)
    PROVE  TargetNamed(F, k, t) /\ k \in ToSet(ChildKeys)
  <1>1. PICK j \in ActiveTarget(nodes["subcategory"], k) : t = Target(nodes["subcategory"][j].parent, j)
    BY DEF ActiveLeaf
  <1>2. j \in DOMAIN nodes["subcategory"] /\ nodes["subcategory"][j].key = k
    BY DEF ActiveTarget, IdsOf
  <1>3. k \in ToSet(ChildKeys) /\ F["subcategory"][k] = j
    BY <1>2, KeysApart DEF NodesNamed, Named
  <1>4. t.sub = j
    BY <1>1 DEF Target
  <1> QED
    BY <1>3, <1>4, KeysApart DEF TargetNamed

LEMMA IdentityNamed ==
    ASSUME NEW F, NodesNamed(F, "category", table["category"]), NEW k, k # NoKey, NEW t \in resolve_identity(k)
    PROVE  TargetNamed(F, k, t)
  <1>1. PICK i \in ActiveTarget(table["category"], k) : t = Target(i, NoSub)
    BY DEF resolve_identity
  <1>2. i \in DOMAIN table["category"] /\ table["category"][i].key = k
    BY DEF ActiveTarget, IdsOf
  <1>3. k \in ToSet(ParentKeys) /\ F["category"][k] = i
    BY <1>2, KeysApart DEF NodesNamed, Named
  <1>4. t.cat = i
    BY <1>1 DEF Target
  <1> QED
    BY <1>3, <1>4, KeysApart DEF TargetNamed

LEMMA ResolvedNamed ==
    ASSUME NEW F, Agreed(F), NEW s \in Services, NEW k, k # NoKey, NEW t \in Resolved(s, k)
    PROVE  /\ TargetNamed(F, k, t)
           /\ s = "transaction" /\ ActiveLeaf(copy, k) = {} => AdditionNamed(F, <<k, t>>)
  <1>0. /\ NodesNamed(F, "category", table["category"])
        /\ NodesNamed(F, "subcategory", table["subcategory"])
        /\ NodesNamed(F, "subcategory", copy["subcategory"])
    BY DEF Agreed, Kinds
  <1>1. s \in {"categorization", "transaction", "budget"}
    BY DEF Services, WRITABLE_SOURCE_KINDS
  <1>2. CASE s = "categorization"
    <2>1. t \in ActiveLeaf(table, k)
      BY <1>2 DEF Resolved
    <2> QED
      BY <1>0, <1>2, <2>1, LeafNamed
  <1>3. CASE s = "budget"
    <2>1. t \in resolve_identity(k)
      BY <1>3 DEF Resolved
    <2> QED
      BY <1>0, <1>3, <2>1, IdentityNamed
  <1>4. CASE s = "transaction"
    <2>1. t \in ActiveLeaf(copy, k) \/ t \in ActiveLeaf(table, k)
      BY <1>4 DEF Resolved, ResolvedElsewhere
    <2>2. TargetNamed(F, k, t)
      BY <1>0, <2>1, LeafNamed
    <2>3. ASSUME ActiveLeaf(copy, k) = {}
          PROVE  AdditionNamed(F, <<k, t>>)
      <3>1. t \in ActiveLeaf(table, k)
        BY <2>1, <2>3
      <3>2. k \in ToSet(ChildKeys)
        BY <1>0, <3>1, LeafNamed
      <3>3. PICK j \in DOMAIN table["subcategory"] :
               table["subcategory"][j].key = k /\ t.cat = table["subcategory"][j].parent /\ t.sub = j
        BY <3>1 DEF ActiveLeaf, ActiveTarget, IdsOf, Target
      <3>4. j \in Keyed("subcategory")
        BY <3>3 DEF Keyed
      <3>5. t.cat = F["category"][ParentOf[k]]
        BY <3>3, <3>4 DEF Agreed, ParentNamed
      <3> QED
        BY <2>2, <3>2, <3>5 DEF AdditionNamed, TargetNamed
    <2> QED
      BY <2>2, <2>3
  <1> QED
    BY <1>1, <1>2, <1>3, <1>4

-----------------------------------------------------------------------------
(* The steps but for an installation keep the ids, whichever they are. *)

LEMMA IdsStay ==
    ASSUME NEW F, Agreed(F), UNCHANGED <<table, copy, ledger, written, applying>>,
           \A e \in bus' : EventNamed(F, e)
    PROVE  Agreed(F)'
  BY DEF Agreed, Keyed

LEMMA LedgerKeepsIds ==
    ASSUME NEW F, Agreed(F), UNCHANGED <<bus, table, copy, written, applying>>,
           \A r \in LedgerRows(ledger') : AllocationNamed(F, r)
    PROVE  Agreed(F)'
  <1>1. \A r \in LedgerRows(ledger)' : AllocationNamed(F, r)
    BY DEF LedgerRows
  <1> QED
    BY <1>1 DEF Agreed, Keyed

LEMMA CompletionKeepsIds ==
    ASSUME NEW F, Agreed(F), upgrade_009, UNCHANGED reclassVars
    PROVE  Agreed(F)'
  <1> DEFINE old == LedgerRows(ledger)
             new == UNION {{LedgerRow(kind, table[kind][i].key, i, "alembic-008") : i \in Keyed(kind)} : kind \in Kinds}
             all == old \cup {r \in new : \A o \in old : o.kind # r.kind \/ o.key # r.key}
  <1>1. ledger' = <<all>> /\ UNCHANGED <<bus, table, copy, written, applying>>
    BY DEF upgrade_009, reclassVars
  <1>2. ASSUME NEW r \in new PROVE AllocationNamed(F, r)
    <2>0. PICK kind \in Kinds : \E i \in Keyed(kind) : r = LedgerRow(kind, table[kind][i].key, i, "alembic-008")
      OBVIOUS
    <2>1. PICK i \in Keyed(kind) : r = LedgerRow(kind, table[kind][i].key, i, "alembic-008")
      BY <2>0
    <2>2. Named(F, kind, table[kind][i].key, i)
      BY DEF Agreed, NodesNamed, Keyed
    <2> QED
      BY <2>1, <2>2 DEF AllocationNamed, LedgerRow
  <1>3. \A r \in all : AllocationNamed(F, r)
    BY <1>2 DEF Agreed
  <1> HIDE DEF all
  <1>4. LedgerRows(<<all>>) = all
    BY DEF LedgerRows, NoLedger
  <1>5. \A r \in LedgerRows(ledger') : AllocationNamed(F, r)
    BY <1>1, <1>3, <1>4
  <1> QED
    BY <1>1, <1>5, LedgerKeepsIds

(* A change of the table, of the rows without keys only. *)
LEMMA TableKeepsIds ==
    ASSUME NEW F, Agreed(F), UNCHANGED <<copy, ledger, written, applying>>,
           \A e \in bus' : EventNamed(F, e),
           \A kind \in Kinds : \A i \in DOMAIN table'[kind] :
               table'[kind][i].key # NoKey =>
                   /\ i \in DOMAIN table[kind] /\ table'[kind][i].key = table[kind][i].key
                   /\ table'[kind][i].parent = table[kind][i].parent
    PROVE  Agreed(F)'
  <1>1. \A kind \in Kinds : NodesNamed(F, kind, table'[kind])
    BY DEF Agreed, NodesNamed
  <1>2. ASSUME NEW i \in Keyed("subcategory")' PROVE ParentNamed(F, table'["subcategory"][i])
    <2>1. /\ i \in DOMAIN table["subcategory"] /\ table["subcategory"][i].key # NoKey
          /\ table'["subcategory"][i].key = table["subcategory"][i].key
          /\ table'["subcategory"][i].parent = table["subcategory"][i].parent
      BY <1>2 DEF Keyed, Kinds
    <2>2. ParentNamed(F, table["subcategory"][i])
      BY <2>1 DEF Agreed, Keyed
    <2> QED
      BY <2>1, <2>2 DEF ParentNamed
  <1> QED
    BY <1>1, <1>2 DEF Agreed

LEMMA DowngradeKeepsIds ==
    ASSUME NEW F, ShapeOK, Agreed(F), NEW x, NEW y, downgrade_008(x, y), UNCHANGED reclassVars
    PROVE  Agreed(F)'
  <1>1. /\ table' = [kind \in Kinds |->
                [i \in DOMAIN table[kind] \ Keyed(kind) |-> [table[kind][i] EXCEPT !.active = TRUE]]]
        /\ UNCHANGED <<bus, copy, ledger, written, applying>>
    BY DEF downgrade_008, reclassVars
  <1>2. ASSUME NEW kind \in Kinds, NEW i \in DOMAIN table'[kind] PROVE table'[kind][i].key = NoKey
    <2>1. i \in DOMAIN table[kind] \ Keyed(kind) /\ table'[kind][i] = [table[kind][i] EXCEPT !.active = TRUE]
      BY <1>1
    <2>2. table[kind][i].key = NoKey
      BY <2>1 DEF Keyed
    <2> QED
      BY <2>1, <2>2, NodeActivated DEF ShapeOK
  <1>3. \A e \in bus' : EventNamed(F, e)
    BY <1>1 DEF Agreed
  <1> QED
    BY <1>1, <1>2, <1>3, TableKeepsIds

LEMMA RepairKeepsIds ==
    ASSUME NEW F, Agreed(F), NEW run, enqueue_repair(run), UNCHANGED reclassVars
    PROVE  Agreed(F)'
  <1> DEFINE events == UNION {{TaxonomyEvent(<<run, table[kind][i].key>>, kind, i, table[kind][i])
                                  : i \in Keyed(kind)} : kind \in Kinds}
  <1>1. Announced(events) /\ UNCHANGED <<table, copy, ledger, written, applying>>
    BY DEF enqueue_repair, reclassVars
  <1>2. ASSUME NEW e \in events PROVE EventNamed(F, e)
    <2>0. PICK kind \in Kinds : \E i \in Keyed(kind) :
             e = TaxonomyEvent(<<run, table[kind][i].key>>, kind, i, table[kind][i])
      OBVIOUS
    <2>1. PICK i \in Keyed(kind) : e = TaxonomyEvent(<<run, table[kind][i].key>>, kind, i, table[kind][i])
      BY <2>0
    <2>2. Named(F, kind, table[kind][i].key, i)
      BY DEF Agreed, NodesNamed, Keyed
    <2> QED
      BY <2>1, <2>2 DEF EventNamed, TaxonomyEvent
  <1> HIDE DEF events
  <1>3. \A e \in bus' : EventNamed(F, e)
    BY <1>1, <1>2, AnnouncedNamed DEF Agreed
  <1> QED
    BY <1>1, <1>3, IdsStay

(* The users' edits of the taxonomy. *)
UsersEdit ==
    \/ \E kind \in Kinds : UserCreates(kind) \/ \E i \in DOMAIN table[kind] : UserUpdates(kind, i)
    \/ \E i \in DOMAIN table.category : UserDeletesCategory(i)

LEMMA UsersKeepIds ==
    ASSUME NEW F, ShapeOK, Agreed(F), UNCHANGED reclassVars,
           UsersEdit
    PROVE  Agreed(F)'
  <1>1. ASSUME NEW kind \in Kinds, UserCreates(kind)
        PROVE  Agreed(F)'
    <2> DEFINE i == sequence[kind] + 1
    <2>1. PICK p :
             /\ table' = [table EXCEPT ![kind] = With(@, i, Node(NoKey, p, TRUE))]
             /\ Emit({TaxonomyEvent(<<"created", kind, i, requests>>, kind, i, Legacy(p))})
      BY <1>1 DEF UserCreates
    <2>2. UNCHANGED <<copy, ledger, written, applying>> /\ i \notin DOMAIN table[kind]
      BY <1>1 DEF UserCreates, reclassVars
    <2>0. Node(NoKey, p, TRUE).key = NoKey /\ Legacy(p).key = NoKey
      BY DEF Node, Legacy
    <2>3. \A e \in bus' : EventNamed(F, e)
      <3> DEFINE e == TaxonomyEvent(<<"created", kind, i, requests>>, kind, i, Legacy(p))
      <3>0. e.state = Legacy(p)
        BY DEF TaxonomyEvent
      <3>1. EventNamed(F, e)
        BY <2>0, <3>0 DEF EventNamed
      <3> HIDE DEF e
      <3>2. bus' = bus \cup {e}
        BY <2>1 DEF Emit, e
      <3> QED
        BY <3>1, <3>2 DEF Agreed
    <2>4. table' = [k \in Kinds |-> IF k = kind THEN With(table[k], i, Node(NoKey, p, TRUE)) ELSE table[k]]
      BY <2>1 DEF ShapeOK
    <2> HIDE DEF i
    <2>5. ASSUME NEW k \in Kinds, NEW j \in DOMAIN table'[k], table'[k][j].key # NoKey
          PROVE  j \in DOMAIN table[k] /\ table'[k][j] = table[k][j]
      <3>1. CASE k # kind
        BY <2>4, <3>1
      <3>2. CASE k = kind
        <4>1. table'[k] = With(table[k], i, Node(NoKey, p, TRUE))
          BY <2>4, <3>2
        <4>2. j # i
          BY <2>0, <2>5, <4>1 DEF With
        <4> QED
          BY <4>1, <4>2 DEF With
      <3> QED
        BY <3>1, <3>2
    <2> QED
      BY <2>2, <2>3, <2>5, TableKeepsIds
  <1>2. ASSUME NEW i \in DOMAIN table.category, UserDeletesCategory(i)
        PROVE  Agreed(F)'
    <2>1. /\ table' = [table EXCEPT !["category"] = Rest(@, {i})]
          /\ Emit({TaxonomyEvent(<<"deleted", "category", i, requests>>, "category", i, Gone)})
          /\ UNCHANGED <<copy, ledger, written, applying>>
      BY <1>2 DEF UserDeletesCategory, reclassVars
    <2>2. \A e \in bus' : EventNamed(F, e)
      <3> DEFINE e == TaxonomyEvent(<<"deleted", "category", i, requests>>, "category", i, Gone)
      <3>1. EventNamed(F, e)
        BY DEF EventNamed, TaxonomyEvent
      <3> HIDE DEF e
      <3>2. bus' = bus \cup {e}
        BY <2>1 DEF Emit, e
      <3> QED
        BY <3>1, <3>2 DEF Agreed
    <2>3. table' = [k \in Kinds |-> IF k = "category" THEN Rest(table[k], {i}) ELSE table[k]]
      BY <2>1 DEF ShapeOK
    <2>4. ASSUME NEW k \in Kinds, NEW j \in DOMAIN table'[k]
          PROVE  j \in DOMAIN table[k] /\ table'[k][j] = table[k][j]
      BY <2>3 DEF Rest
    <2> QED
      BY <2>1, <2>2, <2>4, TableKeepsIds
  <1>3. ASSUME NEW kind \in Kinds, NEW i \in DOMAIN table[kind], UserUpdates(kind, i)
        PROVE  Agreed(F)'
    <2> DEFINE e == TaxonomyEvent(<<"updated", kind, i, requests>>, kind, i, Legacy(table[kind][i].parent))
    <2>1. Emit({e}) /\ UNCHANGED <<table, copy, ledger, written, applying>>
      BY <1>3 DEF UserUpdates, installVars, reclassVars
    <2>2. EventNamed(F, e)
      BY DEF EventNamed, TaxonomyEvent, Legacy, Node
    <2> HIDE DEF e
    <2>3. bus' = bus \cup {e}
      BY <2>1 DEF Emit
    <2>4. \A x \in bus' : EventNamed(F, x)
      BY <2>2, <2>3 DEF Agreed
    <2> QED
      BY <2>1, <2>4, IdsStay
  <1> QED
    BY <1>1, <1>2, <1>3 DEF UsersEdit

LEMMA CopyKeepsIds ==
    ASSUME NEW F, Agreed(F), UNCHANGED <<bus, table, ledger, written, applying>>,
           \A kind \in Kinds : NodesNamed(F, kind, copy'[kind])
    PROVE  Agreed(F)'
  BY DEF Agreed, Keyed

LEMMA SyncKeepsIds ==
    ASSUME NEW F, ShapeOK, Agreed(F), NEW e \in bus, SyncsCopy(e), UNCHANGED reclassVars
    PROVE  Agreed(F)'
  <1>1. /\ e.kind \in Kinds /\ UNCHANGED <<bus, table, ledger, written, applying>>
        /\ \/ copy' = [copy EXCEPT ![e.kind] = Rest(@, {e.node})]
           \/ e.state # Gone /\ copy' = [copy EXCEPT ![e.kind] = With(@, e.node, e.state)]
    BY DEF SyncsCopy, reclassVars
  <1>2. EventNamed(F, e) /\ \A kind \in Kinds : NodesNamed(F, kind, copy[kind])
    BY DEF Agreed
  <1>3. CASE copy' = [copy EXCEPT ![e.kind] = Rest(@, {e.node})]
    <2>1. ASSUME NEW kind \in Kinds PROVE copy'[kind] \in {copy[kind], Rest(copy[kind], {e.node})}
      BY <1>1, <1>3 DEF ShapeOK
    <2>2. \A kind \in Kinds : NodesNamed(F, kind, copy'[kind])
      BY <1>2, <2>1, NodesRest
    <2> QED
      BY <1>1, <2>2, CopyKeepsIds
  <1>4. CASE e.state # Gone /\ copy' = [copy EXCEPT ![e.kind] = With(@, e.node, e.state)]
    <2>1. NodesNamed(F, e.kind, With(copy[e.kind], e.node, e.state))
      BY <1>1, <1>2, <1>4, NodesWith DEF EventNamed
    <2>2. ASSUME NEW kind \in Kinds PROVE NodesNamed(F, kind, copy'[kind])
      <3>1. CASE kind = e.kind
        BY <1>4, <2>1, <3>1 DEF ShapeOK
      <3>2. CASE kind # e.kind
        BY <1>2, <1>4, <3>2 DEF ShapeOK
      <3> QED
        BY <3>1, <3>2
    <2> QED
      BY <1>1, <2>2, CopyKeepsIds
  <1> QED
    BY <1>1, <1>3, <1>4

-----------------------------------------------------------------------------
(* Applying a manifest *)

LEMMA ApplicationKeepsIds ==
    ASSUME NEW F, ShapeOK, Agreed(F), NEW s \in Services, apply_reclassification(s)
    PROVE  Agreed(F)'
  <1> DEFINE rows == manifests[s].rows
             TargetOf(x) == CHOOSE t \in Resolved(s, x.target) : TRUE
             ws == {[row |-> x, to |-> TargetOf(x)] : x \in {y \in rows : Applicable(y, TargetOf(y))}}
             adds == {<<x.target, TargetOf(x)>> : x \in
                         {y \in rows : s = "transaction" /\ ActiveLeaf(copy, y.target) = {}}}
             now == [writes |-> ws, added |-> adds]
  <1>1. /\ authorize_execution(s) /\ \A x \in rows : Resolved(s, x.target) # {}
        /\ applying' = [applying EXCEPT ![s] = now]
        /\ UNCHANGED <<bus, table, copy, ledger, written>>
    BY DEF apply_reclassification, upgradeVars, installVars
  <1>2. \A x \in rows : x.target # NoKey
    BY <1>1 DEF authorize_execution, load_execution_manifest
  <1>3. ASSUME NEW x \in rows
        PROVE  /\ TargetNamed(F, x.target, TargetOf(x))
               /\ s = "transaction" /\ ActiveLeaf(copy, x.target) = {}
                     => AdditionNamed(F, <<x.target, TargetOf(x)>>)
    <2>1. TargetOf(x) \in Resolved(s, x.target)
      BY <1>1
    <2> HIDE DEF TargetOf
    <2> QED
      BY <1>2, <2>1, ResolvedNamed
  <1>4. ASSUME NEW w \in ws PROVE TargetNamed(F, w.row.target, w.to)
    <2>1. PICK x \in rows : w = [row |-> x, to |-> TargetOf(x)]
      OBVIOUS
    <2>2. w.row = x /\ w.to = TargetOf(x)
      BY <2>1
    <2> QED
      BY <1>3, <2>2
  <1>5. ASSUME NEW a \in adds PROVE AdditionNamed(F, a)
    <2>1. PICK x \in rows : /\ s = "transaction" /\ ActiveLeaf(copy, x.target) = {}
                            /\ a = <<x.target, TargetOf(x)>>
      OBVIOUS
    <2> QED
      BY <1>3, <2>1
  <1> HIDE DEF ws, adds
  <1>6. now.writes = ws /\ now.added = adds
    OBVIOUS
  <1> HIDE DEF now
  <1>7. ASSUME NEW u \in Services
        PROVE  /\ \A w \in applying'[u].writes : TargetNamed(F, w.row.target, w.to)
               /\ applying'[u] # Idle => \A a \in applying'[u].added : AdditionNamed(F, a)
    <2>1. CASE u = s
      <3>1. applying'[u] = now
        BY <1>1, <2>1 DEF ShapeOK
      <3> QED
        BY <1>4, <1>5, <1>6, <3>1
    <2>2. CASE u # s
      <3>1. applying'[u] = applying[u]
        BY <1>1, <2>2 DEF ShapeOK
      <3> QED
        BY <3>1 DEF Agreed
    <2> QED
      BY <2>1, <2>2
  <1> QED
    BY <1>1, <1>7 DEF Agreed, Keyed

LEMMA RepairedCopyNamed ==
    ASSUME NEW F, Agreed(F), NEW added, \A a \in added : AdditionNamed(F, a), CopyRepaired(added)
    PROVE  /\ \A kind \in Kinds : NodesNamed(F, kind, copy'[kind])
           /\ copy' = [kind \in Kinds |-> copy'[kind]]
  <1> DEFINE IdOf(kind, a) == IF kind = "category" THEN a[2].cat ELSE a[2].sub
             NodeOf(kind, a) == IF kind = "category" THEN Node(ParentOf[a[1]], NoParent, TRUE)
                                ELSE Node(a[1], a[2].cat, TRUE)
             rows(kind) == [i \in {IdOf(kind, a) : a \in added} |->
                               NodeOf(kind, CHOOSE a \in added : IdOf(kind, a) = i)]
  <1>1. copy' = [kind \in Kinds |-> Merged(copy[kind], rows(kind))]
    BY DEF CopyRepaired
  <1>2. ASSUME NEW kind \in Kinds PROVE NodesNamed(F, kind, rows(kind))
    <2> SUFFICES ASSUME NEW i \in DOMAIN rows(kind)
                 PROVE  Named(F, kind, rows(kind)[i].key, i)
      BY DEF NodesNamed
    <2> DEFINE b == CHOOSE a \in added : IdOf(kind, a) = i
    <2>1. b \in added /\ IdOf(kind, b) = i /\ rows(kind)[i] = NodeOf(kind, b)
      OBVIOUS
    <2>2. AdditionNamed(F, b)
      BY <2>1
    <2> HIDE DEF b
    <2>3. CASE kind = "category"
      <3>1. rows(kind)[i].key = ParentOf[b[1]] /\ i = b[2].cat
        BY <2>1, <2>3 DEF Node
      <3>2. ParentOf[b[1]] \in ToSet(ParentKeys)
        BY <2>2, KeysApart DEF AdditionNamed
      <3> QED
        BY <2>2, <2>3, <3>1, <3>2, KeysApart DEF AdditionNamed, Named
    <2>4. CASE kind = "subcategory"
      <3>1. rows(kind)[i].key = b[1] /\ i = b[2].sub
        BY <2>1, <2>4 DEF Node
      <3> QED
        BY <2>2, <2>4, <3>1, KeysApart DEF AdditionNamed, Named
    <2> QED
      BY <2>3, <2>4 DEF Kinds
  <1> HIDE DEF rows
  <1>3. \A kind \in Kinds : NodesNamed(F, kind, copy'[kind])
    BY <1>1, <1>2, NodesMerged DEF Agreed
  <1> QED
    BY <1>1, <1>3

(* The events of transactions are of no kind of the taxonomy. *)
LEMMA UpdatesNamed ==
    ASSUME NEW F, NEW r, NEW row
    PROVE  EventNamed(F, TransactionUpdated(r, row))
  BY DEF EventNamed, TransactionUpdated, Kinds

LEMMA CommitKeepsIds ==
    ASSUME NEW F, ShapeOK, Agreed(F), NEW s \in Services, ApplyCommits(s)
    PROVE  Agreed(F)'
  <1> DEFINE ws == applying[s].writes
             moved == {w.row.ref : w \in ws}
             events == {TransactionUpdated(r, refs'[r]) : r \in {x \in moved : KindOf[x] = "transaction"}}
  <1>1. /\ applying[s] # Idle /\ applying' = [applying EXCEPT ![s] = Idle]
        /\ written' = written \cup ws /\ CopyRepaired(applying[s].added)
        /\ bus' = bus \cup events /\ UNCHANGED <<table, ledger>>
    BY DEF ApplyCommits, Emit
  <1>2. \A e \in events : EventNamed(F, e)
    BY UpdatesNamed
  <1> HIDE DEF events
  <1>3. \A kind \in Kinds : NodesNamed(F, kind, copy'[kind])
    BY <1>1, RepairedCopyNamed DEF Agreed
  <1>4. \A w \in written' : TargetNamed(F, w.row.target, w.to)
    BY <1>1 DEF Agreed
  <1>5. ASSUME NEW u \in Services
        PROVE  /\ \A w \in applying'[u].writes : TargetNamed(F, w.row.target, w.to)
               /\ applying'[u] # Idle => \A a \in applying'[u].added : AdditionNamed(F, a)
    <2>1. applying'[u] = Idle \/ applying'[u] = applying[u]
      BY <1>1 DEF ShapeOK
    <2> QED
      BY <2>1 DEF Agreed, Idle
  <1>6. \A e \in bus' : EventNamed(F, e)
    BY <1>1, <1>2 DEF Agreed
  <1> QED
    BY <1>1, <1>3, <1>4, <1>5, <1>6 DEF Agreed, Keyed

LEMMA AbortKeepsIds ==
    ASSUME NEW F, ShapeOK, Agreed(F), NEW s \in Services, ApplyAborts(s)
    PROVE  Agreed(F)'
  <1>1. applying' = [applying EXCEPT ![s] = Idle] /\ UNCHANGED <<bus, table, copy, ledger, written>>
    BY DEF ApplyAborts, upgradeVars, installVars
  <1>2. ASSUME NEW u \in Services
        PROVE  /\ \A w \in applying'[u].writes : TargetNamed(F, w.row.target, w.to)
               /\ applying'[u] # Idle => \A a \in applying'[u].added : AdditionNamed(F, a)
    <2>1. applying'[u] = Idle \/ applying'[u] = applying[u]
      BY <1>1 DEF ShapeOK
    <2> QED
      BY <2>1 DEF Agreed, Idle
  <1> QED
    BY <1>1, <1>2 DEF Agreed, Keyed

LEMMA EditKeepsIds ==
    ASSUME NEW F, Agreed(F), NEW r, UserRecategorizes(r) \/ UserDeletes(r)
    PROVE  Agreed(F)'
  <1>1. PICK row : RowEdited(r, row)
    BY DEF UserRecategorizes, UserDeletes
  <1>2. /\ bus' = bus \cup {TransactionUpdated(x, row) : x \in {r} \cap {y \in Refs : KindOf[y] = "transaction"}}
        /\ UNCHANGED <<table, copy, ledger, written, applying>>
    BY <1>1 DEF RowEdited, Emit, installVars
  <1>3. \A e \in bus' : EventNamed(F, e)
    BY <1>2, UpdatesNamed DEF Agreed
  <1> QED
    BY <1>2, <1>3, IdsStay

(* Scans, files and the approval. *)
LEMMA PapersKeepIds ==
    ASSUME NEW F, Agreed(F), UNCHANGED <<bus, table, copy, ledger, written, applying>>
    PROVE  Agreed(F)'
  BY IdsStay DEF Agreed

-----------------------------------------------------------------------------
(* All steps *)

Installation == upgrade_008 \/ \E run \in OperatorRuns : bootstrap(run)

Papers ==
    \/ \E run \in Runs :
          \/ DryRunCategorization(run)
          \/ \E v \in DOMAIN Mappings :
                \/ DryRunBudget(run, v)
                \/ \E answers \in [RefsOf["transaction"] -> ToSet(ChildKeys) \cup {NoKey}] :
                      DryRunTransaction(run, v, answers)
    \/ \E baseline \in Baselines : aggregate(baseline)
    \/ write_execution_manifests \/ OwnerApproves

LEMMA PapersOnly ==
    ASSUME Papers
    PROVE  UNCHANGED <<bus, upgradeVars, written, applying>> \/ UNCHANGED <<bus, installVars, written, applying>>
  BY DEF Papers, DryRunCategorization, DryRunBudget, DryRunTransaction, write_report, aggregate,
         write_execution_manifests, OwnerApproves

LEMMA StepKeepsIds ==
    ASSUME NEW F, ShapeOK, Agreed(F), [ReclassificationNext]_allVars, ~ (Installation /\ UNCHANGED reclassVars)
    PROVE  Agreed(F)'
  <1>1. CASE UpgradeNext(ResultsNameTargets, RulesNameTargets) /\ UNCHANGED reclassVars
    <2>1. CASE upgrade_009
      BY <1>1, <2>1, CompletionKeepsIds
    <2>2. CASE downgrade_009(ResultsNameTargets)
      <3>1. ledger' = NoLedger /\ UNCHANGED <<bus, table, copy, written, applying>>
        BY <1>1, <2>2 DEF downgrade_009, reclassVars
      <3>2. LedgerRows(ledger') = {}
        BY <3>1 DEF LedgerRows
      <3> QED
        BY <3>1, <3>2, LedgerKeepsIds
    <2>3. CASE downgrade_008(ResultsNameTargets, RulesNameTargets)
      BY <1>1, <2>3, DowngradeKeepsIds
    <2>4. CASE \E run \in OperatorRuns : enqueue_repair(run)
      BY <1>1, <2>4, RepairKeepsIds
    <2>5. CASE UsersEdit
      BY <1>1, <2>5, UsersKeepIds
    <2>6. CASE \E e \in bus : SyncsCopy(e)
      BY <1>1, <2>6, SyncKeepsIds
    <2> QED
      BY <1>1, <2>1, <2>2, <2>3, <2>4, <2>5, <2>6 DEF UpgradeNext, Installation, UsersEdit
  <1>2. CASE Papers
    <2>1. UNCHANGED <<bus, table, copy, ledger, written, applying>>
      BY <1>2, PapersOnly DEF upgradeVars, installVars
    <2> QED
      BY <2>1, PapersKeepIds
  <1>3. CASE UNCHANGED allVars
    <2>1. UNCHANGED <<bus, table, copy, ledger, written, applying>>
      BY <1>3 DEF allVars, platform, upgradeVars, installVars, reclassVars
    <2> QED
      BY <2>1, PapersKeepIds
  <1> QED
    BY <1>1, <1>2, <1>3, ApplicationKeepsIds, CommitKeepsIds, AbortKeepsIds, EditKeepsIds DEF ReclassificationNext, Papers


-----------------------------------------------------------------------------
(* An installation decides which ids. *)

Allocates(F) == \A kind \in Kinds : DOMAIN F[kind] = ToSet(Keys[kind])

LEMMA ChosenIds == Allocates(FixedIds) /\ Allocates(FreeIds)
  BY DEF Allocates, FixedIds, FreeIds, allocate_surrogates

LEMMA SeededRows ==
    ASSUME NEW F, Allocates(F), NEW kind \in Kinds, NEW i \in DOMAIN TargetRows(F, kind)
    PROVE  /\ IsNode(TargetRows(F, kind)[i])
           /\ Named(F, kind, TargetRows(F, kind)[i].key, i)
           /\ kind = "subcategory" => ParentNamed(F, TargetRows(F, kind)[i])
  <1> DEFINE k == CHOOSE x \in DOMAIN F[kind] : F[kind][x] = i
  <1>1. i \in Range(F[kind]) /\ TargetRows(F, kind)[i] = TargetNode(F, kind, k)
    BY DEF TargetRows
  <1>2. \E x \in DOMAIN F[kind] : F[kind][x] = i
    BY <1>1 DEF Range
  <1>3. k \in DOMAIN F[kind] /\ F[kind][k] = i
    BY <1>2
  <1>4. k \in ToSet(Keys[kind])
    BY <1>3 DEF Allocates
  <1> HIDE DEF k
  <1>5. TargetRows(F, kind)[i] = Node(k, IF kind = "category" THEN NoParent ELSE F["category"][ParentOf[k]], TRUE)
    BY <1>1 DEF TargetNode
  <1>6. IsNode(TargetRows(F, kind)[i]) /\ TargetRows(F, kind)[i].key = k
    BY <1>5 DEF IsNode, Node
  <1>7. kind = "subcategory" => TargetRows(F, kind)[i].parent = F["category"][ParentOf[k]]
    BY <1>5 DEF Node
  <1> QED
    BY <1>3, <1>4, <1>6, <1>7 DEF Named, ParentNamed

LEMMA SeededTable ==
    ASSUME NEW F, ShapeOK, _seed_target(F), NEW kind \in Kinds
    PROVE  /\ table' = [k \in Kinds |-> table'[k]]
           /\ DOMAIN table'[kind] = DOMAIN TargetRows(F, kind) \cup DOMAIN table[kind]
           /\ \A i \in DOMAIN TargetRows(F, kind) : table'[kind][i] = TargetRows(F, kind)[i]
           /\ \A i \in DOMAIN table[kind] \ DOMAIN TargetRows(F, kind) :
                 /\ IsNode(table'[kind][i])
                 /\ table'[kind][i].key = table[kind][i].key /\ table'[kind][i].parent = table[kind][i].parent
  <1> DEFINE Old(k) == [i \in DOMAIN table[k] |-> [table[k][i] EXCEPT !.active = @ /\ table[k][i].key # NoKey]]
  <1>1. table' = [k \in Kinds |-> Merged(TargetRows(F, k), Old(k))]
    BY DEF _seed_target
  <1>2. table' = [k \in Kinds |-> table'[k]] /\ table'[kind] = Merged(TargetRows(F, kind), Old(kind))
    BY <1>1
  <1>3. ASSUME NEW i \in DOMAIN table[kind]
        PROVE  /\ IsNode(Old(kind)[i])
               /\ Old(kind)[i].key = table[kind][i].key /\ Old(kind)[i].parent = table[kind][i].parent
    <2>1. IsNode(table[kind][i])
      BY DEF ShapeOK
    <2>2. PICK a : Old(kind)[i] = [table[kind][i] EXCEPT !.active = a]
      OBVIOUS
    <2> QED
      BY <2>1, <2>2, NodeActivated
  <1>4. DOMAIN Old(kind) = DOMAIN table[kind]
    OBVIOUS
  <1> HIDE DEF Old
  <1>5. /\ DOMAIN Merged(TargetRows(F, kind), Old(kind)) = DOMAIN TargetRows(F, kind) \cup DOMAIN table[kind]
        /\ \A i \in DOMAIN TargetRows(F, kind) :
              Merged(TargetRows(F, kind), Old(kind))[i] = TargetRows(F, kind)[i]
        /\ \A i \in DOMAIN table[kind] \ DOMAIN TargetRows(F, kind) :
              Merged(TargetRows(F, kind), Old(kind))[i] = Old(kind)[i]
    BY <1>4 DEF Merged
  <1> QED
    BY <1>2, <1>3, <1>5

LEMMA SeededEvents ==
    ASSUME NEW F, Allocates(F), _seed_target(F), \A e \in bus : EventNamed(F, e),
           \A o \in outbox : \E e \in bus : e.id = o
    PROVE  /\ \A e \in bus' : EventNamed(F, e)
           /\ bus \subseteq bus' /\ \A o \in outbox' : \E e \in bus' : e.id = o
           /\ \A kind \in Kinds : \A k \in ToSet(Keys[kind]) : \E e \in bus' : e.id = <<"taxonomy-v1", k>>
  <1> DEFINE events == UNION {{TaxonomyEvent(<<"taxonomy-v1", k>>, kind, F[kind][k], TargetNode(F, kind, k))
                                  : k \in DOMAIN F[kind]} : kind \in Kinds}
  <1>1. Announced(events)
    BY DEF _seed_target, _insert_snapshot_events
  <1>2. ASSUME NEW e \in events PROVE EventNamed(F, e)
    <2>0. PICK kind \in Kinds : \E k \in DOMAIN F[kind] :
             e = TaxonomyEvent(<<"taxonomy-v1", k>>, kind, F[kind][k], TargetNode(F, kind, k))
      OBVIOUS
    <2>1. PICK k \in DOMAIN F[kind] :
             e = TaxonomyEvent(<<"taxonomy-v1", k>>, kind, F[kind][k], TargetNode(F, kind, k))
      BY <2>0
    <2>2. e.kind = kind /\ e.node = F[kind][k] /\ e.state = TargetNode(F, kind, k)
      BY <2>1 DEF TaxonomyEvent
    <2>3. e.state.key = k
      BY <2>2 DEF TargetNode, Node
    <2>4. k \in ToSet(Keys[kind])
      BY DEF Allocates
    <2> QED
      BY <2>2, <2>3, <2>4 DEF EventNamed, Named
  <1>3. ASSUME NEW kind \in Kinds, NEW k \in ToSet(Keys[kind])
        PROVE  \E e \in events : e.id = <<"taxonomy-v1", k>>
    <2> DEFINE e == TaxonomyEvent(<<"taxonomy-v1", k>>, kind, F[kind][k], TargetNode(F, kind, k))
    <2>1. k \in DOMAIN F[kind]
      BY DEF Allocates
    <2>2. e \in {TaxonomyEvent(<<"taxonomy-v1", j>>, kind, F[kind][j], TargetNode(F, kind, j)) : j \in DOMAIN F[kind]}
      BY <2>1
    <2>3. e \in events
      BY <2>2
    <2>4. e.id = <<"taxonomy-v1", k>>
      BY DEF TaxonomyEvent
    <2> QED
      BY <2>3, <2>4
  <1> HIDE DEF events
  <1>4. \A e \in bus' : EventNamed(F, e)
    BY <1>1, <1>2, AnnouncedNamed
  <1>5. /\ bus \subseteq bus' /\ \A o \in outbox' : \E e \in bus' : e.id = o
        /\ \A e \in events : \E f \in bus' : f.id = e.id
    BY <1>1, AnnouncedOnce
  <1>6. \A kind \in Kinds : \A k \in ToSet(Keys[kind]) : \E e \in bus' : e.id = <<"taxonomy-v1", k>>
    BY <1>3, <1>5
  <1> QED
    BY <1>4, <1>5, <1>6

LEMMA SeedingKeepsIds ==
    ASSUME NEW F, Allocates(F), ShapeOK, Agreed(F), _seed_target(F), UNCHANGED <<copy, written, applying>>,
           \A o \in outbox : \E e \in bus : e.id = o,
           \A r \in LedgerRows(ledger') : AllocationNamed(F, r)
    PROVE  Agreed(F)'
  <1>1. ASSUME NEW kind \in Kinds, NEW i \in DOMAIN table'[kind], table'[kind][i].key # NoKey
        PROVE  /\ Named(F, kind, table'[kind][i].key, i)
               /\ kind = "subcategory" => ParentNamed(F, table'[kind][i])
    <2>1. CASE i \in DOMAIN TargetRows(F, kind)
      <3>1. table'[kind][i] = TargetRows(F, kind)[i]
        BY <2>1, SeededTable
      <3> QED
        BY <2>1, <3>1, SeededRows
    <2>2. CASE i \notin DOMAIN TargetRows(F, kind)
      <3>1. i \in DOMAIN table[kind] \ DOMAIN TargetRows(F, kind)
        BY <2>2, SeededTable
      <3>2. table'[kind][i].key = table[kind][i].key /\ table'[kind][i].parent = table[kind][i].parent
        BY <3>1, SeededTable
      <3>3. Named(F, kind, table[kind][i].key, i)
        BY <1>1, <3>1, <3>2 DEF Agreed, NodesNamed
      <3>4. kind = "subcategory" => ParentNamed(F, table[kind][i])
        BY <1>1, <3>1, <3>2 DEF Agreed, Keyed
      <3> QED
        BY <3>2, <3>3, <3>4 DEF ParentNamed
    <2> QED
      BY <2>1, <2>2
  <1>2. \A kind \in Kinds : NodesNamed(F, kind, table'[kind])
    BY <1>1 DEF NodesNamed
  <1>3. \A i \in Keyed("subcategory")' : ParentNamed(F, table'["subcategory"][i])
    BY <1>1 DEF Keyed, Kinds
  <1>4. \A e \in bus' : EventNamed(F, e)
    BY SeededEvents DEF Agreed
  <1>5. \A r \in LedgerRows(ledger)' : AllocationNamed(F, r)
    BY DEF LedgerRows
  <1> QED
    BY <1>2, <1>3, <1>4, <1>5 DEF Agreed

(* An empty taxonomy has no ids to choose. *)
LEMMA NoKeysNoIds ==
    ASSUME NEW F, NEW G, \A kind \in Kinds : ToSet(Keys[kind]) = {}, Agreed(F)'
    PROVE  Agreed(G)'
  <1>0. \A k : k \notin ToSet(ParentKeys) /\ k \notin ToSet(ChildKeys)
    BY KeysApart DEF Kinds
  <1>1. \A kind \in Kinds : \A k, i : ~ Named(F, kind, k, i)
    BY DEF Named
  <1>2. \A kind \in Kinds : NodesNamed(G, kind, table'[kind]) /\ NodesNamed(G, kind, copy'[kind])
    BY <1>1 DEF Agreed, NodesNamed
  <1>3. Keyed("subcategory")' = {}
    BY <1>1 DEF Agreed, NodesNamed, Keyed, Kinds
  <1>4. \A e \in bus' : EventNamed(G, e)
    BY <1>1 DEF Agreed, EventNamed
  <1>5. \A r \in LedgerRows(ledger)' : AllocationNamed(G, r)
    BY <1>1 DEF Agreed, AllocationNamed
  <1>6. \A w \in written' : TargetNamed(G, w.row.target, w.to)
    BY <1>0 DEF TargetNamed
  <1>7. \A s \in Services : \A w \in applying'[s].writes : TargetNamed(G, w.row.target, w.to)
    BY <1>0 DEF TargetNamed
  <1>8. \A s \in Services : applying'[s] # Idle => \A a \in applying'[s].added : AdditionNamed(G, a)
    BY <1>0 DEF Agreed, AdditionNamed
  <1> QED
    BY <1>2, <1>3, <1>4, <1>5, <1>6, <1>7, <1>8 DEF Agreed

LEMMA InstallationAgrees ==
    ASSUME ShapeOK, \A o \in outbox : \E e \in bus : e.id = o, \A F : Agreed(F),
           Installation, UNCHANGED reclassVars
    PROVE  \E F : Allocates(F) /\ _seed_target(F) /\ Agreed(F)'
  <1>0. UNCHANGED <<copy, written, applying>>
    BY DEF Installation, upgrade_008, bootstrap, reclassVars
  <1>1. CASE upgrade_008
    <2>1. PICK F : F = FixedIds
      OBVIOUS
    <2>2. Allocates(F) /\ _seed_target(F) /\ ledger' = ledger
      BY <1>1, <2>1, ChosenIds DEF upgrade_008
    <2>3. \A r \in LedgerRows(ledger') : AllocationNamed(F, r)
      BY <2>2 DEF Agreed
    <2> QED
      BY <1>0, <2>2, <2>3, SeedingKeepsIds
  <1>2. ASSUME NEW run, bootstrap(run)
        PROVE  \E F : Allocates(F) /\ _seed_target(F) /\ Agreed(F)'
    <2>1. PICK F : F = FreeIds
      OBVIOUS
    <2>2. Allocates(F) /\ _seed_target(F) /\ ledger' = <<_record_allocations(F, run)>>
      BY <1>2, <2>1, ChosenIds DEF bootstrap
    <2>3. LedgerRows(ledger') = _record_allocations(F, run)
      BY <2>2 DEF LedgerRows, NoLedger
    <2>4. ASSUME NEW r \in _record_allocations(F, run) PROVE AllocationNamed(F, r)
      <3>1. PICK kind \in Kinds : \E k \in DOMAIN F[kind] : r = LedgerRow(kind, k, F[kind][k], run)
        BY DEF _record_allocations
      <3>2. PICK k \in DOMAIN F[kind] : r = LedgerRow(kind, k, F[kind][k], run)
        BY <3>1
      <3> QED
        BY <2>2, <3>2 DEF AllocationNamed, LedgerRow, Named, Allocates
    <2> QED
      BY <1>0, <2>2, <2>3, <2>4, SeedingKeepsIds
  <1> QED
    BY <1>1, <1>2 DEF Installation

LEMMA InstallationKeepsIdentity ==
    ASSUME IdentityInv, Installation, UNCHANGED reclassVars
    PROVE  /\ ~ Installed' => \A F : Agreed(F)'
           /\ ~ reinstalled' => \E F : Agreed(F)'
  <1>1. PICK I : _seed_target(I)
    BY DEF Installation, upgrade_008, bootstrap
  <1>2. reinstalled' = (reinstalled \/ Installed)
    BY <1>1 DEF _seed_target, Installed
  <1>3. CASE Installed
    <2>1. bus \subseteq bus'
      BY <1>1, AnnouncedOnce DEF _seed_target, _insert_snapshot_events, Announced, Emit
    <2>2. Installed'
      BY <1>3, <2>1 DEF Installed
    <2> QED
      BY <1>2, <1>3, <2>2
  <1>4. CASE ~ Installed
    <2>1. PICK F : Allocates(F) /\ _seed_target(F) /\ Agreed(F)'
      BY <1>4, InstallationAgrees DEF IdentityInv
    <2>2. Agreed(F)
      BY <1>4 DEF IdentityInv
    <2>3. \A kind \in Kinds : \A k \in ToSet(Keys[kind]) : \E e \in bus' : e.id = <<"taxonomy-v1", k>>
      BY <2>1, <2>2, SeededEvents DEF Agreed, IdentityInv
    <2>4. ASSUME ~ Installed' PROVE \A kind \in Kinds : ToSet(Keys[kind]) = {}
      BY <2>3, <2>4 DEF Installed
    <2>5. ~ Installed' => \A G : Agreed(G)'
      BY <2>1, <2>4, NoKeysNoIds
    <2> QED
      BY <2>1, <2>5
  <1> QED
    BY <1>3, <1>4

-----------------------------------------------------------------------------
(* The tables stay tables, and what the outbox refuses to repeat has been  *)
(* announced. *)

LEMMA TableStaysTable ==
    ASSUME ShapeOK, UNCHANGED <<copy, applying>>, table' = [kind \in Kinds |-> table'[kind]],
           \A kind \in Kinds : \A i \in DOMAIN table'[kind] : IsNode(table'[kind][i])
    PROVE  ShapeOK'
  BY DEF ShapeOK

LEMMA SeedingKeepsShape ==
    ASSUME ShapeOK, Installation, UNCHANGED reclassVars
    PROVE  ShapeOK'
  <1>1. PICK F : Allocates(F) /\ _seed_target(F)
    <2>1. CASE upgrade_008
      BY <2>1, ChosenIds DEF upgrade_008
    <2>2. CASE \E run \in OperatorRuns : bootstrap(run)
      BY <2>2, ChosenIds DEF bootstrap
    <2> QED
      BY <2>1, <2>2 DEF Installation
  <1>2. UNCHANGED <<copy, applying>>
    BY DEF Installation, upgrade_008, bootstrap, reclassVars
  <1>3. ASSUME NEW kind \in Kinds, NEW i \in DOMAIN table'[kind] PROVE IsNode(table'[kind][i])
    <2>1. CASE i \in DOMAIN TargetRows(F, kind)
      BY <1>1, <2>1, SeededTable, SeededRows
    <2>2. CASE i \notin DOMAIN TargetRows(F, kind)
      BY <1>1, <2>2, SeededTable
    <2> QED
      BY <2>1, <2>2
  <1>4. table' = [kind \in Kinds |-> table'[kind]]
    BY <1>1, SeededTable DEF Kinds
  <1> QED
    BY <1>2, <1>3, <1>4, TableStaysTable

LEMMA UpgradeKeepsShape ==
    ASSUME ShapeOK, UpgradeNext(ResultsNameTargets, RulesNameTargets), UNCHANGED reclassVars
    PROVE  ShapeOK'
  <1>0. applying' = applying
    BY DEF reclassVars
  <1>1. CASE Installation
    BY <1>1, SeedingKeepsShape
  <1>2. CASE UNCHANGED <<table, copy>>
    BY <1>0, <1>2 DEF ShapeOK
  <1>3. CASE downgrade_008(ResultsNameTargets, RulesNameTargets)
    <2>1. /\ table' = [kind \in Kinds |->
                  [i \in DOMAIN table[kind] \ Keyed(kind) |-> [table[kind][i] EXCEPT !.active = TRUE]]]
          /\ copy' = copy
      BY <1>3 DEF downgrade_008
    <2>2. ASSUME NEW kind \in Kinds, NEW i \in DOMAIN table'[kind] PROVE IsNode(table'[kind][i])
      <3>1. i \in DOMAIN table[kind] /\ table'[kind][i] = [table[kind][i] EXCEPT !.active = TRUE]
        BY <2>1
      <3> QED
        BY <3>1, NodeActivated DEF ShapeOK
    <2>3. table' = [kind \in Kinds |-> table'[kind]]
      BY <2>1
    <2> QED
      BY <1>0, <2>1, <2>2, <2>3, TableStaysTable
  <1>4. ASSUME NEW kind \in Kinds, UserCreates(kind) PROVE ShapeOK'
    <2>1. PICK i : \E p : table' = [table EXCEPT ![kind] = With(@, i, Node(NoKey, p, TRUE))]
      BY <1>4 DEF UserCreates
    <2>2. PICK p : table' = [table EXCEPT ![kind] = With(@, i, Node(NoKey, p, TRUE))]
      BY <2>1
    <2>3. table' = [k \in Kinds |-> IF k = kind THEN With(table[k], i, Node(NoKey, p, TRUE)) ELSE table[k]]
      BY <2>2 DEF ShapeOK
    <2>4. IsNode(Node(NoKey, p, TRUE))
      BY DEF IsNode, Node
    <2>5. ASSUME NEW k \in Kinds, NEW j \in DOMAIN table'[k] PROVE IsNode(table'[k][j])
      <3>1. CASE k # kind
        BY <2>3, <3>1 DEF ShapeOK
      <3>2. CASE k = kind
        <4>1. table'[k] = With(table[k], i, Node(NoKey, p, TRUE))
          BY <2>3, <3>2
        <4> QED
          BY <2>4, <4>1 DEF With, ShapeOK
      <3> QED
        BY <3>1, <3>2
    <2>6. table' = [k \in Kinds |-> table'[k]] /\ copy' = copy
      BY <1>4, <2>3 DEF UserCreates
    <2> QED
      BY <1>0, <2>5, <2>6, TableStaysTable
  <1>5. ASSUME NEW i, UserDeletesCategory(i) PROVE ShapeOK'
    <2>1. table' = [table EXCEPT !["category"] = Rest(@, {i})] /\ copy' = copy
      BY <1>5 DEF UserDeletesCategory
    <2>2. table' = [k \in Kinds |-> IF k = "category" THEN Rest(table[k], {i}) ELSE table[k]]
      BY <2>1 DEF ShapeOK
    <2>3. ASSUME NEW k \in Kinds, NEW j \in DOMAIN table'[k] PROVE IsNode(table'[k][j])
      BY <2>2 DEF Rest, ShapeOK
    <2>4. table' = [k \in Kinds |-> table'[k]]
      BY <2>2
    <2> QED
      BY <1>0, <2>1, <2>3, <2>4, TableStaysTable
  <1>6. ASSUME NEW e, SyncsCopy(e) PROVE ShapeOK'
    <2>1. PICK row : table' = table /\ copy' = [copy EXCEPT ![e.kind] = row]
      BY <1>6 DEF SyncsCopy
    <2>2. copy' = [kind \in Kinds |-> copy'[kind]]
      BY <2>1 DEF ShapeOK
    <2> QED
      BY <1>0, <2>1, <2>2 DEF ShapeOK
  <1> QED
    BY <1>1, <1>2, <1>3, <1>4, <1>5, <1>6
    DEF UpgradeNext, Installation, upgrade_009, downgrade_009, enqueue_repair, UserUpdates, installVars

LEMMA RepairedCopyIsTable ==
    ASSUME NEW added, CopyRepaired(added)
    PROVE  copy' = [kind \in Kinds |-> copy'[kind]]
  <1>1. PICK new : copy' = [kind \in Kinds |-> Merged(copy[kind], new[kind])]
    <2> DEFINE IdOf(kind, a) == IF kind = "category" THEN a[2].cat ELSE a[2].sub
               NodeOf(kind, a) == IF kind = "category" THEN Node(ParentOf[a[1]], NoParent, TRUE)
                                  ELSE Node(a[1], a[2].cat, TRUE)
               rows(kind) == [i \in {IdOf(kind, a) : a \in added} |->
                                 NodeOf(kind, CHOOSE a \in added : IdOf(kind, a) = i)]
    <2>1. copy' = [kind \in Kinds |-> Merged(copy[kind], rows(kind))]
      BY DEF CopyRepaired
    <2> HIDE DEF rows
    <2>2. PICK new : new = [kind \in Kinds |-> rows(kind)]
      OBVIOUS
    <2>3. copy' = [kind \in Kinds |-> Merged(copy[kind], new[kind])]
      BY <2>1, <2>2
    <2> QED
      BY <2>3
  <1> QED
    BY <1>1

LEMMA StepKeepsShape ==
    ASSUME ShapeOK, [ReclassificationNext]_allVars
    PROVE  ShapeOK'
  <1>1. CASE UpgradeNext(ResultsNameTargets, RulesNameTargets) /\ UNCHANGED reclassVars
    BY <1>1, UpgradeKeepsShape
  <1>2. CASE Papers
    <2>1. UNCHANGED <<table, copy, applying>>
      BY <1>2, PapersOnly DEF upgradeVars, installVars
    <2> QED
      BY <2>1 DEF ShapeOK
  <1>3. ASSUME NEW s \in Services, apply_reclassification(s) \/ ApplyAborts(s)
        PROVE  ShapeOK'
    <2>1. PICK now : applying' = [applying EXCEPT ![s] = now]
      BY <1>3 DEF apply_reclassification, ApplyAborts
    <2>2. UNCHANGED <<table, copy>>
      BY <1>3 DEF apply_reclassification, ApplyAborts, upgradeVars, installVars
    <2>3. applying' = [u \in Services |-> applying'[u]]
      BY <2>1 DEF ShapeOK
    <2> QED
      BY <2>2, <2>3 DEF ShapeOK
  <1>4. ASSUME NEW s \in Services, ApplyCommits(s)
        PROVE  ShapeOK'
    <2>1. applying' = [applying EXCEPT ![s] = Idle] /\ table' = table /\ CopyRepaired(applying[s].added)
      BY <1>4 DEF ApplyCommits
    <2>2. applying' = [u \in Services |-> applying'[u]]
      BY <2>1 DEF ShapeOK
    <2> QED
      BY <2>1, <2>2, RepairedCopyIsTable DEF ShapeOK
  <1>5. ASSUME NEW r, UserRecategorizes(r) \/ UserDeletes(r)
        PROVE  ShapeOK'
    <2>1. UNCHANGED <<table, copy, applying>>
      BY <1>5 DEF UserRecategorizes, UserDeletes, RowEdited, installVars
    <2> QED
      BY <2>1 DEF ShapeOK
  <1>6. CASE UNCHANGED allVars
    BY <1>6 DEF ShapeOK, allVars, upgradeVars, installVars, reclassVars
  <1> QED
    BY <1>1, <1>2, <1>3, <1>4, <1>5, <1>6 DEF ReclassificationNext, Papers

OutboxOnBus == \A o \in outbox : \E e \in bus : e.id = o

LEMMA StepGrowsBus ==
    ASSUME OutboxOnBus, [ReclassificationNext]_allVars
    PROVE  bus \subseteq bus' /\ OutboxOnBus'
  <1>1. ASSUME NEW events, Announced(events)
        PROVE  bus \subseteq bus' /\ OutboxOnBus'
    BY <1>1, AnnouncedOnce DEF OutboxOnBus
  <1>2. ASSUME NEW events, bus' = bus \cup events, outbox' = outbox
        PROVE  bus \subseteq bus' /\ OutboxOnBus'
    BY <1>2 DEF OutboxOnBus
  <1>3. ASSUME bus' = bus, outbox' \in {outbox, {}}
        PROVE  bus \subseteq bus' /\ OutboxOnBus'
    BY <1>3 DEF OutboxOnBus
  <1>4. CASE UpgradeNext(ResultsNameTargets, RulesNameTargets) /\ UNCHANGED reclassVars
    <2>1. CASE Installation \/ \E run \in OperatorRuns : enqueue_repair(run)
      <3>1. PICK events : Announced(events)
        BY <2>1 DEF Installation, upgrade_008, bootstrap, _seed_target, _insert_snapshot_events, enqueue_repair
      <3> QED
        BY <1>1, <3>1
    <2>2. CASE upgrade_009 \/ downgrade_009(ResultsNameTargets)
               \/ downgrade_008(ResultsNameTargets, RulesNameTargets) \/ \E e \in bus : SyncsCopy(e)
      <3>1. bus' = bus /\ outbox' \in {outbox, {}}
        BY <2>2 DEF upgrade_009, downgrade_009, downgrade_008, SyncsCopy
      <3> QED
        BY <1>3, <3>1
    <2>3. CASE UsersEdit
      <3>1. outbox' = outbox /\ \E events : bus' = bus \cup events
        BY <2>3 DEF UsersEdit, UserCreates, UserUpdates, UserDeletesCategory, installVars, Emit
      <3> QED
        BY <1>2, <3>1
    <2> QED
      BY <1>4, <2>1, <2>2, <2>3 DEF UpgradeNext, Installation, UsersEdit
  <1>5. CASE Papers
    <2>1. UNCHANGED <<bus, outbox>>
      BY <1>5, PapersOnly DEF upgradeVars, installVars
    <2> QED
      BY <1>3, <2>1
  <1>6. ASSUME NEW s \in Services, apply_reclassification(s) \/ ApplyAborts(s) \/ ApplyCommits(s)
        PROVE  bus \subseteq bus' /\ OutboxOnBus'
    <2>1. outbox' = outbox /\ \E events : bus' = bus \cup events
      <3>1. CASE apply_reclassification(s) \/ ApplyAborts(s)
        <4>1. outbox' = outbox /\ bus' = bus \cup {}
          BY <3>1 DEF apply_reclassification, ApplyAborts, upgradeVars, installVars
        <4> QED
          BY <4>1
      <3>2. CASE ApplyCommits(s)
        BY <3>2 DEF ApplyCommits, Emit
      <3> QED
        BY <1>6, <3>1, <3>2
    <2> QED
      BY <1>2, <2>1
  <1>7. ASSUME NEW r, UserRecategorizes(r) \/ UserDeletes(r)
        PROVE  bus \subseteq bus' /\ OutboxOnBus'
    <2>1. outbox' = outbox /\ \E events : bus' = bus \cup events
      BY <1>7 DEF UserRecategorizes, UserDeletes, RowEdited, Emit, installVars
    <2> QED
      BY <1>2, <2>1
  <1>8. CASE UNCHANGED allVars
    BY <1>3, <1>8 DEF allVars, platform, upgradeVars, installVars
  <1> QED
    BY <1>4, <1>5, <1>6, <1>7, <1>8 DEF ReclassificationNext, Papers

(* Only an installation sets reinstalled. *)
LEMMA OnlyInstallingReinstalls ==
    ASSUME [ReclassificationNext]_allVars, ~ (Installation /\ UNCHANGED reclassVars)
    PROVE  reinstalled' = reinstalled
  <1>1. CASE UpgradeNext(ResultsNameTargets, RulesNameTargets) /\ UNCHANGED reclassVars
    BY <1>1 DEF UpgradeNext, Installation, upgrade_009, downgrade_009, downgrade_008, enqueue_repair, UserCreates,
                UserUpdates, UserDeletesCategory, SyncsCopy, installVars
  <1>2. CASE Papers
    BY <1>2, PapersOnly DEF upgradeVars, installVars
  <1>3. ASSUME NEW s \in Services, apply_reclassification(s) \/ ApplyAborts(s) \/ ApplyCommits(s)
        PROVE  reinstalled' = reinstalled
    BY <1>3 DEF apply_reclassification, ApplyAborts, ApplyCommits, upgradeVars, installVars
  <1>4. ASSUME NEW r, UserRecategorizes(r) \/ UserDeletes(r)
        PROVE  reinstalled' = reinstalled
    BY <1>4 DEF UserRecategorizes, UserDeletes, RowEdited, installVars
  <1>5. CASE UNCHANGED allVars
    BY <1>5 DEF allVars, upgradeVars, installVars
  <1> QED
    BY <1>1, <1>2, <1>3, <1>4, <1>5 DEF ReclassificationNext, Papers

-----------------------------------------------------------------------------

LEMMA IdentityAtStart == ReclassificationInit => IdentityInv
  <1> SUFFICES ASSUME ReclassificationInit PROVE IdentityInv
    OBVIOUS
  <1>1. /\ bus = {} /\ outbox = {} /\ table = LegacyTable /\ copy = LegacyTable /\ ledger = NoLedger
        /\ reinstalled = FALSE /\ written = {} /\ applying = [s \in Services |-> Idle]
    BY DEF ReclassificationInit, PlatformInit, UpgradeInit
  <1>2. \A kind \in Kinds : \A i \in DOMAIN LegacyTable[kind] :
           IsNode(LegacyTable[kind][i]) /\ LegacyTable[kind][i].key = NoKey
    <2> SUFFICES ASSUME NEW kind \in Kinds, NEW i \in DOMAIN LegacyTable[kind]
                 PROVE  IsNode(LegacyTable[kind][i]) /\ LegacyTable[kind][i].key = NoKey
      OBVIOUS
    <2>1. PICK p : LegacyTable[kind][i] = [key |-> NoKey, parent |-> p, active |-> TRUE]
      BY UpgradeAssumption
    <2> QED
      BY <2>1 DEF IsNode, Node
  <1>3. LegacyTable = [kind \in Kinds |-> LegacyTable[kind]]
    BY UpgradeAssumption
  <1>4. ShapeOK
    BY <1>1, <1>2, <1>3 DEF ShapeOK
  <1>5. ASSUME NEW F PROVE Agreed(F)
    <2>1. \A kind \in Kinds : NodesNamed(F, kind, LegacyTable[kind])
      BY <1>2 DEF NodesNamed
    <2>2. Keyed("subcategory") = {}
      BY <1>1, <1>2 DEF Keyed, Kinds
    <2>3. LedgerRows(ledger) = {}
      BY <1>1 DEF LedgerRows
    <2>4. \A s \in Services : applying[s] = Idle
      BY <1>1
    <2> QED
      BY <1>1, <2>1, <2>2, <2>3, <2>4 DEF Agreed, Idle
  <1> QED
    BY <1>1, <1>4, <1>5 DEF IdentityInv

LEMMA IdentityKept ==
    ASSUME IdentityInv, [ReclassificationNext]_allVars
    PROVE  IdentityInv'
  <1>1. ShapeOK'
    BY StepKeepsShape DEF IdentityInv
  <1>2. bus \subseteq bus' /\ OutboxOnBus'
    BY StepGrowsBus DEF IdentityInv, OutboxOnBus
  <1>3. /\ ~ Installed' => \A F : Agreed(F)'
        /\ ~ reinstalled' => \E F : Agreed(F)'
    <2>1. CASE Installation /\ UNCHANGED reclassVars
      BY <2>1, InstallationKeepsIdentity
    <2>2. CASE ~ (Installation /\ UNCHANGED reclassVars)
      <3>1. ~ Installed' => ~ Installed
        BY <1>2 DEF Installed
      <3>2. reinstalled' = reinstalled
        BY <2>2, OnlyInstallingReinstalls
      <3>3. ASSUME NEW F, Agreed(F) PROVE Agreed(F)'
        BY <2>2, <3>3, StepKeepsIds DEF IdentityInv
      <3>4. ~ Installed' => \A F : Agreed(F)'
        BY <3>1, <3>3 DEF IdentityInv
      <3>5. ~ reinstalled' => \E F : Agreed(F)'
        BY <3>2, <3>3 DEF IdentityInv
      <3> QED
        BY <3>4, <3>5
    <2> QED
      BY <2>1, <2>2
  <1> QED
    BY <1>1, <1>2, <1>3 DEF IdentityInv, OutboxOnBus

LEMMA IdentityShown == IdentityInv => IdentitiesAgree
  <1> SUFFICES ASSUME IdentityInv, ~ reinstalled, NEW kind \in Kinds, NEW k \in ToSet(Keys[kind])
               PROVE  LET noted == {r.id : r \in {x \in LedgerRows(ledger) : x.kind = kind /\ x.key = k}}
                          moved == {IF kind = "category" THEN w.to.cat ELSE w.to.sub :
                                       w \in {x \in written : x.row.target = k}}
                      IN Cardinality(IdsOf(table[kind], k) \cup IdsOf(copy[kind], k) \cup noted \cup moved) <= 1
    BY DEF IdentitiesAgree
  <1> DEFINE noted == {r.id : r \in {x \in LedgerRows(ledger) : x.kind = kind /\ x.key = k}}
             moved == {IF kind = "category" THEN w.to.cat ELSE w.to.sub : w \in {x \in written : x.row.target = k}}
             all == IdsOf(table[kind], k) \cup IdsOf(copy[kind], k) \cup noted \cup moved
  <1>1. PICK F : Agreed(F)
    BY DEF IdentityInv
  <1>2. PICK id : id = F[kind][k]
    OBVIOUS
  <1>3. k # NoKey
    BY KeysApart DEF Kinds
  <1>4. \A i \in IdsOf(table[kind], k) \cup IdsOf(copy[kind], k) : i = id
    BY <1>1, <1>2, <1>3 DEF Agreed, NodesNamed, Named, IdsOf
  <1>5. \A i \in noted : i = id
    BY <1>1, <1>2 DEF Agreed, AllocationNamed, Named
  <1>6. ASSUME NEW i \in moved PROVE i = id
    <2>1. PICK w \in written : w.row.target = k /\ i = IF kind = "category" THEN w.to.cat ELSE w.to.sub
      OBVIOUS
    <2>2. TargetNamed(F, k, w.to)
      BY <1>1, <2>1 DEF Agreed
    <2>3. CASE kind = "category"
      BY <1>2, <2>1, <2>2, <2>3, KeysApart DEF TargetNamed
    <2>4. CASE kind = "subcategory"
      BY <1>2, <2>1, <2>2, <2>4, KeysApart DEF TargetNamed
    <2> QED
      BY <2>3, <2>4 DEF Kinds
  <1>7. all = {} \/ all = {id}
    BY <1>4, <1>5, <1>6
  <1> HIDE DEF all
  <1>8. Cardinality({}) = 0 /\ Cardinality({id}) = 1
    BY FS_EmptySet, FS_Singleton, Zenon
  <1>9. Cardinality(all) = 0 \/ Cardinality(all) = 1
    BY <1>7, <1>8
  <1>10. Cardinality(all) <= 1
    BY <1>9
  <1> QED
    BY <1>10 DEF all

(* IdentitiesAgree: whichever way the taxonomy was installed, with ids from *)
(* the migration or free ones an operator took, a key has one id in the     *)
(* owner's table, the ledger, the read copy and every moved reference.      *)
THEOREM IdentitiesAgreeAlways == ReclassificationSpec => []IdentitiesAgree
  <1>1. IdentityInv /\ [ReclassificationNext]_allVars => IdentityInv'
    BY IdentityKept
  <1> QED
    BY <1>1, IdentityAtStart, IdentityShown, PTL DEF ReclassificationSpec
=============================================================================
