-------------------------- MODULE Reclassification --------------------------
(***************************************************************************)
(* Moving stored references from the legacy taxonomy to the target one.    *)
(* Each of three services scans its own rows into a report; an aggregator  *)
(* checks the three reports and writes one manifest per service; the owner *)
(* approves them; each service applies its own manifest in one transaction *)
(* while users go on editing.  A file's hash stands for its content.  Rows *)
(* are read without locks: an edit that commits between the read and the   *)
(* write is overwritten.                                                   *)
(***************************************************************************)
EXTENDS TaxonomyUpgrade

CONSTANTS
    Refs,          \* the rows of the three services that name a category
    KindOf,        \* reference -> source_kind
    MonthOf,       \* a budget line -> its monthly budget
    StoredRefs,    \* reference -> its row at the start
    Mappings,      \* version -> kind -> legacy id -> disposition and targets
    CurrentMapping,
    Runs,          \* the run ids of scans
    MaxScans       \* bound: scans

WRITABLE_SOURCE_KINDS ==
    [categorization |-> {"categorization_result", "system_rule"},
     transaction    |-> {"transaction"},
     budget         |-> {"legacy_budget", "monthly_budget_line"}]

Services == DOMAIN WRITABLE_SOURCE_KINDS

ReportedKinds ==
    [WRITABLE_SOURCE_KINDS EXCEPT !.categorization = @ \cup {"user_or_learned_rule"},
                                  !.transaction = @ \cup {"planned_transaction"}]

OwnerOf == [r \in Refs |-> CHOOSE s \in Services : KindOf[r] \in ReportedKinds[s]]

RefsOf == [s \in Services |-> {r \in Refs : OwnerOf[r] = s}]

NoFile == [run |-> 0]

Idle == [writes |-> {}]

VARIABLES
    refs,        \* reference -> category, subcategory, tier and whether it is there
    scans,
    reports,     \* service -> its report in the input directory
    summary,     \* the aggregator's reviewed summary
    drafting,    \* a summary between reading the reports and writing the files
    manifests,   \* service -> its file in the execution directory
    approval,    \* the owner's file
    applying,    \* service -> the writes its open transaction holds
    written,     \* history: what the tools wrote
    approved     \* history: the manifest rows the owner approved

reclassVars ==
    <<refs, scans, reports, summary, drafting, manifests, approval, applying, written, approved>>

allVars == <<platform, upgradeVars, reclassVars>>

-----------------------------------------------------------------------------
(* The mapping *)

NoSub == 0

SAFE == "safe_one_to_one"
EVIDENCE == "evidence_proposal"
REVIEW == "manual_review"
PROTECTED == "protected"
UNRESOLVED == "unresolved"

Executable == {SAFE, EVIDENCE}

Proposal(disposition, targets) == [disposition |-> disposition, targets |-> targets]

(* validate_mapping, which runs when the registry is loaded.               *)
validate_mapping(m) ==
    \A kind \in Kinds : \A i \in DOMAIN m[kind] :
        /\ m[kind][i].targets \subseteq AllKeys
        /\ kind = "subcategory" =>
              /\ m[kind][i].targets \subseteq ToSet(ChildKeys)
              /\ m[kind][i].disposition = SAFE => Cardinality(m[kind][i].targets) = 1
              /\ m[kind][i].disposition = EVIDENCE => Cardinality(m[kind][i].targets) # 1

(* load_mapping: every legacy id is covered. *)
load_mapping(m) == \A kind \in Kinds : DOMAIN m[kind] = DOMAIN LegacyTable[kind]

ASSUME MappingAssumption ==
    /\ CurrentMapping \in DOMAIN Mappings
    /\ \A v \in DOMAIN Mappings : validate_mapping(Mappings[v]) /\ load_mapping(Mappings[v])

(* The kind of the legacy reference a row is mapped by, and its id. *)
MappedBy(row) ==
    IF row.sub # NoSub THEN <<"subcategory", row.sub>> ELSE <<"category", row.cat>>

HasProposal(m, row) == MappedBy(row)[2] \in DOMAIN m[MappedBy(row)[1]]

ProposalFor(m, row) == m[MappedBy(row)[1]][MappedBy(row)[2]]

-----------------------------------------------------------------------------
(* Scanning *)

Protected(r) == refs[r].tier \in {"manual", "user", "gold"}

ReportRow(r, disposition, target) ==
    [ref |-> r, cat |-> refs[r].cat, sub |-> refs[r].sub, disposition |-> disposition, target |-> target]

OnlyTarget(p) ==
    IF Cardinality(p.targets) = 1 THEN CHOOSE k \in p.targets : TRUE ELSE NoKey

(* The categorizer's answer counts when one of its rules gave a target the *)
(* mapping allows; no answer and a guess of another tier are NoKey.        *)
_resolve_evidence(m, r, answer) ==
    IF HasProposal(m, refs[r]) /\ answer \in ProposalFor(m, refs[r]).targets THEN answer ELSE NoKey

_proposal_row(m, r, answer) ==
    LET p == ProposalFor(m, refs[r])
        evidence == _resolve_evidence(m, r, answer)
    IN  IF Protected(r) \/ KindOf[r] = "planned_transaction" THEN ReportRow(r, PROTECTED, NoKey)
        ELSE IF p.disposition = EVIDENCE
             THEN ReportRow(r, IF evidence = NoKey THEN UNRESOLVED ELSE EVIDENCE, evidence)
             ELSE ReportRow(r, p.disposition, IF p.disposition = SAFE THEN OnlyTarget(p) ELSE NoKey)

_budget_row(m, r) ==
    LET p == ProposalFor(m, refs[r]) IN
    ReportRow(r, p.disposition, IF p.disposition = SAFE THEN OnlyTarget(p) ELSE NoKey)

(* The report keeps the disposition of a split leaf, but gives no target.  *)
CategorizationRow(m, r) ==
    LET p == ProposalFor(m, refs[r]) IN
    IF Protected(r) THEN ReportRow(r, PROTECTED, NoKey)
    ELSE ReportRow(r, p.disposition, OnlyTarget(p))

(* Rows that refer to the target taxonomy already are not reported. *)
Scanned(s, m) == {r \in RefsOf[s] : refs[r].live /\ HasProposal(m, refs[r])}

scan_transactions(m, answers) == {_proposal_row(m, r, answers[r]) : r \in Scanned("transaction", m)}

scan_categorization(m) == {CategorizationRow(m, r) : r \in Scanned("categorization", m)}

(* Two lines of one month bound for one category are left to a person. *)
scan_budgets(m) ==
    LET rows == {_budget_row(m, r) : r \in Scanned("budget", m)}
        lines == {x \in rows : KindOf[x.ref] = "monthly_budget_line" /\ x.target # NoKey}
        Collides(x) == x \in lines /\ \E y \in lines :
            y # x /\ MonthOf[y.ref] = MonthOf[x.ref] /\ y.target = x.target
    IN {[x EXCEPT !.disposition = IF Collides(x) THEN REVIEW ELSE @] : x \in rows}

write_report(s, run, v, rows) ==
    /\ scans < MaxScans /\ scans' = scans + 1 /\ Counted
    /\ reports' = [reports EXCEPT ![s] = [run |-> run, mapping |-> v, rows |-> rows]]
    /\ UNCHANGED <<bus, installVars, installs, refs, summary, drafting, manifests, approval, applying, written, approved>>
    /\ Background

DryRunCategorization(run) ==
    write_report("categorization", run, CurrentMapping, scan_categorization(Mappings[CurrentMapping]))

(* The mapping of the other two services is a file the operator names. *)
DryRunTransaction(run, v, answers) ==
    write_report("transaction", run, v, scan_transactions(Mappings[v], answers))

DryRunBudget(run, v) == write_report("budget", run, v, scan_budgets(Mappings[v]))

-----------------------------------------------------------------------------
(* The aggregator *)

_allowed_targets(m, row) == IF HasProposal(m, row) THEN ProposalFor(m, row).targets ELSE {}

ExecutionRows(s, rows) ==
    {x \in rows : /\ KindOf[x.ref] \in WRITABLE_SOURCE_KINDS[s]
                  /\ x.disposition \in Executable
                  /\ x.target # NoKey}

_execution_manifests ==
    [s \in Services |->
        [run |-> reports[s].run, mapping |-> reports[s].mapping, service |-> s,
         rows |-> ExecutionRows(s, reports[s].rows)]]

WithinMapping(m) ==
    \A s \in Services : \A x \in _execution_manifests[s].rows : x.target \in _allowed_targets(m, x)

AllReported == \A s \in Services : reports[s] # NoFile

(* The categorization scan leaves its mapping beside the reports. *)
SameMapping == \A s \in Services : reports[s].mapping = CurrentMapping

OneRun == \A s, t \in Services : reports[s].run = reports[t].run

(* The amounts by category of the analytics index are those of the report. *)
_validate_analytics_baseline(baseline) == baseline = {<<x.ref, x.cat>> : x \in reports["transaction"].rows}

(* Of the summary only what is to be approved is kept: its counts, amounts *)
(* and deltas are for the owner to read.                                   *)
aggregate(baseline) ==
    /\ drafting = Idle
    /\ AllReported /\ SameMapping /\ OneRun
    /\ _validate_analytics_baseline(baseline)
    /\ WithinMapping(Mappings[CurrentMapping])
    /\ drafting' = [run |-> reports["transaction"].run, manifests |-> _execution_manifests]
    /\ UNCHANGED <<bus, upgradeVars, refs, scans, reports, summary, manifests, approval, applying, written, approved>>
    /\ Background

(* The reports are read again; when they changed meanwhile, the manifests  *)
(* are written nevertheless, and the summary is not.                       *)
write_execution_manifests ==
    /\ drafting # Idle /\ drafting' = Idle
    /\ IF AllReported /\ SameMapping /\ WithinMapping(Mappings[CurrentMapping])
       THEN /\ manifests' = _execution_manifests
            /\ summary' = IF manifests' = drafting.manifests THEN drafting ELSE summary
       ELSE UNCHANGED <<manifests, summary>>
    /\ UNCHANGED <<bus, upgradeVars, refs, scans, reports, approval, applying, written, approved>>
    /\ Background

(* The owner reviews the summary and authorizes its manifests in a file.   *)
OwnerApproves ==
    /\ summary # NoFile
    /\ approval' = summary
    /\ approved' = approved \cup UNION {summary.manifests[s].rows : s \in Services}
    /\ UNCHANGED <<bus, upgradeVars, refs, scans, reports, summary, drafting, manifests, applying, written>>
    /\ Background

-----------------------------------------------------------------------------
(* Applying *)

load_execution_manifest(s) ==
    /\ manifests # NoFile
    /\ \A x, y \in manifests[s].rows : x.ref = y.ref => x = y
    /\ \A x \in manifests[s].rows : x.disposition \in Executable /\ x.target # NoKey

(* Mutant of authorize_execution: the run is compared, its manifest is not. *)
AuthorizeRun(s) ==
    /\ load_execution_manifest(s)
    /\ approval # NoFile /\ approval.run = manifests[s].run

(* The hashes on the command line are those of the manifest file, of the   *)
(* approval and of the summary it names: whether the aggregator has since  *)
(* written another summary is not looked at.                               *)
authorize_execution(s) ==
    /\ load_execution_manifest(s)
    /\ approval # NoFile
    /\ approval.manifests[s] = manifests[s]
    /\ approval.run = manifests[s].run

Active(nodes, i) == i \in DOMAIN nodes /\ nodes[i].active

ActiveTarget(nodes, k) == {i \in IdsOf(nodes, k) : Active(nodes, i)}

Target(cat, sub) == [cat |-> cat, sub |-> sub]

(* A leaf in some pair of tables, its parent active as well. *)
ActiveLeaf(nodes, k) ==
    {Target(nodes.subcategory[i].parent, i) : i \in
        {j \in ActiveTarget(nodes.subcategory, k) : Active(nodes.category, nodes.subcategory[j].parent)}}

(* The list of active categories that budget-service asks for. *)
resolve_identity(k) == {Target(i, NoSub) : i \in ActiveTarget(table.category, k)}

(* What _TaxonomyResolver finds at the owner may be added to the copy: its *)
(* ids must not be those of other rows there.                              *)
NoConflict(t, k) ==
    /\ t.cat \in DOMAIN copy.category => copy.category[t.cat].key = ParentOf[k]
    /\ t.sub \in DOMAIN copy.subcategory =>
          copy.subcategory[t.sub].key = k /\ copy.subcategory[t.sub].parent = t.cat

ResolvedElsewhere(k) ==
    {t \in ActiveLeaf(table, k) :
        /\ ActiveTarget(copy.subcategory, k) = {}
        /\ NoConflict(t, k)
        /\ t.cat \in DOMAIN copy.category => Active(copy.category, t.cat)}

Resolved(s, k) ==
    CASE s = "categorization" -> ActiveLeaf(table, k)
      [] s = "budget" -> resolve_identity(k)
      [] s = "transaction" -> ActiveLeaf(copy, k) \cup ResolvedElsewhere(k)

(* Whether a row still carries what the manifest says, by what its kind    *)
(* stores: a pair, a rule's leaf, or a budget's category.                  *)
StoresPair(r) == KindOf[r] \in {"transaction", "categorization_result"}

StoresCategory(r) == OwnerOf[r] = "budget"

Unchanged(x) ==
    /\ StoresPair(x.ref) \/ StoresCategory(x.ref) => refs[x.ref].cat = x.cat
    /\ ~ StoresCategory(x.ref) => refs[x.ref].sub = x.sub

Collision(x, t) ==
    /\ KindOf[x.ref] = "monthly_budget_line"
    /\ \E r \in Refs \ {x.ref} :
          /\ KindOf[r] = "monthly_budget_line" /\ MonthOf[r] = MonthOf[x.ref]
          /\ refs[r].live /\ refs[r].cat = t.cat

(* Missing, protected, changed and colliding rows are skipped, and so is a *)
(* row that has its target already: it no longer carries the legacy ids.   *)
Applicable(x, t) ==
    /\ refs[x.ref].live
    /\ StoresCategory(x.ref) \/ ~ Protected(x.ref)
    /\ Unchanged(x)
    /\ ~ Collision(x, t)

(* A target that does not resolve ends the whole run.                      *)
apply_reclassification(s) ==
    /\ applying[s] = Idle
    /\ authorize_execution(s)
    /\ LET rows == manifests[s].rows
           TargetOf(x) == CHOOSE t \in Resolved(s, x.target) : TRUE
       IN /\ \A x \in rows : Resolved(s, x.target) # {}
          /\ applying' = [applying EXCEPT ![s] =
                [writes |-> {[row |-> x, to |-> TargetOf(x)] : x \in {y \in rows : Applicable(y, TargetOf(y))}},
                 added |-> {<<x.target, TargetOf(x)>> : x \in
                    {y \in rows : s = "transaction" /\ ActiveLeaf(copy, y.target) = {}}}]]
    /\ UNCHANGED <<bus, upgradeVars, refs, scans, reports, summary, drafting, manifests, approval, written, approved>>
    /\ Background

Moved(r, t) ==
    [refs[r] EXCEPT !.cat = IF StoresPair(r) \/ StoresCategory(r) THEN t.cat ELSE @,
                    !.sub = IF StoresCategory(r) THEN @ ELSE t.sub]

UniqueLines(rows) ==
    \A r, t \in {x \in Refs : KindOf[x] = "monthly_budget_line" /\ rows[x].live} :
        MonthOf[r] = MonthOf[t] /\ rows[r].cat = rows[t].cat => r = t

TransactionUpdated(r, row) == [id |-> <<"transaction.updated", r, row>>, kind |-> "transaction"]

(* The local copies go in with the rows; the sync worker may have been     *)
(* first, and then the keys of the copy fail the run.                      *)
CopyRepaired(added) ==
    /\ \A a \in added : IdsOf(copy.subcategory, a[1]) = {}
    /\ copy' = [kind \in Kinds |->
           LET IdOf(a) == IF kind = "category" THEN a[2].cat ELSE a[2].sub
               NodeOf(a) == IF kind = "category" THEN Node(ParentOf[a[1]], NoParent, TRUE)
                            ELSE Node(a[1], a[2].cat, TRUE)
           IN Merged(copy[kind], [i \in {IdOf(a) : a \in added} |->
                                     NodeOf(CHOOSE a \in added : IdOf(a) = i)])]

(* The commit, with an event for every transaction that moved.             *)
ApplyCommits(s) ==
    LET ws == applying[s].writes
        WriteTo(r) == (CHOOSE w \in ws : w.row.ref = r).to
        moved == {w.row.ref : w \in ws}
    IN
    /\ applying[s] # Idle
    /\ refs' = [r \in Refs |-> IF r \in moved THEN Moved(r, WriteTo(r)) ELSE refs[r]]
    /\ UniqueLines(refs')
    /\ Emit({TransactionUpdated(r, refs'[r]) : r \in {x \in moved : KindOf[x] = "transaction"}})
    /\ written' = written \cup ws
    /\ CopyRepaired(applying[s].added)
    /\ applying' = [applying EXCEPT ![s] = Idle]
    /\ UNCHANGED <<revision, table, sequence, ledger, outbox, globalRules, processed, reinstalled, installs, operations>>
    /\ UNCHANGED <<scans, reports, summary, drafting, manifests, approval, approved>>
    /\ Background

(* An error or a crash before the commit: nothing is kept.                 *)
ApplyAborts(s) ==
    /\ applying[s] # Idle /\ applying' = [applying EXCEPT ![s] = Idle]
    /\ UNCHANGED <<bus, upgradeVars, refs, scans, reports, summary, drafting, manifests, approval, written, approved>>
    /\ Background

-----------------------------------------------------------------------------
(* The users meanwhile: Ledger and MonthlyBudget have the whole of it.     *)

RowEdited(r, row) ==
    /\ Request /\ Counted
    /\ refs' = [refs EXCEPT ![r] = row] /\ UniqueLines(refs')
    /\ Emit({TransactionUpdated(x, row) : x \in {r} \cap {y \in Refs : KindOf[y] = "transaction"}})
    /\ UNCHANGED <<installVars, installs, scans, reports, summary, drafting, manifests, approval, applying, written, approved>>

UserRecategorizes(r) ==
    /\ refs[r].live
    /\ \/ /\ KindOf[r] = "transaction"
          /\ \E i \in DOMAIN table.subcategory :
                RowEdited(r, [refs[r] EXCEPT !.cat = table.subcategory[i].parent, !.sub = i, !.tier = "manual"])
       \/ /\ StoresCategory(r)
          /\ \E i \in DOMAIN table.category : RowEdited(r, [refs[r] EXCEPT !.cat = i])

UserDeletes(r) ==
    /\ refs[r].live
    /\ StoresCategory(r) \/ KindOf[r] = "transaction"
    /\ RowEdited(r, [refs[r] EXCEPT !.live = FALSE])

-----------------------------------------------------------------------------

ResultsNameTargets ==
    \E r \in Refs : KindOf[r] = "categorization_result" /\ refs[r].sub \in Keyed("subcategory")

RulesNameTargets ==
    \E r \in Refs : KindOf[r] \in {"system_rule", "user_or_learned_rule"} /\ refs[r].sub \in Keyed("subcategory")

(* The documents of the index, up to date or as old as the scan.           *)
Baselines ==
    {{<<r, refs[r].cat>> : r \in {x \in RefsOf["transaction"] : refs[x].live}},
     {<<x.ref, x.cat>> : x \in IF reports["transaction"] = NoFile THEN {} ELSE reports["transaction"].rows}}

ReclassificationInit ==
    /\ PlatformInit /\ UpgradeInit
    /\ refs = StoredRefs /\ scans = 0
    /\ reports = [s \in Services |-> NoFile]
    /\ summary = NoFile /\ drafting = Idle /\ manifests = NoFile /\ approval = NoFile
    /\ applying = [s \in Services |-> Idle]
    /\ written = {} /\ approved = {}

ReclassificationNext ==
    \/ UpgradeNext(ResultsNameTargets, RulesNameTargets) /\ UNCHANGED reclassVars
    \/ \E run \in Runs :
          \/ DryRunCategorization(run)
          \/ \E v \in DOMAIN Mappings :
                \/ DryRunBudget(run, v)
                \/ \E answers \in [RefsOf["transaction"] -> ToSet(ChildKeys) \cup {NoKey}] :
                      DryRunTransaction(run, v, answers)
    \/ \E baseline \in Baselines : aggregate(baseline)
    \/ write_execution_manifests \/ OwnerApproves
    \/ \E s \in Services : apply_reclassification(s) \/ ApplyCommits(s) \/ ApplyAborts(s)
    \/ \E r \in Refs : UserRecategorizes(r) \/ UserDeletes(r)

ReclassificationSpec == ReclassificationInit /\ [][ReclassificationNext]_allVars

-----------------------------------------------------------------------------
(* What the tools wrote, the owner had approved row by row, and it went to *)
(* a target that the mapping in force allows for the legacy reference the  *)
(* row carried: no later scan, rewritten manifest or older mapping file    *)
(* widens what one approval lets through.                                  *)
OnlyApprovedWritten ==
    \A w \in written :
        /\ w.row \in approved
        /\ w.row.target \in _allowed_targets(Mappings[CurrentMapping], w.row)

(* One id per key, everywhere: the owner's table, the ledger, the read     *)
(* copy of transaction-service and every reference the tools have moved,   *)
(* whichever way the taxonomy was installed, repaired or looked up.  A     *)
(* downgrade followed by another installation is excepted: what was        *)
(* published before it is not taken back.                                  *)
IdentitiesAgree ==
    ~ reinstalled =>
        \A kind \in Kinds : \A k \in ToSet(Keys[kind]) :
            LET noted == {r.id : r \in {x \in LedgerRows(ledger) : x.kind = kind /\ x.key = k}}
                moved == {IF kind = "category" THEN w.to.cat ELSE w.to.sub : w \in {x \in written : x.row.target = k}}
            IN Cardinality(IdsOf(table[kind], k) \cup IdsOf(copy[kind], k) \cup noted \cup moved) <= 1
=============================================================================
