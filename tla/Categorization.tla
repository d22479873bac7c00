--------------------------- MODULE Categorization ---------------------------
(***************************************************************************)
(* The path of a transaction's category: entered by the user, suggested by *)
(* the seed rules, settled by the worker with the user's rules on top,     *)
(* corrected by the user, learned from; while the taxonomy below it is     *)
(* edited and its read copy follows.                                       *)
(***************************************************************************)
EXTENDS Ledger, FiniteSets

vars == <<platform, taxonomyVars, ruleVars, ledgerVars, parents>>

Init == PlatformInit /\ TaxonomyInit /\ RulesInit /\ LedgerInit

(* The taxonomy's routes are internal: no user owns it. *)
TaxonomyRoute ==
    /\ Request
    /\ parents' = parents \cup UNION {{<<c, s>> : s \in list_subcategories(c)'} : c \in list_categories'}
    /\ UNCHANGED <<bus, inbox, copyCategories, copySubs, disturbed, ruleVars, ledgerVars>>

post_category(name) == create_category(name) /\ TaxonomyRoute

put_category(c, name) == update_category(c, name) /\ TaxonomyRoute

remove_category_route(c) == delete_category(c) /\ TaxonomyRoute

post_subcategory(c, name) == create_subcategory(c, name) /\ TaxonomyRoute

put_subcategory(s, name, c) == update_subcategory(s, name, c) /\ TaxonomyRoute

remove_subcategory_route(s) ==
    delete_subcategory(s, find_by_subcategory_id(s) # {}) /\ TaxonomyRoute

TaxonomyRequest ==
    \/ \E name \in Names : post_category(name) \/ \E c \in CategoryIds : put_category(c, name)
    \/ \E c \in CategoryIds : remove_category_route(c)
    \/ \E c \in CategoryIds, name \in SubNames :
          post_subcategory(c, name) \/ \E s \in SubIds : put_subcategory(s, name, c)
    \/ \E s \in SubIds : remove_subcategory_route(s)

(* The rules page.  The overlay of the process that serves it is dropped,  *)
(* but no request of that process ever asks for one.                       *)
RuleRoute ==
    Request /\ UNCHANGED <<bus, taxonomyVars, engine, overlay, learnt, ledgerVars, parents>>

post_rule(p, s, prio) == create_rule(p, s, prio) /\ RuleRoute

put_rule(k, p, s, prio, active) == update_rule(k, p, s, prio, active) /\ RuleRoute

remove_rule_route(k) == delete_rule(k) /\ RuleRoute

RuleRequest ==
    \/ \E p \in Patterns, s \in SubIds, prio \in Priorities :
          \/ post_rule(p, s, prio)
          \/ \E k \in list_rules, active \in BOOLEAN : put_rule(k, p, s, prio, active)
    \/ \E k \in list_rules : remove_rule_route(k)

RulesStep ==
    /\ CorrectionHandled \/ OverlayLoads \/ \E p \in Processes : EngineReloads(p)
    /\ UNCHANGED <<taxonomyVars, ledgerVars, parents>>

LedgerStep ==
    /\ \/ \E d \in Descriptions :
             post_csv(d) \/ \E choice \in SentPairs, tier \in SentTiers : post_transaction(d, choice, tier)
       \/ \E t \in TxIds :
             \/ remove_transaction(t)
             \/ \E c \in CategoryIds \cup {0, Unset}, s \in SubIds \cup {0, Unset} : put_transaction(t, c, s)
       \/ CsvCommits \/ EditCommits
       \/ CategorizationRuns \/ CategorizedReads \/ CategorizedCommits \/ CategorizedLost
    /\ UNCHANGED <<taxonomyVars, ruleVars, parents>>

Next ==
    \/ TaxonomyRequest \/ RuleRequest \/ RulesStep \/ LedgerStep
    \/ SyncNext /\ UNCHANGED <<ruleVars, ledgerVars, parents>>

Spec == Init /\ [][Next]_vars

-----------------------------------------------------------------------------
(* The user's choice stays: a row pinned as manual changes only by another *)
(* edit or by its deletion, unless a session had read it before the choice *)
(* was committed and wrote it after.                                       *)
ManualKept ==
    [][\A t \in DOMAIN transactions :
          transactions[t].tier = "manual" /\ t \notin overlapped' /\ editing.tx # t
          => [transactions'[t] EXCEPT !.state = "live"] = [transactions[t] EXCEPT !.state = "live"]]_vars

(* The service itself never puts a subcategory under a category it never   *)
(* belonged to: through suggestions of a stale engine, a lagging read copy,*)
(* a subcategory moved to another category and an edit of either field     *)
(* alone.  A foreign pair in a row is the one it was entered with, whole.  *)
PairsBelong ==
    \A t \in DOMAIN transactions \ overlapped :
        LET row == transactions[t] IN
        row.sub # 0 => <<row.category, row.sub>> \in parents \cup {row.sent}

EngineFresh ==
    engine["worker"].subs = subcategories /\ overlay \in {NotLoaded, _load_user_engines}

NameUnique(s) == \A u \in DOMAIN subcategories : subcategories[u].name = subcategories[s].name => u = s

(* The pattern is part of the description as it stands, which it is not    *)
(* when a number stood between its words, and no longer one was learned.   *)
Applies(d) ==
    \E n \in DOMAIN PatternsIn[d] :
        /\ PatternsIn[d][n] = normalize_merchant_pattern(d)
        /\ \A m \in DOMAIN PatternsIn[d] : m < n => <<"merchant", PatternsIn[d][m]>> \notin DOMAIN rules

(* No rule names a subcategory that is gone, and once the worker's engine  *)
(* is fresh the rule learned from a correction decides where it applies,   *)
(* ahead of the user's own rules and the seeds.  It names its target by    *)
(* name, so the name must be the only one of its kind.                     *)
LearnedRuleWins ==
    /\ \A k \in DOMAIN rules : find_subcategory(rules[k].target)
    /\ \A d \in Descriptions :
          LET k == <<"merchant", normalize_merchant_pattern(d)>> IN
          /\ k \in DOMAIN rules /\ Applies(d) /\ EngineFresh
          /\ rules[k].active /\ rules[k].priority = LEARNED_RULE_PRIORITY /\ NameUnique(rules[k].target)
          => _categorize(d) = {Result(rules[k].target, subcategories[rules[k].target].parent, "rule")}

=============================================================================
