------------------------------- MODULE Rules -------------------------------
(***************************************************************************)
(* categorization-service: the rules of one user, those learned from a     *)
(* user's corrections, and the engine that picks a subcategory for a       *)
(* description.  An engine is built from the tables and used until its     *)
(* time to live has passed, in each process on its own: the synchronous    *)
(* endpoint uses the seed rules only, the worker the user's rules on top.  *)
(* A description is known by the patterns it contains, longest first, and  *)
(* by the pattern its correction teaches.                                  *)
(***************************************************************************)
EXTENDS Taxonomy

CONSTANTS
    Patterns,
    Descriptions, PatternsIn, Learns, DirectionOf,
    Priorities,       \* of the rules a user writes
    SeedRules         \* pattern -> target and direction

ASSUME RulesAssumption ==
    /\ Priorities \subseteq 20..90
    /\ \A d \in Descriptions : DOMAIN PatternsIn[d] \subseteq Nat

VARIABLES
    rules,      \* <<type, pattern>> -> target, priority, active
    engine,     \* process -> the tables as its engine was built from them
    overlay,    \* the worker's engines for the user, or NotLoaded
    learnt      \* the corrections consumed: processed_events of that queue

ruleVars == <<rules, engine, overlay, learnt>>

-----------------------------------------------------------------------------
(* The table: one rule per kind and pattern (uq_rules_user_pattern), whose *)
(* target the foreign key keeps from being deleted.                        *)

LEARNED_RULE_PRIORITY == 10

RuleRow(target, priority, active) ==
    [target |-> target, priority |-> priority, active |-> active]

find_by_user == DOMAIN rules

find_by_user_and_pattern(type, pattern) == {k \in find_by_user : k = <<type, pattern>>}

insert_rule(k, row) == rules' = With(rules, k, row)

(* Its pattern, and with it its key, may change. *)
write_rule(k, new, row) == rules' = With(Without(rules, k), new, row)

remove_rule(k) == rules' = Without(rules, k)

find_by_subcategory_id(s) ==
    {k \in DOMAIN rules : rules[k].target = s}
        \cup {<<"seed", p>> : p \in {q \in DOMAIN SeedRules : SeedRules[q].target = s}}

create_rule(pattern, s, priority) ==
    /\ find_subcategory(s)
    /\ find_by_user_and_pattern("keyword", pattern) = {}
    /\ insert_rule(<<"keyword", pattern>>, RuleRow(s, priority, TRUE))

list_rules == find_by_user

_get_owned_rule(k) == k \in find_by_user

(* A learned rule can be edited like one the user wrote. *)
update_rule(k, pattern, s, priority, active) ==
    /\ _get_owned_rule(k) /\ find_subcategory(s)
    /\ find_by_user_and_pattern(k[1], pattern) \subseteq {k}
    /\ write_rule(k, <<k[1], pattern>>, RuleRow(s, priority, active))

delete_rule(k) ==
    /\ _get_owned_rule(k)
    /\ remove_rule(k)

-----------------------------------------------------------------------------
(* Learning: category_corrected_consumer *)

Unlearnable == "none"

(* Descriptions that differ in numbers only have one pattern. *)
normalize_merchant_pattern(d) == Learns[d]

(* A correction that names no subcategory, or one the taxonomy lost, or    *)
(* has no pattern to remember, teaches nothing.                            *)
Teaches(e) ==
    /\ normalize_merchant_pattern(e.description) # Unlearnable
    /\ e.sub # 0 /\ find_subcategory(e.sub)

(* The pattern's rule is retargeted and made active again, or created. *)
Learn(e) ==
    LET k == <<"merchant", normalize_merchant_pattern(e.description)>> IN
    IF find_by_user_and_pattern(k[1], k[2]) # {}
    THEN write_rule(k, k, RuleRow(e.sub, rules[k].priority, TRUE))
    ELSE insert_rule(k, RuleRow(e.sub, LEARNED_RULE_PRIORITY, TRUE))

(* One transaction: the rule and the row of the inbox. *)
CorrectionHandled ==
    \E e \in bus :
        /\ e.type = "transaction.category_corrected" /\ e.id \notin learnt
        /\ learnt' = learnt \cup {e.id}
        /\ IF Teaches(e) THEN Learn(e) ELSE UNCHANGED rules
        /\ UNCHANGED <<bus, engine, overlay>> /\ Background

-----------------------------------------------------------------------------
(* The engine: rule_engine_provider and rule_engine *)

Processes == {"api", "worker"}

NotLoaded == [loaded |-> FALSE]

(* Two subcategories may have one name; which of them the lookup keeps is  *)
(* the order the rows came in.                                             *)
Lookups ==
    LET names == {subcategories[s].name : s \in DOMAIN subcategories} IN
    {f \in [names -> DOMAIN subcategories] : \A n \in names : subcategories[f[n]].name = n}

Fallbacks ==
    IF find_subcategory(FallbackKey) THEN {FallbackKey}
    ELSE LET named == {s \in DOMAIN subcategories :
                          subcategories[s].name = FALLBACK_SUBCATEGORY_NAME}
         IN IF named = {} THEN {0} ELSE named

Loaded(lookup, fallback) ==
    [lookup |-> lookup, subs |-> subcategories, fallback |-> fallback]

(* The user's engines built on the old tables go with them. *)
_reload(p) ==
    /\ \E lookup \in Lookups, fallback \in Fallbacks :
          engine' = [engine EXCEPT ![p] = Loaded(lookup, fallback)]
    /\ overlay' = IF p = "worker" THEN NotLoaded ELSE overlay

(* The time to live has passed, or a new process warms up. *)
EngineReloads(p) ==
    /\ _reload(p) /\ engine' # engine
    /\ UNCHANGED <<bus, rules, learnt>> /\ Background

(* Each matchable rule under the name its target had when the taxonomy was *)
(* loaded, in tiers of one priority.                                       *)
_load_user_engines ==
    LET matchable == {k \in DOMAIN rules : rules[k].active /\ rules[k].target \in DOMAIN engine["worker"].subs}
        tier(prio) == [k \in {k \in matchable : rules[k].priority = prio} |->
                          engine["worker"].subs[rules[k].target].name]
    IN [loaded |-> TRUE, tiers |-> [prio \in {rules[k].priority : k \in matchable} |-> tier(prio)]]

OverlayLoads ==
    /\ overlay' = _load_user_engines /\ overlay' # overlay
    /\ UNCHANGED <<bus, rules, engine, learnt>> /\ Background

-----------------------------------------------------------------------------
(* Matching *)

Result(s, c, tier) == [sub |-> s, category |-> c, tier |-> tier]

(* RuleEngine.match: the longest pattern whose subcategory the lookup has. *)
keyword_match(tier, d) ==
    LET lookup == engine["worker"].lookup
        matching(p) == {k \in DOMAIN tier : k[2] = p /\ tier[k] \in DOMAIN lookup}
        hits == {n \in DOMAIN PatternsIn[d] : matching(PatternsIn[d][n]) # {}}
    IN IF hits = {} THEN {}
       ELSE {Result(lookup[tier[k]], engine["worker"].subs[lookup[tier[k]]].parent, "rule") :
                k \in matching(PatternsIn[d][Min(hits)])}

(* ConstrainedRuleEngine.match: a seed rule whose direction fits. *)
constrained_match(p, d) ==
    LET subs == engine[p].subs
        fits(x) == /\ x \in DOMAIN SeedRules /\ SeedRules[x].target \in DOMAIN subs
                   /\ SeedRules[x].direction \in {"any", DirectionOf[d]}
        hits == {n \in DOMAIN PatternsIn[d] : fits(PatternsIn[d][n])}
        target == SeedRules[PatternsIn[d][Min(hits)]].target
    IN IF hits = {} THEN {} ELSE {Result(target, subs[target].parent, "rule")}

_absolute_fallback(p) ==
    LET f == engine[p].fallback IN
    Result(f, IF f = 0 THEN 0 ELSE engine[p].subs[f].parent, "fallback")

(* Mutant of tiered_match: the tiers are tried from the last to the first. *)
tiered_match_reversed(d) ==
    LET tiers == IF overlay.loaded THEN overlay.tiers ELSE _load_user_engines.tiers
        hit == {t \in DOMAIN tiers : keyword_match(tiers[t], d) # {}}
    IN IF hit = {} THEN constrained_match("worker", d)
       ELSE keyword_match(tiers[CHOOSE t \in hit : \A u \in hit : t >= u], d)

(* TieredRuleEngine.match: the tiers in order of priority, then the seeds. *)
tiered_match(d) ==
    LET tiers == IF overlay.loaded THEN overlay.tiers ELSE _load_user_engines.tiers
        hit == {t \in DOMAIN tiers : keyword_match(tiers[t], d) # {}}
    IN IF hit = {} THEN constrained_match("worker", d)
       ELSE keyword_match(tiers[CHOOSE t \in hit : \A u \in hit : t <= u], d)

_run_pipeline(matches, p) == IF matches = {} THEN {_absolute_fallback(p)} ELSE matches

(* The endpoint of transaction-service's client: no user, seed rules only. *)
categorize_single(d) == _run_pipeline(constrained_match("api", d), "api")

(* The worker, for the transaction's owner. *)
_categorize(d) == _run_pipeline(tiered_match(d), "worker")

-----------------------------------------------------------------------------

RulesInit ==
    /\ rules = <<>> /\ learnt = {} /\ overlay = NotLoaded
    /\ \E lookup \in Lookups, fallback \in Fallbacks :
          engine = [p \in Processes |-> Loaded(lookup, fallback)]

=============================================================================
