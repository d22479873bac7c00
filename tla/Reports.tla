------------------------------- MODULE Reports -------------------------------
(***************************************************************************)
(* The read side of analytics-service: store, service and routes.  It is   *)
(* stateless: an answer is a function of the indexed documents and of the  *)
(* request.  Amounts are whole; rounding and labels are left out.  What    *)
(* Elasticsearch's analyser matches and how it ranks are parameters.       *)
(***************************************************************************)
EXTENDS Accounts, BudgetPeriod, SequencesExt

CONSTANTS
    BreakdownSize,   \* categories a breakdown has buckets for: 200
    Documents,   \* documents the projection can come to write
    Today,       \* date.today
    StoredDocs   \* documents the index starts with

(* date.fromisoformat gives a day of the calendar. *)
Dates == {d \in Int \X (1 .. 12) \X (1 .. 31) : d[3] <= monthrange(d[1], d[2])}

Document == [id : Int, user : UserIds, account : AccountIds, date : Dates,
             type : {"", "income", "expense"}, amount : Int, category : Int, merchant : STRING,
             deleted : BOOLEAN]

(* The index starts with documents of accounts that exist. *)
ASSUME DocumentsAssumption ==
    /\ Today \in Dates /\ BreakdownSize \in Nat
    /\ Documents \subseteq Document /\ StoredDocs \subseteq Document /\ IsFiniteSet(StoredDocs)
    /\ \A d, e \in StoredDocs : d.id = e.id => d = e
    /\ \A d \in StoredDocs : d.account \in DOMAIN StoredAccounts

VARIABLES docs   \* the transactions index: a set of documents with distinct ids

Unset == <<>>      \* a date the request leaves out
Missing == 0       \* MISSING_ID, and any other id the request leaves out
Refused == "400"   \* InvalidPeriodError, or a parameter out of its bounds

AbsoluteValue(n) == IF n < 0 THEN -n ELSE n

SumAbs(D) == MapThenSumSet(LAMBDA d : AbsoluteValue(d.amount), D)

SumRaw(D) == MapThenSumSet(LAMBDA d : d.amount, D)

Below(S, before, x) == {y \in S : y # x /\ <<y, x>> \in before}

(* The members of S in the total order that the pairs of before are. *)
InOrder(S, before) ==
    [i \in 1 .. Cardinality(S) |-> CHOOSE x \in S : Cardinality(Below(S, before, x)) = i - 1]

Sorted(S, Before(_, _)) == InOrder(S, {p \in S \X S : Before(p[1], p[2])})

Take(s, n) == SubSeq(s, 1, IF n < Len(s) THEN n ELSE Len(s))

-----------------------------------------------------------------------------
(* EsAnalyticsQueryStore *)

is_income(d) == d.type = "income" \/ (d.type = "" /\ d.amount > 0)

is_expense(d) == d.type = "expense" \/ (d.type = "" /\ d.amount < 0)

Between(date, from, to) ==
    (from = Unset \/ NotAfter(from, date)) /\ (to = Unset \/ NotAfter(date, to))

(* Mutant of _base_filters: tombstones are not filtered out. *)
base_filters_with_deleted(u, a, from, to) ==
    {d \in docs : d.user = u /\ d.account = a /\ Between(d.date, from, to)}

_base_filters(u, a, from, to) ==
    {d \in docs : d.user = u /\ d.account = a /\ ~ d.deleted /\ Between(d.date, from, to)}

Expenses(D) == {d \in D : is_expense(d)}

Incomes(D) == {d \in D : is_income(d)}

(* Largest first; equal amounts in the order of the buckets' keys. *)
BucketsBefore(x, y) == x.amount > y.amount \/ (x.amount = y.amount /\ x.category < y.category)

CategorySums(D) ==
    {[category |-> c, amount |-> SumAbs({d \in D : d.category = c})] : c \in {d.category : d \in D}}

(* A terms aggregation has buckets for the first few only. *)
_category_breakdown_aggs(D) ==
    LET all == CategorySums(D) IN
    {x \in all : Cardinality({y \in all : BucketsBefore(y, x)}) < BreakdownSize}

_buckets_to_category_expenses(buckets) == Sorted(buckets, BucketsBefore)

(* In thirtieths of a month: a period within one month counts its days. *)
months_in_period(from, to) ==
    IF <<from[1], from[2]>> = <<to[1], to[2]>>
    THEN Max({30, to[3] - from[3] + 1})
    ELSE 30 * Max({1, (to[1] - from[1]) * 12 + (to[2] - from[2]) + 1})

financial_overview(u, a, from, to) ==
    LET D == _base_filters(u, a, from, to)
        income == SumAbs(Incomes(D))
        expenses == SumAbs(Expenses(D))
    IN  [income |-> income, expenses |-> expenses, net |-> income - expenses,
         by_category |-> _buckets_to_category_expenses(_category_breakdown_aggs(Expenses(D))),
         balance |-> income - expenses + SumRaw(D \ (Incomes(D) \cup Expenses(D))),
         average |-> <<30 * expenses, months_in_period(from, to)>>]

BudgetMonth(d, day) == histogram_bucket_to_budget_month(date_histogram(d.date, day), day)

(* min_doc_count 1: only the months that have an expense. *)
expenses_by_month(u, a, from, to, day) ==
    LET D == Expenses(_base_filters(u, a, from, to)) IN
    {[month |-> m, expenses |-> SumAbs({d \in D : BudgetMonth(d, day) = m})] :
        m \in {BudgetMonth(d, day) : d \in D}}

(* extended_bounds: the buckets from that of the first day to that of the last. *)
Buckets(from, to, day) ==
    LET first == date_histogram(from, day)
        last == date_histogram(to, day)
    IN  {b \in {<<y, m, day>> : y \in first[1] .. last[1], m \in 1 .. 12} :
            NotAfter(first, b) /\ NotAfter(b, last)}

cashflow_by_month(u, a, from, to, day) ==
    LET D == _base_filters(u, a, from, to)
        row(m) ==
            LET In == {d \in D : BudgetMonth(d, day) = m}
                income == SumAbs(Incomes(In))
                expenses == SumAbs(Expenses(In))
            IN  [month |-> m, income |-> income, expenses |-> expenses, net |-> income - expenses]
    IN  {row(histogram_bucket_to_budget_month(b, day)) : b \in Buckets(from, to, day)}

(* The amount of a category without a bucket is nothing. *)
bucket_map(D) ==
    [c \in {x.category : x \in _category_breakdown_aggs(D)} |-> SumAbs({d \in D : d.category = c})]

AmountIn(map, c) == IF c \in DOMAIN map THEN map[c] ELSE 0

(* One search over both months, split by two filters. *)
month_comparison(u, a, y, m, day) ==
    LET before == _prev_month(y, m)
        now == budget_period(y, m, day)
        then == budget_period(before[1], before[2], day)
        D == Expenses(_base_filters(u, a, then[1], now[2]))
        N == {d \in D : InPeriod(d.date, now)}
        T == {d \in D : InPeriod(d.date, then)}
        current_map == bucket_map(N)
        previous_map == bucket_map(T)
        delta(c) ==
            LET current == AmountIn(current_map, c)
                previous == AmountIn(previous_map, c)
            IN  [category |-> c, current |-> current, previous |-> previous,
                 change |-> current - previous]
        Larger(x, z) == \/ AbsoluteValue(x.change) > AbsoluteValue(z.change)
                        \/ AbsoluteValue(x.change) = AbsoluteValue(z.change) /\ x.category < z.category
    IN  [current |-> SumAbs(N), previous |-> SumAbs(T),
         deltas |-> Sorted({delta(c) : c \in DOMAIN current_map \cup DOMAIN previous_map}, Larger)]

(* transaction_id is the tiebreak of both. *)
TRANSACTION_SORTS(sort, x, y) ==
    IF sort = "date_desc" THEN NotAfter(y.date, x.date) /\ (x.date = y.date => x.id > y.id)
    ELSE \/ AbsoluteValue(x.amount) > AbsoluteValue(y.amount)
         \/ AbsoluteValue(x.amount) = AbsoluteValue(y.amount) /\ x.id > y.id

(* The type filter has no fallback on the sign. *)
search_transactions(u, a, q) ==
    LET hits == {d \in _base_filters(u, a, q.from, q.to) :
                    /\ q.search = "" \/ d.merchant = q.search
                    /\ q.category = Missing \/ d.category = q.category
                    /\ q.type = "" \/ d.type = q.type}
        found == Sorted(hits, LAMBDA x, y : TRANSACTION_SORTS(q.sort, x, y))
    IN  [total |-> Len(found), items |-> Take(SubSeq(found, q.offset + 1, Len(found)), q.limit)]

(* "" is a description its keyword field does not hold: none, or one of    *)
(* more than 256 characters.                                               *)
HasKeyword(D) == {d \in D : d.merchant # ""}

top_merchants(u, a, from, to, limit) ==
    LET D == HasKeyword(Expenses(_base_filters(u, a, from, to)))
        row(w) == [merchant |-> w, amount |-> SumAbs({d \in D : d.merchant = w}),
                   count |-> Cardinality({d \in D : d.merchant = w}),
                   first |-> Max({d.id : d \in {e \in D : e.merchant = w}})]
    IN  Take(Sorted({row(w) : w \in {d.merchant : d \in D}}, LAMBDA x, y : x.amount > y.amount
                    \/ (x.amount = y.amount /\ x.first > y.first)), limit)

get_budget_start_day(u, a) ==
    IF a \in get_all(u) THEN accounts[a].start ELSE 0

-----------------------------------------------------------------------------
(* Hybrid search: the rankings of the two branches, fused *)

RRF_K == 60
RRF_WINDOW == 50

Ranks(item, rankings) ==
    UNION {{<<l, r>> : r \in {r \in DOMAIN rankings[l] : rankings[l][r] = item}} : l \in DOMAIN rankings}

(* The sum of 1 / (k + rank), as a fraction. *)
Score(item, rankings) ==
    FoldSet(LAMBDA p, s : <<s[1] * (RRF_K + p[2]) + s[2], s[2] * (RRF_K + p[2])>>,
            <<0, 1>>, Ranks(item, rankings))

(* The place in the first list that has the item. *)
first_seen(item, rankings) ==
    CHOOSE p \in Ranks(item, rankings) : \A q \in Ranks(item, rankings) : p[1] <= q[1]

rrf_fuse(rankings) ==
    LET items == UNION {ToSet(rankings[l]) : l \in DOMAIN rankings}
        entries == {[item |-> x, score |-> Score(x, rankings), seen |-> first_seen(x, rankings)] : x \in items}
        Better(x, y) ==
            LET s == x.score t == y.score p == x.seen q == y.seen IN
            \/ s[1] * t[2] > t[1] * s[2]
            \/ s[1] * t[2] = t[1] * s[2] /\ (p[1] < q[1] \/ (p[1] = q[1] /\ p[2] < q[2]))
        order == Sorted(entries, Better)
    IN  [i \in DOMAIN order |-> order[i].item]

(* What both branches filter on before they rank. *)
HybridFilters(u, q) ==
    {d \in docs : /\ d.user = u /\ ~ d.deleted /\ Between(d.date, q.from, q.to)
                  /\ q.account = Missing \/ d.account = q.account
                  /\ q.category = Missing \/ d.category = q.category}

(* rankings: the ids BM25 and, given a vector, kNN rank among the filtered. *)
hybrid_search_transactions(u, q, rankings) ==
    Take(rrf_fuse([l \in DOMAIN rankings |-> Take(rankings[l], RRF_WINDOW)]), q.limit)

-----------------------------------------------------------------------------
(* AnalyticsQueryService: defaults, refusals, and the store *)

DEFAULT_BUDGET_START_DAY == 1

_resolve_budget_start_day(u, a, day) ==
    IF day # 0 THEN day
    ELSE IF get_budget_start_day(u, a) # 0 THEN get_budget_start_day(u, a)
    ELSE DEFAULT_BUDGET_START_DAY

(* end_date - timedelta(days=30) *)
ThirtyDaysBefore(d) ==
    LET p == _prev_month(d[1], d[2])
        q == _prev_month(p[1], p[2])
        k == d[3] + monthrange(p[1], p[2]) - 30
    IN  IF d[3] > 30 THEN <<d[1], d[2], d[3] - 30>>
        ELSE IF k > 0 THEN <<p[1], p[2], k>>
        ELSE <<q[1], q[2], k + monthrange(q[1], q[2])>>

Or(date, default) == IF date = Unset THEN default ELSE date

FinancialOverview(u, a, from, to) ==
    LET last == Or(to, Today)
        first == Or(from, ThirtyDaysBefore(last))
    IN  IF NotAfter(first, last) THEN financial_overview(u, a, first, last) ELSE Refused

ExpensesByMonth(u, a, from, to, day) ==
    LET last == Or(to, Today)
        first == Or(from, <<last[1] - 1, last[2], 1>>)
    IN  IF NotAfter(first, last)
        THEN expenses_by_month(u, a, first, last, _resolve_budget_start_day(u, a, day))
        ELSE Refused

MonthsBack(month, n) ==
    LET i == 12 * month[1] + month[2] - 1 - n IN <<i \div 12, (i % 12) + 1>>

(* The window ends with the running budget month. *)
CashflowByMonth(u, a, months, day) ==
    LET start_day == _resolve_budget_start_day(u, a, day)
        last == determine_budget_month(Today, start_day)
        first == MonthsBack(last, months - 1)
    IN  cashflow_by_month(u, a, budget_period(first[1], first[2], start_day)[1],
                          budget_period(last[1], last[2], start_day)[2], start_day)

MonthComparison(u, a, y, m, day) ==
    IF m \in 1 .. 12 THEN month_comparison(u, a, y, m, _resolve_budget_start_day(u, a, day))
    ELSE Refused

Ordered(q) == q.from = Unset \/ q.to = Unset \/ NotAfter(q.from, q.to)

SearchTransactions(u, a, q) == IF Ordered(q) THEN search_transactions(u, a, q) ELSE Refused

HybridSearch(u, q, rankings) ==
    IF Ordered(q) THEN hybrid_search_transactions(u, q, rankings) ELSE Refused

TopMerchants(u, a, from, to, limit) ==
    LET last == Or(to, Today)
        first == Or(from, ThirtyDaysBefore(last))
    IN  IF NotAfter(first, last) THEN top_merchants(u, a, first, last, limit) ELSE Refused

-----------------------------------------------------------------------------
(* Routes: the bounds of the parameters; 0 is a budget_start_day left out. *)

get_overview(u, a, from, to) == FinancialOverview(u, a, from, to)

get_expenses(u, a, from, to, day) ==
    IF day \in 0 .. 28 THEN ExpensesByMonth(u, a, from, to, day) ELSE Refused

get_cashflow(u, a, months, day) ==
    IF months \in 1 .. 60 /\ day \in 0 .. 28 THEN CashflowByMonth(u, a, months, day) ELSE Refused

get_comparison(u, a, y, m, day) ==
    IF day \in 0 .. 28 THEN MonthComparison(u, a, y, m, day) ELSE Refused

get_transactions(u, a, q) ==
    IF q.limit \in 1 .. 500 /\ q.offset >= 0 THEN SearchTransactions(u, a, q) ELSE Refused

post_hybrid_search(u, q, rankings) ==
    IF q.limit \in 1 .. 50 THEN HybridSearch(u, q, rankings) ELSE Refused

get_top_merchants(u, a, from, to, limit) ==
    IF limit \in 1 .. 100 THEN TopMerchants(u, a, from, to, limit) ELSE Refused

-----------------------------------------------------------------------------
(* The index as Projections keeps it: one document per transaction, whole, *)
(* and a tombstone for good.                                               *)

Indexed(d) ==
    /\ d.account \in get_all(d.user) /\ \A e \in docs : e.id = d.id => ~ e.deleted
    /\ docs' = {e \in docs : e.id # d.id} \cup {d}

Tombstoned(d) ==
    /\ ~ d.deleted
    /\ docs' = (docs \ {d}) \cup {[d EXCEPT !.deleted = TRUE]}

ReportsInit == docs = StoredDocs

ReportsNext ==
    /\ Request /\ UNCHANGED bus
    /\ (\E d \in Documents : Indexed(d)) \/ (\E d \in docs : Tombstoned(d))

=============================================================================
