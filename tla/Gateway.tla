------------------------------ MODULE Gateway ------------------------------
(***************************************************************************)
(* gateway-service: GraphQL resolvers that resolve an account and its      *)
(* start day at account-service and ask analytics-service.  Clients and    *)
(* resolvers are stateless; one request looks the start day up once.       *)
(***************************************************************************)
EXTENDS Reports

(* A header names an account, which GET /accounts/{id} must answer for the *)
(* token's user; without one, the account under the default name.          *)
get_account_id_from_headers(u, header) ==
    LET default == {a \in list_accounts(u) : accounts[a].name = DefaultName} IN
    IF header # Missing THEN (IF read_account(u, header) THEN header ELSE Missing)
    ELSE IF default # {} THEN CHOOSE a \in default : TRUE ELSE Missing

(* The client falls back on 1 when account-service does not answer. *)
AccountClient_get_budget_start_day(a, answered) == IF answered THEN accounts[a].start ELSE 1

(* The days a request about the account can work with. *)
_get_budget_start_day(a) ==
    {AccountClient_get_budget_start_day(a, answered) : answered \in BOOLEAN}

-----------------------------------------------------------------------------
(* HttpFinancialAnalyticsRepository *)

get_financial_overview(u, a, from, to) == get_overview(u, a, from, to)

get_expenses_by_month(u, a, from, to, day) == get_expenses(u, a, from, to, day)

get_cashflow_by_month(u, a, months, day) == get_cashflow(u, a, months, day)

get_month_comparison(u, a, month, day) == get_comparison(u, a, month[1], month[2], day)

Listing(from, to, limit) ==
    [search |-> "", from |-> from, to |-> to, category |-> Missing, type |-> "",
     limit |-> limit, offset |-> 0, sort |-> "date_desc"]

list_transactions(u, a, from, to, limit) ==
    get_transactions(u, a, Listing(from, to, limit)).items

client_search_transactions(u, a, term, limit, offset) ==
    get_transactions(u, a, [Listing(Unset, Unset, limit) EXCEPT !.search = term, !.offset = offset])

-----------------------------------------------------------------------------
(* Resolvers *)

_pct_change(current, previous) ==
    IF previous = 0 THEN <<>> ELSE <<100 * (current - previous), AbsoluteValue(previous)>>

_build_trend(now, before) ==
    [income |-> _pct_change(now.income, before.income),
     expenses |-> _pct_change(now.expenses, before.expenses),
     net |-> now.net - before.net]

_overview_with_trend(u, a, month, day) ==
    LET p == budget_period(month[1], month[2], day)
        before == _prev_month(month[1], month[2])
        q == budget_period(before[1], before[2], day)
        now == get_financial_overview(u, a, p[1], p[2])
    IN  [overview |-> now, trend |-> _build_trend(now, get_financial_overview(u, a, q[1], q[2]))]

Query_financial_overview(u, a, from, to) == get_financial_overview(u, a, from, to)

Query_period_overview(u, a, month, day) ==
    [is_current |-> determine_budget_month(Today, day) = month,
     result |-> _overview_with_trend(u, a, month, day)]

Query_current_month_overview(u, a, day) ==
    _overview_with_trend(u, a, determine_budget_month(Today, day), day)

Query_cashflow_by_month(u, a, months, day) == get_cashflow_by_month(u, a, months, day)

Query_expenses_by_month(u, a, from, to, day) == get_expenses_by_month(u, a, from, to, day)

Query_month_comparison(u, a, month, limit, day) ==
    LET r == get_month_comparison(u, a, month, day) IN
    [r EXCEPT !.deltas = Take(r.deltas, limit)]

(* A share is of the month's expenses, or of one if there are none. *)
Query_top_spending_categories(u, a, month, limit, day) ==
    LET p == budget_period(month[1], month[2], day)
        r == get_financial_overview(u, a, p[1], p[2])
        rows == Take(r.by_category, limit)
    IN  [i \in DOMAIN rows |->
            [category |-> rows[i].category, amount |-> rows[i].amount,
             share |-> <<100 * rows[i].amount, Max({1, r.expenses})>>]]

(* A budget month wins over a pair of dates. *)
Query_transactions(u, a, month, limit, day) ==
    LET p == budget_period(month[1], month[2], day) IN list_transactions(u, a, p[1], p[2], limit)

Query_search_transactions(u, a, term, limit, offset) ==
    client_search_transactions(u, a, term, limit, offset)

-----------------------------------------------------------------------------

Total(rows) == MapThenSumSet(LAMBDA i : rows[i].amount, DOMAIN rows)

(* The months a dashboard shows, and what it shows of them together.       *)
MonthsAgree(u, a, day) ==
    LET now == determine_budget_month(Today, day)
        oldest == MonthsBack(now, 2)
        first == budget_period(oldest[1], oldest[2], day)[1]
        last == budget_period(now[1], now[2], day)[2]
        flow == Query_cashflow_by_month(u, a, 3, day)
        months == Query_expenses_by_month(u, a, first, last, day)
        all == Query_financial_overview(u, a, first, last)
    IN  /\ Query_period_overview(u, a, now, day) =
              [is_current |-> TRUE, result |-> Query_current_month_overview(u, a, day)]
        /\ {r.month : r \in flow} = {MonthsBack(now, n) : n \in 0 .. 2}
        /\ {r.month : r \in months} \subseteq {r.month : r \in flow}
        /\ \A r \in flow :
              r.expenses # 0 => [month |-> r.month, expenses |-> r.expenses] \in months
        /\ MapThenSumSet(LAMBDA r : r.expenses, flow) = all.expenses
        /\ MapThenSumSet(LAMBDA r : r.income, flow) = all.income

(* A breakdown has a bucket for every category. *)
AllListed(D) == Cardinality({d.category : d \in D}) <= BreakdownSize

(* What it shows of the month of one row, with limits that cut nothing off.*)
MonthAgrees(u, a, row, flow, day) ==
    LET m == row.month
        b == MonthsBack(m, 1)
        p == budget_period(m[1], m[2], day)
        q == budget_period(b[1], b[2], day)
        spent == Expenses(_base_filters(u, a, p[1], p[2]))
        n == Cardinality(docs)
        shown == get_financial_overview(u, a, p[1], p[2])
        compared == Query_month_comparison(u, a, m, n, day)
    IN  /\ shown.expenses = row.expenses /\ shown.income = row.income
        /\ shown.expenses = compared.current
        /\ \A r \in flow :
              r.month = b => compared.previous = r.expenses
        /\ AllListed(spent) /\ AllListed(Expenses(_base_filters(u, a, q[1], q[2]))) =>
              MapThenSumSet(LAMBDA i : compared.deltas[i].change, DOMAIN compared.deltas)
                 = compared.current - compared.previous
        /\ AllListed(spent) => Total(Query_top_spending_categories(u, a, m, n, day)) = shown.expenses
        /\ n <= 100 => Total(get_top_merchants(u, a, p[1], p[2], n)) = SumAbs(HasKeyword(spent))
        /\ n <= 500 => ToSet(Query_transactions(u, a, m, n, day)) = _base_filters(u, a, p[1], p[2])

(* The dashboard's answers about an account with transactions agree,       *)
(* whatever its start day, and on the one the gateway falls back on: a     *)
(* budget month's overview, its row in the cash flow, its two sides of a   *)
(* comparison, the top of its categories and of its merchants and the rows *)
(* by month are sums over the same documents, and each visible document is *)
(* in one month.  Five queries compute them, by two calendars:             *)
(* budget_period and Elasticsearch's shifted histogram.  Categories add up *)
(* as long as there is a bucket for each, and the merchants to what has a  *)
(* description the index keeps as a keyword.                               *)
ReportsAgree ==
    \A a \in {d.account : d \in docs} : \A day \in _get_budget_start_day(a) :
        LET u == account_owner(a)
            flow == Query_cashflow_by_month(u, a, 3, day) IN
        /\ MonthsAgree(u, a, day)
        /\ \A row \in flow : MonthAgrees(u, a, row, flow, day)

Rankings(ids) == {<<i>> : i \in ids} \cup {r \in ids \X ids : r[1] # r[2]}

(* The documents of an account that are not tombstones. *)
Visible(u, a) == {d \in docs : d.user = u /\ d.account = a /\ ~ d.deleted}

(* One transaction a page. *)
Page(u, a, i) == Query_search_transactions(u, a, "", 1, i - 1).items

(* Paging shows every visible transaction once and in order. *)
PagesCover(u, a) ==
    LET n == Cardinality(Visible(u, a)) IN
    /\ \A i \in 1 .. n : Len(Page(u, a, i)) = 1
    /\ Page(u, a, n + 1) = <<>>
    /\ {Page(u, a, i)[1] : i \in 1 .. n} = Visible(u, a)
    /\ \A i, j \in 1 .. n : i < j => NotAfter(Page(u, a, j)[1].date, Page(u, a, i)[1].date)

AllTime(a) == [account |-> a, from |-> Unset, to |-> Unset, category |-> Missing, limit |-> 50]

(* A fused search ranks what paging shows: everything either branch ranked *)
(* once, and what both ranked above what one did.                          *)
FusionCovers(u, a) ==
    LET found == {d.id : d \in HybridFilters(u, AllTime(a))} IN
    /\ found = {d.id : d \in Visible(u, a)}
    /\ \A l, k \in Rankings(found) :
          LET both == ToSet(l) \cap ToSet(k)
              fused == post_hybrid_search(u, AllTime(a), <<l, k>>)
          IN  /\ Len(fused) = Cardinality(ToSet(fused))
              /\ ToSet(fused) = ToSet(l) \cup ToSet(k)
              /\ \A i, j \in DOMAIN fused : fused[i] \in both /\ fused[j] \notin both => i < j

(* Paging through an account's transactions shows every visible one once   *)
(* and in order, and nobody else's; a fused search shows everything either *)
(* branch found once, and what both found above what one found.            *)
SearchesCover ==
    \A u \in Registered :
        \A a \in {get_account_id_from_headers(u, h) : h \in AccountIds \cup {Missing}} \ {Missing} :
            PagesCover(u, a) /\ FusionCovers(u, a)

=============================================================================
