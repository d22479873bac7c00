------------------------- MODULE BudgetNoticeProofs -------------------------
(***************************************************************************)
(* Proofs about MonthClose and about Notification: what the end of a month *)
(* announces and moves, and what users are told of it and of the rest; for *)
(* any number of months, categories, budgets and goals, any thresholds,    *)
(* closing day and rows to start with, any events, deliveries and feeds.   *)
(***************************************************************************)
EXTENDS MonthClose, Notification, Sums, FiniteSetTheorems, TLAPS

-----------------------------------------------------------------------------
(* Sums of the model *)

(* The lines of a budget add up to an amount. *)
LEMMA LinesSum ==
  ASSUME NEW lines \in Lines
  PROVE  total_budget(lines) \in Nat
<1>1. PICK S \in SUBSET Categories : lines \in [S -> Amounts] BY DEF Lines
<1>2. IsFiniteSet(S) BY BudgetAssumption, FS_Subset
<1>3. DOMAIN lines = S /\ \A c \in S : lines[c] \in Nat BY <1>1, BudgetAssumption
<1>4. total_budget(lines) = SumOver(lines, S) BY <1>3, SumIs DEF total_budget
<1> QED BY <1>2, <1>3, <1>4, SumNat

(* The days and categories whose expenses are a budget month's, *)
SpendDays(p, start) ==
    {x \in SpendOn : x[1] \in budget_period(p, start) /\ x[2] \in Categories \cup {Uncategorised}}

(* add up, when the expenses are f, *)
Total(f, p, start) == SumOver(f, SpendDays(p, start))

(* to an amount, *)
LEMMA TotalNat ==
  ASSUME NEW f \in [SpendOn -> Nat], NEW p, NEW start
  PROVE  Total(f, p, start) \in Nat
<1>1. SpendDays(p, start) \subseteq SpendOn /\ IsFiniteSet(SpendDays(p, start))
  BY BudgetAssumption, FS_Subset DEF SpendDays
<1>2. \A x \in SpendDays(p, start) : f[x] \in Nat BY <1>1
<1> QED BY <1>1, <1>2, SumNat DEF Total

(* which is what analytics reports, *)
LEMMA ExpensesSum ==
  ASSUME NEW p, NEW start, spend \in [SpendOn -> Nat]
  PROVE  /\ get_total_expenses(p, start) = Total(spend, p, start)
         /\ get_total_expenses(p, start) \in Nat
<1>1. get_total_expenses(p, start) = Total(spend, p, start)
  BY SumIs DEF get_total_expenses, SpentIn, SpendDays, Total
<1> QED BY <1>1, TotalNat

(* and which an expense that arrives never makes less. *)
LEMMA TotalGrows ==
  ASSUME NEW f \in [SpendOn -> Nat], NEW g \in [SpendOn -> Nat], \A x \in SpendOn : f[x] <= g[x],
         NEW p, NEW start
  PROVE  Total(f, p, start) <= Total(g, p, start)
<1> DEFINE S == SpendDays(p, start)
           more == [x \in S |-> g[x] - f[x]]
<1>1. S \subseteq SpendOn /\ IsFiniteSet(S) BY BudgetAssumption, FS_Subset DEF SpendDays
<1>2. \A x \in S : f[x] \in Nat /\ g[x] \in Nat /\ more[x] \in Nat /\ more[x] = g[x] - f[x] BY <1>1
<1> HIDE DEF S, more
<1>3. SumOver(more, S) = SumOver(g, S) - SumOver(f, S) BY <1>1, <1>2, SumMinus
<1>4. SumOver(more, S) \in Nat BY <1>1, <1>2, SumNat
<1>5. SumOver(g, S) \in Nat /\ SumOver(f, S) \in Nat BY <1>1, <1>2, SumNat
<1>6. SumOver(f, S) <= SumOver(g, S) BY <1>3, <1>4, <1>5
<1> QED BY <1>6 DEF Total, S

-----------------------------------------------------------------------------
(* budget-service *)

SpendCall == [at : {"spend"}, id : BudgetIds, period : Periods, start : StartDays,
              budgeted : Nat, known : Nat]

CommitCall == [at : {"commit"}, id : BudgetIds, period : Periods, start : StartDays,
               budgeted : Nat, known : Nat, spent : Nat]

BudgetTypes ==
    /\ budgets \in [BudgetIds -> MonthlyBudgetRow \cup {Unused}]
    /\ spend \in [SpendOn -> Nat]
    /\ closing \in [Closers -> {Idle} \cup SpendCall \cup CommitCall]

(* Every announced close is of a row that is closed, or deleted since then,
   and every closed row has been announced, once. *)
Announced ==
    /\ \A e \in Closed : /\ e.id \in BudgetIds /\ e.surplus \in Nat
                         /\ budgets[e.id].state \in {"closed", "deleted"}
    /\ \A e, f \in Closed : e.id = f.id => e = f
    /\ \A b \in BudgetIds : budgets[b].state = "closed" => \E e \in Closed : e.id = b

(* The unique constraint on account and month. *)
OneBudgetAMonth ==
    \A b, c \in BudgetIds : Live(b) /\ Live(c) /\ budgets[b].period = budgets[c].period => b = c

BudgetInv == BudgetTypes /\ Announced /\ OneBudgetAMonth

(* A row in use, and one that is not. *)
LEMMA RowFields ==
  ASSUME NEW r \in MonthlyBudgetRow
  PROVE  r.state \in {"open", "closed", "deleted"} /\ r.period \in Periods /\ r.lines \in Lines
BY DEF MonthlyBudgetRow

LEMMA UsedRow ==
  ASSUME BudgetTypes, NEW b \in BudgetIds, budgets[b].state \in {"open", "closed", "deleted"}
  PROVE  budgets[b] \in MonthlyBudgetRow
<1>1. Unused.state = "unused" BY DEF Unused
<1> QED BY <1>1 DEF BudgetTypes

(* Events of other types leave the announcements alone. *)
LEMMA OtherEvents ==
  ASSUME NEW X, bus' = bus \cup X, \A x \in X : x.type # "budget.month_closed"
  PROVE  Closed' = Closed
BY DEF Closed

LEMMA BudgetInitInv == PlatformInit /\ BudgetInit => BudgetInv
<1> SUFFICES ASSUME PlatformInit, BudgetInit PROVE BudgetInv OBVIOUS
<1> USE StoredAssumption
<1>1. \A b \in BudgetIds : \/ b \in DOMAIN Stored /\ budgets[b] = Stored[b]
                          \/ budgets[b] = Unused
  BY DEF BudgetInit
<1>2. Unused.state = "unused" BY DEF Unused
<1>3. \A b \in BudgetIds : budgets[b] \in MonthlyBudgetRow \cup {Unused}
                          /\ budgets[b].state \in {"open", "unused"}
  BY <1>1, <1>2
<1>4. Closed = {} BY DEF Closed, PlatformInit
<1>5. BudgetTypes BY <1>3 DEF BudgetTypes, BudgetInit
<1>6. OneBudgetAMonth BY <1>1, <1>2 DEF OneBudgetAMonth, Live
<1>7. Announced BY <1>3, <1>4 DEF Announced
<1> QED BY <1>5, <1>6, <1>7 DEF BudgetInv

(* A step that leaves budgets, expenses, calls and announcements alone. *)
LEMMA BudgetsUntouched ==
  ASSUME BudgetInv, UNCHANGED <<budgets, spend, closing>>, Closed' = Closed
  PROVE  BudgetInv'
BY DEF BudgetInv, BudgetTypes, Announced, OneBudgetAMonth, Live

(* A new budget for a month that has none. *)
LEMMA InsertInv ==
  ASSUME BudgetInv, NEW p \in Periods, NEW lines \in Lines,
         get_by_account_and_period(p) = {}, InsertBudget(p, lines),
         UNCHANGED <<bus, spend, closing>>
  PROVE  BudgetInv'
<1> DEFINE q == [state |-> "open", period |-> p, lines |-> lines]
<1>1. PICK b \in BudgetIds : budgets[b] = Unused /\ budgets' = [budgets EXCEPT ![b] = q]
  BY DEF InsertBudget
<1>2. q \in MonthlyBudgetRow /\ q.state = "open" /\ q.period = p BY DEF MonthlyBudgetRow
<1> HIDE DEF q
<1>3. BudgetTypes' BY <1>1, <1>2 DEF BudgetInv, BudgetTypes
<1>4. budgets'[b] = q /\ \A c \in BudgetIds : c # b => budgets'[c] = budgets[c]
  BY <1>1 DEF BudgetInv, BudgetTypes
<1>5. Closed' = Closed BY DEF Closed
<1>6. budgets[b].state = "unused" BY <1>1 DEF Unused
<1>7. Announced' BY <1>2, <1>4, <1>5, <1>6 DEF BudgetInv, Announced
<1>8. \A c \in BudgetIds : Live(c) => budgets[c].period # p
  BY DEF get_by_account_and_period
<1>9. OneBudgetAMonth' BY <1>2, <1>4, <1>8 DEF BudgetInv, OneBudgetAMonth, Live
<1> QED BY <1>3, <1>7, <1>9 DEF BudgetInv

(* A live row is edited, closed or deleted. *)
LEMMA RewriteInv ==
  ASSUME BudgetInv, NEW b \in BudgetIds, NEW q \in MonthlyBudgetRow,
         budgets[b] \in MonthlyBudgetRow, q.period = budgets[b].period,
         \/ q.state = budgets[b].state
         \/ q.state = "deleted"
         \/ q.state = "closed" /\ budgets[b].state = "open" /\ \E e \in Closed' : e.id = b,
         budgets' = [budgets EXCEPT ![b] = q], spend' = spend,
         q.state = "deleted" => budgets[b].state \in {"open", "closed", "deleted"},
         closing' \in [Closers -> {Idle} \cup SpendCall \cup CommitCall],
         Closed \subseteq Closed', \A e \in Closed' \ Closed : e.id = b /\ e.surplus \in Nat,
         \A e, f \in Closed' \ Closed : e = f,
         Closed' # Closed => q.state = "closed" /\ budgets[b].state = "open"
  PROVE  BudgetInv'
<1>1. BudgetTypes' BY DEF BudgetInv, BudgetTypes
<1>2. budgets'[b] = q /\ \A c \in BudgetIds : c # b => budgets'[c] = budgets[c]
  BY DEF BudgetInv, BudgetTypes
<1>3. q.state \in {"open", "closed", "deleted"} BY RowFields
<1>a. Announced BY DEF BudgetInv
<1>4. Announced'
  <2>1. ASSUME NEW e \in Closed'
        PROVE  /\ e.id \in BudgetIds /\ e.surplus \in Nat
               /\ budgets'[e.id].state \in {"closed", "deleted"}
    <3>1. CASE e \in Closed
      <4>1. /\ e.id \in BudgetIds /\ e.surplus \in Nat
            /\ budgets[e.id].state \in {"closed", "deleted"}
        BY <3>1, <1>a DEF Announced
      <4>2. e.id = b => q.state \in {"closed", "deleted"} BY <4>1
      <4> QED BY <1>2, <4>1, <4>2
    <3>2. CASE e \notin Closed
      <4>1. e.id = b /\ e.surplus \in Nat /\ q.state = "closed" BY <2>1, <3>2
      <4> QED BY <1>2, <4>1
    <3> QED BY <3>1, <3>2
  <2>2. ASSUME NEW e \in Closed', NEW f \in Closed', e.id = f.id PROVE e = f
    <3>1. CASE e \in Closed /\ f \in Closed BY <2>2, <3>1, <1>a DEF Announced
    <3>2. CASE e \notin Closed /\ f \notin Closed BY <2>2, <3>2
    <3>3. \A x \in Closed : x.id = b => budgets[b].state # "open" BY <1>a DEF Announced
    <3> QED BY <2>2, <3>1, <3>2, <3>3
  <2>3. ASSUME NEW c \in BudgetIds, budgets'[c].state = "closed"
        PROVE  \E e \in Closed' : e.id = c
    <3>1. CASE budgets[c].state = "closed" BY <3>1, <1>a DEF Announced
    <3>2. CASE budgets[c].state # "closed"
      <4>1. c = b BY <3>2, <1>2, <2>3
      <4> QED BY <3>2, <4>1, <1>2, <2>3
    <3> QED BY <3>1, <3>2
  <2> HIDE DEF Closed
  <2> QED BY <2>1, <2>2, <2>3 DEF Announced
<1>5. OneBudgetAMonth'
  <2>1. Live(b)' => Live(b) BY <1>2 DEF Live
  <2> QED BY <1>2, <2>1 DEF BudgetInv, OneBudgetAMonth, Live
<1> QED BY <1>1, <1>4, <1>5 DEF BudgetInv

(* The calls of close_month stay calls. *)
LEMMA CallsTyped ==
  ASSUME BudgetTypes, NEW a \in Closers, NEW call \in {Idle} \cup SpendCall \cup CommitCall,
         closing' = [closing EXCEPT ![a] = call]
  PROVE  closing' \in [Closers -> {Idle} \cup SpendCall \cup CommitCall]
BY DEF BudgetTypes

LEMMA CallStates ==
  ASSUME BudgetTypes, NEW a \in Closers
  PROVE  /\ closing[a].at = "spend" => closing[a] \in SpendCall
         /\ closing[a].at = "commit" => closing[a] \in CommitCall
<1>1. closing[a] \in {Idle} \cup SpendCall \cup CommitCall BY DEF BudgetTypes
<1>2. Idle.at = "idle" BY DEF Idle
<1>3. \A c \in SpendCall : c.at = "spend" BY DEF SpendCall
<1>4. \A c \in CommitCall : c.at = "commit" BY DEF CommitCall
<1> QED BY <1>1, <1>2, <1>3, <1>4

(* A step of a call that reads. *)
LEMMA CallMoves ==
  ASSUME BudgetInv, NEW a \in Closers, NEW call \in {Idle} \cup SpendCall \cup CommitCall,
         closing' = [closing EXCEPT ![a] = call], UNCHANGED <<bus, budgets, spend>>
  PROVE  BudgetInv'
<1>1. closing' \in [Closers -> {Idle} \cup SpendCall \cup CommitCall]
  BY CallsTyped DEF BudgetInv
<1>2. Closed' = Closed BY DEF Closed
<1> QED BY <1>1, <1>2 DEF BudgetInv, BudgetTypes, Announced, OneBudgetAMonth, Live

(* A call that has read the budget. *)
LEMMA CloseReadsCall ==
  ASSUME BudgetTypes, NEW a \in Closers, NEW p, NEW start \in StartDays, CloseReads(a, p, start)
  PROVE  \E call \in SpendCall :
            /\ closing' = [closing EXCEPT ![a] = call]
            /\ call.period = p /\ call.start = start
            /\ call.known = get_total_expenses(p, start)
<1> DEFINE Call(b) == [at |-> "spend", id |-> b, period |-> p, start |-> start,
                       budgeted |-> total_budget(budgets[b].lines),
                       known |-> get_total_expenses(p, start)]
<1>1. PICK b \in get_by_account_and_period(p) : closing' = [closing EXCEPT ![a] = Call(b)]
  BY DEF CloseReads
<1>2. b \in BudgetIds /\ Live(b) /\ budgets[b].period = p BY DEF get_by_account_and_period
<1>3. budgets[b] \in MonthlyBudgetRow BY <1>2, UsedRow DEF Live
<1>4. p \in Periods /\ budgets[b].lines \in Lines BY <1>2, <1>3, RowFields
<1>5. total_budget(budgets[b].lines) \in Nat BY <1>4, LinesSum
<1>6. get_total_expenses(p, start) \in Nat BY ExpensesSum DEF BudgetTypes
<1> DEFINE call == Call(b)
<1>7. call \in SpendCall BY <1>2, <1>4, <1>5, <1>6 DEF SpendCall
<1>8. call.period = p /\ call.start = start /\ call.known = get_total_expenses(p, start) OBVIOUS
<1>9. closing' = [closing EXCEPT ![a] = call] BY <1>1
<1> HIDE DEF call, Call
<1> QED BY <1>7, <1>8, <1>9

LEMMA CloseReadsInv ==
  ASSUME BudgetInv, NEW a \in Closers, NEW p, NEW start \in StartDays, CloseReads(a, p, start),
         UNCHANGED <<bus, budgets, spend>>
  PROVE  BudgetInv'
<1>1. PICK call \in SpendCall : closing' = [closing EXCEPT ![a] = call]
  BY CloseReadsCall DEF BudgetInv
<1> QED BY <1>1, CallMoves

(* A call that has been told what was spent. *)
LEMMA CloseFetchesCall ==
  ASSUME BudgetTypes, NEW a \in Closers, closing[a].at = "spend"
  PROVE  Fetched(closing[a], get_total_expenses(closing[a].period, closing[a].start)) \in CommitCall
<1> DEFINE total == get_total_expenses(closing[a].period, closing[a].start)
<1>1. closing[a] \in SpendCall BY CallStates
<1>2. total \in Nat BY ExpensesSum DEF BudgetTypes
<1> HIDE DEF total
<1>3. Fetched(closing[a], total) \in CommitCall BY <1>1, <1>2 DEF Fetched, SpendCall, CommitCall
<1> QED BY <1>3 DEF total

LEMMA SurplusNat == ASSUME NEW x \in Int PROVE Max({0, x}) \in Nat
BY DEF Max

(* mark_closed and the outbox row are one commit. *)
LEMMA CloseCommitsInv ==
  ASSUME BudgetInv, NEW a \in Closers, CloseCommits(a)
  PROVE  BudgetInv'
<1> DEFINE call == closing[a]
           e == MonthClosedEvent(call)
           b == call.id
           q == [budgets[b] EXCEPT !.state = "closed"]
<1>1. call \in CommitCall BY CallStates DEF BudgetInv, CloseCommits
<1>2. b \in BudgetIds /\ call.budgeted \in Nat /\ call.spent \in Nat BY <1>1 DEF CommitCall
<1>3. Idle \in {Idle} \cup SpendCall \cup CommitCall OBVIOUS
<1>4. closing' = [closing EXCEPT ![a] = Idle] /\ spend' = spend BY DEF CloseCommits, CallEnds
<1>5. CASE budgets[b].state = "open"
  <2>1. budgets' = [budgets EXCEPT ![b] = q] /\ bus' = bus \cup {e}
    BY <1>5 DEF CloseCommits, mark_closed, Emit
  <2>2. e.type = "budget.month_closed" /\ e.id = b /\ e.surplus \in Nat
    BY <1>2, SurplusNat DEF MonthClosedEvent
  <2>3. budgets[b] \in MonthlyBudgetRow BY <1>2, <1>5, UsedRow DEF BudgetInv
  <2>4. q \in MonthlyBudgetRow /\ q.period = budgets[b].period /\ q.state = "closed"
    BY <2>3 DEF MonthlyBudgetRow
  <2> HIDE DEF e, q
  <2>5. Closed' = Closed \cup {e} BY <2>1, <2>2 DEF Closed
  <2>6. closing' \in [Closers -> {Idle} \cup SpendCall \cup CommitCall]
    BY <1>3, <1>4, CallsTyped DEF BudgetInv
  <2> HIDE DEF b, call, Closed
  <2> QED BY <1>2, <1>4, <1>5, <2>1, <2>2, <2>3, <2>4, <2>5, <2>6, RewriteInv
<1>6. CASE budgets[b].state # "open"
  <2>1. UNCHANGED <<bus, budgets>> BY <1>6 DEF CloseCommits
  <2> QED BY <1>3, <1>4, <2>1, CallMoves
<1> QED BY <1>5, <1>6

(* An edit of a budget's row, by which nothing is announced. *)
LEMMA EditInv ==
  ASSUME BudgetInv, NEW b \in BudgetIds, Live(b), NEW q \in MonthlyBudgetRow,
         q.period = budgets[b].period, q.state \in {budgets[b].state, "deleted"},
         budgets' = [budgets EXCEPT ![b] = q], UNCHANGED <<bus, spend, closing>>
  PROVE  BudgetInv'
<1>1. budgets[b] \in MonthlyBudgetRow /\ budgets[b].state \in {"open", "closed", "deleted"}
  BY UsedRow DEF BudgetInv, Live
<1>2. Closed' = Closed BY DEF Closed
<1>3. closing' \in [Closers -> {Idle} \cup SpendCall \cup CommitCall] BY DEF BudgetInv, BudgetTypes
<1> HIDE DEF Closed
<1> QED BY <1>1, <1>2, <1>3, RewriteInv

LEMMA EditsInv ==
  ASSUME BudgetInv, EditEnds,
         \/ \E p \in Periods, lines \in Lines : create(p, lines)
         \/ \E b \in BudgetIds, lines \in Lines : update(b, lines)
         \/ \E b \in BudgetIds : delete(b)
         \/ \E p, q \in Periods : copy_to_month(p, q)
  PROVE  BudgetInv'
<1>0. UNCHANGED <<bus, spend, closing>> BY DEF EditEnds
<1>1. ASSUME NEW p \in Periods, NEW lines \in Lines, create(p, lines) PROVE BudgetInv'
  BY <1>0, <1>1, InsertInv DEF create
<1>2. ASSUME NEW b \in BudgetIds, NEW lines \in Lines, update(b, lines) PROVE BudgetInv'
  <2> DEFINE q == [budgets[b] EXCEPT !.lines = lines]
  <2>1. Live(b) /\ budgets' = [budgets EXCEPT ![b] = q] BY <1>2 DEF update, replace_lines
  <2>2. budgets[b] \in MonthlyBudgetRow BY <2>1, UsedRow DEF BudgetInv, Live
  <2>3. q \in MonthlyBudgetRow /\ q.period = budgets[b].period /\ q.state = budgets[b].state
    BY <2>2 DEF MonthlyBudgetRow
  <2> HIDE DEF q
  <2> QED BY <1>0, <2>1, <2>3, EditInv
<1>3. ASSUME NEW b \in BudgetIds, delete(b) PROVE BudgetInv'
  <2> DEFINE q == [budgets[b] EXCEPT !.state = "deleted"]
  <2>1. Live(b) /\ budgets' = [budgets EXCEPT ![b] = q] BY <1>3 DEF delete, mark_deleted
  <2>2. budgets[b] \in MonthlyBudgetRow BY <2>1, UsedRow DEF BudgetInv, Live
  <2>3. q \in MonthlyBudgetRow /\ q.period = budgets[b].period /\ q.state = "deleted"
    BY <2>2 DEF MonthlyBudgetRow
  <2> HIDE DEF q
  <2> QED BY <1>0, <2>1, <2>3, EditInv
<1>4. ASSUME NEW p \in Periods, NEW t \in Periods, copy_to_month(p, t) PROVE BudgetInv'
  <2>1. PICK b \in get_by_account_and_period(p) :
          get_by_account_and_period(t) = {} /\ InsertBudget(t, budgets[b].lines)
    BY <1>4 DEF copy_to_month
  <2>2. b \in BudgetIds /\ Live(b) BY DEF get_by_account_and_period
  <2>3. budgets[b].lines \in Lines BY <2>2, UsedRow, RowFields DEF BudgetInv, Live
  <2> QED BY <1>0, <2>1, <2>3, InsertInv
<1> QED BY <1>1, <1>2, <1>3, <1>4

(* BudgetInv is inductive for budget-service, *)
LEMMA BudgetNextInv == BudgetInv /\ BudgetNext => BudgetInv'
<1> SUFFICES ASSUME BudgetInv, BudgetNext PROVE BudgetInv' OBVIOUS
<1>1. ASSUME UNCHANGED <<bus, budgets, spend, closing>> PROVE BudgetInv'
  <2>1. Closed' = Closed BY <1>1 DEF Closed
  <2> QED BY <1>1, <2>1, BudgetsUntouched
<1>2. CASE DayPasses BY <1>1, <1>2 DEF DayPasses
<1>3. CASE \E p \in Periods, lines \in Lines : create_monthly_budget(p, lines)
  BY <1>3, EditsInv DEF create_monthly_budget
<1>4. CASE \E b \in BudgetIds, lines \in Lines : update_monthly_budget(b, lines)
  BY <1>4, EditsInv DEF update_monthly_budget
<1>5. CASE \E b \in BudgetIds : delete_monthly_budget(b)
  BY <1>5, EditsInv DEF delete_monthly_budget
<1>6. CASE \E p, q \in Periods : copy_monthly_budget(p, q)
  BY <1>6, EditsInv DEF copy_monthly_budget
<1>7. CASE \E x \in SpendOn : Spend(x)
  <2>1. PICK x \in SpendOn : Spend(x) BY <1>7
  <2>2. spend' \in [SpendOn -> Nat] BY <2>1 DEF Spend, BudgetInv, BudgetTypes
  <2>3. UNCHANGED <<bus, budgets, closing>> BY <2>1 DEF Spend
  <2>4. Closed' = Closed BY <2>3 DEF Closed
  <2> QED BY <2>2, <2>3, <2>4 DEF BudgetInv, BudgetTypes, Announced, OneBudgetAMonth, Live
<1>8. CASE \E p \in Periods, start \in StartDays : CloseRequest(p, start)
  BY <1>8, CloseReadsInv DEF CloseRequest, Closers
<1>9. ASSUME NEW a \in Closers, CloseFetches(a) PROVE BudgetInv'
  <2> DEFINE new == Fetched(closing[a], get_total_expenses(closing[a].period, closing[a].start))
  <2>1. new \in CommitCall BY <1>9, CloseFetchesCall DEF CloseFetches, BudgetInv
  <2>2. closing' = [closing EXCEPT ![a] = new] /\ UNCHANGED <<bus, budgets, spend>>
    BY <1>9 DEF CloseFetches
  <2> HIDE DEF new
  <2> QED BY <2>1, <2>2, CallMoves
<1>10. ASSUME NEW a \in Closers, CloseUnavailable(a) PROVE BudgetInv'
  BY <1>10, CallMoves DEF CloseUnavailable, CallEnds
<1>11. ASSUME NEW a \in Closers, CloseCommits(a) PROVE BudgetInv'
  BY <1>11, CloseCommitsInv
<1>12. CASE SweepBegins BY <1>1, <1>12 DEF SweepBegins
<1>13. CASE SweepNext
  <2>1. "scheduler" \in Closers /\ UNCHANGED <<bus, budgets, spend>> BY <1>13 DEF SweepNext, Closers
  <2>2. CASE CallEnds("scheduler") BY <2>1, <2>2, CallMoves DEF CallEnds
  <2>3. CASE CloseReads("scheduler", Head(sweep), 1) BY <2>1, <2>3, CloseReadsInv, BudgetAssumption
  <2> QED BY <1>13, <2>2, <2>3 DEF SweepNext
<1>14. CASE SweepCrash BY <1>14, CallMoves DEF SweepCrash, Closers
<1>15. CASE AlertSweepBegins BY <1>1, <1>15 DEF AlertSweepBegins
<1>16. CASE AlertSweepNext
  <2>1. UNCHANGED <<budgets, spend, closing>> BY <1>16 DEF AlertSweepNext
  <2>2. Closed' = Closed
    <3>1. CASE bus' = bus BY <3>1 DEF Closed
    <3>2. ASSUME NEW row, evaluate_alerts(row)
          PROVE  Closed' = Closed
      <4> DEFINE X == {ThresholdEvent(row.period, y) : y \in
                   evaluate_line_crossings(row.lines, get_expenses_by_category(row.period, 1))}
      <4>1. bus' = bus \cup X BY <3>2 DEF evaluate_alerts, Emit
      <4>2. \A x \in X : x.type = "budget.line_threshold_crossed" BY DEF ThresholdEvent
      <4> HIDE DEF X
      <4>3. \A x \in X : x.type # "budget.month_closed" BY <4>2
      <4> QED BY <4>1, <4>3, OtherEvents
    <3> QED BY <1>16, <3>1, <3>2 DEF AlertSweepNext
  <2> QED BY <2>1, <2>2, BudgetsUntouched
<1> QED BY <1>2, <1>3, <1>4, <1>5, <1>6, <1>7, <1>8, <1>9, <1>10, <1>11, <1>12, <1>13, <1>14,
           <1>15, <1>16 DEF BudgetNext

(* and goal-service announces no close of a month. *)
LEMMA GoalsAnnounceNoClose == GoalNext => Closed' = Closed
<1> SUFFICES ASSUME GoalNext PROVE Closed' = Closed OBVIOUS
<1>1. ASSUME NEW x, x.type # "budget.month_closed", Emit({x}) PROVE Closed' = Closed
  <2> DEFINE X == {x}
  <2>1. bus' = bus \cup X /\ \A y \in X : y.type # "budget.month_closed" BY <1>1 DEF Emit
  <2> HIDE DEF X
  <2> QED BY <2>1, OtherEvents
<1>2. \A g, row : /\ GoalEvent("goal.created", g, row).type # "budget.month_closed"
                  /\ GoalEvent("goal.updated", g, row).type # "budget.month_closed"
                  /\ GoalEvent("goal.reached", g, row).type # "budget.month_closed"
                  /\ [type |-> "goal.deleted", goal |-> g].type # "budget.month_closed"
  BY DEF GoalEvent
<1>3. ASSUME NEW g, NEW t, NEW c, post_goal(g, t, c) PROVE Closed' = Closed
  BY <1>1, <1>2, <1>3 DEF post_goal, create_goal
<1>4. ASSUME NEW g, NEW t, NEW c, put_goal(g, t, c) PROVE Closed' = Closed
  BY <1>1, <1>2, <1>4 DEF put_goal, update_goal
<1>5. ASSUME NEW g, remove_goal(g) \/ put_default_goal(g) \/ remove_default_goal(g)
      PROVE  Closed' = Closed
  BY <1>1, <1>2, <1>5 DEF remove_goal, delete_goal, put_default_goal, set_default_goal,
                          remove_default_goal, clear_default_goal
<1>6. ASSUME NEW w, SurplusArrives(w) \/ SurplusKept(w) \/ SurplusLost(w) PROVE Closed' = Closed
  BY <1>6 DEF SurplusArrives, SurplusKept, SurplusLost, Closed
<1>7. ASSUME NEW w, SurplusAllocated(w) PROVE Closed' = Closed
  <2>1. CASE bus' = bus BY <2>1 DEF Closed
  <2>2. CASE Emit(GoalReachedEvents(handling[w]))
    <3>1. \A x \in GoalReachedEvents(handling[w]) : x.type # "budget.month_closed"
      BY <1>2 DEF GoalReachedEvents
    <3> QED BY <2>2, <3>1, OtherEvents DEF Emit
  <2> QED BY <1>7, <2>1, <2>2 DEF SurplusAllocated
<1> QED BY <1>3, <1>4, <1>5, <1>6, <1>7 DEF GoalNext

(* The invariant of budget-service: every row, expense and call in progress
   has its type, a row is closed or deleted exactly if a close of it may
   have been announced, and a month has one live budget. *)
THEOREM BudgetInvariance == Spec => []BudgetInv
<1>1. Init => BudgetInv BY BudgetInitInv DEF Init
<1>2. BudgetInv /\ [Next]_vars => BudgetInv'
  <2> SUFFICES ASSUME BudgetInv, [Next]_vars PROVE BudgetInv' OBVIOUS
  <2>1. CASE BudgetNext BY <2>1, BudgetNextInv
  <2>2. CASE GoalNext /\ UNCHANGED budgetVars
    BY <2>2, GoalsAnnounceNoClose, BudgetsUntouched DEF budgetVars
  <2>3. CASE UNCHANGED vars
    <3>1. UNCHANGED <<bus, budgets, spend, closing>> BY <2>3 DEF vars, platform, budgetVars
    <3>2. Closed' = Closed BY <3>1 DEF Closed
    <3> QED BY <3>1, <3>2, BudgetsUntouched
  <2> QED BY <2>1, <2>2, <2>3 DEF Next
<1> QED BY <1>1, <1>2, PTL DEF Spec

(* A budget is closed exactly when its close was announced, and a close is
   announced once, however close_month by the button and by the scheduler,
   edits, deletions, crashes and outages interleave. *)
THEOREM CloseAnnouncedOnce == Spec => []ClosedIffAnnounced
<1>1. BudgetInv => ClosedIffAnnounced
  BY DEF BudgetInv, Announced, ClosedIffAnnounced, Live
<1> QED BY <1>1, BudgetInvariance, PTL

(* What a call of close_month will announce lies between what was spent when
   it began and what has been spent, f, by now. *)
CallHonest(call, f) ==
    /\ call.at = "spend" => call.known <= Total(f, call.period, call.start)
    /\ call.at = "commit" =>
          call.known <= call.spent /\ call.spent <= Total(f, call.period, call.start)

CallsHonest == \A a \in Closers : CallHonest(closing[a], spend)

(* A call that does not move stays honest when expenses arrive; *)
LEMMA CallStays ==
  ASSUME NEW f \in [SpendOn -> Nat], NEW g \in [SpendOn -> Nat], \A x \in SpendOn : f[x] <= g[x],
         NEW call \in {Idle} \cup SpendCall \cup CommitCall, CallHonest(call, f)
  PROVE  CallHonest(call, g)
<1> DEFINE then == Total(f, call.period, call.start)
           now == Total(g, call.period, call.start)
<1>1. then <= now /\ then \in Nat /\ now \in Nat BY TotalGrows, TotalNat
<1>2. CallHonest(call, f) <=> /\ call.at = "spend" => call.known <= then
                              /\ call.at = "commit" => call.known <= call.spent /\ call.spent <= then
  BY DEF CallHonest
<1>3. CallHonest(call, g) <=> /\ call.at = "spend" => call.known <= now
                              /\ call.at = "commit" => call.known <= call.spent /\ call.spent <= now
  BY DEF CallHonest
<1> HIDE DEF then, now
<1>4. CASE call \in SpendCall BY <1>1, <1>2, <1>3, <1>4 DEF SpendCall
<1>5. CASE call \in CommitCall BY <1>1, <1>2, <1>3, <1>5 DEF CommitCall
<1>6. CASE call = Idle BY <1>3, <1>6 DEF Idle
<1> QED BY <1>4, <1>5, <1>6

LEMMA CallsStay ==
  ASSUME BudgetTypes, CallsHonest, closing' = closing, spend' \in [SpendOn -> Nat],
         \A x \in SpendOn : spend[x] <= spend'[x]
  PROVE  CallsHonest'
<1> SUFFICES ASSUME NEW a \in Closers PROVE CallHonest(closing[a], spend') BY DEF CallsHonest
<1>1. closing[a] \in {Idle} \cup SpendCall \cup CommitCall /\ CallHonest(closing[a], spend)
  BY DEF BudgetTypes, CallsHonest
<1>2. spend \in [SpendOn -> Nat] BY DEF BudgetTypes
<1> QED BY <1>1, <1>2, CallStays

(* a call that moves has to be honest. *)
LEMMA OneCallMoves ==
  ASSUME BudgetTypes, CallsHonest, spend' = spend, NEW a \in Closers, NEW call,
         CallHonest(call, spend), closing' = [closing EXCEPT ![a] = call]
  PROVE  CallsHonest'
<1>1. \A c \in Closers : closing'[c] = IF c = a THEN call ELSE closing[c] BY DEF BudgetTypes
<1> QED BY <1>1 DEF CallsHonest

LEMMA HonestInit == BudgetInit => CallsHonest
BY DEF BudgetInit, CallsHonest, CallHonest, Idle

LEMMA HonestNext == BudgetInv /\ CallsHonest /\ BudgetNext => CallsHonest'
<1> SUFFICES ASSUME BudgetInv, CallsHonest, BudgetNext PROVE CallsHonest' OBVIOUS
<1>t. BudgetTypes BY DEF BudgetInv
<1>1. ASSUME spend' = spend, closing' = closing PROVE CallsHonest'
  <2>1. spend \in [SpendOn -> Nat] BY <1>t DEF BudgetTypes
  <2>2. \A x \in SpendOn : spend[x] <= spend'[x] BY <2>1, <1>1
  <2> QED BY <1>t, <1>1, <2>1, <2>2, CallsStay
<1>2. CallHonest(Idle, spend) BY DEF CallHonest, Idle
<1>3. ASSUME spend' = spend, NEW a \in Closers, closing' = [closing EXCEPT ![a] = Idle]
      PROVE  CallsHonest'
  BY <1>t, <1>2, <1>3, OneCallMoves
<1>4. ASSUME spend' = spend, NEW a \in Closers, NEW p, NEW start \in StartDays,
             CloseReads(a, p, start)
      PROVE  CallsHonest'
  <2>1. PICK call \in SpendCall :
          /\ closing' = [closing EXCEPT ![a] = call]
          /\ call.period = p /\ call.start = start
          /\ call.known = get_total_expenses(p, start)
    BY <1>t, <1>4, CloseReadsCall
  <2>2. /\ get_total_expenses(p, start) = Total(spend, p, start)
        /\ get_total_expenses(p, start) \in Nat
    BY <1>t, ExpensesSum DEF BudgetTypes
  <2>3. CallHonest(call, spend) BY <2>1, <2>2 DEF CallHonest, SpendCall
  <2> QED BY <1>t, <1>4, <2>1, <2>3, OneCallMoves
<1>5. CASE \E x \in SpendOn : Spend(x)
  <2>1. PICK x \in SpendOn : Spend(x) BY <1>5
  <2>2. spend \in [SpendOn -> Nat] BY <1>t DEF BudgetTypes
  <2>3. spend' \in [SpendOn -> Nat] /\ \A y \in SpendOn : spend[y] <= spend'[y]
    BY <2>1, <2>2 DEF Spend
  <2>4. closing' = closing BY <2>1 DEF Spend
  <2> QED BY <1>t, <2>3, <2>4, CallsStay
<1>6. CASE \E p \in Periods, start \in StartDays : CloseRequest(p, start)
  BY <1>4, <1>6 DEF CloseRequest, Closers
<1>7. ASSUME NEW a \in Closers, CloseFetches(a) PROVE CallsHonest'
  <2> DEFINE total == get_total_expenses(closing[a].period, closing[a].start)
  <2>1. closing[a].at = "spend" /\ closing' = [closing EXCEPT ![a] = Fetched(@, total)] /\ spend' = spend
    BY <1>7 DEF CloseFetches
  <2>2. total = Total(spend, closing[a].period, closing[a].start) /\ total \in Nat
    BY <1>t, ExpensesSum DEF BudgetTypes
  <2>3. closing[a].known <= total BY <2>1, <2>2 DEF CallsHonest, CallHonest
  <2>4. CallHonest(Fetched(closing[a], total), spend) BY <2>2, <2>3 DEF CallHonest, Fetched
  <2>5. closing' = [closing EXCEPT ![a] = Fetched(closing[a], total)] BY <2>1
  <2> HIDE DEF total
  <2> QED BY <1>t, <2>1, <2>4, <2>5, OneCallMoves
<1>8. ASSUME NEW a \in Closers, CloseUnavailable(a) \/ CloseCommits(a) PROVE CallsHonest'
  BY <1>3, <1>8 DEF CloseUnavailable, CloseCommits, CallEnds
<1>9. CASE SweepNext
  BY <1>3, <1>4, <1>9, BudgetAssumption DEF SweepNext, CallEnds, Closers
<1>10. CASE SweepCrash BY <1>3, <1>10 DEF SweepCrash, Closers
<1>11. CASE DayPasses \/ SweepBegins \/ AlertSweepBegins \/ AlertSweepNext
  BY <1>1, <1>11 DEF DayPasses, SweepBegins, AlertSweepBegins, AlertSweepNext
<1>12. ASSUME NEW p, NEW q, \/ create_monthly_budget(p, q) \/ update_monthly_budget(p, q)
                            \/ delete_monthly_budget(p) \/ copy_monthly_budget(p, q)
       PROVE  CallsHonest'
  BY <1>1, <1>12 DEF create_monthly_budget, update_monthly_budget, delete_monthly_budget,
                     copy_monthly_budget, EditEnds
<1> QED BY <1>5, <1>6, <1>7, <1>8, <1>9, <1>10, <1>11, <1>12 DEF BudgetNext

(* Only a commit of a call that has fetched the expenses announces a close. *)
LEMMA ClosesAreCommits ==
  ASSUME BudgetInv, BudgetNext, NEW e \in Closed' \ Closed
  PROVE  \E a \in Closers : closing[a].at = "commit" /\ e = MonthClosedEvent(closing[a])
<1>1. ASSUME NEW X, bus' = bus \cup X, \A x \in X : x.type # "budget.month_closed" PROVE FALSE
  BY <1>1, OtherEvents
<1>2. bus' # bus BY DEF Closed
<1>3. ASSUME NEW row, evaluate_alerts(row) PROVE FALSE
  <2> DEFINE X == {ThresholdEvent(row.period, y) : y \in
               evaluate_line_crossings(row.lines, get_expenses_by_category(row.period, 1))}
  <2>1. bus' = bus \cup X BY <1>3 DEF evaluate_alerts, Emit
  <2>2. \A x \in X : x.type = "budget.line_threshold_crossed" BY DEF ThresholdEvent
  <2> HIDE DEF X
  <2>3. \A x \in X : x.type # "budget.month_closed" BY <2>2
  <2> QED BY <1>1, <2>1, <2>3
<1>4. ~ AlertSweepNext BY <1>2, <1>3 DEF AlertSweepNext
<1>5. ~ (DayPasses \/ SweepBegins \/ SweepNext \/ SweepCrash \/ AlertSweepBegins)
  BY <1>2 DEF DayPasses, SweepBegins, SweepNext, SweepCrash, AlertSweepBegins
<1>6. \A p, q : ~ (\/ create_monthly_budget(p, q) \/ update_monthly_budget(p, q)
                   \/ delete_monthly_budget(p) \/ copy_monthly_budget(p, q) \/ CloseRequest(p, q))
  BY <1>2 DEF create_monthly_budget, update_monthly_budget, delete_monthly_budget,
              copy_monthly_budget, CloseRequest, EditEnds
<1>7. \A a : ~ (CloseFetches(a) \/ CloseUnavailable(a)) /\ \A x : ~ Spend(x)
  BY <1>2 DEF CloseFetches, CloseUnavailable, Spend
<1>8. PICK a \in Closers : CloseCommits(a)
  BY <1>4, <1>5, <1>6, <1>7 DEF BudgetNext
<1>9. closing[a].at = "commit" /\ bus' = bus \cup {MonthClosedEvent(closing[a])}
  BY <1>2, <1>8 DEF CloseCommits, Emit
<1> QED BY <1>9 DEF Closed

(* No close credits a fictitious surplus: however expenses, outages, edits
   and the two callers of close_month interleave, the surplus it announces
   is what the budget it read leaves of the period's expenses, as analytics
   had them at some moment of the call. *)
THEOREM NoFictitiousSurplus == Spec => SurplusWasLeft
<1>1. Init => BudgetInv /\ CallsHonest BY BudgetInitInv, HonestInit DEF Init
<1>2. BudgetInv /\ CallsHonest /\ [Next]_vars => CallsHonest'
  <2> SUFFICES ASSUME BudgetInv, CallsHonest, [Next]_vars PROVE CallsHonest' OBVIOUS
  <2>1. CASE BudgetNext BY <2>1, HonestNext
  <2>2. CASE UNCHANGED budgetVars
    <3>1. BudgetTypes /\ spend' = spend /\ closing' = closing BY <2>2 DEF budgetVars, BudgetInv
    <3>2. spend \in [SpendOn -> Nat] BY <3>1 DEF BudgetTypes
    <3>3. \A x \in SpendOn : spend[x] <= spend'[x] BY <3>1, <3>2
    <3> QED BY <3>1, <3>2, <3>3, CallsStay
  <2> QED BY <2>1, <2>2 DEF Next, vars
<1> DEFINE Step ==
      \A e \in Closed' \ Closed : \E a \in Closers :
          LET call == closing[a] IN
          /\ call.at = "commit" /\ call.id = e.id /\ call.period = e.period
          /\ \E spent \in call.known .. get_total_expenses(call.period, call.start) :
                e.surplus = Max({0, call.budgeted - spent})
<1>3. BudgetInv /\ CallsHonest /\ Next => Step
  <2> SUFFICES ASSUME BudgetInv, CallsHonest, Next, NEW e \in Closed' \ Closed
               PROVE  \E a \in Closers :
                        LET call == closing[a] IN
                        /\ call.at = "commit" /\ call.id = e.id /\ call.period = e.period
                        /\ \E spent \in call.known .. get_total_expenses(call.period, call.start) :
                              e.surplus = Max({0, call.budgeted - spent})
    OBVIOUS
  <2>1. BudgetNext BY GoalsAnnounceNoClose DEF Next
  <2>2. PICK a \in Closers : closing[a].at = "commit" /\ e = MonthClosedEvent(closing[a])
    BY <2>1, ClosesAreCommits
  <2> DEFINE call == closing[a]
             total == get_total_expenses(call.period, call.start)
  <2>3. call.known \in Nat /\ call.spent \in Nat BY <2>2, CallStates DEF BudgetInv, CommitCall
  <2>4. total = Total(spend, call.period, call.start) /\ total \in Nat
    BY ExpensesSum DEF BudgetInv, BudgetTypes
  <2>5. call.known <= call.spent /\ call.spent <= total BY <2>2, <2>4 DEF CallsHonest, CallHonest
  <2>6. e.id = call.id /\ e.period = call.period /\ e.surplus = Max({0, call.budgeted - call.spent})
    BY <2>2 DEF MonthClosedEvent
  <2>7. call.spent \in call.known .. total
    <3> HIDE DEF call, total
    <3> QED BY <2>3, <2>4, <2>5
  <2> QED BY <2>2, <2>6, <2>7
<1>4. BudgetInv /\ CallsHonest /\ [Next]_vars => [Step]_vars BY <1>3
<1> QED BY <1>1, <1>2, <1>4, BudgetInvariance, PTL DEF Spec, SurplusWasLeft

-----------------------------------------------------------------------------
(* goal-service *)

(* The consumer runs one handler: prefetch 1, one replica. *)
OneHandler == \A v, w \in GoalWorkers : v = w

GoalTypes ==
    /\ goals \in [Goals -> GoalRow \cup {NoGoal}]
    /\ saved \in [Goals -> Nat]
    /\ handling = [w \in GoalWorkers |-> handling[w]]
    /\ IsFiniteSet(allocations)

AnnouncedSurplus(key, amount) ==
    /\ amount \in Nat \ {0}
    /\ \E e \in Closed : e.period = key /\ e.surplus = amount

(* A month's surplus is placed in one row of the two tables. *)
Placed ==
    /\ \A r \in allocations \cup unallocated : AnnouncedSurplus(r.key, r.amount)
    /\ \A r \in allocations : r.goal \in Goals /\ goals[r.goal] # NoGoal
    /\ \A r, s \in allocations \cup unallocated : r.key = s.key => r = s
    /\ allocations \cap unallocated = {}

(* The goal as the delivery in progress read it: only a user's edit can
   have changed its amounts since then. *)
FreshRow(d) ==
    /\ d.goal \in Goals /\ d.row \in GoalRow /\ goals[d.goal] # NoGoal
    /\ d.goal \notin edited =>
          goals[d.goal].current = d.row.current /\ goals[d.goal].target = d.row.target

(* A delivery in progress carries a surplus that has not been placed. *)
Unplaced(d) ==
    /\ AnnouncedSurplus(d.key, d.amount) /\ ~ _already_handled(d.key)
    /\ d.at \in {"none", "goal"}
    /\ d.at = "goal" => FreshRow(d)

Deliveries == \A w \in GoalWorkers : handling[w] # Waiting => Unplaced(handling[w])

(* What a goal holds, and whether it has been announced as reached. *)
Balanced(g) ==
    /\ goals[g].current = saved[g] + Credited(list_for_goal(g))
    /\ list_for_goal(g) # {} /\ goals[g].target > 0 /\ goals[g].current >= goals[g].target
          => \E e \in bus : e.type = "goal.reached" /\ e.goal = g

Balances == \A g \in Goals \ edited : goals[g] # NoGoal => Balanced(g)

GoalInv == GoalTypes /\ Placed /\ Deliveries /\ Balances

(* What is credited, added up. *)
LEMMA CreditedSum ==
  ASSUME NEW rows PROVE Credited(rows) = SumOver([r \in rows |-> r.amount], rows)
<1> DEFINE f == [r \in rows |-> r.amount]
           Add(it, s) == IF s = {} THEN 0 ELSE Pick(s).amount + it[s \ {Pick(s)}]
<1>1. \A s \in SUBSET rows : s # {} => Pick(s) \in rows /\ f[Pick(s)] = Pick(s).amount BY PickIn
<1>2. \A it : \A s \in SUBSET rows : Add(it, s) = Adding(f, it, s) BY <1>1 DEF Adding
<1>3. \A it : [s \in SUBSET rows |-> Add(it, s)] = [s \in SUBSET rows |-> Adding(f, it, s)]
  BY <1>2
<1> HIDE DEF f
<1>4. (CHOOSE it : it = [s \in SUBSET rows |-> Add(it, s)])
        = (CHOOSE it : it = [s \in SUBSET rows |-> Adding(f, it, s)])
  BY <1>3
<1>5. Credited(rows) = (CHOOSE it : it = [s \in SUBSET rows |-> Add(it, s)])[rows]
  BY DEF Credited, MapThenSumSet, MapThenFoldSet, Pick
<1> QED BY <1>4, <1>5 DEF SumOver, Fold, f

LEMMA CreditedNone == Credited({}) = 0
BY CreditedSum, SumEmpty

LEMMA CreditedMore ==
  ASSUME NEW rows, IsFiniteSet(rows), NEW x, x \notin rows,
         \A r \in rows \cup {x} : r.amount \in Nat
  PROVE  Credited(rows) \in Nat /\ Credited(rows \cup {x}) = Credited(rows) + x.amount
<1> DEFINE more == rows \cup {x}
           f == [r \in rows |-> r.amount]
           g == [r \in more |-> r.amount]
<1>1. Credited(rows) = SumOver(f, rows) /\ Credited(more) = SumOver(g, more) BY CreditedSum
<1>2. \A r \in rows : f[r] = r.amount /\ g[r] = f[r] /\ f[r] \in Int /\ f[r] \in Nat OBVIOUS
<1>3. \A r \in more : g[r] \in Int OBVIOUS
<1>4. g[x] = x.amount OBVIOUS
<1> HIDE DEF f, g
<1>5. SumOver(g, more) = SumOver(g, rows) + g[x] BY <1>3, SumAdd
<1>6. SumOver(g, rows) = SumOver(f, rows) BY <1>2, SumSame
<1>7. SumOver(f, rows) \in Nat BY <1>2, SumNat
<1> QED BY <1>1, <1>4, <1>5, <1>6, <1>7 DEF more

LEMMA CreditedFinite ==
  ASSUME NEW rows, IsFiniteSet(rows), \A r \in rows : r.amount \in Nat
  PROVE  Credited(rows) \in Nat
<1> DEFINE f == [r \in rows |-> r.amount]
<1>1. \A r \in rows : f[r] \in Nat OBVIOUS
<1> HIDE DEF f
<1>2. SumOver(f, rows) \in Nat BY <1>1, SumNat
<1> QED BY <1>2, CreditedSum DEF f

LEMMA GoalRowFields ==
  ASSUME NEW r \in GoalRow
  PROVE  r.state \in {"live", "deleted"} /\ r.target \in Nat /\ r.current \in Nat /\ r # NoGoal
BY DEF GoalRow, NoGoal

LEMMA LiveRow ==
  ASSUME GoalTypes, NEW g \in Goals, goals[g] # NoGoal \/ GoalLive(g)
  PROVE  goals[g] \in GoalRow
BY DEF GoalTypes, GoalLive, NoGoal

(* An announced surplus stays announced. *)
LEMMA StaysAnnounced ==
  ASSUME bus \subseteq bus', NEW key, NEW amount, AnnouncedSurplus(key, amount)
  PROVE  AnnouncedSurplus(key, amount)'
BY DEF AnnouncedSurplus, Closed

(* A step that places nothing: goals come, and keep their amounts unless a
   user edits them; a delivery ends or goes on. *)
LEMMA NothingPlaced ==
  ASSUME GoalInv, bus \subseteq bus', UNCHANGED <<allocations, unallocated>>,
         edited \subseteq edited',
         goals' \in [Goals -> GoalRow \cup {NoGoal}], saved' \in [Goals -> Nat],
         handling' = [w \in GoalWorkers |-> handling'[w]],
         \A w \in GoalWorkers : handling'[w] \in {handling[w], Waiting},
         \A g \in Goals : goals[g] # NoGoal =>
            /\ goals'[g] # NoGoal /\ saved'[g] = saved[g]
            /\ g \notin edited' => goals'[g].current = goals[g].current /\ goals'[g].target = goals[g].target,
         \A g \in Goals : goals[g] = NoGoal /\ goals'[g] # NoGoal => goals'[g].current = saved'[g]
  PROVE  GoalInv'
<1>1. GoalTypes' BY DEF GoalInv, GoalTypes
<1>2. Placed'
  <2>1. \A r \in allocations \cup unallocated : AnnouncedSurplus(r.key, r.amount)'
    BY StaysAnnounced DEF GoalInv, Placed
  <2>2. \A r \in allocations : r.goal \in Goals /\ goals'[r.goal] # NoGoal BY DEF GoalInv, Placed
  <2> QED BY <2>1, <2>2 DEF GoalInv, Placed
<1>3. Deliveries'
  <2> SUFFICES ASSUME NEW w \in GoalWorkers, handling'[w] # Waiting
               PROVE  Unplaced(handling[w])'
    BY DEF Deliveries
  <2> DEFINE d == handling[w]
  <2>1. handling'[w] = d /\ Unplaced(d) BY DEF GoalInv, Deliveries
  <2>2. AnnouncedSurplus(d.key, d.amount)' BY <2>1, StaysAnnounced DEF Unplaced
  <2>3. ~ _already_handled(d.key)' BY <2>1 DEF Unplaced, _already_handled, SourceKeys
  <2>4. ASSUME d.at = "goal" PROVE FreshRow(d)'
    BY <2>1, <2>4 DEF Unplaced, FreshRow
  <2> QED BY <2>1, <2>2, <2>3, <2>4 DEF Unplaced
<1>4. Balances'
  <2> SUFFICES ASSUME NEW g \in Goals \ edited', goals'[g] # NoGoal PROVE Balanced(g)'
    BY DEF Balances
  <2>1. list_for_goal(g)' = list_for_goal(g) BY DEF list_for_goal
  <2>2. CASE goals[g] # NoGoal
    <3>1. Balanced(g) BY <2>2 DEF GoalInv, Balances
    <3>2. goals'[g].current = goals[g].current /\ goals'[g].target = goals[g].target
          /\ saved'[g] = saved[g]
      BY <2>2
    <3> QED BY <2>1, <3>1, <3>2 DEF Balanced
  <2>3. CASE goals[g] = NoGoal
    <3>1. list_for_goal(g) = {} BY <2>3 DEF list_for_goal, GoalInv, Placed
    <3>2. Credited(list_for_goal(g)') = 0 BY <2>1, <3>1, CreditedNone
    <3>3. goals'[g].current = saved'[g] /\ saved'[g] \in Nat BY <2>3
    <3> QED BY <2>1, <3>1, <3>2, <3>3 DEF Balanced
  <2> QED BY <2>2, <2>3
<1> QED BY <1>1, <1>2, <1>3, <1>4 DEF GoalInv

LEMMA GoalInitInv == GoalInit /\ PlatformInit => GoalInv
<1> SUFFICES ASSUME GoalInit, PlatformInit PROVE GoalInv OBVIOUS
<1>1. \A g \in DOMAIN StoredGoals : StoredGoals[g] \in GoalRow /\ StoredGoals[g].current \in Nat
  BY StoredGoalsAssumption, GoalRowFields
<1>2. GoalTypes BY <1>1, FS_EmptySet DEF GoalTypes, GoalInit
<1>3. Placed /\ Deliveries BY DEF Placed, Deliveries, GoalInit
<1>4. Balances
  <2> SUFFICES ASSUME NEW g \in Goals, goals[g] # NoGoal PROVE Balanced(g) BY DEF Balances
  <2>1. list_for_goal(g) = {} BY DEF list_for_goal, GoalInit
  <2>2. goals[g].current = saved[g] /\ saved[g] \in Nat BY <1>1 DEF GoalInit
  <2> QED BY <2>1, <2>2, CreditedNone DEF Balanced
<1> QED BY <1>2, <1>3, <1>4 DEF GoalInv

(* One goal's row is written by a user's request. *)
LEMMA GoalWritten ==
  ASSUME GoalInv, UNCHANGED <<allocations, unallocated, handling>>, bus \subseteq bus',
         NEW g \in Goals, NEW row \in GoalRow, goals' = [goals EXCEPT ![g] = row],
         \/ /\ goals[g] # NoGoal /\ UNCHANGED <<saved, edited>>
            /\ row.current = goals[g].current /\ row.target = goals[g].target
         \/ goals[g] # NoGoal /\ saved' = saved /\ edited' = edited \cup {g}
         \/ goals[g] = NoGoal /\ saved' = [saved EXCEPT ![g] = row.current] /\ edited' = edited
  PROVE  GoalInv'
<1>0. goals \in [Goals -> GoalRow \cup {NoGoal}] /\ saved \in [Goals -> Nat]
      /\ handling = [w \in GoalWorkers |-> handling[w]]
  BY DEF GoalInv, GoalTypes
<1>1. row.current \in Nat /\ row # NoGoal BY GoalRowFields
<1>2. goals'[g] = row /\ \A h \in Goals : h # g => goals'[h] = goals[h] BY <1>0
<1>3. goals' \in [Goals -> GoalRow \cup {NoGoal}] BY <1>0
<1>4. saved' \in [Goals -> Nat] BY <1>0, <1>1
<1>5. \A h \in Goals : goals[h] # NoGoal =>
            /\ goals'[h] # NoGoal /\ saved'[h] = saved[h]
            /\ h \notin edited' => goals'[h].current = goals[h].current /\ goals'[h].target = goals[h].target
  BY <1>0, <1>1, <1>2
<1>6. \A h \in Goals : goals[h] = NoGoal /\ goals'[h] # NoGoal => goals'[h].current = saved'[h]
  BY <1>0, <1>2
<1> QED BY <1>0, <1>3, <1>4, <1>5, <1>6, NothingPlaced

LEMMA RequestsInv ==
  ASSUME GoalInv, NEW g \in Goals,
         \/ \E t, c \in GoalAmounts : post_goal(g, t, c) \/ put_goal(g, t, c)
         \/ remove_goal(g) \/ put_default_goal(g) \/ remove_default_goal(g)
  PROVE  GoalInv'
<1>0. GoalTypes BY DEF GoalInv
<1>1. ASSUME NEW t \in GoalAmounts, NEW c \in GoalAmounts, post_goal(g, t, c) PROVE GoalInv'
  <2> DEFINE row == [state |-> "live", target |-> t, current |-> c, default |-> FALSE]
  <2>1. row \in GoalRow /\ row.current = c BY GoalAssumption DEF GoalRow
  <2>2. /\ goals[g] = NoGoal /\ goals' = [goals EXCEPT ![g] = row]
        /\ saved' = [saved EXCEPT ![g] = c] /\ edited' = edited /\ bus \subseteq bus'
        /\ UNCHANGED <<allocations, unallocated, handling>>
    BY <1>1 DEF post_goal, GoalRoute, create_goal, insert_goal, Emit
  <2> HIDE DEF row
  <2> QED BY <2>1, <2>2, GoalWritten
<1>2. ASSUME NEW t \in GoalAmounts, NEW c \in GoalAmounts, put_goal(g, t, c) PROVE GoalInv'
  <2> DEFINE row == [goals[g] EXCEPT !.target = t, !.current = c]
  <2>1. /\ GoalLive(g) /\ goals' = [goals EXCEPT ![g] = row]
        /\ saved' = saved /\ edited' = edited \cup {g} /\ bus \subseteq bus'
        /\ UNCHANGED <<allocations, unallocated, handling>>
    BY <1>2 DEF put_goal, GoalRoute, update_goal, write_goal, Emit
  <2>2. goals[g] \in GoalRow /\ goals[g] # NoGoal BY <1>0, <2>1, LiveRow, GoalRowFields
  <2>3. row \in GoalRow BY <2>2, GoalAssumption DEF GoalRow
  <2> HIDE DEF row
  <2> QED BY <2>1, <2>2, <2>3, GoalWritten
<1>3. ASSUME remove_goal(g) PROVE GoalInv'
  <2> DEFINE row == [goals[g] EXCEPT !.state = "deleted", !.default = FALSE]
  <2>1. /\ GoalLive(g) /\ goals' = [goals EXCEPT ![g] = row]
        /\ UNCHANGED <<saved, edited>> /\ bus \subseteq bus'
        /\ UNCHANGED <<allocations, unallocated, handling>>
    <3>1. goals \in [Goals -> GoalRow \cup {NoGoal}] BY <1>0 DEF GoalTypes
    <3> QED BY <1>3, <3>1 DEF remove_goal, GoalRoute, delete_goal, soft_delete, Emit
  <2>2. goals[g] \in GoalRow /\ goals[g] # NoGoal BY <1>0, <2>1, LiveRow, GoalRowFields
  <2>3. row \in GoalRow /\ row.current = goals[g].current /\ row.target = goals[g].target
    BY <2>2 DEF GoalRow
  <2> HIDE DEF row
  <2> QED BY <2>1, <2>2, <2>3, GoalWritten
<1>4. ASSUME put_default_goal(g) PROVE GoalInv'
  <2> DEFINE row(h) == [goals[h] EXCEPT !.default = (h = g)]
  <2>1. /\ goals' = [h \in Goals |-> IF goals[h] = NoGoal THEN NoGoal ELSE row(h)]
        /\ UNCHANGED <<saved, edited, allocations, unallocated, handling>> /\ bus \subseteq bus'
    BY <1>4 DEF put_default_goal, GoalRoute, set_default_goal, set_default_savings_goal, Emit
  <2>2. ASSUME NEW h \in Goals, goals[h] # NoGoal
        PROVE  row(h) \in GoalRow /\ row(h).current = goals[h].current /\ row(h).target = goals[h].target
    <3>1. goals[h] \in GoalRow BY <1>0, <2>2, LiveRow
    <3> QED BY <3>1 DEF GoalRow
  <2> HIDE DEF row
  <2>3. \A h \in Goals : goals[h] # NoGoal =>
           /\ goals'[h] \in GoalRow /\ goals'[h] # NoGoal
           /\ goals'[h].current = goals[h].current /\ goals'[h].target = goals[h].target
    BY <2>1, <2>2, GoalRowFields
  <2>4. goals' \in [Goals -> GoalRow \cup {NoGoal}] BY <2>1, <2>2
  <2>5. \A h \in Goals : goals[h] = NoGoal => goals'[h] = NoGoal BY <2>1
  <2>6. /\ saved \in [Goals -> Nat] /\ handling = [w \in GoalWorkers |-> handling[w]]
    BY <1>0 DEF GoalTypes
  <2> QED BY <2>1, <2>3, <2>4, <2>5, <2>6, NothingPlaced
<1>5. ASSUME remove_default_goal(g) PROVE GoalInv'
  <2> DEFINE row == [goals[g] EXCEPT !.default = FALSE]
  <2>1. /\ GoalLive(g) /\ goals' = [goals EXCEPT ![g] = row]
        /\ UNCHANGED <<saved, edited>> /\ bus \subseteq bus'
        /\ UNCHANGED <<allocations, unallocated, handling>>
    BY <1>5 DEF remove_default_goal, GoalRoute, clear_default_goal, clear_default_savings_goal, Emit
  <2>2. goals[g] \in GoalRow /\ goals[g] # NoGoal BY <1>0, <2>1, LiveRow, GoalRowFields
  <2>3. row \in GoalRow /\ row.current = goals[g].current /\ row.target = goals[g].target
    BY <2>2 DEF GoalRow
  <2> HIDE DEF row
  <2> QED BY <2>1, <2>2, <2>3, GoalWritten
<1> QED BY <1>1, <1>2, <1>3, <1>4, <1>5

(* A delivery is read: the surplus it carries is not placed yet. *)
LEMMA ArrivesInv ==
  ASSUME BudgetInv, GoalInv, NEW w \in GoalWorkers, SurplusArrives(w)
  PROVE  GoalInv'
<1>1. PICK e \in bus :
        /\ e.type = "budget.month_closed" /\ e.surplus # 0 /\ ~ _already_handled(e.period)
        /\ \/ \E g \in get_default_savings_goal :
                 handling' = [handling EXCEPT ![w] =
                     [at |-> "goal", key |-> e.period, amount |-> e.surplus,
                      goal |-> g, row |-> goals[g]]]
           \/ handling' = [handling EXCEPT ![w] =
                     [at |-> "none", key |-> e.period, amount |-> e.surplus]]
        /\ UNCHANGED <<bus, goals, allocations, unallocated, saved, edited>>
  BY DEF SurplusArrives
<1>2. e \in Closed /\ e.surplus \in Nat BY <1>1 DEF Closed, BudgetInv, Announced
<1>3. AnnouncedSurplus(e.period, e.surplus) BY <1>1, <1>2 DEF AnnouncedSurplus
<1>0. handling = [v \in GoalWorkers |-> handling[v]] BY DEF GoalInv, GoalTypes
<1>4. PICK d : handling' = [handling EXCEPT ![w] = d] /\ Unplaced(d)
  <2>1. ASSUME NEW g \in get_default_savings_goal,
               handling' = [handling EXCEPT ![w] =
                     [at |-> "goal", key |-> e.period, amount |-> e.surplus,
                      goal |-> g, row |-> goals[g]]]
        PROVE  \E d : handling' = [handling EXCEPT ![w] = d] /\ Unplaced(d)
    <3> DEFINE d == [at |-> "goal", key |-> e.period, amount |-> e.surplus,
                     goal |-> g, row |-> goals[g]]
    <3>1. g \in Goals /\ GoalLive(g) BY DEF get_default_savings_goal
    <3>2. goals[g] \in GoalRow /\ goals[g] # NoGoal BY <3>1, LiveRow, GoalRowFields DEF GoalInv
    <3>3. Unplaced(d) BY <1>1, <1>3, <3>1, <3>2 DEF Unplaced, FreshRow
    <3> HIDE DEF d
    <3>4. handling' = [handling EXCEPT ![w] = d] BY <2>1 DEF d
    <3> QED BY <3>3, <3>4
  <2>2. ASSUME handling' = [handling EXCEPT ![w] =
                     [at |-> "none", key |-> e.period, amount |-> e.surplus]]
        PROVE  \E d : handling' = [handling EXCEPT ![w] = d] /\ Unplaced(d)
    <3> DEFINE d == [at |-> "none", key |-> e.period, amount |-> e.surplus]
    <3>1. Unplaced(d) BY <1>1, <1>3 DEF Unplaced
    <3> HIDE DEF d
    <3>2. handling' = [handling EXCEPT ![w] = d] BY <2>2 DEF d
    <3> QED BY <3>1, <3>2
  <2> QED BY <1>1, <2>1, <2>2
<1>5. handling' = [v \in GoalWorkers |-> handling'[v]]
      /\ handling'[w] = d /\ \A v \in GoalWorkers : v # w => handling'[v] = handling[v]
  BY <1>0, <1>4
<1>6. \A x : Unplaced(x)' <=> Unplaced(x)
  BY <1>1 DEF Unplaced, FreshRow, AnnouncedSurplus, Closed, _already_handled, SourceKeys
<1>7. Deliveries' BY <1>4, <1>5, <1>6 DEF Deliveries, GoalInv
<1>8. GoalTypes' BY <1>1, <1>5 DEF GoalInv, GoalTypes
<1>9. Placed' BY <1>1 DEF GoalInv, Placed, AnnouncedSurplus, Closed
<1>10. Balances' BY <1>1 DEF GoalInv, Balances, Balanced, list_for_goal
<1> QED BY <1>7, <1>8, <1>9, <1>10 DEF GoalInv

(* The one handler has ended. *)
LEMMA DeliveryEnds ==
  ASSUME OneHandler, GoalInv, NEW w \in GoalWorkers, handling' = [handling EXCEPT ![w] = Waiting]
  PROVE  Deliveries' /\ handling' = [v \in GoalWorkers |-> handling'[v]]
         /\ \A v \in GoalWorkers : handling'[v] = Waiting
<1>0. handling = [v \in GoalWorkers |-> handling[v]] BY DEF GoalInv, GoalTypes
<1>1. \A v \in GoalWorkers : handling'[v] = Waiting BY <1>0 DEF OneHandler
<1> QED BY <1>0, <1>1 DEF Deliveries

(* Its surplus is put aside. *)
LEMMA KeptInv ==
  ASSUME OneHandler, GoalInv, NEW w \in GoalWorkers, SurplusKept(w)
  PROVE  GoalInv'
<1> DEFINE d == handling[w]
<1>1. PICK reason : d.at \in {"none", "goal"} /\ add_unallocated(d, reason) BY DEF SurplusKept
<1>2. handling' = [handling EXCEPT ![w] = Waiting]
      /\ UNCHANGED <<bus, goals, allocations, saved, edited>>
  BY DEF SurplusKept
<1>3. Unplaced(d) BY <1>1 DEF GoalInv, Deliveries, Waiting
<1> DEFINE x == [key |-> d.key, amount |-> d.amount, reason |-> reason]
<1>4. unallocated' = unallocated \cup {x}
  BY <1>1, <1>3 DEF add_unallocated, Unplaced, _already_handled
<1>5. x.key = d.key /\ x.amount = d.amount OBVIOUS
<1> HIDE DEF x
<1>6. \A r \in allocations \cup unallocated : r.key # d.key
  BY <1>3 DEF Unplaced, _already_handled, SourceKeys
<1>7. \A key, amount : AnnouncedSurplus(key, amount)' <=> AnnouncedSurplus(key, amount)
  BY <1>2 DEF AnnouncedSurplus, Closed
<1>8. AnnouncedSurplus(x.key, x.amount) BY <1>3, <1>5 DEF Unplaced
<1>9. Placed' BY <1>2, <1>4, <1>5, <1>6, <1>7, <1>8 DEF GoalInv, Placed
<1>10. Deliveries' /\ GoalTypes' BY <1>2, DeliveryEnds DEF GoalInv, GoalTypes
<1>11. Balances' BY <1>2 DEF GoalInv, Balances, Balanced, list_for_goal
<1> QED BY <1>9, <1>10, <1>11 DEF GoalInv

(* Its surplus is credited to the goal it read. *)
LEMMA AllocatedInv ==
  ASSUME OneHandler, GoalInv, NEW w \in GoalWorkers, SurplusAllocated(w)
  PROVE  GoalInv'
<1> DEFINE d == handling[w]
           k == d.goal
           sum == d.row.current + d.amount
           x == [key |-> d.key, goal |-> k, amount |-> d.amount]
           row == [goals[k] EXCEPT !.current = sum]
           reached == [d.row EXCEPT !.current = @ + d.amount]
<1>1. Unplaced(d) /\ FreshRow(d) BY DEF SurplusAllocated, GoalInv, Deliveries, Waiting, Unplaced
<1>2. \A r \in allocations \cup unallocated : r.key # d.key
  BY <1>1 DEF Unplaced, _already_handled, SourceKeys
<1>3. /\ allocations' = allocations \cup {x} /\ goals' = [goals EXCEPT ![k] = row]
      /\ bus' = bus \cup GoalReachedEvents(d)
      /\ handling' = [handling EXCEPT ![w] = Waiting] /\ UNCHANGED <<unallocated, saved, edited>>
  BY <1>2 DEF SurplusAllocated, add_allocation, increment_current_amount, Emit
<1>4. d.amount \in Nat \ {0} BY <1>1 DEF Unplaced, AnnouncedSurplus
<1>5. k \in Goals /\ d.row \in GoalRow /\ goals[k] # NoGoal BY <1>1 DEF FreshRow
<1>6. d.row.current \in Nat /\ d.row.target \in Nat /\ sum \in Nat BY <1>4, <1>5, GoalRowFields
<1>7. goals[k] \in GoalRow BY <1>5, LiveRow DEF GoalInv
<1>8. row \in GoalRow /\ row.current = sum /\ row.target = goals[k].target BY <1>6, <1>7 DEF GoalRow
<1>9. x.key = d.key /\ x.goal = k /\ x.amount = d.amount OBVIOUS
<1>10. reached.current = sum /\ reached.target = d.row.target BY <1>5 DEF GoalRow
<1>11. d.row.target > 0 /\ sum >= d.row.target =>
          \E e \in GoalReachedEvents(d) : e.type = "goal.reached" /\ e.goal = k
  <2> SUFFICES ASSUME d.row.target > 0, sum >= d.row.target
               PROVE  \E e \in GoalReachedEvents(d) : e.type = "goal.reached" /\ e.goal = k
    OBVIOUS
  <2> HIDE DEF reached
  <2>1. reached \in {r \in {reached} : r.target > 0 /\ r.current >= r.target} BY <1>10
  <2>2. GoalEvent("goal.reached", k, reached) \in GoalReachedEvents(d)
    BY <2>1 DEF GoalReachedEvents, reached
  <2> QED BY <2>2 DEF GoalEvent
<1>12. AnnouncedSurplus(d.key, d.amount) BY <1>1 DEF Unplaced
<1> HIDE DEF x, row, reached, sum
<1>13. goals \in [Goals -> GoalRow \cup {NoGoal}] BY DEF GoalInv, GoalTypes
<1>14. goals'[k] = row /\ row # NoGoal /\ \A h \in Goals : h # k => goals'[h] = goals[h]
  BY <1>3, <1>5, <1>8, <1>13, GoalRowFields
<1>15. GoalTypes' /\ Deliveries'
  <2>1. goals' \in [Goals -> GoalRow \cup {NoGoal}] BY <1>3, <1>8, <1>13
  <2>2. IsFiniteSet(allocations') BY <1>3, FS_AddElement DEF GoalInv, GoalTypes
  <2>3. Deliveries' /\ handling' = [v \in GoalWorkers |-> handling'[v]] BY <1>3, DeliveryEnds
  <2> QED BY <1>3, <2>1, <2>2, <2>3 DEF GoalInv, GoalTypes
<1>16. Placed'
  <2>1. \A r \in allocations' \cup unallocated' : AnnouncedSurplus(r.key, r.amount)'
    BY <1>3, <1>9, <1>12, StaysAnnounced DEF GoalInv, Placed
  <2>2. \A r \in allocations' : r.goal \in Goals /\ goals'[r.goal] # NoGoal
    BY <1>3, <1>5, <1>9, <1>14 DEF GoalInv, Placed
  <2>3. \A r, s \in allocations' \cup unallocated' : r.key = s.key => r = s
    BY <1>2, <1>3, <1>9 DEF GoalInv, Placed
  <2>4. allocations' \cap unallocated' = {} BY <1>2, <1>3, <1>9 DEF GoalInv, Placed
  <2> QED BY <2>1, <2>2, <2>3, <2>4 DEF Placed
<1>17. Balances'
  <2> SUFFICES ASSUME NEW g \in Goals \ edited, goals'[g] # NoGoal PROVE Balanced(g)'
    BY <1>3 DEF Balances
  <2>0. goals[g] # NoGoal BY <1>5, <1>14
  <2>1. Balanced(g) BY <2>0 DEF GoalInv, Balances
  <2>2. CASE g # k
    <3>1. list_for_goal(g)' = list_for_goal(g) BY <2>2, <1>3, <1>9 DEF list_for_goal
    <3>2. goals'[g] = goals[g] /\ saved' = saved /\ bus \subseteq bus' BY <2>2, <1>3, <1>14
    <3> QED BY <2>1, <3>1, <3>2 DEF Balanced
  <2>3. CASE g = k
    <3> DEFINE L == list_for_goal(g)
    <3>1. list_for_goal(g)' = L \cup {x} BY <2>3, <1>3, <1>9 DEF list_for_goal
    <3>2. x \notin L BY <1>2, <1>9 DEF list_for_goal
    <3>3. L \subseteq allocations BY DEF list_for_goal
    <3>4. IsFiniteSet(L) BY <3>3, FS_Subset DEF GoalInv, GoalTypes
    <3>5. \A r \in L \cup {x} : r.amount \in Nat
      BY <1>4, <1>9, <3>3 DEF GoalInv, Placed, AnnouncedSurplus
    <3>6. Credited(L) \in Nat /\ Credited(L \cup {x}) = Credited(L) + d.amount
      <4> HIDE DEF L
      <4> QED BY <3>2, <3>4, <3>5, <1>9, CreditedMore
    <3>7. goals[k].current = d.row.current /\ goals[k].target = d.row.target
      BY <1>1, <2>3 DEF FreshRow
    <3>8. goals'[k].current = sum /\ goals'[k].target = d.row.target BY <1>8, <1>14, <3>7
    <3>9. d.row.current = saved[k] + Credited(L) BY <2>1, <2>3, <3>7 DEF Balanced
    <3>10. saved[k] \in Nat BY <1>5 DEF GoalInv, GoalTypes
    <3>11. goals'[g].current = saved'[g] + Credited(L \cup {x})
      <4> DEFINE c == Credited(L)
                 s == saved[k]
                 a == d.amount
                 rc == d.row.current
      <4>1. c \in Nat /\ s \in Nat /\ a \in Nat BY <1>4, <3>6, <3>10
      <4>2. sum = rc + a /\ rc = s + c BY <3>9 DEF sum
      <4> HIDE DEF c, s, a, rc
      <4>3. sum = s + (c + a) BY <4>1, <4>2
      <4> QED BY <4>3, <2>3, <1>3, <3>6, <3>8 DEF c, s, a
    <3>12. goals'[g].target > 0 /\ goals'[g].current >= goals'[g].target =>
              \E e \in bus' : e.type = "goal.reached" /\ e.goal = g
      BY <2>3, <1>3, <1>11, <3>8
    <3> HIDE DEF L, d, k
    <3> QED BY <3>1, <3>11, <3>12 DEF Balanced
  <2> QED BY <2>2, <2>3
<1> QED BY <1>15, <1>16, <1>17 DEF GoalInv

LEMMA GoalNextInv ==
  ASSUME OneHandler, BudgetInv, GoalInv, GoalNext
  PROVE  GoalInv'
<1>1. ASSUME NEW w \in GoalWorkers, SurplusLost(w) PROVE GoalInv'
  <2>1. /\ handling' = [handling EXCEPT ![w] = Waiting]
        /\ UNCHANGED <<bus, goals, allocations, unallocated, saved, edited>>
    BY <1>1 DEF SurplusLost
  <2>2. /\ goals \in [Goals -> GoalRow \cup {NoGoal}] /\ saved \in [Goals -> Nat]
    BY DEF GoalInv, GoalTypes
  <2>3. handling' = [v \in GoalWorkers |-> handling'[v]]
        /\ \A v \in GoalWorkers : handling'[v] = Waiting
    BY <2>1, DeliveryEnds
  <2> QED BY <2>1, <2>2, <2>3, NothingPlaced
<1> QED BY <1>1, RequestsInv, ArrivesInv, KeptInv, AllocatedInv DEF GoalNext

(* What budget-service does leaves the goals alone. *)
LEMMA BusGrows == BudgetNext => bus \subseteq bus'
<1> USE DEF EditEnds
<1> SUFFICES ASSUME BudgetNext PROVE bus \subseteq bus' OBVIOUS
<1>1. CASE bus' = bus BY <1>1
<1>2. ASSUME NEW a \in Closers, CloseCommits(a) PROVE bus \subseteq bus'
  BY <1>2 DEF CloseCommits, Emit
<1>3. CASE AlertSweepNext BY <1>3 DEF AlertSweepNext, evaluate_alerts, Emit
<1>4. ASSUME NEW a \in Closers, CloseFetches(a) \/ CloseUnavailable(a) PROVE bus' = bus
  BY <1>4 DEF CloseFetches, CloseUnavailable
<1>5. CASE \E p \in Periods, start \in StartDays : CloseRequest(p, start) BY <1>5 DEF CloseRequest
<1>6. CASE \E x \in SpendOn : Spend(x) BY <1>6 DEF Spend
<1>7. CASE DayPasses \/ SweepBegins \/ SweepNext \/ SweepCrash \/ AlertSweepBegins
  BY <1>7 DEF DayPasses, SweepBegins, SweepNext, SweepCrash, AlertSweepBegins
<1>8. ASSUME NEW p, NEW q, create_monthly_budget(p, q) \/ update_monthly_budget(p, q)
                           \/ delete_monthly_budget(p) \/ copy_monthly_budget(p, q)
      PROVE  bus' = bus
  BY <1>8 DEF create_monthly_budget, update_monthly_budget, delete_monthly_budget, copy_monthly_budget
<1> QED BY <1>1, <1>2, <1>3, <1>4, <1>5, <1>6, <1>7, <1>8 DEF BudgetNext

LEMMA GoalsUntouched ==
  ASSUME GoalInv, UNCHANGED goalVars, bus \subseteq bus'
  PROVE  GoalInv'
<1>1. UNCHANGED <<goals, allocations, unallocated, handling, saved, edited>> BY DEF goalVars
<1>2. /\ goals \in [Goals -> GoalRow \cup {NoGoal}] /\ saved \in [Goals -> Nat]
      /\ handling = [w \in GoalWorkers |-> handling[w]]
  BY DEF GoalInv, GoalTypes
<1> QED BY <1>1, <1>2, NothingPlaced

(* The invariant of goal-service, with one handler: a surplus lies in one
   row, the delivery in progress carries one that lies in none and a goal
   that only a user's edit has changed since it was read, and a goal that
   was not edited holds what was credited to it.  With two handlers at once
   it does not hold: both may have read the same amount of the goal. *)
THEOREM GoalInvariance == ASSUME OneHandler PROVE Spec => []GoalInv
<1>1. Init => GoalInv BY GoalInitInv DEF Init
<1>2. BudgetInv /\ GoalInv /\ [Next]_vars => GoalInv'
  <2> SUFFICES ASSUME BudgetInv, GoalInv, [Next]_vars PROVE GoalInv' OBVIOUS
  <2>1. CASE BudgetNext /\ UNCHANGED goalVars BY <2>1, BusGrows, GoalsUntouched
  <2>2. CASE GoalNext BY <2>2, GoalNextInv
  <2>3. CASE UNCHANGED vars
    <3>1. UNCHANGED goalVars /\ bus' = bus BY <2>3 DEF vars, platform
    <3> QED BY <3>1, GoalsUntouched
  <2> QED BY <2>1, <2>2, <2>3 DEF Next
<1> QED BY <1>1, <1>2, BudgetInvariance, PTL DEF Spec

(* _already_handled, the two tables and one commit place a month's surplus
   once, whatever is delivered again, deleted, budgeted and closed again. *)
THEOREM SurplusOnce == ASSUME OneHandler PROVE Spec => []SurplusPlacedOnce
<1>1. GoalInv => SurplusPlacedOnce
  <2> SUFFICES ASSUME GoalInv PROVE SurplusPlacedOnce OBVIOUS
  <2> DEFINE placed == allocations \cup get_unallocated_surplus
  <2>1. \A r \in get_unallocated_surplus :
          \E u \in unallocated : r = [key |-> u.key, amount |-> u.amount]
    BY DEF get_unallocated_surplus, list_for_account
  <2>2. \A r \in placed : AnnouncedSurplus(r.key, r.amount)
    BY <2>1 DEF GoalInv, Placed
  <2>3. ASSUME NEW r \in placed, NEW s \in placed, r.key = s.key PROVE r = s
    <3>1. CASE r \in allocations /\ s \in allocations BY <2>3, <3>1 DEF GoalInv, Placed
    <3>2. CASE r \in get_unallocated_surplus /\ s \in get_unallocated_surplus
      BY <2>1, <2>3, <3>2 DEF GoalInv, Placed
    <3>3. \A x \in allocations, y \in get_unallocated_surplus : x.key # y.key
      BY <2>1 DEF GoalInv, Placed
    <3> QED BY <2>3, <3>1, <3>2, <3>3
  <2>4. \A r \in placed :
          \E e \in Closed : e.period = r.key /\ e.surplus = r.amount /\ r.amount > 0
    BY <2>2 DEF AnnouncedSurplus
  <2> QED BY <2>3, <2>4 DEF SurplusPlacedOnce
<1> QED BY <1>1, GoalInvariance, PTL

(* increment_current_amount writes the amount read plus the surplus: with
   one handler the goal's history and its amount agree, and goal.reached
   was announced. *)
THEOREM CreditsKept == ASSUME OneHandler PROVE Spec => []CreditsAddUp
<1>1. GoalInv => CreditsAddUp
  BY DEF GoalInv, Balances, Balanced, CreditsAddUp, get_allocation_history
<1> QED BY <1>1, GoalInvariance, PTL

-----------------------------------------------------------------------------
(***************************************************************************)
(* One occasion, one notification.  The check of source_key and the insert *)
(* are separate steps, so the argument rests on the table alone: a row is  *)
(* only ever added under a key no row has, and no row is ever removed.     *)
(* That makes every key unique; that a mail follows only the insert, while *)
(* the handler that made it still holds the delivery, makes every mail     *)
(* unique; and that both handlers of a reached goal use the goal's one key *)
(* makes its notification unique although two types of event lead to it.   *)
(***************************************************************************)

(* The inductive invariant *)

GoalKeyed(content, key) ==
    content.type = "goal_reached" => key = <<"goal.reached", content.goal>>

Row(i) ==
    [user |-> notices[i].user, content |-> notices[i].content, key |-> notices[i].key,
     read |-> notices[i].read, dismissed |-> notices[i].dismissed]

(* A row is named by its key: no second one was ever added under it. *)
RowsKeyed ==
    /\ notices = [i \in DOMAIN notices |-> notices[i]]
    /\ \A i \in DOMAIN notices :
          /\ notices[i] = Row(i)
          /\ i = <<notices[i].key, 0>>
          /\ GoalKeyed(notices[i].content, notices[i].key)

HandlersKeyed ==
    /\ noticing = [w \in NoticeWorkers |-> noticing[w]]
    /\ \A w \in NoticeWorkers :
          noticing[w].status = "create" => GoalKeyed(noticing[w].content, noticing[w].key)

(* Whoever is about to mail inserted the row, alone, and has not mailed. *)
MailsOnce ==
    /\ \A w \in NoticeWorkers : noticing[w].status = "mail" =>
          /\ source_key_exists(noticing[w].key)
          /\ noticing[w].key \notin DOMAIN mails
          /\ \A x \in NoticeWorkers :
                noticing[x].status = "mail" /\ noticing[x].key = noticing[w].key => x = w
    /\ \A k \in DOMAIN mails : mails[k] = 1 /\ source_key_exists(k)

NoticeInv == RowsKeyed /\ HandlersKeyed /\ MailsOnce

-----------------------------------------------------------------------------
(* What the handlers offer, and what the steps do to the table *)

(* Both handlers of a reached goal ask for the one key of that goal; what  *)
(* the other handlers build is about no goal.                              *)
LEMMA DispatchKeyed ==
    ASSUME NEW e \in Events, _dispatch(e).status = "create"
    PROVE  GoalKeyed(_dispatch(e).content, _dispatch(e).key)
<1>1. e.type \in ROUTING_KEYS BY EventsAssumption
<1>2. CASE e.type = "bank.sync.completed"
  BY <1>2 DEF _dispatch, handle_bank_sync_completed, Create, Ignored, GoalKeyed,
              build_bank_sync_completed
<1>3. CASE e.type = "goal.updated"
  BY <1>3 DEF _dispatch, handle_goal_updated, Create, Ignored, GoalKeyed, build_goal_reached
<1>4. CASE e.type = "goal.reached"
  BY <1>4 DEF _dispatch, handle_goal_reached, CreateForOwner, Create, Ignored, GoalKeyed,
              build_goal_reached
<1>5. CASE e.type = "budget.month_closed"
  BY <1>5 DEF _dispatch, handle_budget_month_closed, CreateForOwner, Create, Ignored,
              GoalKeyed, build_budget_month_closed
<1>6. CASE e.type = "budget.line_threshold_crossed"
  BY <1>6 DEF _dispatch, handle_budget_line_threshold_crossed, CreateForOwner, Create,
              Ignored, GoalKeyed, build_budget_line_threshold_crossed
<1>7. QED BY <1>1, <1>2, <1>3, <1>4, <1>5, <1>6 DEF ROUTING_KEYS

(* A write to the feed: the rows keep their names, contents and keys. *)
Relabelled ==
    /\ DOMAIN notices' = DOMAIN notices
    /\ notices' = [i \in DOMAIN notices |-> notices'[i]]
    /\ \A i \in DOMAIN notices :
          /\ notices'[i] = Row(i)'
          /\ notices'[i].key = notices[i].key
          /\ notices'[i].content = notices[i].content

LEMMA RelabelledKeepsInv ==
    ASSUME NoticeInv, Relabelled, UNCHANGED <<noticing, mails>>
    PROVE  NoticeInv'
<1>1. RowsKeyed' BY DEF NoticeInv, RowsKeyed, Relabelled, GoalKeyed
<1>2. \A k : source_key_exists(k) => source_key_exists(k)'
  BY DEF source_key_exists, Relabelled
<1>3. HandlersKeyed' BY DEF NoticeInv, HandlersKeyed
<1>4. MailsOnce' BY <1>2 DEF NoticeInv, MailsOnce
<1>5. QED BY <1>1, <1>3, <1>4 DEF NoticeInv

(* A write to the row's two marks and nothing else relabels. *)
Marked(i, read, dismissed) ==
    [user |-> notices[i].user, content |-> notices[i].content, key |-> notices[i].key,
     read |-> read, dismissed |-> dismissed]

LEMMA MarksRelabel ==
    ASSUME DOMAIN notices' = DOMAIN notices,
           notices' = [i \in DOMAIN notices |-> notices'[i]],
           \A i \in DOMAIN notices : \E read, dismissed : notices'[i] = Marked(i, read, dismissed)
    PROVE  Relabelled
<1>1. SUFFICES ASSUME NEW i \in DOMAIN notices
               PROVE  /\ notices'[i] = Row(i)'
                      /\ notices'[i].key = notices[i].key
                      /\ notices'[i].content = notices[i].content
  BY DEF Relabelled
<1>2. PICK read, dismissed : notices'[i] = Marked(i, read, dismissed) OBVIOUS
<1>3. QED BY <1>2 DEF Marked, Row

LEMMA OneMark ==
    ASSUME NEW i, NEW r, r = Row(i)
    PROVE  /\ [r EXCEPT !.read = TRUE] = Marked(i, TRUE, r.dismissed)
           /\ [r EXCEPT !.dismissed = TRUE] = Marked(i, r.read, TRUE)
           /\ r = Marked(i, r.read, r.dismissed)
<1>1. r = Marked(i, notices[i].read, notices[i].dismissed) BY DEF Row, Marked
<1>2. ASSUME NEW u, NEW c, NEW k, NEW a, NEW b, NEW v
      PROVE  [[user |-> u, content |-> c, key |-> k, read |-> a, dismissed |-> b] EXCEPT !.read = v]
               = [user |-> u, content |-> c, key |-> k, read |-> v, dismissed |-> b]
  OBVIOUS
<1>3. ASSUME NEW u, NEW c, NEW k, NEW a, NEW b, NEW v
      PROVE  [[user |-> u, content |-> c, key |-> k, read |-> a, dismissed |-> b] EXCEPT !.dismissed = v]
               = [user |-> u, content |-> c, key |-> k, read |-> a, dismissed |-> v]
  OBVIOUS
<1> DEFINE yes == TRUE
<1> HIDE DEF yes
<1>4. ASSUME NEW a, NEW b PROVE [Marked(i, a, b) EXCEPT !.read = yes] = Marked(i, yes, b)
  BY <1>2 DEF Marked
<1>5. ASSUME NEW a, NEW b PROVE [Marked(i, a, b) EXCEPT !.dismissed = yes] = Marked(i, a, yes)
  BY <1>3 DEF Marked
<1>6. ASSUME NEW a, NEW b PROVE Marked(i, a, b).read = a /\ Marked(i, a, b).dismissed = b
  BY DEF Marked
<1>7. r.read = notices[i].read /\ r.dismissed = notices[i].dismissed BY <1>1, <1>6
<1>8. /\ [r EXCEPT !.read = yes] = Marked(i, yes, r.dismissed)
      /\ [r EXCEPT !.dismissed = yes] = Marked(i, r.read, yes)
      /\ r = Marked(i, r.read, r.dismissed)
  BY <1>1, <1>4, <1>5, <1>7
<1>9. QED BY <1>8 DEF yes

LEMMA MarkReadRelabels ==
    ASSUME NoticeInv, NEW u, NEW i, mark_read(u, i)
    PROVE  Relabelled
<1>1. i \in DOMAIN notices BY DEF mark_read, Feed
<1>2. notices' = [j \in DOMAIN notices |->
                    IF j = i THEN [notices[i] EXCEPT !.read = TRUE] ELSE notices[j]]
  BY <1>1 DEF mark_read, NoticeInv, RowsKeyed
<1>3. \A j \in DOMAIN notices : notices[j] = Row(j) BY DEF NoticeInv, RowsKeyed
<1>4. [notices[i] EXCEPT !.read = TRUE] = Marked(i, TRUE, notices[i].dismissed)
  BY <1>1, <1>3, OneMark
<1>5. \A j \in DOMAIN notices : notices[j] = Marked(j, notices[j].read, notices[j].dismissed)
  BY <1>3, OneMark
<1>6. DOMAIN notices' = DOMAIN notices /\ notices' = [j \in DOMAIN notices |-> notices'[j]]
  BY <1>2
<1>7. \A j \in DOMAIN notices : \E read, dismissed : notices'[j] = Marked(j, read, dismissed)
  <2>1. SUFFICES ASSUME NEW j \in DOMAIN notices
                 PROVE  \E read, dismissed : notices'[j] = Marked(j, read, dismissed)
    OBVIOUS
  <2>2. CASE j = i BY <2>2, <1>1, <1>2, <1>4
  <2>3. CASE j # i BY <2>3, <1>2, <1>5
  <2>4. QED BY <2>2, <2>3
<1>8. QED BY <1>6, <1>7, MarksRelabel

LEMMA DismissRelabels ==
    ASSUME NoticeInv, NEW u, NEW i, dismiss(u, i)
    PROVE  Relabelled
<1>1. i \in DOMAIN notices BY DEF dismiss, Feed
<1>2. notices' = [j \in DOMAIN notices |->
                    IF j = i THEN [notices[i] EXCEPT !.dismissed = TRUE] ELSE notices[j]]
  BY <1>1 DEF dismiss, NoticeInv, RowsKeyed
<1>3. \A j \in DOMAIN notices : notices[j] = Row(j) BY DEF NoticeInv, RowsKeyed
<1>4. [notices[i] EXCEPT !.dismissed = TRUE] = Marked(i, notices[i].read, TRUE)
  BY <1>1, <1>3, OneMark
<1>5. \A j \in DOMAIN notices : notices[j] = Marked(j, notices[j].read, notices[j].dismissed)
  BY <1>3, OneMark
<1>6. DOMAIN notices' = DOMAIN notices /\ notices' = [j \in DOMAIN notices |-> notices'[j]]
  BY <1>2
<1>7. \A j \in DOMAIN notices : \E read, dismissed : notices'[j] = Marked(j, read, dismissed)
  <2>1. SUFFICES ASSUME NEW j \in DOMAIN notices
                 PROVE  \E read, dismissed : notices'[j] = Marked(j, read, dismissed)
    OBVIOUS
  <2>2. CASE j = i BY <2>2, <1>1, <1>2, <1>4
  <2>3. CASE j # i BY <2>3, <1>2, <1>5
  <2>4. QED BY <2>2, <2>3
<1>8. QED BY <1>6, <1>7, MarksRelabel

LEMMA MarkAllReadRelabels ==
    ASSUME NoticeInv, NEW u, mark_all_read(u)
    PROVE  Relabelled
<1>1. \A i \in DOMAIN notices : notices[i] = Row(i) BY DEF NoticeInv, RowsKeyed
<1>2. \A i \in DOMAIN notices :
        [notices[i] EXCEPT !.read = TRUE] = Marked(i, TRUE, notices[i].dismissed)
  BY <1>1, OneMark
<1>3. \A i \in DOMAIN notices : notices[i] = Marked(i, notices[i].read, notices[i].dismissed)
  BY <1>1, OneMark
<1>4. DOMAIN notices' = DOMAIN notices /\ notices' = [j \in DOMAIN notices |-> notices'[j]]
  BY DEF mark_all_read
<1>5. \A i \in DOMAIN notices : \E read, dismissed : notices'[i] = Marked(i, read, dismissed)
  <2>1. SUFFICES ASSUME NEW i \in DOMAIN notices
                 PROVE  \E read, dismissed : notices'[i] = Marked(i, read, dismissed)
    OBVIOUS
  <2>2. CASE i \in Feed(u) BY <2>2, <1>2 DEF mark_all_read
  <2>3. CASE i \notin Feed(u) BY <2>3, <1>3 DEF mark_all_read
  <2>4. QED BY <2>2, <2>3
<1>6. QED BY <1>4, <1>5, MarksRelabel

(* A row added under a key no row has gets a name no row has. *)
LEMMA AddedIsNew ==
    ASSUME NoticeInv, NEW r, ~ source_key_exists(r.key), AddedNotice(r)
    PROVE  /\ <<r.key, 0>> \notin DOMAIN notices
           /\ notices' = [i \in DOMAIN notices \cup {<<r.key, 0>>} |->
                             IF i \in DOMAIN notices THEN notices[i] ELSE NotificationRow(r)]
<1>1. {i \in DOMAIN notices : notices[i].key = r.key} = {} BY DEF source_key_exists
<1>2. Cardinality({i \in DOMAIN notices : notices[i].key = r.key}) = 0
  BY <1>1, FS_EmptySet
<1>3. \A i \in DOMAIN notices : i = <<notices[i].key, 0>> BY DEF NoticeInv, RowsKeyed
<1>4. <<r.key, 0>> \notin DOMAIN notices
  <2>1. SUFFICES ASSUME <<r.key, 0>> \in DOMAIN notices PROVE FALSE OBVIOUS
  <2>2. notices[<<r.key, 0>>].key = r.key BY <2>1, <1>3
  <2>3. QED BY <2>1, <2>2 DEF source_key_exists
<1>5. QED BY <1>2, <1>4 DEF AddedNotice

LEMMA SavedKeepsInv ==
    ASSUME NoticeInv, NEW w \in NoticeWorkers, NoticeSaved(w), UNCHANGED mails
    PROVE  NoticeInv'
<1> DEFINE r == noticing[w]
           mail == [status |-> "mail", key |-> r.key]
<1>1. r.status = "create" BY DEF NoticeSaved
<1>2. CASE source_key_exists(r.key)
  <2>1. noticing' = [noticing EXCEPT ![w] = NoDelivery] /\ notices' = notices
    BY <1>2 DEF NoticeSaved, Handler
  <2>2. QED BY <2>1 DEF NoticeInv, RowsKeyed, Row, HandlersKeyed, MailsOnce, NoDelivery,
                        source_key_exists
<1>3. CASE ~ source_key_exists(r.key)
  <2> DEFINE id == <<r.key, 0>>
             row == NotificationRow(r)
  <2>1. AddedNotice(r) /\ noticing' = [noticing EXCEPT ![w] = mail]
    BY <1>3 DEF NoticeSaved, Handler
  <2>2. /\ id \notin DOMAIN notices
        /\ notices' = [i \in DOMAIN notices \cup {id} |->
                          IF i \in DOMAIN notices THEN notices[i] ELSE row]
    BY <2>1, <1>3, AddedIsNew
  <2>3. /\ GoalKeyed(row.content, row.key) /\ row.key = r.key
        /\ row = [user |-> row.user, content |-> row.content, key |-> row.key,
                  read |-> row.read, dismissed |-> row.dismissed]
    BY <1>1 DEF NoticeInv, HandlersKeyed, NotificationRow
  <2>4. /\ noticing'[w].status = "mail" /\ noticing'[w].key = r.key
        /\ \A x \in NoticeWorkers : x # w => noticing'[x] = noticing[x]
        /\ noticing' = [x \in NoticeWorkers |-> noticing'[x]]
    BY <2>1 DEF NoticeInv, HandlersKeyed
  <2> HIDE DEF id, row, r
  <2>5. RowsKeyed'
    <3>1. \A i \in DOMAIN notices' : \/ i \in DOMAIN notices /\ notices'[i] = notices[i]
                                     \/ i = id /\ notices'[i] = row
      BY <2>2
    <3>2. notices' = [i \in DOMAIN notices' |-> notices'[i]] BY <2>2
    <3>3. SUFFICES ASSUME NEW i \in DOMAIN notices'
                   PROVE  /\ notices'[i] = Row(i)'
                          /\ i = <<notices'[i].key, 0>>
                          /\ GoalKeyed(notices'[i].content, notices'[i].key)
      BY <3>2 DEF RowsKeyed, GoalKeyed
    <3>4. CASE i \in DOMAIN notices /\ notices'[i] = notices[i]
      BY <3>4 DEF NoticeInv, RowsKeyed, Row
    <3>5. CASE i = id /\ notices'[i] = row
      BY <3>5, <2>3 DEF Row, id
    <3>6. QED BY <3>1, <3>4, <3>5
  <2>6. HandlersKeyed' BY <2>4 DEF NoticeInv, HandlersKeyed, GoalKeyed
  <2>7. \A k : k = r.key => source_key_exists(k)' BY <2>2, <2>3 DEF source_key_exists
  <2>8. \A k : source_key_exists(k) => source_key_exists(k)'
    BY <2>2 DEF source_key_exists
  <2>9. r.key \notin DOMAIN mails BY <1>3 DEF NoticeInv, MailsOnce
  <2>10. \A x \in NoticeWorkers : noticing[x].status = "mail" => noticing[x].key # r.key
    BY <1>3 DEF NoticeInv, MailsOnce
  <2>11. MailsOnce'
    BY <2>4, <2>7, <2>8, <2>9, <2>10 DEF NoticeInv, MailsOnce
  <2>12. QED BY <2>5, <2>6, <2>11 DEF NoticeInv
<1>4. QED BY <1>2, <1>3

LEMMA MailedKeepsInv ==
    ASSUME NoticeInv, NEW w \in NoticeWorkers, _send_email_best_effort(w)
    PROVE  NoticeInv'
<1> DEFINE k == noticing[w].key
<1>1. /\ noticing[w].status = "mail" /\ notices' = notices
      /\ noticing' = [noticing EXCEPT ![w] = NoDelivery]
      /\ mails' = mails \/ mails' = mails (+) SetToBag({k})
  BY DEF _send_email_best_effort, Handler
<1>2. k \notin DOMAIN mails /\ source_key_exists(k)
  BY <1>1 DEF NoticeInv, MailsOnce
<1>3. /\ DOMAIN mails' \subseteq DOMAIN mails \cup {k}
      /\ \A j \in DOMAIN mails' : mails'[j] = 1
  <2>1. CASE mails' = mails BY <2>1 DEF NoticeInv, MailsOnce
  <2>2. CASE mails' = mails (+) SetToBag({k})
    BY <2>2, <1>2 DEF NoticeInv, MailsOnce, (+), SetToBag
  <2>3. QED BY <1>1, <2>1, <2>2
<1>4. /\ noticing'[w].status = "none"
      /\ \A x \in NoticeWorkers : x # w => noticing'[x] = noticing[x]
      /\ noticing' = [x \in NoticeWorkers |-> noticing'[x]]
  BY <1>1 DEF NoticeInv, HandlersKeyed, NoDelivery
<1>5. \A j : source_key_exists(j) => source_key_exists(j)'
  BY <1>1 DEF source_key_exists
<1>6. \A x \in NoticeWorkers : x # w /\ noticing[x].status = "mail" => noticing[x].key # k
  BY <1>1 DEF NoticeInv, MailsOnce
<1> HIDE DEF k
<1>7. MailsOnce'
  BY <1>2, <1>3, <1>4, <1>5, <1>6 DEF NoticeInv, MailsOnce
<1>8. RowsKeyed' BY <1>1 DEF NoticeInv, RowsKeyed, Row
<1>9. HandlersKeyed' BY <1>4 DEF NoticeInv, HandlersKeyed
<1>10. QED BY <1>7, <1>8, <1>9 DEF NoticeInv

(* A handler starts on an event, or loses its delivery. *)
LEMMA HandlerKeepsInv ==
    ASSUME NoticeInv, NEW w \in NoticeWorkers, NEW s, UNCHANGED <<notices, mails>>,
           Handler(w, s), s.status # "mail",
           s.status = "create" => GoalKeyed(s.content, s.key)
    PROVE  NoticeInv'
<1>1. /\ noticing'[w] = s
      /\ \A x \in NoticeWorkers : x # w => noticing'[x] = noticing[x]
      /\ noticing' = [x \in NoticeWorkers |-> noticing'[x]]
  BY DEF Handler, NoticeInv, HandlersKeyed
<1>2. RowsKeyed' BY DEF NoticeInv, RowsKeyed, Row
<1>3. HandlersKeyed' BY <1>1 DEF NoticeInv, HandlersKeyed
<1>4. \A k : source_key_exists(k) => source_key_exists(k)' BY DEF source_key_exists
<1>5. MailsOnce' BY <1>1, <1>4 DEF NoticeInv, MailsOnce
<1>6. QED BY <1>2, <1>3, <1>5 DEF NoticeInv

-----------------------------------------------------------------------------
(* The theorems *)

LEMMA FirstNotice == NoticeInit => NoticeInv
BY DEF NoticeInit, NoticeInv, RowsKeyed, HandlersKeyed, MailsOnce, NoDelivery, EmptyBag, SetToBag

LEMMA MoreNotices == NoticeInv /\ [NoticeNext]_noticeVars => NoticeInv'
<1> SUFFICES ASSUME NoticeInv, [NoticeNext]_noticeVars PROVE NoticeInv' OBVIOUS
<1>1. ASSUME NEW u \in Users, post_read_all(u) PROVE NoticeInv'
  BY <1>1, MarkAllReadRelabels, RelabelledKeepsInv DEF post_read_all, FeedRoute
<1>2. ASSUME NEW u \in Users, NEW i, post_read(u, i) PROVE NoticeInv'
  BY <1>2, MarkReadRelabels, RelabelledKeepsInv DEF post_read, FeedRoute
<1>3. ASSUME NEW u \in Users, NEW i, remove_notification(u, i) PROVE NoticeInv'
  BY <1>3, DismissRelabels, RelabelledKeepsInv DEF remove_notification, FeedRoute
<1>4. ASSUME NEW a \in Accounts, AccountDeleted(a) PROVE NoticeInv'
  BY <1>4 DEF AccountDeleted, NoticeInv, RowsKeyed, Row, HandlersKeyed, MailsOnce,
              source_key_exists
<1>5. ASSUME NEW w \in NoticeWorkers, NoticeArrives(w) PROVE NoticeInv'
  <2>1. PICK e \in Events : /\ _dispatch(e).status = "create"
                            /\ Handler(w, _dispatch(e))
                            /\ UNCHANGED <<notices, mails>>
    BY <1>5 DEF NoticeArrives
  <2>2. QED BY <2>1, DispatchKeyed, HandlerKeepsInv
<1>6. ASSUME NEW w \in NoticeWorkers, NoticeSaved(w) PROVE NoticeInv'
  BY <1>6, SavedKeepsInv DEF NoticeSaved
<1>7. ASSUME NEW w \in NoticeWorkers, _send_email_best_effort(w) PROVE NoticeInv'
  BY <1>7, MailedKeepsInv
<1>8. ASSUME NEW w \in NoticeWorkers, NoticeLost(w) PROVE NoticeInv'
  <2>1. NoDelivery.status = "none" BY DEF NoDelivery
  <2>2. QED BY <1>8, <2>1, HandlerKeepsInv DEF NoticeLost
<1>9. CASE UNCHANGED noticeVars
  BY <1>9 DEF noticeVars, NoticeInv, RowsKeyed, Row, HandlersKeyed, MailsOnce, source_key_exists
<1>10. QED BY <1>1, <1>2, <1>3, <1>4, <1>5, <1>6, <1>7, <1>8, <1>9 DEF NoticeNext

THEOREM NoticeInvariance == NoticeSpec => []NoticeInv
BY FirstNotice, MoreNotices, PTL DEF NoticeSpec

(* handle_goal_updated and handle_goal_reached build the same key, _create  *)
(* adds a row only under a key source_key_exists does not find, and mails   *)
(* only after adding it: one notification and at most one mail for every    *)
(* occasion, whatever the events, the handlers and the requests.            *)
THEOREM OccasionsNotifiedOnce == NoticeSpec => []NotifiedOnce
<1>1. NoticeInv => NotifiedOnce
  <2>1. SUFFICES ASSUME NoticeInv PROVE NotifiedOnce OBVIOUS
  <2>2. ASSUME NEW i \in DOMAIN notices, NEW j \in DOMAIN notices,
               \/ notices[i].key = notices[j].key
               \/ SameGoal(notices[i].content, notices[j].content)
        PROVE  i = j
    <3>1. notices[i].key = notices[j].key
      BY <2>1, <2>2 DEF SameGoal, NoticeInv, RowsKeyed, GoalKeyed
    <3>2. QED BY <2>1, <2>2, <3>1 DEF NoticeInv, RowsKeyed
  <2>3. QED BY <2>1, <2>2 DEF NotifiedOnce, NoticeInv, MailsOnce
<1>2. QED BY <1>1, NoticeInvariance, PTL

(* mark_read and mark_all_read write only rows of the feed, dismiss never   *)
(* clears its mark and add overwrites no row: what a user dismissed stays   *)
(* as it was; and unread_count counts what list_for_user lists.             *)
THEOREM DismissedForGood == NoticeSpec => GoneStaysGone
<1> DEFINE Kept == \A i \in DOMAIN notices : notices[i].dismissed =>
                     i \in DOMAIN notices' /\ notices'[i] = notices[i]
           Counted == \A u \in Users : unread_count(u) = Cardinality(list_for_user(u, TRUE))
<1>1. NoticeInv /\ [NoticeNext]_noticeVars => [Kept]_noticeVars
  <2>1. SUFFICES ASSUME NoticeInv, NoticeNext PROVE Kept OBVIOUS
  <2>2. ASSUME NEW u \in Users, post_read_all(u) PROVE Kept
    BY <2>2 DEF post_read_all, mark_all_read, Feed
  <2>3. ASSUME NEW u \in Users, NEW i, post_read(u, i) PROVE Kept
    BY <2>3, <2>1 DEF post_read, mark_read, Feed, NoticeInv, RowsKeyed
  <2>4. ASSUME NEW u \in Users, NEW i, remove_notification(u, i) PROVE Kept
    BY <2>4, <2>1 DEF remove_notification, dismiss, Feed, NoticeInv, RowsKeyed
  <2>5. ASSUME NEW w \in NoticeWorkers, NoticeSaved(w) PROVE Kept
    BY <2>5 DEF NoticeSaved, AddedNotice
  <2>6. CASE UNCHANGED notices BY <2>6
  <2>7. QED BY <2>1, <2>2, <2>3, <2>4, <2>5, <2>6
            DEF NoticeNext, AccountDeleted, NoticeArrives, _send_email_best_effort, NoticeLost
<1>2. Counted
  <2>1. ASSUME NEW u PROVE {i \in Feed(u) : ~ notices[i].read} = list_for_user(u, TRUE)
    BY DEF list_for_user
  <2>2. QED BY <2>1 DEF unread_count
<1>3. QED BY <1>1, <1>2, NoticeInvariance, PTL DEF NoticeSpec, GoneStaysGone

=============================================================================
