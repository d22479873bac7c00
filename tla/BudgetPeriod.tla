---------------------------- MODULE BudgetPeriod ----------------------------
(***************************************************************************)
(* The budget calendar every service shares: which inclusive range of days *)
(* the budget month (year, month) covers when an account's months start on *)
(* day start_day, and which budget month a day belongs to.  A date is a    *)
(* triple <<year, month, day>> and a month a pair <<year, month>>; dates   *)
(* compare as Python's do, by year, then month, then day.                  *)
(***************************************************************************)
EXTENDS Integers

MIN_START_DAY == 1
MAX_START_DAY == 28

_clamp_start_day(start_day) ==
  IF start_day > MAX_START_DAY THEN MAX_START_DAY
  ELSE IF start_day < MIN_START_DAY THEN MIN_START_DAY
  ELSE start_day

_prev_month(year, month) ==
  IF month = 1 THEN <<year - 1, 12>> ELSE <<year, month - 1>>

_next_month(year, month) ==
  IF month = 12 THEN <<year + 1, 1>> ELSE <<year, month + 1>>

Leap(year) == year % 4 = 0 /\ (year % 100 # 0 \/ year % 400 = 0)

\* calendar.monthrange: the number of days of a calendar month.
monthrange(year, month) ==
  IF month = 2 THEN (IF Leap(year) THEN 29 ELSE 28)
  ELSE IF month \in {4, 6, 9, 11} THEN 30
  ELSE 31

IsDate(d) ==
  /\ d[1] \in Int
  /\ d[2] \in 1 .. 12
  /\ d[3] \in 1 .. monthrange(d[1], d[2])

\* c <= d for two datetime.date values.
NotAfter(c, d) ==
  \/ c[1] < d[1]
  \/ c[1] = d[1] /\ c[2] < d[2]
  \/ c[1] = d[1] /\ c[2] = d[2] /\ c[3] <= d[3]

\* A mutant: the end of a period includes the first day of the next one.
budget_period_overlapping(year, month, start_day) ==
  LET s == _clamp_start_day(start_day)
      p == _prev_month(year, month)
  IN  IF s = 1
      THEN <<<<year, month, 1>>, <<year, month, monthrange(year, month)>>>>
      ELSE <<<<p[1], p[2], s>>, <<year, month, s>>>>

budget_period(year, month, start_day) ==
  LET s == _clamp_start_day(start_day)
      p == _prev_month(year, month)
  IN  IF s = 1
      THEN <<<<year, month, 1>>, <<year, month, monthrange(year, month)>>>>
      ELSE <<<<p[1], p[2], s>>, <<year, month, s - 1>>>>

determine_budget_month(tx_date, start_day) ==
  LET s == _clamp_start_day(start_day)
  IN  IF s # 1 /\ tx_date[3] >= s
      THEN _next_month(tx_date[1], tx_date[2])
      ELSE <<tx_date[1], tx_date[2]>>

\* The days of a budget month, both ends included.
InPeriod(d, period) == NotAfter(period[1], d) /\ NotAfter(d, period[2])

\* Elasticsearch's date_histogram by calendar month with an offset of
\* start_day - 1 days: the first day of the bucket a date falls in.
date_histogram(d, start_day) ==
  IF d[3] >= start_day
  THEN <<d[1], d[2], start_day>>
  ELSE LET p == _prev_month(d[1], d[2]) IN <<p[1], p[2], start_day>>

histogram_bucket_to_budget_month(bucket_start, start_day) ==
  determine_budget_month(bucket_start, start_day)

=============================================================================
