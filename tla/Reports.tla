------------------------------- MODULE Reports -------------------------------
(***************************************************************************)
(* Balances, the dashboard and the monthly report: a request asks several  *)
(* queries, one after the other, each with the day it needs, and puts the  *)
(* answers together.  No transaction holds them together: a request that a *)
(* commit overtakes shows a mixture of two ledgers, of which nothing is    *)
(* promised and which is left out, so a commit comes between requests.     *)
(* Midnight does not wait, and is promised to make no difference.  An      *)
(* entry's amount is fixed; the recent entries and the budgets a dashboard *)
(* also shows are left out.                                                *)
(***************************************************************************)
EXTENDS Integers, FiniteSets, Functions

CONSTANTS
  Entries, Transfers,        \* numbers of transactions and of transfers
  Cents,                     \* the amount of each
  Category,                  \* a transaction's category
  Listed, Trended,           \* how many a report lists and follows by month (10 and 5)
  Accounts, Main, Opening,   \* the user's accounts, the one that stays, the balances
                             \* they start with
  LastDay, DaysPerMonth,     \* bounds: the days there are; how long a month is
  Spans,                     \* days on a dashboard, months in a report
  None

(* What is assumed of the constants.                                       *)
SetsAssumption == \A S \in {Entries, Transfers, Accounts} : IsFiniteSet(S)
AmountsAssumption == Cents \in [Entries \cup Transfers -> Nat \ {0}]
MainAssumption == Main \in Accounts /\ Opening \in [Accounts -> Int]
DaysAssumption == {LastDay, DaysPerMonth} \cup Spans \subseteq Nat \ {0} /\ {Listed, Trended} \subseteq Nat

VARIABLES
  txs,          \* the transactions: None or [account, kind, day, live]
  moves,        \* the transfers: None or [from, to, day]
  active,       \* the accounts that are active
  today,        \* the day the clock tells
  req           \* None, or the request with the answers it has so far

vars == <<txs, moves, active, today, req>>
ledger == <<txs, moves, active>>

-----------------------------------------------------------------------------
Days == 1..LastDay
Transaction == [account : Accounts, kind : {"income", "expense"}, day : Days, live : BOOLEAN]
Move == {m \in [from : Accounts, to : Accounts, day : Days] : m.from # m.to}

TypeOK ==
  /\ txs \in [Entries -> Transaction \cup {None}]
  /\ moves \in [Transfers -> Move \cup {None}]
  /\ active \in SUBSET Accounts /\ today \in Days

MonthOf(d) == (d - 1) \div DaysPerMonth
FirstOf(month) == month * DaysPerMonth + 1
Sum(S) == SumFunctionOnSet(Cents, S)

(* The queries.  A deleted entry and one of a day to come do not count.    *)
PostedLive(i) == txs[i] # None /\ txs[i].live
PostedAny(i) == txs[i] # None                           \* variant: deleted ones too
Posted(i) == PostedLive(i)
From(a, b) == {i \in Entries : Posted(i) /\ txs[i].day >= a /\ txs[i].day <= b}
Income(S) == Sum({i \in S : txs[i].kind = "income"})
Expense(S) == Sum({i \in S : txs[i].kind = "expense"})
Net(S) == Income(S) - Expense(S)
Opened == SumFunctionOnSet(Opening, Accounts)

ByCategory(S) == [c \in {Category[i] : i \in {j \in S : txs[j].kind = "expense"}} |->
                    Expense({i \in S : Category[i] = c})]

(* The sets the first n can be when totals are sorted, the largest first:  *)
(* which of two equal ones comes first is left to the database.            *)
Largest(totals, n) ==
  {S \in SUBSET DOMAIN totals :
     /\ Cardinality(S) <= n /\ (Cardinality(S) = n \/ S = DOMAIN totals)
     /\ \A c \in S, d \in DOMAIN totals \ S : totals[d] <= totals[c]}

(* total_cents, and what both histories begin with: everything before them.*)
Total(d) == Opened + Net(From(1, d))
BeforeOrOn(d) == Opened + Net(From(1, d))               \* variant: date <= start
Before(d) == Opened + Net(From(1, d - 1))

(* An account's balance: its opening, its entries, what came and what went.*)
InByAnyDay(a, d) == Sum({m \in Transfers : moves[m] # None /\ moves[m].to = a}) \* variant
In(a, d) == Sum({m \in Transfers : moves[m] # None /\ moves[m].to = a /\ moves[m].day <= d})
Out(a, d) == Sum({m \in Transfers : moves[m] # None /\ moves[m].from = a /\ moves[m].day <= d})
Balance(a, d) ==
  Opening[a] + Net({i \in From(1, d) : txs[i].account = a}) + In(a, d) - Out(a, d)
List(d) == [a \in active |-> Balance(a, d)]

-----------------------------------------------------------------------------
(* Requests.  The day is captured when one begins.                         *)
Clock(r) == today                                       \* variant: not captured
Day(r) == r.day
Start(r) == Day(r) - r.span + 1
PreviousEndTouching(r) == Start(r)                      \* variant: one day too late
PreviousEnd(r) == Start(r) - 1
Period(a, b) == [income |-> Income(From(a, b)), expense |-> Expense(From(a, b))]

(* Running sums over days or months, from the balance before the first.    *)
Running(opening, change) ==
  [k \in DOMAIN change |-> opening + SumFunctionOnSet(change, 1..k)]

Dashboard(r) ==
  CASE r.step = 1 -> [summary |-> Period(Start(r), Day(r))]
    [] r.step = 2 -> [previous |-> Period(PreviousEnd(r) - r.span + 1, PreviousEnd(r))]
    [] r.step = 3 -> [categories |-> ByCategory(From(Start(r), Day(r)))]
    [] r.step = 4 -> [accounts |-> List(Day(r))]
    [] r.step = 5 -> [total |-> Total(Day(r))]
    [] r.step = 6 -> [opening |-> Before(Start(r))]
    [] r.step = 7 -> [history |->
          Running(r.opening, [k \in 1..r.span |->
            Net(From(Start(r) + k - 1, Start(r) + k - 1))])]

FirstMonth(r) == MonthOf(Day(r)) - r.span + 1
InMonth(m, d) == {i \in From(FirstOf(m), d) : MonthOf(txs[i].day) = m}

(* Every answer the database may give.                                     *)
Monthly(r) ==
  CASE r.step = 1 -> {[rows |-> [k \in 1..r.span |->
          [income |-> Income(InMonth(FirstMonth(r) + k - 1, Day(r))),
           expense |-> Expense(InMonth(FirstMonth(r) + k - 1, Day(r)))]]]}
    [] r.step = 2 -> LET all == ByCategory(From(FirstOf(FirstMonth(r)), Day(r))) IN
          {[categories |-> Restrict(all, T)] : T \in Largest(all, Listed)}
    [] r.step = 3 -> {[trends |-> [c \in T |-> [k \in 1..r.span |->
          Expense({i \in InMonth(FirstMonth(r) + k - 1, Day(r)) : Category[i] = c})]]] :
            T \in Largest(r.categories, Trended)}
    [] r.step = 4 -> {[opening |-> Before(FirstOf(FirstMonth(r)))]}
    [] r.step = 5 -> {[balances |->
          Running(r.opening, [k \in 1..r.span |->
            Net(InMonth(FirstMonth(r) + k - 1, Day(r)))])]}

Steps == [dashboard |-> 7, monthly |-> 5]

Begin ==
  /\ req = None
  /\ \E page \in DOMAIN Steps, n \in Spans :
       req' = [page |-> page, day |-> today, span |-> n, step |-> 1]
  /\ UNCHANGED <<ledger, today>>

Query ==
  /\ req # None /\ req.step <= Steps[req.page]
  /\ \E answer \in IF req.page = "dashboard" THEN {Dashboard(req)} ELSE Monthly(req) :
       LET asked == [req EXCEPT !.step = @ + 1] IN
       req' = [f \in DOMAIN asked \cup DOMAIN answer |->
                 IF f \in DOMAIN answer THEN answer[f] ELSE asked[f]]
  /\ UNCHANGED <<ledger, today>>

Answer ==
  /\ req # None /\ req.step > Steps[req.page]
  /\ req' = None
  /\ UNCHANGED <<ledger, today>>

-----------------------------------------------------------------------------
(* What other requests do to the ledger.                                   *)
Commit == req = None /\ UNCHANGED <<req, today>>

Add(i, t) ==
  /\ txs[i] = None
  /\ t.live /\ t.day <= today /\ t.account \in active
  /\ txs' = [txs EXCEPT ![i] = t]
  /\ Commit /\ UNCHANGED <<moves, active>>

(* An update that names no account leaves the entry at its own.            *)
Update(i, t) ==
  /\ txs[i] # None /\ txs[i].live
  /\ t.live /\ t.day <= today /\ (t.account \in active \/ t.account = txs[i].account)
  /\ txs' = [txs EXCEPT ![i] = t]
  /\ Commit /\ UNCHANGED <<moves, active>>

Delete(i) ==
  /\ txs[i] # None /\ txs[i].live
  /\ txs' = [txs EXCEPT ![i].live = FALSE]
  /\ Commit /\ UNCHANGED <<moves, active>>

Restore(i) ==
  /\ txs[i] # None /\ ~txs[i].live
  /\ txs[i].day <= today /\ txs[i].account \in active
  /\ txs' = [txs EXCEPT ![i].live = TRUE]
  /\ Commit /\ UNCHANGED <<moves, active>>

AddTransfer(m, v) ==
  /\ moves[m] = None
  /\ v.day <= today /\ {v.from, v.to} \subseteq active
  /\ moves' = [moves EXCEPT ![m] = v]
  /\ Commit /\ UNCHANGED <<txs, active>>

DeleteTransfer(m) ==
  /\ moves[m] # None
  /\ moves' = [moves EXCEPT ![m] = None]
  /\ Commit /\ UNCHANGED <<txs, active>>

Deactivate(a) ==
  /\ a \in active /\ a # Main
  /\ active' = active \ {a}
  /\ Commit /\ UNCHANGED <<txs, moves>>

Midnight ==
  /\ today < LastDay
  /\ today' = today + 1
  /\ UNCHANGED <<ledger, req>>

(* Entries of days to come are there from before they were forbidden.      *)
Init ==
  /\ txs \in [Entries -> {t \in Transaction : t.live} \cup {None}]
  /\ moves \in [Transfers -> Move \cup {None}]
  /\ active = Accounts /\ today \in Days /\ req = None

Next ==
  \/ Begin \/ Query \/ Answer \/ Midnight
  \/ \E i \in Entries : Delete(i) \/ Restore(i) \/ \E t \in Transaction : Add(i, t) \/ Update(i, t)
  \/ \E m \in Transfers : DeleteTransfer(m) \/ \E v \in Move : AddTransfer(m, v)
  \/ \E a \in Accounts : Deactivate(a)

Spec == Init /\ [][Next]_vars

-----------------------------------------------------------------------------
(* Properties.  Each is about a request all of whose queries are answered. *)
Shown(page) == req # None /\ req.page = page /\ req.step > Steps[page]

(* The balance is the sum of the accounts' balances, the ones that are not *)
(* listed any more included: what a transfer takes from one account the    *)
(* other gets, on the same day (total_cents, AccountRepository._select).   *)
AccountsAddUp ==
  Shown("dashboard") =>
    req.total = SumFunction(req.accounts)
                + SumFunction([a \in Accounts \ DOMAIN req.accounts |-> Balance(a, req.day)])

(* The balance chart ends at the balance, and what the period's income and *)
(* expenses leave is what it rises by, also for a request that midnight    *)
(* overtakes (README.md:749): five queries of four modules agree.          *)
ChartMeetsCards ==
  Shown("dashboard") =>
    /\ req.history[req.span] = req.total
    /\ req.summary.income - req.summary.expense = req.total - req.opening

(* The period before is the one that ends where this one begins: no entry  *)
(* is compared with itself, and none falls between them.                   *)
PeriodsMeet ==
  Shown("dashboard") =>
    /\ req.previous.income - req.previous.expense = req.opening - Before(req.day - 2 * req.span + 1)
    /\ req.summary.income + req.previous.income = Income(From(req.day - 2 * req.span + 1, req.day))

(* Month by month the report's balances rise by what its rows say, and end *)
(* at today's balance: months do not overlap, entries of days to come are  *)
(* in neither (monthly_data, monthly_history_cents).                       *)
MonthsChain ==
  Shown("monthly") =>
    /\ \A k \in 1..req.span :
         req.rows[k].income - req.rows[k].expense =
           req.balances[k] - (IF k = 1 THEN req.opening ELSE req.balances[k - 1])
    /\ req.balances[req.span] = Total(req.day)

Shares(r) == SumFunction(r.categories)
Spent(r) == SumFunction([k \in 1..r.span |-> r.rows[k].expense])
InMonths(day, n) == ByCategory(From(FirstOf(MonthOf(day) - n + 1), day))

(* A dashboard's categories add up to its expenses.  A monthly report's,   *)
(* which are the ten largest at most, never exceed the expenses of its     *)
(* rows, and are all of them when they are fewer than ten.  Those followed *)
(* month by month add up to their totals, and no category of these months, *)
(* listed or not, is larger and not followed: each query takes the day by  *)
(* itself (monthly_data, _category_trends).                                *)
CategoriesAddUp ==
  /\ Shown("dashboard") => Shares(req) = req.summary.expense
  /\ Shown("monthly") =>
       /\ Shares(req) <= Spent(req)
       /\ Cardinality(DOMAIN req.categories) < Listed => Shares(req) = Spent(req)
       /\ \A c \in DOMAIN req.trends :
            /\ SumFunction(req.trends[c]) = req.categories[c]
            /\ LET all == InMonths(req.day, req.span) IN
               \A d \in DOMAIN all \ DOMAIN req.trends : all[d] <= req.categories[c]

(* What was deleted counts nowhere, as if it had never been (README.md:234)*)
DeletedCountsNowhere ==
  \A i \in Entries : txs[i] # None /\ ~txs[i].live =>
    /\ i \notin From(1, LastDay)
    /\ Shown("dashboard") =>
         \A k \in 1..req.span : req.history[k] =
           Opened + Net({j \in Entries \ {i} : Posted(j) /\ txs[j].day <= req.day - req.span + k})
=============================================================================
