----------------------------- MODULE CoreModels -----------------------------
(***************************************************************************)
(* The pure algorithms: the checks of the domain model (core/models.py) on *)
(* a chart of accounts and on a book's periods, the diagnostic twin of the *)
(* first (core/validation.py), and the check of a currency conversion      *)
(* (validation/service.py).  Book.__post_init__ runs the first two;        *)
(* LedgerData!ValidBook stands for their result.  What an algorithm is     *)
(* given is the value of a variable that never changes.                    *)
(***************************************************************************)
EXTENDS LedgerData, SequencesExt

CONSTANTS Codes,        \* account codes of the charts below
          MaxAccounts,  \* bound: accounts of a chart
          Names,        \* fiscal periods of the collections below
          MaxDay,       \* bound: days on which a period may start or end
          MaxPeriods,   \* bound: periods of a collection
          MaxUnits,     \* bound: minor units of an amount in a conversion
          Rates,        \* conversion rates n / d, as pairs <<n, d>>
          MinorUnits,   \* what a unit of a currency divides into: 10^digits, for each of them
          Tens,         \* powers of ten: the denominators and the places that are rounded to
          ContextLimit  \* Decimal keeps coefficients below it: 10^28 by default

ASSUME CoreModelsAssumption ==
  /\ None \notin Codes
  /\ {MaxAccounts, MaxDay, MaxPeriods, MaxUnits} \subseteq Nat
  /\ Rates \subseteq Nat \X Tens
  /\ MinorUnits \subseteq Tens
  /\ \A r \in Rates, m \in MinorUnits : r[2] * m \in Tens
  /\ ContextLimit \in Nat /\ ContextLimit >= 10

\* Of two powers of ten the greater is a multiple of the other.
ASSUME TensAssumption ==
  Tens \subseteq Nat \ {0} /\ \A a, b \in Tens : a <= b => b % a = 0

VARIABLE given  \* the argument of the call that is looked at

-----------------------------------------------------------------------------
(* The chart of accounts.                                                  *)

\* What Account(...) accepts: no account is its own parent.
Account == {a \in [code: Codes, parent: Codes \cup {None}] : a.code # a.parent}
Charts == SeqOf(Account, MaxAccounts)

CodesOf(chart) == {chart[i].code : i \in DOMAIN chart}
ParentMap(chart) ==
  [code \in CodesOf(chart) |-> LET i == CHOOSE i \in DOMAIN chart : chart[i].code = code
                               IN chart[i].parent]

FindAccountCycle_WholePath(start, parent) ==
  LET walk[path \in Seq(DOMAIN parent) \ {<<>>}] ==
        LET next == parent[Last(path)]
        IN IF next = None THEN <<>>
           ELSE IF next \in Range(path) THEN Append(path, next) ELSE walk[Append(path, next)]
  IN walk[<<start>>]

\* The walk to the root: empty, or the path from the repeated code back to it.
FindAccountCycle(start, parent) ==
  LET walk[path \in Seq(DOMAIN parent) \ {<<>>}] ==
        LET next == parent[Last(path)]
        IN IF next = None THEN <<>>
           ELSE IF next \in Range(path)
                THEN Append(SubSeq(path, SelectInSeq(path, LAMBDA c : c = next), Len(path)), next)
                ELSE walk[Append(path, next)]
  IN walk[<<start>>]

UniqueCodes(chart) == IsInjective([i \in DOMAIN chart |-> chart[i].code])
ParentsExist(chart) == \A i \in DOMAIN chart : chart[i].parent \in CodesOf(chart) \cup {None}

\* The walks start only when every parent is known.
ValidAccountCollection(chart) ==
  /\ UniqueCodes(chart)
  /\ ParentsExist(chart)
  /\ \A code \in CodesOf(chart) : FindAccountCycle(code, ParentMap(chart)) = <<>>

\* The graph of detect_account_cycles.
AccountDependencyMap(chart) ==
  [code \in CodesOf(chart) |-> {ParentMap(chart)[code]} \ {None}]

\* ftllexengine.analysis.detect_cycles finds something.
HasCycle(graph) ==
  \E nodes \in SUBSET DOMAIN graph :
    nodes # {} /\ \A n \in nodes : graph[n] \cap nodes # {}

-----------------------------------------------------------------------------
(* The periods of a book.                                                  *)

\* What BookPeriod(...) accepts.
BookPeriod == {p \in [period: Names, start: 1..MaxDay, end: 1..MaxDay] : p.start <= p.end}
PeriodCollections == SeqOf(BookPeriod, MaxPeriods)

Earlier(p, q) == p.start < q.start \/ (p.start = q.start /\ p.end < q.end)

UniquePeriods(periods) == IsInjective([i \in DOMAIN periods |-> periods[i].period])

OrderedPeriods_AsGiven(periods) == periods
OrderedPeriods(periods) ==
  LET order == CHOOSE order \in Bijection(DOMAIN periods, DOMAIN periods) :
                 \A n \in 2..Len(periods) :
                   ~Earlier(periods[order[n]], periods[order[n - 1]])
  IN [n \in DOMAIN periods |-> periods[order[n]]]

ValidPeriodCollection(periods) ==
  LET ordered == OrderedPeriods(periods)
  IN /\ UniquePeriods(periods)
     /\ \A n \in 2..Len(ordered) : ordered[n].start > ordered[n - 1].end

-----------------------------------------------------------------------------
(* Currency conversions.                                                   *)

\* The result of a Decimal operation: the exact one, rounded half to even to the
\* digits of the context.  The numbers below are multiplied out by a power of
\* ten, which does not change the digits that are kept.
LastPlace(x) ==
  CHOOSE g \in Tens : /\ x < ContextLimit * g
                      /\ \A h \in Tens : x < ContextLimit * h => g <= h

InContext(x) ==
  LET g == LastPlace(x)
      kept == x \div g
      rest == x % g
  IN IF 2 * rest > g \/ (2 * rest = g /\ kept % 2 = 1) THEN (kept + 1) * g ELSE kept * g

\* base and counter are totals in minor units of their currencies, and the
\* tolerance is one minor unit of the counter currency.
WithinTolerance_Half(gap, unit) == 2 * gap <= unit
WithinTolerance(gap, unit) == gap <= unit

Distance(a, b) == IF a < b THEN b - a ELSE a - b

ValidateFx(base, baseUnits, counter, counterUnits, rate) ==
  IF rate[1] = 0 THEN {"FX_RATE_INVALID"}
  ELSE LET absent == (IF base = 0 THEN {"FX_BASE_CURRENCY_ABSENT"} ELSE {})
                       \cup (IF counter = 0 THEN {"FX_COUNTER_CURRENCY_ABSENT"} ELSE {})
           unit == rate[2] * baseUnits
           expected == InContext(base * rate[1] * counterUnits)
           gap == InContext(Distance(expected, counter * unit))
       IN IF absent # {} THEN absent
          ELSE IF WithinTolerance(gap, unit) THEN {} ELSE {"FX_RATE_MISMATCH"}

Conversions ==
  [base: 1..MaxUnits, rate: Rates, baseUnits: MinorUnits, counterUnits: MinorUnits]

-----------------------------------------------------------------------------
Arguments(of, values) == [of: {of}, value: values]

ModelsInit ==
  given \in {[of |-> "nothing"]} \cup Arguments("accounts", Charts)
             \cup Arguments("periods", PeriodCollections)
             \cup Arguments("conversion", Conversions)

-----------------------------------------------------------------------------
(* Properties.                                                             *)

\* The enforcement of Book.__post_init__ and the diagnostics of core/validation
\* agree: a chart is accepted exactly when its codes are distinct, its parents
\* exist and detect_account_cycles finds nothing; and the path the refusal
\* names is a real cycle of parents (_find_account_cycle).
ChartsAreForests ==
  given.of = "accounts" =>
    LET chart == given.value
    IN /\ ValidAccountCollection(chart)
            <=> /\ UniqueCodes(chart)
                /\ ParentsExist(chart)
                /\ ~HasCycle(AccountDependencyMap(chart))
       /\ UniqueCodes(chart) /\ ParentsExist(chart) =>
            \A code \in CodesOf(chart) :
              LET path == FindAccountCycle(code, ParentMap(chart))
              IN path # <<>> => /\ Last(path) = Head(path)
                                /\ \A n \in 2..Len(path) : path[n] = ParentMap(chart)[path[n - 1]]

\* The comparison of neighbours in start order is enough: a collection of
\* periods is accepted exactly when no day lies in two of them and no fiscal
\* period appears twice (_validate_period_collection).
PeriodsAreDisjoint ==
  given.of = "periods" =>
    LET periods == given.value
        days(i) == periods[i].start..periods[i].end
    IN ValidPeriodCollection(periods)
         <=> \A i, j \in DOMAIN periods : i # j =>
               periods[i].period # periods[j].period /\ days(i) \cap days(j) = {}

\* A conversion booked at the exact amount, rounded up or rounded down to the
\* minor unit of the counter currency is never reported, unless it rounds to
\* nothing; two units more or less always are (validate_fx_conversion).  So it is
\* although the product is rounded to the digits of Decimal's context, as long
\* as the amount itself has no more digits than that.
FxAcceptsRoundings ==
  given.of = "conversion" =>
    LET c == given.value
        exact == c.base * c.rate[1] * c.counterUnits
        unit == c.rate[2] * c.baseUnits
        down == exact \div unit
        up == IF exact % unit = 0 THEN down ELSE down + 1
        report(counter) == ValidateFx(c.base, c.baseUnits, counter, c.counterUnits, c.rate)
    IN c.rate[1] # 0 /\ up < ContextLimit =>
         /\ \A counter \in {down, up} \ {0} : report(counter) = {}
         /\ report(up + 2) = {"FX_RATE_MISMATCH"}
         /\ down > 2 => report(down - 2) = {"FX_RATE_MISMATCH"}
=============================================================================
