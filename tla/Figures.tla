------------------------------ MODULE Figures ------------------------------
(***************************************************************************)
(* What the ten GET endpoints answer for what is stored: the SELECTs of     *)
(* internal/repository (read.go, screener.go), the query service and the    *)
(* handlers, with the computations of Indicators.  A request is an operator *)
(* of the tables; broken holds the SELECTs that fail during it.  (The cache *)
(* in front of two of them, and SELECTs that see different states of the    *)
(* tables, are in ReadThrough.)                                             *)
(*                                                                          *)
(* The tables are filled by Ingests, whole ones: the steps inside are in    *)
(* Ingestion.  All figures are numbers that their columns can hold (what    *)
(* NaN and an overflow lead to is in Ingestion, Provider and ReadThrough):  *)
(* those of a statement are in the scale of their columns, those of a price *)
(* keep the rounding of Store.                                              *)
(***************************************************************************)
EXTENDS Store, Indicators

CONSTANTS
    Feeds,       \* the data sets a provider may have: symbol -> snapshots
    RawSymbols,  \* symbols as clients spell them
    Norm,        \* what normalizeSymbol makes of a spelling
    Invalid,     \* ... that IsValidSymbol refuses
    Short,       \* the windows: 20 days in the code,
    Medium,      \* 50,
    Long,        \* 200,
    Period,      \* 14 for the RSI
    MaxCompare,  \* maxCompareSymbols: 10
    Lists,       \* ?symbols of /compare: sequences of spellings
    Criteria     \* values of the numeric parameters of /screener

VARIABLES
    feed,        \* the provider's data set
    companies,   \* symbol -> metadata or NoCompany
    rows         \* table -> symbol -> rows

vars == <<feed, companies, rows>>

ASSUME FiguresAssumption ==
    /\ {Short, Medium, Long, Period} \subseteq Nat \ {0, 1} /\ MaxCompare \in Nat
    /\ Norm \in [RawSymbols -> Symbols \cup {Invalid}]
    /\ Invalid \notin Symbols
    /\ Lists \subseteq Seq(RawSymbols)

\* A provider's rows: finitely many, prices by the day, all figures numbers that
\* can be stored.
ASSUME FeedAssumption ==
    /\ Feeds \subseteq [Symbols -> SUBSET Snapshots]
    /\ \A sn \in Snapshots, t \in Tables :
          /\ IsFiniteSet(DOMAIN sn[t])
          /\ \A i \in DOMAIN sn[t] : sn[t][i].date \in Nat
          /\ ~Overflows(t, sn)
    /\ \A sn \in Snapshots :
          /\ \A i \in DOMAIN sn["prices"] :
                /\ sn["prices"][i].period = "daily"
                /\ \A f \in PriceFigures : sn["prices"][i][f] \in Int
          /\ \A i \in DOMAIN sn["income"] :
                {sn["income"][i][f] : f \in {"revenue", "netIncome", "eps"}} \subseteq Int
          /\ \A i \in DOMAIN sn["balance"] : sn["balance"][i].equity \in Int

-----------------------------------------------------------------------------
(* The read side of the repository.                                         *)

\* A SELECT that fails, and one that returns a sequence of rows.
Ask(select, broken, answer) ==
    IF select \in broken THEN Err("error")
    ELSE IF answer = <<>> THEN Err("ErrNoRows")
    ELSE Ok(answer)

GetCompany(s, broken) ==
    Ask("company", broken, IF companies[s] = NoCompany THEN <<>> ELSE <<companies[s]>>)

\* By date; a year and the quarter that ends with it may come in either order,
\* and nothing below depends on which.
Newer(x, y) == \/ x.date > y.date
               \/ x.date = y.date /\ x.period = "annual" /\ y.period # "annual"

Ascending(tab) == OrderBy(tab, LAMBDA x, y : Newer(y, x))
Descending(tab) == OrderBy(tab, Newer)

AtMostFirst(limit, seq) == IF limit > 0 /\ limit < Len(seq) THEN SubSeq(seq, 1, limit) ELSE seq

\* Mutant: ordered newest first like the statements.
GetPriceHistoryDescending(s, limit, broken) ==
    Ask("prices", broken, AtMostFirst(limit, Descending(rows["prices"][s])))

\* ORDER BY date ASC LIMIT limit; 0 is no limit.
GetPriceHistory(s, limit, broken) ==
    Ask("prices", broken, AtMostFirst(limit, Ascending(rows["prices"][s])))

GetLatestPrice(s, broken) ==
    Ask("latest", broken, AtMostFirst(1, Descending(rows["prices"][s])))

\* GetIncomeStatements, GetBalanceSheets and GetCashFlows.
queryStatements(t, s, period, broken) ==
    Ask(t, broken, Descending({r \in rows[t][s] : period \in {"all", r.period}}))

-----------------------------------------------------------------------------
(* The query service: spelling, missing rows, computations.                 *)

Becomes(r, from, to) == IF r.err = from THEN Err(to) ELSE r

\* Mutant: every error of the store is told as not found.
wrapNotFoundAlways(r) == IF r.err = "nil" THEN r ELSE Err("ErrNotFound")

wrapNotFound(r) == Becomes(r, "ErrNoRows", "ErrNotFound")
insufficientErr(r) == Becomes(r, "ErrNoRows", "ErrInsufficientData")

\* A service method on a spelling a; r is its result for the symbol.
Normalized(a, r) == IF Norm[a] = Invalid THEN Err("ErrInvalidSymbol") ELSE r

\* The error of the first call that fails, or what the last makes of them all.
AllOf(calls, out) ==
    LET failing == {i \in DOMAIN calls : calls[i].err # "nil"}
    IN  IF failing = {} THEN Ok(<<out>>)
        ELSE calls[CHOOSE i \in failing : \A j \in failing : i <= j]

\* Mutant: the previous statement is the last of the page.
MetricsLast(incomes, b, price) ==
    [pe |-> last(PERatio(price, incomes[1].eps)),
     revenueGrowth |-> last(growth(Last(incomes).revenue, incomes[1].revenue))]

\* The nine ratios of the newest annual statements and the newest close.
Metrics(incomes, b, price) ==
    LET cur == incomes[1]
        grown(f) == IF Len(incomes) = 1 THEN Null
                    ELSE last(growth(incomes[2][f], cur[f]))
    IN  [pe |-> last(PERatio(price, cur.eps)),
         pb |-> last(PriceToBook(price, b.equity, b.shares)),
         roe |-> last(ROE(cur.netIncome, b.equity)),
         roa |-> last(ROA(cur.netIncome, b.assets)),
         netMargin |-> last(NetMargin(cur.netIncome, cur.revenue)),
         currentRatio |-> last(CurrentRatio(b.currentAssets, b.currentLiabilities)),
         debtToEquity |-> last(DebtToEquity(b.debt, b.equity)),
         revenueGrowth |-> grown("revenue"),
         earningsGrowth |-> grown("netIncome")]

GetAnalytics(s, broken) ==
    LET incomes == queryStatements("income", s, "annual", broken)
        balances == queryStatements("balance", s, "annual", broken)
        latest == GetLatestPrice(s, broken)
    IN  AllOf(<<wrapNotFound(GetCompany(s, broken)), insufficientErr(incomes),
                insufficientErr(balances), insufficientErr(latest)>>,
              [symbol |-> s, price |-> latest.out[1].close,
               metrics |-> Metrics(incomes.out, balances.out[1], latest.out[1].close)])

Technical(prices) ==
    LET closes == [i \in DOMAIN prices |-> prices[i].close]
        volumes == [i \in DOMAIN prices |-> prices[i].volume]
    IN  [dailyReturn |-> last(DailyReturn(closes)),
         sma20 |-> last(SMA(closes, Short)),
         sma50 |-> last(SMA(closes, Medium)),
         sma200 |-> last(SMA(closes, Long)),
         ema20 |-> last(EMA(closes, Short)),
         rsi14 |-> last(RSI(closes, Period)),
         volatility20 |-> last(volatilitySeries(closes, Short)),
         averageVolume20 |-> last(AverageVolume(volumes, Short))]

GetTechnical(s, broken) ==
    LET prices == GetPriceHistory(s, 0, broken)
    IN  AllOf(<<wrapNotFound(GetCompany(s, broken)), insufficientErr(prices)>>,
              [symbol |-> s, lastDate |-> Last(prices.out).date,
               values |-> Technical(prices.out)])

\* Mutant: a symbol given twice, in two spellings, is not noticed.
CompareDuplicates(raw, broken) ==
    LET results == [i \in DOMAIN raw |-> GetAnalytics(Norm[raw[i]], broken)]
    IN  IF \E i \in DOMAIN raw : Norm[raw[i]] = Invalid \/ i > MaxCompare
        THEN Err("ErrInvalidSymbol")
        ELSE AllOf(results, [i \in DOMAIN results |-> results[i].out[1]])

\* The list is checked before anything is read.
Compare(raw, broken) ==
    LET refused(i) == \/ Norm[raw[i]] = Invalid
                      \/ i > MaxCompare
                      \/ \E j \in 1 .. i - 1 : Norm[raw[j]] = Norm[raw[i]]
        results == [i \in DOMAIN raw |-> GetAnalytics(Norm[raw[i]], broken)]
    IN  IF raw = <<>> \/ \E i \in DOMAIN raw : refused(i)
        THEN Err("ErrInvalidSymbol")
        ELSE AllOf(results, [i \in DOMAIN results |-> results[i].out[1]])

-----------------------------------------------------------------------------
(* The screener's SQL.                                                      *)

\* A row of the CTE base: the LATERAL joins take the newest annual statement,
\* the one before it, the newest annual balance sheet and the newest close;
\* only the first has to exist.
Base(s) ==
    LET i == Newest(Annual(rows["income"][s]))
        pi == SecondNewest(Annual(rows["income"][s]))
        b == Newest(Annual(rows["balance"][s]))
        p == Newest(rows["prices"][s])
        The(set) == CHOOSE x \in set : TRUE
    IN  [symbol |-> s, sector |-> companies[s].sector,
         roe |-> IF b # {} /\ The(b).equity > 0
                 THEN Q(The(i).netIncome, The(b).equity) ELSE Null,
         pe |-> IF p # {} /\ The(i).eps > 0
                THEN Q(The(p).close, The(i).eps) ELSE Null,
         revenueGrowth |-> IF pi # {} /\ The(pi).revenue > 0
                           THEN Q(The(i).revenue - The(pi).revenue, The(pi).revenue)
                           ELSE Null]

\* Mutant: COALESCE(..., 0) around the filtered column.
AboveCoalesced(x, min) == min = Null \/ AtMost(min, IF x = Null THEN Whole(0) ELSE x)

\* roe >= $1: a comparison with NULL does not hold; no criterion, no filter.
Above(x, min) == min = Null \/ (x # Null /\ AtMost(min, x))
Below(x, max) == max = Null \/ (x # Null /\ AtMost(x, max))

\* The rows for a filter, by symbol (their order is left out).
Screener(f) ==
    LET listed == {s \in Symbols : companies[s] # NoCompany /\ Annual(rows["income"][s]) # {}}
    IN  {x \in {Base(s) : s \in listed} :
            /\ f.sector \in {"", x.sector}
            /\ Above(x.roe, f.minROE)
            /\ Below(x.pe, f.maxPE)
            /\ Above(x.revenueGrowth, f.minRevenueGrowth)}

-----------------------------------------------------------------------------
(* The handlers.                                                            *)

\* writeServiceError and writeData.
Status(err) ==
    CASE err = "nil" -> 200
      [] err = "ErrInvalidSymbol" -> 400
      [] err = "ErrNotFound" -> 404
      [] err = "ErrInsufficientData" -> 422
      [] OTHER -> 500

Respond(r) == [code |-> Status(r.err), data |-> r.out]

BadRequest == [code |-> 400, data |-> <<>>]

parsePeriod(v) == IF v = "" THEN "annual" ELSE v

\* ?limit is <<>> when absent; <<0>> also stands for a text that is no number.
parseLimit(v) ==
    CASE v = <<>> -> Ok(0)
      [] v # <<>> /\ v[1] \in 1 .. 1000 -> Ok(v[1])
      [] OTHER -> Err("limit")

company(a, broken) ==
    Respond(Normalized(a, wrapNotFound(GetCompany(Norm[a], broken))))

listCompanies(broken) ==
    IF "companies" \in broken THEN Respond(Err("error"))
    ELSE Respond(Ok({s \in Symbols : companies[s] # NoCompany}))

priceHistory(a, limit, broken) ==
    LET n == parseLimit(limit)
    IN  IF n.err # "nil" THEN BadRequest
        ELSE Respond(Normalized(a, wrapNotFound(GetPriceHistory(Norm[a], n.out, broken))))

\* incomeStatements, balanceSheets and cashFlows.
statements(t, a, period, broken) ==
    IF parsePeriod(period) \notin {"annual", "quarterly", "all"} THEN BadRequest
    ELSE Respond(Normalized(a,
                    wrapNotFound(queryStatements(t, Norm[a], parsePeriod(period), broken))))

analytics(a, broken) == Respond(Normalized(a, GetAnalytics(Norm[a], broken)))
technical(a, broken) == Respond(Normalized(a, GetTechnical(Norm[a], broken)))

\* /compare shows of every result the symbol and the metrics.
CompareItem(r) == [symbol |-> r.symbol, metrics |-> r.metrics]

compare(raw, broken) ==
    LET r == Compare(raw, broken)
    IN  Respond(IF r.err # "nil" THEN r
                ELSE Ok(<<[i \in DOMAIN r.out[1] |-> CompareItem(r.out[1][i])]>>))

\* A criterion is Null when absent and has denominator 0 when it is no number or
\* not finite.
screener(f, broken) ==
    IF \E c \in {f.minROE, f.maxPE, f.minRevenueGrowth} : c # Null /\ c[2] = 0
    THEN BadRequest
    ELSE IF "screener" \in broken THEN Respond(Err("error"))
    ELSE Respond(Ok(Screener(f)))

-----------------------------------------------------------------------------
(* The tables fill.                                                         *)

Init ==
    /\ feed \in Feeds
    /\ companies = [s \in Symbols |-> NoCompany]
    /\ rows = [t \in Tables |-> [s \in Symbols |-> {}]]

\* An Ingest of s without faults; without a valid price it ends after the company.
Ingest(s, sn) ==
    /\ companies' = [companies EXCEPT ![s] = sn.meta]
    /\ rows' = IF NoneValid("prices", sn) THEN rows
               ELSE [t \in Tables |->
                       [rows[t] EXCEPT ![s] = @ \cup NewRows(@, Batch(t, sn))]]
    /\ UNCHANGED feed

Next == \E s \in Symbols : \E sn \in feed[s] : Ingest(s, sn)

Spec == Init /\ [][Next]_vars

-----------------------------------------------------------------------------
(* The indicators by their definitions.                                     *)

Mean(v) == Q(Sum(v), Len(v))
LastOf(v, n) == SubSeq(v, Len(v) - n + 1, Len(v))
Pow(x, n) ==
    LET pow[i \in 0 .. n] == IF i = 0 THEN Whole(1) ELSE Times(pow[i - 1], x)
    IN  pow[n]

\* An exponential average in closed form: the mean of the first n values, then
\* every later value with weight alpha, all of it decaying by 1 - alpha a day.
Decayed(v, n, alpha) ==
    LET m == Len(v) - n
        keep == Minus(Whole(1), alpha)
    IN  Add(Times(Mean(SubSeq(v, 1, n)), Pow(keep, m)),
            Total([i \in 1 .. m |-> Times(Whole(v[n + i]), Times(alpha, Pow(keep, m - i)))]))

\* 100 g / (g + l), and 50 without any movement.
Strength(g, l) ==
    IF Add(g, l) = Whole(0) THEN Whole(50)
    ELSE Over(Times(Whole(100), g), Add(g, l))

\* The sample variance from the sum and the sum of squares.
Variance(x) ==
    LET n == Whole(Len(x))
        sum == Total(x)
        squares == Total([i \in DOMAIN x |-> Times(x[i], x[i])])
    IN  Over(Minus(squares, Over(Times(sum, sum), n)), Minus(n, Whole(1)))

Days(s) == Ascending(rows["prices"][s])
ClosesOf(days) == [i \in DOMAIN days |-> days[i].close]
VolumesOf(days) == [i \in DOMAIN days |-> days[i].volume]

-----------------------------------------------------------------------------
(* Properties.                                                              *)

\* The tables hold rows that were valid when they were ingested, finitely many.
TypeOK ==
    /\ feed \in Feeds
    /\ companies \in [Symbols -> Metas \cup {NoCompany}]
    /\ rows \in [Tables -> [Symbols -> SUBSET Row]]
    /\ \A t \in Tables, s \in Symbols :
          /\ IsFiniteSet(rows[t][s])
          /\ rows[t][s] \subseteq UNION {Batch(t, sn) : sn \in Snapshots}

\* The database every answer is computed from: one row per period and date, and
\* none without a company.
TablesSound ==
    /\ TypeOK
    /\ \A t \in Tables, s \in Symbols : \A x, y \in rows[t][s] : Key(x) = Key(y) => x = y
    /\ \A t \in Tables, s \in Symbols : companies[s] = NoCompany => rows[t][s] = {}

\* Every indicator that /technical shows is the textbook value for the stored
\* history, in whatever order its days were ingested: the running sums, the
\* seeds and the alignment of the windows add nothing and lose nothing.
IndicatorsMatchDefinition ==
    \A s \in Symbols : rows["prices"][s] # {} =>
        LET c == ClosesOf(Days(s))
            v == Technical(Days(s))
            is(x, value) == x # Null => x = value
        IN  /\ is(v.dailyReturn, Q(Last(c) - c[Len(c) - 1], c[Len(c) - 1]))
            /\ is(v.sma20, Mean(LastOf(c, Short)))
            /\ is(v.sma50, Mean(LastOf(c, Medium)))
            /\ is(v.sma200, Mean(LastOf(c, Long)))
            /\ is(v.ema20, Decayed(c, Short, Q(2, Short + 1)))
            /\ is(v.rsi14, Strength(Decayed(Gains(c), Period, Q(1, Period)),
                                    Decayed(Losses(c), Period, Q(1, Period))))
            /\ is(v.volatility20, Variance(LastOf(Returns(c), Short)))
            /\ is(v.averageVolume20, Mean(LastOf(VolumesOf(Days(s)), Short)))

\* Every indicator keeps to its own window, the others' data missing or not: it
\* is null for a history shorter than it needs, also by one day, and it has a
\* value for every history that is long enough and of which every day has a
\* price above zero (for the average volume: a trade).
NullsFollowWindows ==
    \A s \in Symbols : rows["prices"][s] # {} =>
        LET n == Cardinality(rows["prices"][s])
            v == Technical(Days(s))
            priced == \A r \in rows["prices"][s] : r.close > 0
            traded == \A r \in rows["prices"][s] : r.volume > 0
            shown(x, needed, usable) == /\ x # Null => n >= needed
                                        /\ n >= needed /\ usable => x # Null
        IN  /\ shown(v.dailyReturn, 2, priced)
            /\ shown(v.sma20, Short, priced)
            /\ shown(v.sma50, Medium, priced)
            /\ shown(v.sma200, Long, priced)
            /\ shown(v.ema20, Short, priced)
            /\ shown(v.rsi14, Period + 1, priced)
            /\ shown(v.volatility20, Short + 1, priced)
            /\ shown(v.averageVolume20, Short, traded)

\* "sma/ema/avg_vol>=window": the length of a history of prices above zero
\* decides alone whether an indicator has a value.
LengthDecides ==
    \A s \in Symbols : rows["prices"][s] # {} /\ (\A r \in rows["prices"][s] : r.close > 0) =>
        LET n == Cardinality(rows["prices"][s])
            v == Technical(Days(s))
        IN  /\ n >= 2 => v.dailyReturn # Null
            /\ n >= Short => Null \notin {v.sma20, v.ema20, v.averageVolume20}
            /\ n >= Medium => v.sma50 # Null
            /\ n >= Long => v.sma200 # Null
            /\ n >= Period + 1 => v.rsi14 # Null
            /\ n >= Short + 1 => v.volatility20 # Null

RSIOf(prices) == last(RSI(ClosesOf(Ascending(prices)), Period))

\* A reading stays within 0..100, and a new last day moves it the way the close
\* went: a higher close never lowers it, a lower one never raises it, and an
\* equal one leaves it alone.  This holds from the neutral 50 and from the
\* extremes too.
RSIFollowsClose ==
    [][\A s \in Symbols :
          LET before == rows["prices"][s]
              after == rows'["prices"][s]
              old == RSIOf(before)
              new == RSIOf(after)
              close == Last(Days(s)).close
          IN  \A day \in after \ before :
                 /\ before # {} /\ after = before \cup {day}
                 /\ \A r \in before : r.date < day.date
                 /\ old # Null /\ new # Null
                 => /\ AtMost(Whole(0), new) /\ AtMost(new, Whole(100))
                    /\ day.close >= close => AtMost(old, new)
                    /\ day.close <= close => AtMost(new, old)]_vars

Filters ==
    [sector : {""} \cup {m.sector : m \in Metas}, minROE : Criteria, maxPE : Criteria,
     minRevenueGrowth : Criteria]

\* The criteria applied to the figures that /analytics shows for a company.
Meets(r, f) ==
    LET atLeast(x, c) == c = Null \/ (x # Null /\ AtMost(c, x))
    IN  /\ f.sector = "" \/ f.sector = companies[r.symbol].sector
        /\ atLeast(r.metrics.roe, f.minROE)
        /\ f.maxPE = Null \/ (r.metrics.pe # Null /\ AtMost(r.metrics.pe, f.maxPE))
        /\ atLeast(r.metrics.revenueGrowth, f.minRevenueGrowth)

\* /screener answers for a company as /analytics does, r: the figures are the same
\* and decide whether it is listed.  Without samePE that leaves out the P/E.
ScreensAs(r, f, samePE) ==
    LET answer == screener(f, {})
        found == {x \in answer.data : x.symbol = r.symbol}
    IN  IF \E c \in {f.minROE, f.maxPE, f.minRevenueGrowth} : c # Null /\ c[2] = 0
        THEN answer.code = 400
        ELSE /\ \A x \in found :
                   /\ x.sector = companies[r.symbol].sector
                   /\ x.roe = r.metrics.roe
                   /\ x.revenueGrowth = r.metrics.revenueGrowth
                   /\ samePE => x.pe = r.metrics.pe
             /\ samePE \/ f.maxPE = Null => (found # {} <=> Meets(r, f))

\* What the screener's SQL computes for a company and by which it filters is what
\* /analytics computes in Go from the same rows.  Of the P/E this is said where
\* the newest year has no loss and the newest close is above zero: of a loss the
\* SQL has no P/E (diluted_eps > 0), although a negative one is documented as valid.
ScreenerMatchesAnalytics ==
    \A a \in RawSymbols : analytics(a, {}).code = 200 =>
        LET r == analytics(a, {}).data[1]
            eps == statements("income", a, "", {}).data[1].eps
        IN  \A f \in Filters : ScreensAs(r, f, eps >= 0 /\ r.price > 0)

\* What ReadThrough takes a result of /analytics to depend on.
InputsOfAnalytics(s) ==
    <<companies[s] = NoCompany, Newest(Annual(rows["income"][s])),
      SecondNewest(Annual(rows["income"][s])), Newest(Annual(rows["balance"][s])),
      Newest(rows["prices"][s])>>

\* /analytics depends on the two newest annual income statements, the newest
\* annual balance sheet and the newest price only: older years, quarters and
\* days that arrive later never change it.
AnalyticsOfNewestOnly ==
    [][\A s \in Symbols :
          rows' # rows /\ InputsOfAnalytics(s)' = InputsOfAnalytics(s)
              => GetAnalytics(s, {})' = GetAnalytics(s, {})]_vars

\* The SELECTs whose failure is tried, one at a time.
Breaks == {{q} : q \in {"company", "income", "balance", "latest", "prices"}}

\* /compare is all or nothing and agrees with /analytics: a well-formed list is
\* answered with the metrics of the single answers in the order asked, or with the error of the
\* first symbol that has none; any other list is 400 whatever the tables hold.
CompareMatchesAnalytics ==
    \A list \in Lists, broken \in {{}} \cup Breaks :
        LET r == compare(list, broken)
            single == [i \in DOMAIN list |-> analytics(list[i], broken)]
            failing == {i \in DOMAIN list : single[i].code # 200}
            wellFormed == /\ Len(list) \in 1 .. MaxCompare
                          /\ \A i \in DOMAIN list : Norm[list[i]] # Invalid
                          /\ \A i, j \in DOMAIN list : Norm[list[i]] = Norm[list[j]] => i = j
        IN  IF ~wellFormed THEN r.code = 400
            ELSE IF failing = {} THEN /\ r.code = 200
                                      /\ r.data[1] = [i \in DOMAIN list |->
                                                       CompareItem(single[i].data[1])]
            ELSE \E i \in failing : /\ \A j \in failing : i <= j
                                    /\ r.code = single[i].code /\ r.data = <<>>

\* The endpoints tell one story about a symbol.  The list has the companies that
\* have a page of their own; the price history of a symbol, /technical
\* and /analytics have the same last day and price; they are all 404 for an
\* unknown company, and 422 stands for the 404 of the page that is missing.  A
\* page with a limit is the oldest part of the history: it has the current price
\* only when it has everything.  (A limit above 1000 is refused.)
PagesAgree ==
    \A a \in RawSymbols : Norm[a] # Invalid =>
        LET page == priceHistory(a, <<>>, {})
            income == statements("income", a, "", {})
            balance == statements("balance", a, "annual", {})
            ana == analytics(a, {})
            tech == technical(a, {})
        IN  /\ (Norm[a] \in listCompanies({}).data) = (company(a, {}).code = 200)
            /\ company(a, {}).code = 404
                 => {page.code, income.code, ana.code, tech.code} = {404}
            /\ company(a, {}).code = 200
                 => /\ tech.code = IF page.code = 200 THEN 200 ELSE 422
                    /\ ana.code = IF {page.code, income.code, balance.code} = {200}
                                  THEN 200 ELSE 422
            /\ tech.code = 200 => tech.data[1].lastDate = Last(page.data).date
            /\ ana.code = 200 => ana.data[1].price = Last(page.data).close
            /\ page.code = 200 =>
                 \A n \in (1 .. Len(page.data) + 1) \cap (1 .. 1000) :
                     LET part == priceHistory(a, <<n>>, {}).data
                     IN  /\ IsPrefix(part, page.data)
                         /\ (Last(part) = Last(page.data)) = (n >= Len(page.data))

\* A failing SELECT is never told as missing data: the answer is what it would
\* have been, or 500.
FailureIsNotAbsence ==
    \A a \in RawSymbols :
        LET ana == analytics(a, {})
            tech == technical(a, {})
            failed == Respond(Err("error"))
        IN  \A broken \in Breaks :
                /\ analytics(a, broken) \in {failed, ana}
                /\ technical(a, broken) \in {failed, tech}
                /\ company(a, broken) \in {failed, company(a, {})}
                /\ \A t \in Tables \ {"prices"}, p \in {"", "all"} :
                      statements(t, a, p, broken) \in {failed, statements(t, a, p, {})}

=============================================================================
