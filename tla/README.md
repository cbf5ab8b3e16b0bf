# Verification of finance-analytics-api in TLA+

The repository is a Go service that ingests company data from a market data
provider into PostgreSQL (`cmd/ingest`) and serves it, with derived ratios and
indicators, over a REST API (`cmd/api`) with a Redis cache, API keys
(`cmd/keygen`) and a Redis rate limiter. This project models everything but the
start-up of `cmd/api`, checks it with TLC on small instances and proves the
safety results with TLAPS for every instance.

## 1. Inventory

| Component | State | Operations | What is hard |
|---|---|---|---|
| Ingestion service (`internal/service/ingestion.go`) | none of its own; locals of one `Ingest` | fetch, upsert company, validate, four bulk inserts, audit, purge | six statements without a transaction; every call may fail, be applied without its reply, or exceed the deadline |
| `cmd/ingest` | symbol list, 5 minute context, `failed` flag | loop over the symbols, exit status | several processes at once, crash and relaunch, deadline in the middle of the list |
| Repository (`internal/repository`) | `companies`, four data tables, `ingestion_runs`, `api_keys` | upsert, `INSERT ... ON CONFLICT DO NOTHING`, `RecordRun`, SELECTs, key lookups | concurrent inserts, duplicates inside one statement, `NUMERIC(18,4)` rounding |
| Query service (`internal/service/analytics.go`, `query.go`) | none; locals of a request | read-through `GetAnalytics`, `GetTechnical`; company, history, statement, compare and screener queries | several SELECTs per request; a cache fill racing with the purge |
| Cache (`internal/cache`) | `analytics:SYM`, `technical:SYM` with a 15 minute TTL | Get, Set, Del | errors are dropped |
| Rate limiter (`internal/rate`) | one Redis counter per key, with or without TTL | `Allow` = INCR, EXPIRE, compare | two commands, lost replies, crash between them |
| API keys (`internal/auth`, `cmd/keygen`) | `api_keys` | create, list, revoke, `Validate` | revocation and expiry during a request, prefix collisions |
| Middleware (`internal/handler/handler.go`) | the request's context | `authRequire`, flood guard, `rateLimit` | fail-open paths, errors that look like bad keys |
| Analytics functions (`internal/analytics`) | none | ratios, SMA, EMA, RSI, volatility | window boundaries, zero and negative denominators |
| Screener (`internal/repository/screener.go`) | none | one filter query | must agree with the analytics of the same rows |
| Provider (`internal/provider`) | none; the answers of one fetch | five HTTP calls, envelope and number parsing | error envelopes with status 200, unparsable numbers as zero |
| `cmd/api` start-up, migrations | schema version | connect, migrate, serve | shared 10 s context, dirty migration |

The ingestion writes the tables the query service reads; both share the cache,
which the ingestion purges (when one is wired) and the query service fills.
`keygen` writes the key table that the middleware reads. All API processes share
the limiter's counters in Redis.

What makes each component correct:

- *Ingestion*: the audit can be believed (a success landed whole, every row is
  counted once, every attempt is recorded), repetition is harmless, nothing
  stored is lost, an exit status of 0 means the list was ingested, a launch ends.
- *Tables*: what is stored of a price does not contradict itself after rounding.
- *Read-through*: only results of stored data of the right symbol are cached;
  old results disappear, at the latest with the TTL.
- *Provider*: a snapshot is whole, and what reaches the tables is what was sent.
- *Queries*: the indicators are the textbook ones and are null for
  want of days; pages, screener and compare agree on the same rows; a failure of the
  database is not told as missing data.
- *Limiter*: at most the limit per window, no refusal before, every window ends.
- *Gateway*: only the holder of a live key passes, pays from its own quota, and
  is answered.

## 2. Modules

| Module | Models | Composes |
|---|---|---|
| `Store` | rows and snapshots, `validPrices` and the statement validators, rounding, `ON CONFLICT DO NOTHING`, the SELECTs | |
| `Ingestion` | processes of `cmd/ingest` in `IngestionService.Ingest` on one database | extends `Store` |
| `Provider` | `FetchCompanySnapshot` as five calls, envelopes, parsing | extends `Ingestion`, implements its atomic `Fetch` |
| `ReadThrough` | requests in `GetAnalytics`/`GetTechnical`, the cache, the effect of the purge | extends `Ingestion` |
| `Indicators` | `internal/analytics`: ratios and series indicators, over exact rationals | |
| `Figures` | every GET endpoint: SELECTs, query service, screener SQL, handlers, statuses | extends `Store`, `Indicators` |
| `FixedWindow` | abstract: what `rate.Limiter` promises | |
| `RateLimiter` | `RedisLimiter.Allow` as INCR and EXPIRE of concurrent callers | implements `FixedWindow` |
| `Gateway` | keygen, `Validate`, flood guard, rate limit, handler | two instances of `FixedWindow` |
| `StoreProofs` | lemmas on ORDER BY and the bulk INSERT | extends `Store` |
| `IngestionProofs` | theorems on the tables and the audit, on prices, exit status and accounting | extends `Ingestion`, `StoreProofs` |
| `ProviderProofs`, `ReadThroughProofs` | theorems | extend their component and the proofs on `Ingestion` |
| `IndicatorsProofs` | lemmas on induction, exact rationals, sums and the recurrences of the indicators | extends `Indicators`, `StoreProofs` |
| `FiguresProofs` | theorems on every endpoint | extends `Figures`, `IndicatorsProofs` |
| `GatewayProofs`, `RateLimiterProofs` | theorems | extend their component |
| `MC*` | constants of the instances | extend the above |

### Store

A provider row is a record with a period (`"daily"` for prices), a date (0 is
Go's zero time) and its figures. A price figure is a `float64`: an integer in units of
1/100000 (an infinity is a number no column can hold) or `NaN`, with which every
comparison (`Lt`, `Le`) is false, so that the negated ones of `validPrices` let it
through; a statement has one value. `ValidRow` are the four validators, `Kept` and
`Batch` what a bulk INSERT makes of a snapshot, `NewRows` what it adds
(`RowsAffected` is their number), `Numeric` the rounding of the columns, which keeps
`NaN`, and `Overflows` the figure outside a column's range that fails the whole INSERT.

### Ingestion

`pc[w]` is the next external call of process `w`: `loop` (main's loop), `fetch`,
`company`, a table, `record` (success audit), `fail` (the fail closure), a cache
key of the purge, or `down`. One action per call outcome: it holds the call, its
effect and the code up to the next call, so the checks after `UpsertCompany`
(no valid price) and the tables left out (`After`) belong to the preceding step.
`run[w]` holds the locals of `Ingest`; where the code keeps the number of
inserted rows the model keeps the rows themselves, which is what lets the
counters be compared with the tables. An error (`Errs`) is immediate when the
context has expired; otherwise it comes from the callee, or from the context
expiring during the call, and the callee may have done its work (`applied`).
An INSERT also fails when a figure overflows its column. `Launch` includes the ping
that may end the process before its loop; `Crash` may happen at any step. `HasCache` is the optional argument of
`NewIngestionService`: `cmd/ingest` passes none.

### Provider

An answer is how the exchange went (`status`), which envelope fields the body
has (`says`) and its payload; `query` is the error the client makes of it.
`got[w]` are the accepted answers of the process's current or last fetch. `Call`
is an HTTP call that is accepted, the fifth of them being the `Fetch` of
`Ingestion` with `SnapshotOf` the five payloads; `CallErr` one that is not, or
that the context ends. `Unparsable` stands for every text `time.Parse` or
`strconv.ParseFloat` refuses: a record without a readable date is dropped, a number
becomes 0 (`parseNum`). The text "NaN" is read as `NaN`. A `Garbled` report, whose own
`json.Unmarshal` fails, is dropped alone. `Int64` is the conversion of a volume: the
decimals are cut off, and what the machine makes of `NaN` and of numbers beyond an
`int64` is the constant `OutOfInt64`, any function to `int64`s.

### ReadThrough

A request is at `rd[r].pc`: the company lookup, one of the SELECTs in code order,
or the store into the cache. A result is represented by the rows it was computed
from; `Result` says which of them the response depends on (the newest and the
previous annual income statement, the newest balance sheet, the newest price; or
the whole price history). A result with a `NaN` in it cannot be encoded and is then not
stored (`MayNotEncode`). `landed` and `late` are history variables: what a key
reads at the moment an Ingest last succeeded (after the purge, or at the success
record when no cache is wired), and whether an entry or fill was there before.

### Indicators and Figures

A `float64` is an exact rational in lowest terms, so that the code's running sums
and recurrences can be compared for equality with closed forms. A call returns
`[err, out]`, as the Go functions do. `Figures` holds one operator per repository
query, service method and handler, with the code's names; `broken` is the set of
SELECTs that fail while a request is served. Its only actions are whole Ingests,
one snapshot of a feed at a time and in any order, which is how a history with
gaps, backfilled years and late quarters comes about; an Ingest without a valid
price stops after the company, as in the code. The feeds hold numbers that can be
stored; what else a feed may hold is in `Store` and `Provider`. `/compare` shows the
symbol and the metrics of each answer only (`CompareItem`). Requests that overlap an Ingest,
and the cache, are in `ReadThrough`, which represents a result by the rows it
depends on; `AnalyticsOfNewestOnly` justifies that representation.

### RateLimiter and FixedWindow

`count` is 0 when Redis has no such key, `armed` says whether the key has a TTL.
`Incr` may count more than one send: go-redis resends a command whose reply does
not arrive within the 300 ms read timeout (its default of retries is not changed
in `cmd/api`). `arming` is the caller between the two commands; the history
variable `cut` holds the keys whose window lost its EXPIRE to a lost reply, an
error or a crash. The refinement
maps the counter, cut at the limit, to the units used.

### Gateway

`Allow` is atomic here, as `FixedWindow` specifies it, lost replies included: one call
may use more than one unit, and a refused or failing one may use units too (`Lost`,
at most `MaxResends`). `dead` is history: the
presented key was revoked or expired when the request arrived. `Create` may lose its
reply, which leaves a key nobody knows. A token's hash is the token itself
(SHA-256 without collisions); prefixes collide in the instances.

## 3. Runs

Passing runs; for each property a plausible bug in the modelled code (a
mutant operator beside the definition) makes TLC find it violated.

| Run | Instance | Shows |
|---|---|---|
| `pipeline` | 2 processes on one symbol, 5 endpoints with up to 10 answers each, provider errors | `TypeOK`, `StoredPricesOrdered`, `RowsAccountedFor`, `EachRowCountedOnce`, `EveryAttemptAudited`, `FetchedWhole`, `StoredPricesWereSent`, `SentIsStored`, `ImplementsFetch` |
| `ingest_restart` | 1 process, 2 launches, 2 lists, 2 snapshots, all faults | `SuccessRunsAreComplete`, `CleanExitMeansIngested`, `HistoryIsFinal`, `ReingestIsNoOp`, `LaunchesEnd` |
| `read_through` | 1 process, 1 request after another, 2 symbols, database and cache errors, crashes | `RTTypeOK`, `CachedFromStored`, `FreshUnlessLate`, `EventuallyFresh` |
| `limiter` | 3 callers, 2 keys, limit 2, all faults | `TypeOK`, `UnarmedIsTransient`, `QuotaKept`, `UncutKeyRecovers` |
| `gateway_keys` | 2 requests, 2 keys and a made-up one with one prefix, database and Redis errors | `TypeOK`, `PassedWithLiveKey`, `QuotaChargedToPresenter`, `RequestsAnswered` |
| `figures` | 5 days of 5 kinds in any order; 2 companies with reports of 3 years and a quarter | `TablesSound`, `IndicatorsMatchDefinition`, `NullsFollowWindows`, `RSIFollowsClose`, `ScreenerMatchesAnalytics`, `CompareMatchesAnalytics`, `PagesAgree`, `FailureIsNotAbsence`, `AnalyticsOfNewestOnly` |

Runs that show where the code and its documentation disagree (the quotes are in
`PROJECT.json`):

| Run | What happens |
|---|---|
| `ingest_audit` | the context expires during `Ingest`; the fail closure records with the expired context, so the attempt is not audited |
| `provider_partial` | the service answers one call with an `Information` notice that does not say "premium": a snapshot with a part missing is ingested and audited as a success |
| `read_stale` | a fill reads before an ingest and stores after its purge: stale for a TTL |
| `limiter_stuck` | the reply to the first INCR is lost; nobody arms the TTL and the key stays refused |
| `gateway_guard` | a database error during the key lookup is a 401 and a strike for a valid key |
| `figures_nulls` | one day without trades, however old, makes the average volume null although the history is long enough |

More disagreements are plain in the model and have no run of their own:

- `cmd/ingest`, the only caller of `Ingest`, wires no cache (`cmd/ingest/main.go:45`),
  although the repository's README (line 158) says that the cache is actively
  purged: in the deployment only the TTL removes old results.
- A failing insert leaves the rows of the tables before it, although
  `docs/DECISIONS.md:72` calls a snapshot one atomic run (`InsertErr`).
- One empty table suffices for a 422, although `analytics.go:59` says "no data
  at all" (`GetAnalytics`).
- `docs/DECISIONS.md:73` and `:80` name a column `ingestion_runs.cash_flow_inserted`;
  neither the migration nor `RecordRun` (`repository.go:153`) has one, so the cash flows
  an Ingest stored are not in the audit (`AuditTables`; `RowsAccountedFor` speaks of the
  three tables that are).
- `ingestion.go:166` says that `validPrices` drops malformed rows, "every row is validated
  at the trust boundary"; a price text "NaN" passes `parseNum` and the negated
  comparisons and is stored (`ValidPrice`). `StoredPricesOrdered` and
  `StoredPricesWereSent` therefore speak of the figures of a row that are numbers, and of
  texts that `ParseFloat` reads.
- `docs/DECISIONS.md:102` and `:135` call a negative P/E valid and `models.go:71` has a
  screener figure null only "when the metric is mathematically undefined"; the screener's
  SQL has no P/E for a negative EPS, and `/analytics` shows it. For a close stored as
  zero the screener has a P/E of 0 and `/analytics` null. `ScreenerMatchesAnalytics`
  speaks of the P/E where there is no loss and the price is above zero.

*Bounds.* Two processes on one symbol meet in every stage, and a third adds no
new pair; the answers overlap in keys, repeat and restate a report, hold
unreadable, undated, garbled, inverted, infinite and `NaN` records and leave a part out,
so that every branch of the client and of `Ingest` is taken; each endpoint has an
accepted answer and every kind of failing one. `MaxNumeric` is 1000, far below the range of the columns, and
`MaxInt64` 8 instead of 2^63, with figures on both sides. Two launches suffice for a
crash followed by a repetition; concurrency under all faults together, and deadlines
between two calls of the client, are what the proofs of section 4 add. One process with
one or two ingests and one request at a time puts a fill before, across and after a
landing, of its own symbol and of another; requests share nothing but the cache,
and with two at once the run exceeds five minutes. In `figures` the windows
20, 50, 200 and 14 are 2, 3, 4 and 2, so that histories of up to five days are
shorter than, as long as and longer than each; the days include one without
trades and one priced below the scale of the column, the statements losses, zero
revenue, zero equity and an older year that arrives last; `MaxCompare` is 2 instead
of 10. The limiter's counter may pass its limit by two and one send may be lost per call
(`MaxCount`, `MaxResends`); in `gateway_keys` the limit is 2 and a call may lose one
reply, so that one request can use up a quota. `MaxLaunches` bounds the relaunches; processes that
have used them up stay down, which is why the ingestion runs do not check
deadlock. `limiter_stuck` does not either: its counters stop at `MaxCount`.
Symmetry of processes is used in safety runs only.

*Fairness.* A started `cmd/ingest` keeps running: its loop has no wait but a bounded
sleep and calls, which end with the five minute context. A call to Redis ends within the
client's 300 ms timeouts, and a TTL elapses. Nothing else is fair: no request has to
arrive, no fault has to happen or to stop, and a counter without TTL is never dropped.
In particular nothing bounds the API's calls to the database: the key lookup
(`auth.go:115`, `keys.go:32`) and the SELECTs run under the request's context, which has
no deadline, and neither `sql.Open` nor the server has timeouts (`cmd/api/main.go:53`,
`:112`). So `EventuallyFresh` holds with requests that hang for ever, and
`RequestsAnswered` says that a request is answered as long as the database answers, with
a row or an error.

## 4. Proofs

All theorems hold for any sets of processes, symbols, snapshots, answers, lists,
requests, callers and keys, any limit and any set of faults. They rest on these
assumptions, which TLC evaluates on every instance:

- `StoreAssumption`: a snapshot has metadata and rows with a period and a date;
  the figures of a price are floats (integers in units of the model, or `NaN`), the
  volume is an integer.
- `IngestionAssumption`, `ReadThroughAssumption`, `RateAssumption`, `GatewayAssumption`,
  `FiguresAssumption`: types of the constants and distinct markers. `GatewayAssumption`
  has finitely many raw keys, which bounds the rows of `api_keys` in the model.
  `FiguresAssumption` also says that the windows are at least 2 (the code's are 20, 50,
  200 and 14): the variance divides by the window less one.
- `FeedAssumption`: a snapshot has finitely many rows, dated by natural numbers, prices
  by the day; all figures are numbers that can be stored, those of statements in the
  scale of their columns.
- `ProviderAssumption`: Ingestion's snapshots are what the client makes of
  accepted answers. `PayloadAssumption`: payloads are JSON, so the time series has
  finitely many records and one per date (it is decoded into a map, and the
  layout `2006-01-02` reads one text per date), and reports are arrays.

*Store.* `StoreProofs` shows what `OrderBy` returns without induction: counting
the elements below an element is one to one (`PrecedingGrows`), hence by the
cardinality theorems every place is taken (`PlacesTaken`), so every `CHOOSE` has a
witness and every element is listed (`ListsAll`). The element at the first place
is the least number of a set (`LeastNumber`), which gives the first failing call
and the first row with a key.

*Ingestion.*

- `IngestionTypes`: `TypeOK`, proved together with `InFlight`, which ties the
  locals of an Ingest to its stage (a symbol always, a snapshot after the fetch,
  nothing between two Ingests). Without it a step could use locals that are not
  there.
- `IngestionHistory`: `HistoryIsFinal`. Lemmas `RowsShape`, `RunsShape`,
  `CompaniesShape` reduce the actions to the few that write a table.
- `SuccessMeansLanded`: `SuccessRunsAreComplete`. Strengthened by `Progress`: an
  Ingest at a given stage has landed the tables before it. `AfterPast` shows that
  only the inserted table and tables without valid rows are passed.
- `Reingest`: `ReingestIsNoOp`, a consequence: what a success covers conflicts.
- `RowsCountedOnce`: `EachRowCountedOnce`. Strengthened by `IdsPast` (audit rows
  belong to Ingests that are over or only purge, so an identity is never
  recorded twice) and `CreditsApart` (rows counted in flight are stored, and
  counted by nobody else). `CreditShape` says that a step only counts rows it
  counted before or has just added.
- `PricesStayOrdered`: `StoredPricesOrdered`, for any floats. Rounding keeps what the
  validators compare (`NumericOrder`): the figures that are numbers are not negative
  and stay ordered, whatever `NaN` is beside them.
- `CleanExit`: `CleanExitMeansIngested`. Strengthened by `CleanSoFar` (every item
  left behind without an error and before the deadline is blank or has its
  success) and `Itemised` (an Ingest is for the item the loop is at, and is
  recorded before it purges). `WalkShape` reduces the actions to staying at an
  item, moving on and starting a list.
- `AttemptsAudited`: `EveryAttemptAudited` when database calls do not fail and the
  context does not expire, which is where the run `ingest_audit` refutes it.
  Provider and cache errors and crashes are admitted.
- `RowsAccounted`: `RowsAccountedFor`; a price, income statement or balance sheet added
  is counted by the step that adds it, and its count reaches the audit (`AddedCredited`, `CreditKept`).

*Provider.*

- `SnapshotIsWholeFetch`: `FetchedWhole`, for whatever the service answers.
  Strengthened by `GotType`: a process that fetches holds at most four answers.
  `Local` and `EnvLocal` say that a step leaves the other processes alone and keeps
  the snapshot until the Ingest is over.
- `ClientImplementsFetch`: the refinement `ImplementsFetch`. The first four calls
  stutter, the fifth is `Fetch` (`CallIsFetch`); hence every theorem about
  `Ingestion` holds of the pipeline with this client.
- `NothingInvented`: `StoredPricesWereSent`. A price of the snapshot is a parsed
  record (`DailyPrices`), and the validators' `<= 0` drops one with a text that parsed to
  zero (`ValidIsReadable`); `NaN` texts and volumes out of range are among the payloads.
- `NothingLost`: `SentIsStored`. Every dated price, and every report that decodes and has a
  date, is in the snapshot (`DailyPrices`, `ParsedReports`, `Statements`), every valid row of the snapshot or an earlier one
  with its key is in the batch (`BatchCovers`), and the batch has landed
  (`Progress` before the success is recorded, `SuccessMeansLanded` after).

*Read-through.*

- `ReadTypes`, `CacheHoldsStoredRows`, `OnlyLateIsStale`: `RTTypeOK`,
  `CachedFromStored` and `FreshUnlessLate`, by one invariant `ReadInv`.
  `RequestsSound` says of a request under way, for the tables it has read, what the
  two properties say of an entry; `LandedStored` says that what landed is stored.
- `CompositionKeepsIngestion`: the composed system is a behaviour of `Ingestion`.

*Limiter and gateway.*

- `LimiterTypes`, `CountersGetArmed`: `TypeOK` and `UnarmedIsTransient`.
- `LimiterImplementsQuota`: the refinement `QuotaKept`. It needs that a caller
  between the two commands has no answer yet, so that its death is a `Forget`.
- `GatewayTypes`: `TypeOK`. Rows are for distinct raw keys (`TokensDistinct`), so by
  the pigeonhole principle their ids stay within `Ids`.
- `AuthenticatedAlive`: `PassedWithLiveKey`, with `DeadStaysDead`: a key that was
  dead when the request arrived has its row, and no step revives it.
- `QuotaBelongsToKey`: `QuotaChargedToPresenter`, from the same invariant, with lost
  replies: a call of the limiter only uses units of its request's key (`LimitCharges`), one
  of the guard none of any key (`GuardCharges`).

*Endpoints.*

- `FailuresAreTold`: `FailureIsNotAbsence`, in every state of the tables: an
  endpoint's answer is its first failing read (`FirstError`), and a broken read is
  `error`, which no wrapper turns into another (`AskedBroken`).
- `CompareIsAnalytics`: `CompareMatchesAnalytics`. The item by item checks refuse
  exactly the lists that are not well formed (`RefusedIs`).

- `TablesStaySound`: `TablesSound`, the inductive invariant behind all that follows:
  finitely many rows of valid snapshots, one per period and date, none without a
  company. The endpoints' agreement is false without it: two rows with one key would
  make "the newest" ambiguous, and the screener's `LATERAL` join and the page's
  `ORDER BY` could take different ones.
- `PagesTogether`: `PagesAgree`. A page lists the stored rows in strictly growing or
  falling rank of date and period (`AscendingIs`, `DescendingIs`), so its last or first
  element is the newest row (`NewestIs`), and a cut page is a proper prefix
  (`CutPage`).
- `OlderRowsAreIgnored`: `AnalyticsOfNewestOnly`. The answer is written as an operator of
  the newest rows alone (`AnalyticsDependsOnNewest`).
- `ScreenerFollowsAnalytics`: `ScreenerMatchesAnalytics`, for any filter. `BaseIs` gives
  a row of the screener in terms of the first rows of the pages.
- `IndicatorsAreTextbook` and `NullsAreExplained`: `IndicatorsMatchDefinition` and
  `NullsFollowWindows`, for every history and all windows, both from `TechnicalShown`.
- `RSIFollowsTheClose`: `RSIFollowsClose`. A new last day appends to the series
  (`DayAppended`) and leaves the earlier averages as they were (`WilderPrefix`); the
  reading is `100 g / (g + l)` of the smoothed gains and losses, which grows with `g`
  and falls with `l` (`ReadingOrder`), and scaling both by the same factor, as a day
  without movement does, leaves it alone (`ReadingScaled`).

*Indicators.* The indicators are recursive functions, and the library's induction
theorems take an operator as a parameter, which the provers cannot instantiate. The
proofs use sets instead: the counterexamples to a claim are a set of naturals, and a
nonempty one has a least element (`Induction` and `Along`, from `LeastNumber`).

- *Recursive functions.* `Recursion` is the existence lemma: a first value and a step
  on an interval are computed by some function, so the `CHOOSE` behind a recursive
  definition has a witness and satisfies its equations (`SumsIs`, `TotalsIs`,
  `RunningIs`, `ExponentialIs`, `WilderIs`; `EuclidExists` and `GcdIs` for the greatest
  common divisor, along the remainders).
- *Rationals.* `Q` reduces to lowest terms without changing the value (`QReduces`,
  `QValue`), so fractions are equal exactly when they cross multiply (`QEqual`); with
  that `Rat` is closed under the four operations, which are commutative, associative
  and distributive (`AddQ`, ..., `Distribute`).
- *Windows.* The running sum of one pass is the sum of the window (`PartSum`,
  `RunningIs`, `MovingIs`).
- *Averages.* EMA and Wilder's smoothing are both `average * keep + value * alpha`;
  `Fading` unrolls that recurrence to the closed form `Decayed`.
- *Volatility.* The sum of squared deviations is the sum of squares less the squared
  sum over the number (`DeviationsSum`, `VarianceIs`).

Only model-checked: liveness under fairness (`LaunchesEnd`, `EventuallyFresh`,
`UncutKeyRecovers`, `RequestsAnswered`), which is beyond the prover. Every invariant,
action property and refinement of the passing runs is a theorem; `EveryAttemptAudited`
with the hypotheses its run has.

## 5. Not modelled

- `cmd/api` start-up and migrations: connects in a straight line under one 10 s
  context, ending the process at the first error before anything is served; the
  migration runner and its dirty flag are a library's, and no code here handles them.
- Binary rounding of `float64`, the square root of the volatility (its square is
  checked) and the rounding of the statement columns.
- What a stored `NaN` does to the indicators and to a JSON answer: the feeds of `Figures`
  hold numbers, and `ReadThrough` has of it that such a result may not be cached.
- JSON layout, logging, HTTP details, and the order of lists by symbol.
- The types of `internal/models`: their fields are those of the records.
- Wirings without `Auth`, `Limiter` or `AuthGuard`, which only tests use.
- `keygen create --expires-in 365d`, as the repository's README writes it, is refused by
  `time.ParseDuration`; it fails before any state changes.

## 6. Plan

The modules above cover the plan's model, and the plan's theorems are proved. What a
change of the code would call for first: `InsertErr` and `Progress` if the inserts of an
Ingest become one transaction, `RecordFailureErr` and `AttemptsAudited` if the fail closure gets
its own context, `NeverStaleAfterIngest` as an invariant of `read_through` if fills are
made to lose against a purge, and `UnarmedIsTransient` if `Allow` becomes one script.
