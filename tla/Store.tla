------------------------------- MODULE Store -------------------------------
(***************************************************************************)
(* The persisted data of the service and the pure functions on it: the      *)
(* validation of a provider snapshot (internal/service/ingestion.go), the   *)
(* bulk INSERT ... ON CONFLICT DO NOTHING of internal/repository and the    *)
(* SELECTs of its read side.                                                *)
(*                                                                          *)
(* A provider row is a record with a period ("daily" for prices) and a date *)
(* (0 is Go's zero time) and its figures.  A price figure is a float64:     *)
(* an integer in units of 1/100000, an infinity being one that no column    *)
(* can hold, or NaN.  The NUMERIC(18,4) columns hold units of 1/10000.  A   *)
(* table is, per symbol, a set of rows: companies.symbol is UNIQUE, so a    *)
(* symbol stands for its company_id.                                        *)
(***************************************************************************)
EXTENDS Integers, Sequences, FiniteSets

CONSTANTS
    Symbols,     \* normalised stock symbols
    Metas,       \* company metadata (name, exchange, sector, ...)
    NoCompany,   \* no row in companies
    Snapshots,   \* the company snapshots the provider may return
    NaN,         \* the float64 that is not a number
    MaxNumeric   \* bound: the first value a NUMERIC column cannot hold

Tables == {"prices", "income", "balance", "cashflow"}

PriceFigures == {"open", "high", "low", "close"}

\* A snapshot carries the company metadata and one sequence of rows per table;
\* the prices are floats, the volume is an int64.
ASSUME StoreAssumption ==
    /\ NoCompany \notin Metas
    /\ NaN \notin Int /\ MaxNumeric \in Nat
    /\ \A sn \in Snapshots : sn.meta \in Metas
    /\ \A sn \in Snapshots, t \in Tables : \A i \in DOMAIN sn[t] :
          i \in Nat /\ {"period", "date"} \subseteq DOMAIN sn[t][i]
    /\ \A sn \in Snapshots : \A i \in DOMAIN sn["prices"] :
          LET p == sn["prices"][i] IN
          /\ PriceFigures \cup {"volume"} \subseteq DOMAIN p
          /\ \A f \in PriceFigures : p[f] \in Int \cup {NaN}
          /\ p.volume \in Int

-----------------------------------------------------------------------------
(* Validation at the trust boundary.                                        *)

isValidPeriod(p) == p \in {"annual", "quarterly"}

\* The comparisons of floats: one with NaN is false.
Lt(x, y) == NaN \notin {x, y} /\ x < y
Le(x, y) == NaN \notin {x, y} /\ x <= y

\* Mutant: the open is not compared with the high and the low.
ValidPriceOpenUnchecked(p) ==
    /\ p.date # 0
    /\ \A f \in PriceFigures : ~Le(p[f], 0)
    /\ ~Lt(p.high, p.close) /\ ~Lt(p.close, p.low)
    /\ p.volume >= 0

\* Mutant: a price of zero, which is what an unreadable one parses to, is let in.
ValidPriceNonNegative(p) ==
    /\ p.date # 0
    /\ \A f \in PriceFigures : ~Lt(p[f], 0)
    /\ ~Lt(p.high, p.open) /\ ~Lt(p.high, p.close)
    /\ ~Lt(p.open, p.low) /\ ~Lt(p.close, p.low)
    /\ p.volume >= 0

\* validPrices drops a row when a comparison holds: NaN is in none that does.
ValidPrice(p) ==
    /\ p.date # 0
    /\ \A f \in PriceFigures : ~Le(p[f], 0)
    /\ ~Lt(p.high, p.open) /\ ~Lt(p.high, p.close)
    /\ ~Lt(p.open, p.low) /\ ~Lt(p.close, p.low)
    /\ p.volume >= 0

ValidStatement(s) == s.date # 0 /\ isValidPeriod(s.period)

ValidRow(t, r) == IF t = "prices" THEN ValidPrice(r) ELSE ValidStatement(r)

-----------------------------------------------------------------------------
(* Writing.                                                                 *)

\* The UNIQUE constraint of the four tables, within one company.
Key(r) == <<r.period, r.date>>

\* NUMERIC(18,4): the figure is rounded to four decimals when it is stored; NaN
\* is a value of the type.
Numeric(x) == IF x = NaN THEN NaN ELSE (x + 5) \div 10

Stored(t, r) ==
    IF t = "prices"
    THEN [r EXCEPT !.open = Numeric(@), !.high = Numeric(@),
                   !.low = Numeric(@), !.close = Numeric(@)]
    ELSE r

\* The positions of the rows a bulk INSERT keeps of a snapshot: the valid ones,
\* and of several with one key only the first (ON CONFLICT DO NOTHING also
\* resolves conflicts inside one statement).
Kept(t, sn) ==
    {i \in DOMAIN sn[t] :
        /\ ValidRow(t, sn[t][i])
        /\ \A j \in DOMAIN sn[t] :
              j < i /\ ValidRow(t, sn[t][j]) => Key(sn[t][j]) # Key(sn[t][i])}

Batch(t, sn) == {Stored(t, sn[t][i]) : i \in Kept(t, sn)}

\* The columns of type NUMERIC.
NumericColumns(r) == DOMAIN r \ {"period", "date", "volume"}

\* "numeric field overflow": one valid row with a figure outside the range of its
\* column, an infinity included, fails the whole statement, conflicting or not.
Overflows(t, sn) ==
    \E i \in DOMAIN sn[t] :
        LET r == Stored(t, sn[t][i]) IN
        /\ ValidRow(t, sn[t][i])
        /\ \E f \in NumericColumns(r) : Le(MaxNumeric, r[f]) \/ Le(r[f], -MaxNumeric)

\* len(validPrices(...)) = 0 and its three statement siblings.
NoneValid(t, sn) == \A i \in DOMAIN sn[t] : ~ValidRow(t, sn[t][i])

Conflicts(tab, r) == \E x \in tab : Key(x) = Key(r)

\* Mutant: a conflicting row is written, and counted, again.
NewRowsAll(tab, batch) == batch

\* The rows an INSERT adds, whose number is RowsAffected.
NewRows(tab, batch) == {r \in batch : ~Conflicts(tab, r)}

\* Every row that can ever be stored.
Row == UNION {Batch(t, sn) : t \in Tables, sn \in Snapshots}

-----------------------------------------------------------------------------
(* Reading.                                                                 *)

\* ORDER BY: the rows as a sequence, for an order that tells any two apart.
OrderBy(tab, before(_, _)) ==
    [i \in 1 .. Cardinality(tab) |->
        CHOOSE r \in tab : Cardinality({x \in tab : before(x, r)}) = i - 1]

\* WHERE st.period = 'annual'
Annual(tab) == {r \in tab : r.period = "annual"}

\* ORDER BY date DESC LIMIT 1, and its second row.
Newest(tab) == {r \in tab : \A x \in tab : x.date <= r.date}

SecondNewest(tab) == Newest(tab \ Newest(tab))

=============================================================================
