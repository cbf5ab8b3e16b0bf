------------------------------ MODULE Provider ------------------------------
(***************************************************************************)
(* The Alpha Vantage client (internal/provider/alpha_vantage.go) inside an  *)
(* Ingest: FetchCompanySnapshot as its five HTTP calls, the error envelopes *)
(* that come with status 200, and the parsing of string-encoded records.    *)
(* The atomic Fetch of Ingestion is what the five calls amount to.          *)
(*                                                                          *)
(* An answer of the service is a record: how the exchange went (status),    *)
(* the envelope fields its body has (says; "garbled" when the payload does  *)
(* not decode) and the payload (data).  A field of a raw record is what     *)
(* ParseFloat or time.Parse reads, an integer in units of 1/100000, NaN for *)
(* the text "NaN" or a date, or Unparsable: empty, "None" or any other text *)
(* they refuse.                                                             *)
(***************************************************************************)
EXTENDS Ingestion

CONSTANTS
    Answers,     \* endpoint -> the answers the service may give
    Unparsable,  \* a text that is not a date or a float
    Garbled,     \* a report that does not decode: a field is no string
    MaxInt64,    \* 2^63, the first number an int64 cannot hold
    OutOfInt64,  \* what the machine makes of NaN and of those it cannot hold
    Empty,       \* a payload with none of the fields the client looks for
    NoMeta       \* the metadata such an OVERVIEW decodes into

VARIABLE got     \* per process: the accepted answers of its last fetch

\* The calls of FetchCompanySnapshot in their order, and the part of the
\* snapshot each one fills.
Endpoints ==
    <<"OVERVIEW", "TIME_SERIES_DAILY", "INCOME_STATEMENT", "BALANCE_SHEET", "CASH_FLOW">>

PartOf == [OVERVIEW |-> "meta", TIME_SERIES_DAILY |-> "prices",
           INCOME_STATEMENT |-> "income", BALANCE_SHEET |-> "balance",
           CASH_FLOW |-> "cashflow"]

-----------------------------------------------------------------------------
(* One call.                                                                *)

\* The error of query, or "nil".  An Information field without the word
\* "premium" is not an error: its body decodes into an empty payload.
query(a) ==
    CASE a.status = "no reply" -> "ErrProviderFailed"
      [] a.status = "429" -> "ErrRateLimited"
      [] a.status # "200" -> "ErrProviderFailed"
      [] "Note" \in a.says -> "ErrRateLimited"
      [] "Error Message" \in a.says -> "ErrInvalidSymbol"
      [] "Information: premium" \in a.says -> "ErrProviderFailed"
      [] "garbled" \in a.says -> "ErrProviderFailed"
      [] OTHER -> "nil"

parseNum(x) == IF x = Unparsable THEN 0 ELSE x

\* The decimals are cut off, toward zero.
Truncate(x) == IF x >= 0 THEN x \div 100000 ELSE -((-x) \div 100000)

\* int64(x): the language leaves the result open when x is not in the range.
Int64(x) ==
    IF x = NaN THEN OutOfInt64["NaN"]
    ELSE IF Truncate(x) >= MaxInt64 THEN OutOfInt64["above"]
    ELSE IF Truncate(x) < -MaxInt64 THEN OutOfInt64["below"]
    ELSE Truncate(x)

-----------------------------------------------------------------------------
(* What an accepted payload becomes.                                        *)

\* json.Unmarshal leaves the zero value in a field the body does not have.
Decoded(data, zero) == IF data = Empty THEN zero ELSE data

\* The symbol is the one asked for, whatever the body says.
fetchCompany(data) == Decoded(data, NoMeta)

parsePrice(rec) ==
    [period |-> "daily", date |-> rec.date, open |-> parseNum(rec.open),
     high |-> parseNum(rec.high), low |-> parseNum(rec.low),
     close |-> parseNum(rec.close), volume |-> Int64(parseNum(rec.volume))]

\* The time series is a JSON object: a record per date, in no order.
fetchDailyPrices(data) ==
    LET dated == {rec \in Decoded(data, {}) : rec.date # Unparsable}
    IN  OrderBy({parsePrice(rec) : rec \in dated}, LAMBDA p, q : p.date < q.date)

\* parseIncome, parseBalance and parseCashFlow return ok for a record that decodes
\* and has a fiscal date; one without figures has zeros.
Parses(rec) == rec # Garbled /\ rec.date # Unparsable

parseStatement(rec, period) ==
    [period |-> period, date |-> rec.date, val |-> parseNum(rec.val)]

parseAll(recs, period) ==
    LET ok == {j \in DOMAIN recs : Parses(recs[j])}
        order == OrderBy(ok, LAMBDA i, j : i < j)
    IN  [k \in 1 .. Cardinality(ok) |-> parseStatement(recs[order[k]], period)]

NoReports == [annual |-> <<>>, quarterly |-> <<>>]

\* Mutant: only the annual reports are returned.
fetchStatementsAnnual(data) == parseAll(Decoded(data, NoReports).annual, "annual")

fetchStatements(data) ==
    LET raw == Decoded(data, NoReports)
    IN  parseAll(raw.annual, "annual") \o parseAll(raw.quarterly, "quarterly")

\* The snapshot of five accepted answers.
SnapshotOf(answers) ==
    [meta |-> fetchCompany(answers[1].data),
     prices |-> fetchDailyPrices(answers[2].data),
     income |-> fetchStatements(answers[3].data),
     balance |-> fetchStatements(answers[4].data),
     cashflow |-> fetchStatements(answers[5].data)]

AcceptedBy(i) == {a \in Answers[Endpoints[i]] : query(a) = "nil"}

\* Ingestion's Snapshots are what this client can return.
ASSUME ProviderAssumption ==
    /\ MaxInt64 \in Nat
    /\ OutOfInt64 \in [{"NaN", "above", "below"} -> -MaxInt64 .. MaxInt64 - 1]
    /\ \A i \in 1 .. 5 : Endpoints[i] \in DOMAIN Answers
    /\ \A a \in AcceptedBy(1), b \in AcceptedBy(2), c \in AcceptedBy(3),
          d \in AcceptedBy(4), e \in AcceptedBy(5) :
             SnapshotOf(<<a, b, c, d, e>>) \in Snapshots

\* The payloads are JSON: the time series is an object, decoded into a map with
\* one record per date; the reports are arrays.
ASSUME PayloadAssumption ==
    /\ \A a \in AcceptedBy(2) :
          /\ IsFiniteSet(Decoded(a.data, {}))
          /\ \A x, y \in Decoded(a.data, {}) :
                x.date # Unparsable => x.date \in Int /\ (x.date = y.date => x = y)
    /\ \A i \in 3 .. 5 : \A a \in AcceptedBy(i), part \in {"annual", "quarterly"} :
          LET recs == Decoded(a.data, NoReports)[part]
          IN  Len(recs) \in Nat /\ DOMAIN recs = 1 .. Len(recs)

-----------------------------------------------------------------------------
(* FetchCompanySnapshot.                                                    *)

providerVars == <<ingestVars, got>>

\* The answers the service may give to the process's next call.
MayAnswer(w) == Answers[Endpoints[Len(got[w]) + 1]]

BeginFetch(w) == Begin(w) /\ got' = [got EXCEPT ![w] = <<>>]

\* Mutant: the error of query is not looked at.
CallUnchecked(w, a) ==
    /\ pc[w] = "fetch"
    /\ got' = [got EXCEPT ![w] = Append(@, a)]
    /\ IF Len(got[w]) < 4 THEN Completes(w) /\ UNCHANGED ingestVars
                          ELSE Fetch(w, SnapshotOf(got'[w]))

\* A call whose answer is accepted; after the fifth the snapshot is returned.
Call(w, a) ==
    /\ pc[w] = "fetch"
    /\ query(a) = "nil"
    /\ got' = [got EXCEPT ![w] = Append(@, a)]
    /\ IF Len(got[w]) < 4 THEN Completes(w) /\ UNCHANGED ingestVars
                          ELSE Fetch(w, SnapshotOf(got'[w]))

\* Mutant: a failed fetch is returned to main without a record of the run.
CallErrUnrecorded(w) ==
    /\ FetchErrUnrecorded(w)
    /\ ctxDone'[w] \/ \E a \in MayAnswer(w) : query(a) # "nil"
    /\ UNCHANGED got

\* A call that fails, by its answer or by the context, ends the fetch.
CallErr(w) ==
    /\ FetchErr(w)
    /\ ctxDone'[w] \/ \E a \in MayAnswer(w) : query(a) # "nil"
    /\ UNCHANGED got

ProviderStep(w) ==
    \/ BeginFetch(w)
    \/ pc[w] = "fetch" /\ \E a \in MayAnswer(w) : Call(w, a)
    \/ CallErr(w)
    \/ ProcStep(w) /\ pc[w] # "fetch" /\ pc'[w] # "fetch" /\ UNCHANGED got

ProviderInit == Init /\ got = [w \in Procs |-> <<>>]

ProviderNext ==
    \E w \in Procs : ProviderStep(w) \/ (EnvStep(w) /\ UNCHANGED got)

\* Every call ends within the client's 30 s timeout.
ProviderSpec ==
    /\ ProviderInit
    /\ [][ProviderNext]_providerVars
    /\ \A w \in Procs : WF_providerVars(ProviderStep(w))

-----------------------------------------------------------------------------
(* Properties.                                                              *)

\* The five calls are the atomic Fetch of Ingestion: whatever is shown there for
\* any set of snapshots holds with this client.
ImplementsFetch == Spec

\* An Ingest works on the answers to all five calls of its own fetch, none of
\* which was an error, and on nothing else.
FetchedWhole ==
    \A w \in Procs :
        /\ \A i \in 1 .. Len(got[w]) : got[w][i] \in AcceptedBy(i)
        /\ pc[w] \in Stages \ {"fetch", "fail"} =>
              Len(got[w]) = 5 /\ run[w].snap = SnapshotOf(got[w])

SentPrices == UNION {Decoded(a.data, {}) : a \in AcceptedBy(2)}

\* Every stored price is a record the service sent, with all four of its prices
\* readable: a text that parses to zero never gets past the validators.  (An
\* unreadable volume does: it is stored as zero.  So does the text "NaN", which
\* ParseFloat reads.)
StoredPricesWereSent ==
    \A s \in Symbols : \A p \in rows["prices"][s] :
        \E rec \in SentPrices :
            /\ rec.date = p.date
            /\ \A f \in PriceFigures : rec[f] # Unparsable /\ Numeric(rec[f]) = p[f]
            /\ p.volume = Int64(parseNum(rec.volume))

\* The keys of the reports the i-th answer carries, those that parse.
SentReports(w, i) ==
    LET raw == Decoded(got[w][i].data, NoReports)
    IN  UNION {{<<p, raw[p][j].date>> : j \in {k \in DOMAIN raw[p] : Parses(raw[p][k])}} :
                 p \in {"annual", "quarterly"}}

\* When a run is about to be recorded as a success, every report that decodes and
\* has a fiscal date, and every priced day, that the service sent to it is in the
\* tables: beyond the records the parsers refuse one by one, nothing is lost
\* between the wire and the database.
SentIsStored ==
    \A w \in Procs : pc[w] \in {"record"} \cup Kinds =>
        /\ \A i \in 3 .. 5 : \A k \in SentReports(w, i) : k[2] # 0 =>
              \E r \in rows[PartOf[Endpoints[i]]][run[w].sym] : Key(r) = k
        /\ \A rec \in Decoded(got[w][2].data, {}) :
              rec.date # Unparsable /\ ValidPrice(parsePrice(rec)) =>
                 \E r \in rows["prices"][run[w].sym] : r.date = rec.date

\* "a failure in any endpoint fails the whole snapshot": a snapshot is only
\* returned when no answer was an error message of the service.
FailureFailsSnapshot ==
    \A w \in Procs : pc[w] \in Stages \ {"fetch", "fail"} =>
        \A i \in 1 .. 5 : got[w][i].says = {}

=============================================================================
