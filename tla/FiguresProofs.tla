--------------------------- MODULE FiguresProofs ---------------------------
(***************************************************************************)
(* Proofs about the answers of the endpoints, for any tables, symbols,      *)
(* spellings and lists.                                                     *)
(***************************************************************************)
EXTENDS Figures, IndicatorsProofs

-----------------------------------------------------------------------------
(* Results and their codes.                                                 *)

\* A result that is an error carries nothing.
IsResult(r) == r.err # "nil" => r = Err(r.err)

\* Only a result without an error is answered with 200.
LEMMA CodeOf ==
    ASSUME NEW err
    PROVE  /\ Status("nil") = 200 /\ Status("ErrInvalidSymbol") = 400
           /\ err # "nil" => Status(err) # 200
<1>1. Status("nil") = 200
  BY Zenon DEF Status
<1>2. Status("ErrInvalidSymbol") = 400
  BY DEF Status
<1>3. ASSUME err # "nil" PROVE Status(err) # 200
  BY <1>3 DEF Status
<1> QED
  BY <1>1, <1>2, <1>3

\* Reading a record of a result.
LEMMA ResultFields ==
    ASSUME NEW x
    PROVE  /\ Ok(x).err = "nil" /\ Ok(x).out = x /\ Err(x).err = x /\ Err(x).out = <<>>
           /\ IsResult(Ok(x)) /\ IsResult(Err(x))
BY DEF Ok, Err, IsResult

\* A SELECT, and what the service makes of its result.
LEMMA Asked ==
    ASSUME NEW select, NEW broken, NEW answer
    PROVE  /\ IsResult(Ask(select, broken, answer))
           /\ IsResult(wrapNotFound(Ask(select, broken, answer)))
           /\ IsResult(insufficientErr(Ask(select, broken, answer)))
BY ResultFields DEF Ask, wrapNotFound, insufficientErr, Becomes

\* A SELECT that fails is an error of its own.
LEMMA AskedBroken ==
    ASSUME NEW select, NEW broken, select \in broken, NEW answer
    PROVE  /\ Ask(select, broken, answer) = Err("error")
           /\ wrapNotFound(Ask(select, broken, answer)) = Err("error")
           /\ insufficientErr(Ask(select, broken, answer)) = Err("error")
BY ResultFields DEF Ask, wrapNotFound, insufficientErr, Becomes

\* One that does not answers as if none did.
LEMMA AskedWhole ==
    ASSUME NEW select, NEW broken, select \notin broken, NEW answer
    PROVE  Ask(select, broken, answer) = Ask(select, {}, answer)
BY DEF Ask

\* Several calls: the error of the first that fails, or the result.
LEMMA FirstError ==
    ASSUME NEW calls, \A i \in DOMAIN calls : i \in Nat, NEW out
    PROVE  \/ /\ \A i \in DOMAIN calls : calls[i].err = "nil"
              /\ AllOf(calls, out) = Ok(<<out>>)
           \/ \E m \in DOMAIN calls :
                 /\ calls[m].err # "nil"
                 /\ \A j \in DOMAIN calls : calls[j].err # "nil" => m <= j
                 /\ AllOf(calls, out) = calls[m]
<1> DEFINE failing == {i \in DOMAIN calls : calls[i].err # "nil"}
           least == CHOOSE i \in failing : \A j \in failing : i <= j
<1>1. AllOf(calls, out) = IF failing = {} THEN Ok(<<out>>) ELSE calls[least]
  BY DEF AllOf
<1>2. CASE failing = {}
  BY <1>1, <1>2
<1>3. CASE failing # {}
  <2>1. failing \in SUBSET Nat
    OBVIOUS
  <2>2. PICK k \in failing : TRUE
    BY <1>3
  <2> HIDE DEF failing
  <2>3. \E m \in failing : \A j \in failing : m <= j
    BY <2>1, <2>2, LeastNumber
  <2>4. least \in failing /\ \A j \in failing : least <= j
    BY <2>3
  <2> HIDE DEF least
  <2> QED
    BY <1>1, <1>3, <2>4 DEF failing
<1> QED
  BY <1>2, <1>3

\* The two calls of /technical.
LEMMA AllOfTwo ==
    ASSUME NEW a, NEW b, NEW out
    PROVE  AllOf(<<a, b>>, out) =
             IF a.err # "nil" THEN a ELSE IF b.err # "nil" THEN b ELSE Ok(<<out>>)
<1> DEFINE calls == <<a, b>>
<1>1. DOMAIN calls = {1, 2} /\ calls[1] = a /\ calls[2] = b
  OBVIOUS
<1> HIDE DEF calls
<1>2. AllOf(calls, out) =
        IF a.err # "nil" THEN a ELSE IF b.err # "nil" THEN b ELSE Ok(<<out>>)
  BY <1>1, FirstError
<1> QED
  BY <1>2 DEF calls

\* The four calls of /analytics.
LEMMA AllOfFour ==
    ASSUME NEW a, NEW b, NEW c, NEW d, NEW out
    PROVE  AllOf(<<a, b, c, d>>, out) =
             IF a.err # "nil" THEN a ELSE IF b.err # "nil" THEN b
             ELSE IF c.err # "nil" THEN c ELSE IF d.err # "nil" THEN d ELSE Ok(<<out>>)
<1> DEFINE calls == <<a, b, c, d>>
<1>1. /\ DOMAIN calls = {1, 2, 3, 4}
      /\ calls[1] = a /\ calls[2] = b /\ calls[3] = c /\ calls[4] = d
  OBVIOUS
<1> HIDE DEF calls
<1>2. AllOf(calls, out) =
        IF a.err # "nil" THEN a ELSE IF b.err # "nil" THEN b
        ELSE IF c.err # "nil" THEN c ELSE IF d.err # "nil" THEN d ELSE Ok(<<out>>)
  BY <1>1, FirstError
<1> QED
  BY <1>2 DEF calls

-----------------------------------------------------------------------------
(* A failing SELECT is not missing data.                                    *)

\* The four reads of /analytics.
CompanyRead(s, broken) == wrapNotFound(GetCompany(s, broken))
IncomeRead(s, broken) == insufficientErr(queryStatements("income", s, "annual", broken))
BalanceRead(s, broken) == insufficientErr(queryStatements("balance", s, "annual", broken))
LatestRead(s, broken) == insufficientErr(GetLatestPrice(s, broken))
PricesRead(s, broken) == insufficientErr(GetPriceHistory(s, 0, broken))

\* GetAnalytics as the first error of the four.
LEMMA AnalyticsIs ==
    ASSUME NEW s, NEW broken
    PROVE  \E out :
             GetAnalytics(s, broken) =
               IF CompanyRead(s, broken).err # "nil" THEN CompanyRead(s, broken)
               ELSE IF IncomeRead(s, broken).err # "nil" THEN IncomeRead(s, broken)
               ELSE IF BalanceRead(s, broken).err # "nil" THEN BalanceRead(s, broken)
               ELSE IF LatestRead(s, broken).err # "nil" THEN LatestRead(s, broken)
               ELSE Ok(<<out>>)
BY AllOfFour DEF GetAnalytics, CompanyRead, IncomeRead, BalanceRead, LatestRead

\* Its result is well formed.
LEMMA AnalyticsResult ==
    ASSUME NEW s, NEW broken
    PROVE  IsResult(GetAnalytics(s, broken))
<1>1. /\ IsResult(CompanyRead(s, broken)) /\ IsResult(IncomeRead(s, broken))
      /\ IsResult(BalanceRead(s, broken)) /\ IsResult(LatestRead(s, broken))
  BY Asked DEF CompanyRead, IncomeRead, BalanceRead, LatestRead, GetCompany,
     queryStatements, GetLatestPrice
<1>2. PICK out :
        GetAnalytics(s, broken) =
          IF CompanyRead(s, broken).err # "nil" THEN CompanyRead(s, broken)
          ELSE IF IncomeRead(s, broken).err # "nil" THEN IncomeRead(s, broken)
          ELSE IF BalanceRead(s, broken).err # "nil" THEN BalanceRead(s, broken)
          ELSE IF LatestRead(s, broken).err # "nil" THEN LatestRead(s, broken)
          ELSE Ok(<<out>>)
  BY AnalyticsIs
<1> QED
  BY <1>1, <1>2, ResultFields

\* The tables of a database of which one SELECT fails.
LEMMA OneBroken ==
    ASSUME NEW s, NEW q \in {"company", "income", "balance", "latest", "prices"}
    PROVE  /\ q # "company" => GetCompany(s, {q}) = GetCompany(s, {})
           /\ q = "company" => CompanyRead(s, {q}) = Err("error")
           /\ \A t \in Tables \ {q} : \A p :
                 queryStatements(t, s, p, {q}) = queryStatements(t, s, p, {})
           /\ q = "income" => IncomeRead(s, {q}) = Err("error")
           /\ q = "balance" => BalanceRead(s, {q}) = Err("error")
           /\ q # "latest" => GetLatestPrice(s, {q}) = GetLatestPrice(s, {})
           /\ q = "latest" => LatestRead(s, {q}) = Err("error")
           /\ q # "prices" => GetPriceHistory(s, 0, {q}) = GetPriceHistory(s, 0, {})
           /\ q = "prices" => PricesRead(s, {q}) = Err("error")
<1>1. q # "company" => GetCompany(s, {q}) = GetCompany(s, {})
  BY AskedWhole DEF GetCompany
<1>2. q = "company" => CompanyRead(s, {q}) = Err("error")
  BY AskedBroken DEF CompanyRead, GetCompany
<1>3. ASSUME NEW t \in Tables \ {q}, NEW p
      PROVE  queryStatements(t, s, p, {q}) = queryStatements(t, s, p, {})
  BY <1>3, AskedWhole DEF queryStatements
<1>4. q = "income" => IncomeRead(s, {q}) = Err("error")
  BY AskedBroken DEF IncomeRead, queryStatements
<1>5. q = "balance" => BalanceRead(s, {q}) = Err("error")
  BY AskedBroken DEF BalanceRead, queryStatements
<1>6. q # "latest" => GetLatestPrice(s, {q}) = GetLatestPrice(s, {})
  BY AskedWhole DEF GetLatestPrice
<1>7. q = "latest" => LatestRead(s, {q}) = Err("error")
  BY AskedBroken DEF LatestRead, GetLatestPrice
<1>8. q # "prices" => GetPriceHistory(s, 0, {q}) = GetPriceHistory(s, 0, {})
  BY AskedWhole DEF GetPriceHistory
<1>9. q = "prices" => PricesRead(s, {q}) = Err("error")
  BY AskedBroken DEF PricesRead, GetPriceHistory
<1> QED
  BY <1>1, <1>2, <1>3, <1>4, <1>5, <1>6, <1>7, <1>8, <1>9

\* /analytics with one SELECT failing.
LEMMA AnalyticsBroken ==
    ASSUME NEW s, NEW q \in {"company", "income", "balance", "latest", "prices"}
    PROVE  GetAnalytics(s, {q}) \in {Err("error"), GetAnalytics(s, {})}
<1> DEFINE c(b) == CompanyRead(s, b)
           i(b) == IncomeRead(s, b)
           l(b) == BalanceRead(s, b)
           p(b) == LatestRead(s, b)
           first(b, out) == IF c(b).err # "nil" THEN c(b) ELSE IF i(b).err # "nil" THEN i(b)
                            ELSE IF l(b).err # "nil" THEN l(b) ELSE IF p(b).err # "nil" THEN p(b)
                            ELSE Ok(<<out>>)
<1>1. PICK x : GetAnalytics(s, {q}) = first({q}, x)
  BY AnalyticsIs
<1>2. PICK y : GetAnalytics(s, {}) = first({}, y)
  BY AnalyticsIs
<1>3. "income" \in Tables /\ "balance" \in Tables
  BY DEF Tables
<1>4. q # "company" => c({q}) = c({})
  BY OneBroken DEF CompanyRead
<1>5. q # "income" => i({q}) = i({})
  BY <1>3, OneBroken DEF IncomeRead
<1>6. q # "balance" => l({q}) = l({})
  BY <1>3, OneBroken DEF BalanceRead
<1>7. CASE q = "prices"
  <2>1. /\ GetCompany(s, {q}) = GetCompany(s, {})
        /\ queryStatements("income", s, "annual", {q}) = queryStatements("income", s, "annual", {})
        /\ queryStatements("balance", s, "annual", {q}) = queryStatements("balance", s, "annual", {})
        /\ GetLatestPrice(s, {q}) = GetLatestPrice(s, {})
    BY <1>3, <1>7, OneBroken
  <2> QED
    BY <2>1 DEF GetAnalytics
<1>8. Err("error").err = "error"
  BY ResultFields
<1>9. /\ q = "company" => c({q}) = Err("error")
      /\ q = "income" => i({q}) = Err("error")
      /\ q = "balance" => l({q}) = Err("error")
      /\ q = "latest" => p({q}) = Err("error")
  BY OneBroken
<1> HIDE DEF c, i, l, p
<1>10. CASE q = "company"
  BY <1>1, <1>8, <1>9, <1>10
<1>11. CASE q = "income"
  BY <1>1, <1>2, <1>4, <1>8, <1>9, <1>11
<1>12. CASE q = "balance"
  BY <1>1, <1>2, <1>4, <1>5, <1>8, <1>9, <1>12
<1>13. CASE q = "latest"
  BY <1>1, <1>2, <1>4, <1>5, <1>6, <1>8, <1>9, <1>13
<1> QED
  BY <1>7, <1>10, <1>11, <1>12, <1>13

\* /technical with one SELECT failing.
LEMMA TechnicalBroken ==
    ASSUME NEW s, NEW q \in {"company", "income", "balance", "latest", "prices"}
    PROVE  GetTechnical(s, {q}) \in {Err("error"), GetTechnical(s, {})}
<1> DEFINE c(b) == CompanyRead(s, b)
           p(b) == PricesRead(s, b)
           first(b, out) == IF c(b).err # "nil" THEN c(b)
                            ELSE IF p(b).err # "nil" THEN p(b) ELSE Ok(<<out>>)
<1>1. PICK x : GetTechnical(s, {q}) = first({q}, x)
  BY AllOfTwo DEF GetTechnical, CompanyRead, PricesRead
<1>2. PICK y : GetTechnical(s, {}) = first({}, y)
  BY AllOfTwo DEF GetTechnical, CompanyRead, PricesRead
<1>3. q # "company" => c({q}) = c({})
  BY OneBroken DEF CompanyRead
<1>4. Err("error").err = "error"
  BY ResultFields
<1>5. /\ q = "company" => c({q}) = Err("error")
      /\ q = "prices" => p({q}) = Err("error")
  BY OneBroken
<1>6. CASE q \notin {"company", "prices"}
  <2>1. /\ GetCompany(s, {q}) = GetCompany(s, {})
        /\ GetPriceHistory(s, 0, {q}) = GetPriceHistory(s, 0, {})
    BY <1>6, OneBroken
  <2> QED
    BY <2>1 DEF GetTechnical
<1> HIDE DEF c, p
<1>7. CASE q = "company"
  BY <1>1, <1>4, <1>5, <1>7
<1>8. CASE q = "prices"
  BY <1>1, <1>2, <1>3, <1>4, <1>5, <1>8
<1> QED
  BY <1>6, <1>7, <1>8

\* A company's own page, and the pages of statements.
LEMMA PlainBroken ==
    ASSUME NEW s, NEW q \in {"company", "income", "balance", "latest", "prices"}
    PROVE  /\ CompanyRead(s, {q}) \in {Err("error"), CompanyRead(s, {})}
           /\ \A t \in Tables : \A p :
                 wrapNotFound(queryStatements(t, s, p, {q})) \in
                    {Err("error"), wrapNotFound(queryStatements(t, s, p, {}))}
<1>1. CompanyRead(s, {q}) \in {Err("error"), CompanyRead(s, {})}
  BY OneBroken DEF CompanyRead
<1>2. ASSUME NEW t \in Tables, NEW p
      PROVE  wrapNotFound(queryStatements(t, s, p, {q})) \in
                {Err("error"), wrapNotFound(queryStatements(t, s, p, {}))}
  <2>1. CASE t = q
    BY <2>1, AskedBroken DEF queryStatements
  <2>2. CASE t # q
    BY <2>2, OneBroken
  <2> QED
    BY <2>1, <2>2
<1> QED
  BY <1>1, <1>2

\* In every state of the tables a failing SELECT is told as a failure or not felt.
LEMMA FailureTold == FailureIsNotAbsence
<1> DEFINE failed == Respond(Err("error"))
           told(a, b) ==
               /\ analytics(a, b) \in {failed, analytics(a, {})}
               /\ technical(a, b) \in {failed, technical(a, {})}
               /\ company(a, b) \in {failed, company(a, {})}
               /\ \A t \in Tables \ {"prices"}, p \in {"", "all"} :
                     statements(t, a, p, b) \in {failed, statements(t, a, p, {})}
<1>a. SUFFICES \A a \in RawSymbols, b \in Breaks : told(a, b)
  BY Zenon DEF FailureIsNotAbsence
<1> HIDE DEF told
<1>b. SUFFICES ASSUME NEW a \in RawSymbols,
                      NEW q \in {"company", "income", "balance", "latest", "prices"}
               PROVE  told(a, {q})
  BY DEF Breaks
<1> USE DEF told
<1>0. ASSUME NEW x, NEW y, x \in {Err("error"), y}
      PROVE  Respond(Normalized(a, x)) \in {failed, Respond(Normalized(a, y))}
  BY <1>0 DEF Normalized
<1>1. analytics(a, {q}) \in {failed, analytics(a, {})}
  BY <1>0, AnalyticsBroken DEF analytics
<1>2. technical(a, {q}) \in {failed, technical(a, {})}
  BY <1>0, TechnicalBroken DEF technical
<1>3. company(a, {q}) \in {failed, company(a, {})}
  BY <1>0, PlainBroken DEF company, CompanyRead
<1>4. ASSUME NEW t \in Tables \ {"prices"}, NEW p \in {"", "all"}
      PROVE  statements(t, a, p, {q}) \in {failed, statements(t, a, p, {})}
  <2> DEFINE r(b) == wrapNotFound(queryStatements(t, Norm[a], parsePeriod(p), b))
  <2>1. r({q}) \in {Err("error"), r({})}
    BY PlainBroken
  <2> HIDE DEF r
  <2>2. Respond(Normalized(a, r({q}))) \in {failed, Respond(Normalized(a, r({})))}
    BY <2>1 DEF Normalized
  <2> QED
    BY <2>2 DEF statements, r
<1> QED
  BY <1>1, <1>2, <1>3, <1>4

\* A SELECT that fails is never told to a client as missing data, on no endpoint
\* and whatever the tables hold.
THEOREM FailuresAreTold == Spec => []FailureIsNotAbsence
BY FailureTold, PTL

-----------------------------------------------------------------------------
(* /compare is /analytics for each symbol.                                  *)

\* The lists that Compare does not refuse.
WellFormed(list) ==
    /\ Len(list) \in 1 .. MaxCompare
    /\ \A i \in DOMAIN list : Norm[list[i]] # Invalid
    /\ \A i, j \in DOMAIN list : Norm[list[i]] = Norm[list[j]] => i = j

\* The checks of Compare on one item of the list.
Refused(list, i) ==
    \/ Norm[list[i]] = Invalid
    \/ i > MaxCompare
    \/ \E j \in 1 .. i - 1 : Norm[list[j]] = Norm[list[i]]

\* Checking item by item finds every list that is not well formed.
LEMMA RefusedIs ==
    ASSUME NEW list \in Seq(RawSymbols)
    PROVE  WellFormed(list) <=> ~(list = <<>> \/ \E i \in DOMAIN list : Refused(list, i))
<1> DEFINE n == Len(list)
<1>1. n \in Nat /\ DOMAIN list = 1 .. n /\ (list = <<>> <=> n = 0)
  BY EmptySeq, LenProperties
<1>2. MaxCompare \in Nat
  BY FiguresAssumption
<1> HIDE DEF n
<1>3. ASSUME n # 0, \A i \in 1 .. n : ~Refused(list, i)
      PROVE  WellFormed(list)
  <2>1. n \in 1 .. MaxCompare
    BY <1>1, <1>2, <1>3 DEF Refused
  <2>2. \A i \in 1 .. n : Norm[list[i]] # Invalid
    BY <1>3 DEF Refused
  <2>3. ASSUME NEW i \in 1 .. n, NEW j \in 1 .. n, Norm[list[i]] = Norm[list[j]]
        PROVE  i = j
    <3>1. \A k \in 1 .. n, m \in 1 .. n : k < m => Norm[list[k]] # Norm[list[m]]
      <4> SUFFICES ASSUME NEW k \in 1 .. n, NEW m \in 1 .. n, k < m
                   PROVE  Norm[list[k]] # Norm[list[m]]
        OBVIOUS
      <4>1. k \in 1 .. m - 1
        BY <1>1
      <4> QED
        BY <1>3, <4>1 DEF Refused
    <3>2. i < j \/ j < i \/ i = j
      BY <1>1
    <3> QED
      BY <2>3, <3>1, <3>2
  <2> QED
    BY <1>1, <2>1, <2>2, <2>3 DEF WellFormed, n
<1>4. ASSUME WellFormed(list)
      PROVE  n # 0 /\ \A i \in 1 .. n : ~Refused(list, i)
  <2>1. n \in 1 .. MaxCompare
    BY <1>4 DEF WellFormed, n
  <2>2. ASSUME NEW i \in 1 .. n, NEW j \in 1 .. i - 1, Norm[list[j]] = Norm[list[i]]
        PROVE  FALSE
    <3>1. j \in 1 .. n /\ j # i
      BY <1>1
    <3> QED
      BY <1>1, <1>4, <2>2, <3>1 DEF WellFormed
  <2>3. \A i \in 1 .. n : ~(i > MaxCompare)
    BY <1>1, <1>2, <2>1
  <2>4. \A i \in 1 .. n : Norm[list[i]] # Invalid
    BY <1>1, <1>4 DEF WellFormed
  <2> QED
    BY <1>2, <2>1, <2>2, <2>3, <2>4 DEF Refused
<1> QED
  BY <1>1, <1>3, <1>4

\* In every state of the tables /compare agrees with /analytics.
LEMMA CompareAgrees == CompareMatchesAnalytics
<1> SUFFICES ASSUME NEW list \in Lists, NEW broken \in {{}} \cup Breaks
             PROVE  LET r == compare(list, broken)
                        single == [i \in DOMAIN list |-> analytics(list[i], broken)]
                        failing == {i \in DOMAIN list : single[i].code # 200}
                        wellFormed ==
                            /\ Len(list) \in 1 .. MaxCompare
                            /\ \A i \in DOMAIN list : Norm[list[i]] # Invalid
                            /\ \A i, j \in DOMAIN list : Norm[list[i]] = Norm[list[j]] => i = j
                    IN  IF ~wellFormed THEN r.code = 400
                        ELSE IF failing = {} THEN
                             /\ r.code = 200
                             /\ r.data[1] = [i \in DOMAIN list |->
                                               CompareItem(single[i].data[1])]
                        ELSE \E i \in failing : /\ \A j \in failing : i <= j
                                                /\ r.code = single[i].code /\ r.data = <<>>
  BY Zenon DEF CompareMatchesAnalytics
<1> DEFINE r == compare(list, broken)
           single == [i \in DOMAIN list |-> analytics(list[i], broken)]
           failing == {i \in DOMAIN list : single[i].code # 200}
           results == [i \in DOMAIN list |-> GetAnalytics(Norm[list[i]], broken)]
           out == [i \in DOMAIN results |-> results[i].out[1]]
           items == [i \in DOMAIN out |-> CompareItem(out[i])]
<1> SUFFICES /\ ~WellFormed(list) => r.code = 400
             /\ WellFormed(list) /\ failing = {} =>
                  /\ r.code = 200
                  /\ r.data[1] = [i \in DOMAIN list |-> CompareItem(single[i].data[1])]
             /\ WellFormed(list) /\ failing # {} =>
                  \E i \in failing : /\ \A j \in failing : i <= j
                                     /\ r.code = single[i].code /\ r.data = <<>>
  BY Zenon DEF WellFormed
<1>1. list \in Seq(RawSymbols) /\ \A i \in DOMAIN list : i \in Nat
  BY FiguresAssumption
<1>2. Compare(list, broken) = IF list = <<>> \/ \E i \in DOMAIN list : Refused(list, i)
                              THEN Err("ErrInvalidSymbol") ELSE AllOf(results, out)
  BY DEF Compare, Refused
<1>3. CASE ~WellFormed(list)
  <2>1. Compare(list, broken) = Err("ErrInvalidSymbol")
    BY <1>1, <1>2, <1>3, RefusedIs
  <2>2. r = Respond(Err("ErrInvalidSymbol"))
    BY <2>1, ResultFields DEF compare
  <2>3. r.code = 400
    BY <2>2, CodeOf, ResultFields DEF Respond
  <2> QED
    BY <1>3, <2>3
<1>4. CASE WellFormed(list)
  <2>1. Compare(list, broken) = AllOf(results, out)
    BY <1>1, <1>2, <1>4, RefusedIs
  <2> DEFINE all == AllOf(results, out)
  <2>2. r = Respond(IF all.err # "nil" THEN all
                    ELSE Ok(<<[i \in DOMAIN all.out[1] |-> CompareItem(all.out[1][i])]>>))
    BY <2>1 DEF compare
  <2>3. \A i \in DOMAIN list :
           single[i].code = Status(results[i].err) /\ single[i].data = results[i].out
    BY <1>4 DEF analytics, Respond, Normalized, WellFormed
  <2>4. \A i \in DOMAIN list : IsResult(results[i])
    BY AnalyticsResult
  <2>5. DOMAIN results = DOMAIN list
    OBVIOUS
  <2>6. items = [i \in DOMAIN list |-> CompareItem(single[i].data[1])]
    BY <2>3, <2>5
  <2> HIDE DEF results, single, out, items, r, all
  <2>7. \A i \in DOMAIN list : i \in failing <=> results[i].err # "nil"
    BY <2>3, CodeOf
  <2>8. CASE /\ \A i \in DOMAIN results : results[i].err = "nil"
             /\ AllOf(results, out) = Ok(<<out>>)
    <3>1. failing = {}
      BY <2>5, <2>7, <2>8
    <3>2. r = Respond(Ok(<<items>>))
      <4>1. all.err = "nil" /\ all.out = <<out>> /\ all.out[1] = out
        BY <2>8, ResultFields DEF all
      <4> QED
        BY <2>2, <4>1 DEF items
    <3>3. r.code = 200 /\ r.data[1] = items
      BY <3>2, CodeOf, ResultFields DEF Respond
    <3> QED
      BY <1>4, <2>6, <3>1, <3>3
  <2>9. CASE \E m \in DOMAIN results :
               /\ results[m].err # "nil"
               /\ \A j \in DOMAIN results : results[j].err # "nil" => m <= j
               /\ AllOf(results, out) = results[m]
    <3>1. PICK m \in DOMAIN list :
             /\ results[m].err # "nil"
             /\ \A j \in DOMAIN list : results[j].err # "nil" => m <= j
             /\ AllOf(results, out) = results[m]
      BY <2>5, <2>9
    <3>2. m \in failing /\ \A j \in failing : m <= j
      BY <2>7, <3>1
    <3>6. r = Respond(results[m])
      BY <2>2, <3>1 DEF all
    <3>3. r.code = single[m].code
      BY <2>3, <3>1, <3>6 DEF Respond
    <3>4. results[m].out = <<>>
      BY <2>4, <3>1, ResultFields DEF IsResult
    <3>5. r.data = <<>>
      BY <3>4, <3>6 DEF Respond
    <3> QED
      BY <1>4, <3>2, <3>3, <3>5
  <2> QED
    BY <1>1, <2>5, <2>8, <2>9, FirstError
<1> QED
  BY <1>3, <1>4

\* For any list and any tables, /compare answers the single answers of
\* /analytics in the order asked, or the error of the first that has one, and
\* refuses exactly the lists that are not well formed.
THEOREM CompareIsAnalytics == Spec => []CompareMatchesAnalytics
BY CompareAgrees, PTL

-----------------------------------------------------------------------------
(* The tables are sound.                                                    *)

\* What a snapshot contributes is finite and storable.
LEMMA BatchTypes ==
    ASSUME NEW t \in Tables, NEW sn \in Snapshots
    PROVE  /\ IsFiniteSet(Batch(t, sn)) /\ Batch(t, sn) \subseteq Row
           /\ Batch(t, sn) \subseteq UNION {Batch(t, z) : z \in Snapshots}
<1> DEFINE f == [i \in Kept(t, sn) |-> Stored(t, sn[t][i])]
<1>1. IsFiniteSet(DOMAIN sn[t])
  BY FeedAssumption
<1>2. IsFiniteSet(Kept(t, sn))
  BY <1>1, Kept(t, sn) \in SUBSET DOMAIN sn[t], FS_Subset DEF Kept
<1>3. f \in Surjection(Kept(t, sn), Batch(t, sn))
  BY DEF Surjection, Batch
<1>4. IsFiniteSet(Batch(t, sn))
  BY <1>2, <1>3, FS_Surjection
<1>5. Batch(t, sn) \in {Batch(u, z) : u \in Tables, z \in Snapshots}
  OBVIOUS
<1>6. Batch(t, sn) \in {Batch(t, z) : z \in Snapshots}
  OBVIOUS
<1> QED
  BY <1>4, <1>5, <1>6 DEF Row

\* The empty tables are sound.
LEMMA SoundInit == Init => TablesSound
<1> SUFFICES ASSUME Init PROVE TablesSound
  OBVIOUS
<1>1. TypeOK
  BY FS_EmptySet DEF Init, TypeOK
<1> QED
  BY <1>1 DEF Init, TablesSound

\* An Ingest adds rows with keys of their own, for a company it has written.
LEMMA SoundStep == TablesSound /\ [Next]_vars => TablesSound'
<1> SUFFICES ASSUME TablesSound, [Next]_vars PROVE TablesSound'
  OBVIOUS
<1>1. CASE UNCHANGED vars
  BY <1>1 DEF vars, TablesSound, TypeOK
<1>2. CASE Next
  <2>1. PICK s \in Symbols : \E sn \in feed[s] : Ingest(s, sn)
    BY <1>2 DEF Next
  <2>2. PICK sn \in feed[s] : Ingest(s, sn)
    BY <2>1
  <2>3. sn \in Snapshots /\ sn.meta \in Metas
    BY FeedAssumption, StoreAssumption DEF TablesSound, TypeOK
  <2>4. ASSUME NEW t \in Tables, NEW z \in Symbols
        PROVE  /\ z # s => rows'[t][z] = rows[t][z]
               /\ \/ rows'[t][z] = rows[t][z]
                  \/ rows'[t][z] = rows[t][z] \cup NewRows(rows[t][z], Batch(t, sn))
    BY <2>2 DEF Ingest, TablesSound, TypeOK
  <2>5. DOMAIN rows' = Tables /\ \A t \in Tables : DOMAIN rows'[t] = Symbols
    BY <2>2 DEF Ingest, TablesSound, TypeOK
  <2>6. rows' = [t \in Tables |-> rows'[t]] /\ \A t \in Tables : rows'[t] = [z \in Symbols |-> rows'[t][z]]
    BY <2>2 DEF Ingest, TablesSound, TypeOK
  <2>7. ASSUME NEW t \in Tables, NEW z \in Symbols
        PROVE  /\ rows'[t][z] \in SUBSET Row /\ IsFiniteSet(rows'[t][z])
               /\ rows'[t][z] \subseteq UNION {Batch(t, x) : x \in Snapshots}
               /\ \A x, y \in rows'[t][z] : Key(x) = Key(y) => x = y
    <3> DEFINE new == NewRows(rows[t][z], Batch(t, sn))
    <3>1. new \in SUBSET Batch(t, sn) /\ \A x \in rows[t][z], y \in new : Key(x) # Key(y)
      BY DEF NewRows, Conflicts
    <3>2. /\ IsFiniteSet(rows[t][z]) /\ rows[t][z] \subseteq Row
          /\ rows[t][z] \subseteq UNION {Batch(t, x) : x \in Snapshots}
          /\ \A x, y \in rows[t][z] : Key(x) = Key(y) => x = y
      BY DEF TablesSound, TypeOK
    <3>3. IsFiniteSet(new)
      BY <2>3, <3>1, BatchTypes, FS_Subset
    <3>4. IsFiniteSet(rows[t][z] \cup new)
      BY <3>2, <3>3, FS_Union
    <3>5. \A x, y \in new : Key(x) = Key(y) => x = y
      BY <2>3, <3>1, BatchKeysUnique
    <3>6. new \subseteq Row /\ new \subseteq UNION {Batch(t, x) : x \in Snapshots}
      BY <2>3, <3>1, BatchTypes
    <3> HIDE DEF new
    <3>7. rows'[t][z] = rows[t][z] \/ rows'[t][z] = rows[t][z] \cup new
      BY <2>4 DEF new
    <3> QED
      BY <3>1, <3>2, <3>4, <3>5, <3>6, <3>7
  <2>8. /\ feed' \in Feeds
        /\ companies' \in [Symbols -> Metas \cup {NoCompany}]
        /\ \A z \in Symbols : companies'[z] = IF z = s THEN sn.meta ELSE companies[z]
    BY <2>2, <2>3 DEF Ingest, TablesSound, TypeOK
  <2>9. rows' \in [Tables -> [Symbols -> SUBSET Row]]
    BY <2>6, <2>7
  <2>10. TypeOK'
    BY <2>7, <2>8, <2>9 DEF TypeOK
  <2>11. ASSUME NEW t \in Tables, NEW z \in Symbols, companies'[z] = NoCompany
         PROVE  rows'[t][z] = {}
    <3>1. z # s
      BY <2>3, <2>8, <2>11, StoreAssumption
    <3> QED
      BY <2>4, <2>8, <2>11, <3>1 DEF TablesSound
  <2> QED
    BY <2>7, <2>10, <2>11 DEF TablesSound
<1> QED
  BY <1>1, <1>2

\* Whatever is ingested in whatever order, the tables have one row per period
\* and date, and none for an unknown company.
THEOREM TablesStaySound == Spec => []TablesSound
BY SoundInit, SoundStep, PTL DEF Spec

-----------------------------------------------------------------------------
(* The pages in order.                                                      *)

\* The order of Newer as a number.
Rank(r) == 2 * r.date + (IF r.period = "annual" THEN 1 ELSE 0)

\* A set of rows that Newer puts in one order.
Keyed(tab) ==
    /\ IsFiniteSet(tab)
    /\ \A x \in tab : x.date \in Nat
    /\ \A x, y \in tab : Rank(x) = Rank(y) => x = y

\* Newer compares ranks.
LEMMA NewerRank ==
    ASSUME NEW x, x.date \in Nat, NEW y, y.date \in Nat
    PROVE  Newer(x, y) <=> Rank(y) < Rank(x)
BY DEF Newer, Rank

\* Oldest first: every row is listed, in the order of the ranks.
LEMMA AscendingIs ==
    ASSUME NEW tab, Keyed(tab)
    PROVE  /\ Ascending(tab) \in [1 .. Cardinality(tab) -> tab]
           /\ \A x \in tab : \E k \in 1 .. Cardinality(tab) : Ascending(tab)[k] = x
           /\ \A i, j \in 1 .. Cardinality(tab) :
                 i < j => Rank(Ascending(tab)[i]) < Rank(Ascending(tab)[j])
<1> DEFINE n == Cardinality(tab)
           s == Ascending(tab)
           d == [x \in tab |-> Rank(x)]
<1>1. s = [k \in 1 .. n |-> CHOOSE r \in tab : Cardinality({x \in tab : Newer(r, x)}) = k - 1]
  BY DEF Ascending, OrderBy
<1>2. IsFiniteSet(tab) /\ \A x \in tab : x.date \in Nat
  BY DEF Keyed
<1>3. d \in [tab -> Int] /\ \A x, y \in tab : d[x] = d[y] => x = y
  BY <1>2 DEF Keyed, Rank
<1>4. \A r \in tab : Preceding(tab, d, r) = {x \in tab : Newer(r, x)}
  BY <1>2, NewerRank DEF Preceding
<1> HIDE DEF s
<1>5. ASSUME NEW k \in 1 .. n
      PROVE  s[k] \in tab /\ Cardinality(Preceding(tab, d, s[k])) = k - 1
  <2>1. \E r \in tab : Cardinality(Preceding(tab, d, r)) = k - 1
    BY <1>2, <1>3, PlacesTaken
  <2> HIDE DEF d
  <2>2. \E r \in tab : Cardinality({x \in tab : Newer(r, x)}) = k - 1
    BY <1>4, <2>1
  <2>3. s[k] = CHOOSE r \in tab : Cardinality({x \in tab : Newer(r, x)}) = k - 1
    BY <1>1
  <2>4. s[k] \in tab /\ Cardinality({x \in tab : Newer(s[k], x)}) = k - 1
    BY <2>2, <2>3
  <2> QED
    BY <1>4, <2>4
<1>6. s \in [1 .. n -> tab]
  BY <1>1, <1>5
<1>7. Listing(s, tab, d)
  BY <1>5, <1>6 DEF Listing
<1>8. \A x \in tab : \E k \in 1 .. n : s[k] = x
  BY <1>2, <1>3, <1>7, ListsAll
<1>9. ASSUME NEW i \in 1 .. n, NEW j \in 1 .. n, i < j
      PROVE  Rank(s[i]) < Rank(s[j])
  <2>1. d[s[i]] < d[s[j]]
    BY <1>2, <1>3, <1>7, <1>9, ListingOrdered
  <2> QED
    BY <1>6, <2>1
<1> QED
  BY <1>6, <1>8, <1>9 DEF s

\* Newest first.
LEMMA DescendingIs ==
    ASSUME NEW tab, Keyed(tab)
    PROVE  /\ Descending(tab) \in [1 .. Cardinality(tab) -> tab]
           /\ \A x \in tab : \E k \in 1 .. Cardinality(tab) : Descending(tab)[k] = x
           /\ \A i, j \in 1 .. Cardinality(tab) :
                 i < j => Rank(Descending(tab)[j]) < Rank(Descending(tab)[i])
<1> DEFINE n == Cardinality(tab)
           s == Descending(tab)
           d == [x \in tab |-> 0 - Rank(x)]
<1>1. s = [k \in 1 .. n |-> CHOOSE r \in tab : Cardinality({x \in tab : Newer(x, r)}) = k - 1]
  BY DEF Descending, OrderBy
<1>2. IsFiniteSet(tab) /\ \A x \in tab : x.date \in Nat
  BY DEF Keyed
<1>3. \A x \in tab : Rank(x) \in Int
  BY <1>2 DEF Rank
<1>4. d \in [tab -> Int] /\ \A x, y \in tab : d[x] = d[y] => x = y
  BY <1>3 DEF Keyed
<1>5. \A r \in tab : Preceding(tab, d, r) = {x \in tab : Newer(x, r)}
  BY <1>2, <1>3, NewerRank DEF Preceding
<1> HIDE DEF s
<1>6. ASSUME NEW k \in 1 .. n
      PROVE  s[k] \in tab /\ Cardinality(Preceding(tab, d, s[k])) = k - 1
  <2>1. \E r \in tab : Cardinality(Preceding(tab, d, r)) = k - 1
    BY <1>2, <1>4, PlacesTaken
  <2> HIDE DEF d
  <2>2. \E r \in tab : Cardinality({x \in tab : Newer(x, r)}) = k - 1
    BY <1>5, <2>1
  <2>3. s[k] = CHOOSE r \in tab : Cardinality({x \in tab : Newer(x, r)}) = k - 1
    BY <1>1
  <2>4. s[k] \in tab /\ Cardinality({x \in tab : Newer(x, s[k])}) = k - 1
    BY <2>2, <2>3
  <2> QED
    BY <1>5, <2>4
<1>7. s \in [1 .. n -> tab]
  BY <1>1, <1>6
<1>8. Listing(s, tab, d)
  BY <1>6, <1>7 DEF Listing
<1>9. \A x \in tab : \E k \in 1 .. n : s[k] = x
  BY <1>2, <1>4, <1>8, ListsAll
<1>10. ASSUME NEW i \in 1 .. n, NEW j \in 1 .. n, i < j
       PROVE  Rank(s[j]) < Rank(s[i])
  <2>1. d[s[i]] < d[s[j]]
    BY <1>2, <1>4, <1>8, <1>10, ListingOrdered
  <2> QED
    BY <1>3, <1>7, <2>1
<1> QED
  BY <1>7, <1>9, <1>10 DEF s

\* Rows that are told apart by their date alone.
Dated(tab) ==
    /\ IsFiniteSet(tab)
    /\ \A x \in tab : x.date \in Nat
    /\ \A x, y \in tab : x.period = y.period /\ (x.date = y.date => x = y)

\* Then the order of the dates is the one of the ranks.
LEMMA DatedKeyed ==
    ASSUME NEW tab, Dated(tab)
    PROVE  /\ Keyed(tab)
           /\ \A x, y \in tab : Rank(x) < Rank(y) <=> x.date < y.date
BY DEF Dated, Keyed, Rank

\* The first rows of a page, newest first, and the last of the history are the
\* newest ones.
LEMMA NewestIs ==
    ASSUME NEW tab, Dated(tab), tab # {}
    PROVE  /\ Cardinality(tab) \in Nat \ {0}
           /\ Newest(tab) = {Descending(tab)[1]}
           /\ Descending(tab)[1] = Ascending(tab)[Cardinality(tab)]
           /\ Cardinality(tab) = 1 => SecondNewest(tab) = {}
           /\ Cardinality(tab) # 1 => SecondNewest(tab) = {Descending(tab)[2]}
<1> DEFINE n == Cardinality(tab)
           a == Ascending(tab)
           s == Descending(tab)
<1>1. n \in Nat \ {0}
  BY FS_CardinalityType, FS_EmptySet DEF Dated
<1>2. \A x \in tab : x.date \in Nat
  BY DEF Dated
<1>3. /\ a \in [1 .. n -> tab] /\ \A x \in tab : \E k \in 1 .. n : a[k] = x
      /\ \A i, j \in 1 .. n : i < j => a[i].date < a[j].date
  <2>1. /\ a \in [1 .. n -> tab] /\ \A x \in tab : \E k \in 1 .. n : a[k] = x
        /\ \A i, j \in 1 .. n : i < j => Rank(a[i]) < Rank(a[j])
    BY DatedKeyed, AscendingIs
  <2> HIDE DEF a, n
  <2>2. \A i \in 1 .. n : a[i] \in tab
    BY <2>1
  <2> QED
    BY <2>1, <2>2, DatedKeyed
<1>4. /\ s \in [1 .. n -> tab] /\ \A x \in tab : \E k \in 1 .. n : s[k] = x
      /\ \A i, j \in 1 .. n : i < j => s[j].date < s[i].date
  <2>1. /\ s \in [1 .. n -> tab] /\ \A x \in tab : \E k \in 1 .. n : s[k] = x
        /\ \A i, j \in 1 .. n : i < j => Rank(s[j]) < Rank(s[i])
    BY DatedKeyed, DescendingIs
  <2> HIDE DEF s, n
  <2>2. \A i \in 1 .. n : s[i] \in tab
    BY <2>1
  <2> QED
    BY <2>1, <2>2, DatedKeyed
<1> HIDE DEF n, a, s
<1>5. ASSUME NEW x \in tab PROVE x.date <= s[1].date /\ (x = s[1] \/ x.date < s[1].date)
  <2>1. PICK k \in 1 .. n : s[k] = x
    BY <1>4
  <2>2. k = 1 \/ 1 < k
    BY <1>1
  <2>3. 1 \in 1 .. n
    BY <1>1
  <2> QED
    BY <1>2, <1>4, <2>1, <2>2, <2>3
<1>6. s[1] \in tab
  BY <1>1, <1>4
<1>7. Newest(tab) = {s[1]}
  BY <1>2, <1>5, <1>6 DEF Newest
<1>8. s[1] = a[n]
  <2>1. PICK k \in 1 .. n : a[k] = s[1]
    BY <1>3, <1>6
  <2>2. a[n] \in tab /\ n \in 1 .. n /\ (k = n \/ k < n)
    BY <1>1, <1>3
  <2> QED
    BY <1>2, <1>3, <1>5, <2>1, <2>2
<1>9. tab \ Newest(tab) = {x \in tab : \E k \in 2 .. n : x = s[k]}
  <2>1. \A k \in 2 .. n : s[k] # s[1] /\ s[k] \in tab
    BY <1>1, <1>2, <1>4
  <2>2. \A x \in tab : x # s[1] => \E k \in 2 .. n : x = s[k]
    <3> SUFFICES ASSUME NEW x \in tab, x # s[1] PROVE \E k \in 2 .. n : x = s[k]
      OBVIOUS
    <3>1. PICK k \in 1 .. n : s[k] = x
      BY <1>4
    <3>2. k \in 2 .. n
      BY <1>1, <3>1
    <3> QED
      BY <3>1, <3>2
  <2> QED
    BY <1>7, <2>1, <2>2
<1>10. n = 1 => SecondNewest(tab) = {}
  BY <1>9 DEF SecondNewest, Newest
<1>11. ASSUME n # 1 PROVE SecondNewest(tab) = {s[2]}
  <2> DEFINE rest == tab \ Newest(tab)
  <2>1. 2 \in 1 .. n /\ 2 \in 2 .. n
    BY <1>1, <1>11
  <2>2. s[2] \in rest
    BY <1>4, <1>9, <2>1
  <2>3. ASSUME NEW x \in rest PROVE x \in tab /\ x.date <= s[2].date /\ (x = s[2] \/ x.date < s[2].date)
    <3>1. PICK k \in 2 .. n : s[k] = x
      BY <1>9
    <3>2. k = 2 \/ 2 < k
      BY <1>1
    <3>3. k \in 1 .. n /\ s[k] \in tab /\ s[2] \in tab
      BY <1>1, <1>4, <2>1
    <3> QED
      BY <1>2, <1>4, <2>1, <3>1, <3>2, <3>3
  <2>4. \A x \in rest : x.date \in Nat
    BY <1>2
  <2> HIDE DEF rest
  <2>5. Newest(rest) = {s[2]}
    BY <2>2, <2>3, <2>4 DEF Newest
  <2> QED
    BY <2>5 DEF SecondNewest, rest
<1> QED
  BY <1>1, <1>7, <1>8, <1>10, <1>11 DEF n, a, s

\* The pages of a set of rows.
LEMMA PageIs ==
    ASSUME NEW tab, Dated(tab)
    PROVE  /\ Ascending(tab) \in Seq(tab) /\ Len(Ascending(tab)) = Cardinality(tab)
           /\ Descending(tab) \in Seq(tab) /\ Len(Descending(tab)) = Cardinality(tab)
           /\ Cardinality(tab) \in Nat /\ (Cardinality(tab) = 0 <=> tab = {})
           /\ Ascending(tab) = <<>> <=> tab = {}
           /\ Descending(tab) = <<>> <=> tab = {}
<1> DEFINE n == Cardinality(tab)
<1>1. n \in Nat /\ (n = 0 <=> tab = {})
  BY FS_CardinalityType, FS_EmptySet DEF Dated
<1>2. Ascending(tab) \in [1 .. n -> tab] /\ Descending(tab) \in [1 .. n -> tab]
  BY DatedKeyed, AscendingIs, DescendingIs
<1> HIDE DEF n
<1>3. /\ Ascending(tab) \in Seq(tab) /\ Len(Ascending(tab)) = n
      /\ Ascending(tab) = <<>> <=> n = 0
  BY <1>1, <1>2, ListIs
<1>4. /\ Descending(tab) \in Seq(tab) /\ Len(Descending(tab)) = n
      /\ Descending(tab) = <<>> <=> n = 0
  BY <1>1, <1>2, ListIs
<1> QED
  BY <1>1, <1>3, <1>4 DEF n

\* What a row of the tables looks like.
LEMMA PriceRow ==
    ASSUME NEW sn \in Snapshots, NEW r \in Batch("prices", sn)
    PROVE  /\ r.period = "daily" /\ r.date \in Nat /\ r.close \in Nat /\ r.volume \in Nat
<1>1. PICK i \in Kept("prices", sn) : r = Stored("prices", sn["prices"][i])
  BY DEF Batch
<1> DEFINE q == sn["prices"][i]
<1>2. i \in DOMAIN sn["prices"] /\ ValidPrice(q) /\ "prices" \in Tables
  BY DEF Kept, ValidRow, Tables
<1>3. q.period = "daily" /\ q.date \in Nat
  BY <1>2, FeedAssumption
<1>4. /\ {"open", "high", "low", "close", "volume", "period", "date"} \subseteq DOMAIN q
      /\ q.volume \in Int
  BY <1>2, StoreAssumption DEF PriceFigures
<1>8. q.close \in Int /\ NaN \notin Int
  BY <1>2, FeedAssumption, StoreAssumption DEF PriceFigures
<1>5. r.period = q.period /\ r.date = q.date /\ r.close = Numeric(q.close) /\ r.volume = q.volume
  BY <1>1, <1>4 DEF Stored
<1>6. ~Le(q.close, 0) /\ q.volume >= 0
  BY <1>2 DEF ValidPrice, PriceFigures
<1>7. Numeric(q.close) \in Int /\ 0 <= Numeric(q.close)
  <2>1. Numeric(q.close) \in Int /\ ~Lt(Numeric(q.close), 0)
    BY <1>6, <1>8, NumericOrder
  <2> QED
    BY <1>8, <2>1 DEF Lt
<1> HIDE DEF q
<1> QED
  BY <1>3, <1>4, <1>5, <1>6, <1>7

\* What a valid statement has.
LEMMA StatementRow ==
    ASSUME NEW t \in Tables \ {"prices"}, NEW sn \in Snapshots, NEW r \in Batch(t, sn)
    PROVE  /\ r.period \in {"annual", "quarterly"} /\ r.date \in Nat
           /\ t = "income" => r.revenue \in Int /\ r.netIncome \in Int /\ r.eps \in Int
           /\ t = "balance" => r.equity \in Int
<1>1. PICK i \in Kept(t, sn) : r = Stored(t, sn[t][i])
  BY DEF Batch
<1>2. i \in DOMAIN sn[t] /\ ValidStatement(sn[t][i]) /\ r = sn[t][i]
  BY <1>1 DEF Kept, ValidRow, Stored
<1>3. r.date \in Nat
  BY <1>2, FeedAssumption
<1>4. t = "income" => r.revenue \in Int /\ r.netIncome \in Int /\ r.eps \in Int
  BY <1>2, FeedAssumption
<1>5. t = "balance" => r.equity \in Int
  BY <1>2, FeedAssumption
<1> QED
  BY <1>2, <1>3, <1>4, <1>5 DEF ValidStatement, isValidPeriod

\* The rows of a symbol in a sound database.
LEMMA SoundRows ==
    ASSUME TablesSound, NEW s \in Symbols
    PROVE  /\ Dated(rows["prices"][s])
           /\ \A t \in Tables \ {"prices"} : Dated(Annual(rows[t][s]))
           /\ \A r \in rows["prices"][s] : r.close \in Nat /\ r.volume \in Nat
           /\ \A r \in rows["income"][s] :
                 r.revenue \in Int /\ r.netIncome \in Int /\ r.eps \in Int
           /\ \A r \in rows["balance"][s] : r.equity \in Int
<1>1. "prices" \in Tables /\ {"income", "balance"} \subseteq Tables \ {"prices"}
  BY DEF Tables
<1>2. ASSUME NEW t \in Tables
      PROVE  /\ IsFiniteSet(rows[t][s])
             /\ \A r \in rows[t][s] : \E sn \in Snapshots : r \in Batch(t, sn)
             /\ \A x, y \in rows[t][s] : x.period = y.period /\ x.date = y.date => x = y
  BY DEF TablesSound, TypeOK, Key
<1>3. \A r \in rows["prices"][s] :
         r.period = "daily" /\ r.date \in Nat /\ r.close \in Nat /\ r.volume \in Nat
  BY <1>1, <1>2, PriceRow
<1>4. Dated(rows["prices"][s])
  BY <1>1, <1>2, <1>3 DEF Dated
<1>5. ASSUME NEW t \in Tables \ {"prices"}
      PROVE  Dated(Annual(rows[t][s]))
  <2> DEFINE tab == rows[t][s]
  <2>1. \A r \in tab : r.date \in Nat
    BY <1>2, StatementRow
  <2>2. IsFiniteSet(Annual(tab))
    BY <1>2, Annual(tab) \in SUBSET tab, FS_Subset DEF Annual
  <2>3. \A x, y \in tab : x.period = y.period /\ x.date = y.date => x = y
    BY <1>2
  <2> HIDE DEF tab
  <2>4. Dated(Annual(tab))
    BY <2>1, <2>2, <2>3 DEF Dated, Annual
  <2> QED
    BY <2>4 DEF tab
<1>6. \A r \in rows["income"][s] : r.revenue \in Int /\ r.netIncome \in Int /\ r.eps \in Int
  BY <1>1, <1>2, StatementRow
<1>7. \A r \in rows["balance"][s] : r.equity \in Int
  BY <1>1, <1>2, StatementRow
<1> QED
  BY <1>3, <1>4, <1>5, <1>6, <1>7

\* The SELECTs that find what they look for.
LEMMA Reads ==
    ASSUME TablesSound, NEW s \in Symbols
    PROVE  /\ GetCompany(s, {}) = IF companies[s] = NoCompany THEN Err("ErrNoRows")
                                  ELSE Ok(<<companies[s]>>)
           /\ \A t \in Tables \ {"prices"} :
                 queryStatements(t, s, "annual", {}) =
                    IF Annual(rows[t][s]) = {} THEN Err("ErrNoRows")
                    ELSE Ok(Descending(Annual(rows[t][s])))
           /\ GetPriceHistory(s, 0, {}) =
                 IF rows["prices"][s] = {} THEN Err("ErrNoRows")
                 ELSE Ok(Ascending(rows["prices"][s]))
           /\ GetLatestPrice(s, {}) =
                 IF rows["prices"][s] = {} THEN Err("ErrNoRows")
                 ELSE Ok(AtMostFirst(1, Descending(rows["prices"][s])))
           /\ rows["prices"][s] # {} =>
                 AtMostFirst(1, Descending(rows["prices"][s]))[1] = Descending(rows["prices"][s])[1]
<1>1. GetCompany(s, {}) = IF companies[s] = NoCompany THEN Err("ErrNoRows")
                          ELSE Ok(<<companies[s]>>)
  BY DEF GetCompany, Ask
<1>2. ASSUME NEW t \in Tables \ {"prices"}
      PROVE  queryStatements(t, s, "annual", {}) =
                IF Annual(rows[t][s]) = {} THEN Err("ErrNoRows")
                ELSE Ok(Descending(Annual(rows[t][s])))
  <2>1. {r \in rows[t][s] : "annual" \in {"all", r.period}} = Annual(rows[t][s])
    BY DEF Annual
  <2>2. Descending(Annual(rows[t][s])) = <<>> <=> Annual(rows[t][s]) = {}
    BY SoundRows, PageIs
  <2> QED
    BY <2>1, <2>2 DEF queryStatements, Ask
<1> DEFINE tab == rows["prices"][s]
           up == Ascending(tab)
           down == Descending(tab)
<1>3. /\ up \in Seq(tab) /\ down \in Seq(tab) /\ Len(down) \in Nat
      /\ up = <<>> <=> tab = {}
      /\ down = <<>> <=> tab = {}
      /\ Len(down) = 0 <=> tab = {}
  BY SoundRows, PageIs
<1>4. /\ GetPriceHistory(s, 0, {}) = Ask("prices", {}, AtMostFirst(0, up))
      /\ GetLatestPrice(s, {}) = Ask("latest", {}, AtMostFirst(1, down))
  BY DEF GetPriceHistory, GetLatestPrice
<1> HIDE DEF tab, up, down
<1>5. Ask("prices", {}, AtMostFirst(0, up)) = IF tab = {} THEN Err("ErrNoRows") ELSE Ok(up)
  BY <1>3 DEF Ask, AtMostFirst
<1>6. /\ AtMostFirst(1, down) = <<>> <=> tab = {}
      /\ tab # {} => AtMostFirst(1, down)[1] = down[1]
  BY <1>3 DEF AtMostFirst
<1>7. Ask("latest", {}, AtMostFirst(1, down)) =
        IF tab = {} THEN Err("ErrNoRows") ELSE Ok(AtMostFirst(1, down))
  BY <1>6 DEF Ask
<1> QED
  BY <1>1, <1>2, <1>4, <1>5, <1>6, <1>7 DEF tab, up, down

\* What /analytics and /technical are made of.
LEMMA AnalyticsOf ==
    ASSUME TablesSound, NEW s \in Symbols
    PROVE  LET i == Annual(rows["income"][s])
               b == Annual(rows["balance"][s])
               p == rows["prices"][s]
               close == Descending(p)[1].close
           IN  GetAnalytics(s, {}) =
                 IF companies[s] = NoCompany THEN Err("ErrNotFound")
                 ELSE IF i = {} \/ b = {} \/ p = {} THEN Err("ErrInsufficientData")
                 ELSE Ok(<<[symbol |-> s, price |-> close,
                            metrics |-> Metrics(Descending(i), Descending(b)[1], close)]>>)
<1> DEFINE i == Annual(rows["income"][s])
           b == Annual(rows["balance"][s])
           p == rows["prices"][s]
           close == Descending(p)[1].close
           out == [symbol |-> s, price |-> close,
                   metrics |-> Metrics(Descending(i), Descending(b)[1], close)]
           c == wrapNotFound(GetCompany(s, {}))
           incomes == queryStatements("income", s, "annual", {})
           balances == queryStatements("balance", s, "annual", {})
           latest == GetLatestPrice(s, {})
           made == [symbol |-> s, price |-> latest.out[1].close,
                    metrics |-> Metrics(incomes.out, balances.out[1], latest.out[1].close)]
<1>1. GetAnalytics(s, {}) = AllOf(<<c, insufficientErr(incomes), insufficientErr(balances),
                                    insufficientErr(latest)>>, made)
  BY DEF GetAnalytics
<1>2. "income" \in Tables \ {"prices"} /\ "balance" \in Tables \ {"prices"}
  BY DEF Tables
<1>3. /\ incomes = IF i = {} THEN Err("ErrNoRows") ELSE Ok(Descending(i))
      /\ balances = IF b = {} THEN Err("ErrNoRows") ELSE Ok(Descending(b))
      /\ latest = IF p = {} THEN Err("ErrNoRows") ELSE Ok(AtMostFirst(1, Descending(p)))
      /\ p # {} => AtMostFirst(1, Descending(p))[1] = Descending(p)[1]
  BY <1>2, Reads
<1>4. c = IF companies[s] = NoCompany THEN Err("ErrNotFound") ELSE Ok(<<companies[s]>>)
  BY Reads, ResultFields DEF wrapNotFound, Becomes
<1> HIDE DEF c, incomes, balances, latest, i, b, p
<1>5. i # {} /\ b # {} /\ p # {} => made = out
  BY <1>3, ResultFields
<1>6. /\ insufficientErr(incomes).err # "nil" <=> i = {}
      /\ insufficientErr(balances).err # "nil" <=> b = {}
      /\ insufficientErr(latest).err # "nil" <=> p = {}
  BY <1>3, ResultFields DEF insufficientErr, Becomes
<1>7. /\ i = {} => insufficientErr(incomes) = Err("ErrInsufficientData")
      /\ b = {} => insufficientErr(balances) = Err("ErrInsufficientData")
      /\ p = {} => insufficientErr(latest) = Err("ErrInsufficientData")
  BY <1>3, ResultFields DEF insufficientErr, Becomes
<1>8. c.err # "nil" <=> companies[s] = NoCompany
  BY <1>4, ResultFields
<1> HIDE DEF made, out
<1>9. GetAnalytics(s, {}) =
         IF c.err # "nil" THEN c
         ELSE IF insufficientErr(incomes).err # "nil" THEN insufficientErr(incomes)
         ELSE IF insufficientErr(balances).err # "nil" THEN insufficientErr(balances)
         ELSE IF insufficientErr(latest).err # "nil" THEN insufficientErr(latest)
         ELSE Ok(<<made>>)
  BY <1>1, AllOfFour
<1>10. GetAnalytics(s, {}) =
         IF companies[s] = NoCompany THEN Err("ErrNotFound")
         ELSE IF i = {} \/ b = {} \/ p = {} THEN Err("ErrInsufficientData") ELSE Ok(<<out>>)
  BY <1>4, <1>5, <1>6, <1>7, <1>8, <1>9
<1> QED
  BY <1>10 DEF i, b, p, out

\* What GetTechnical makes of the tables.
LEMMA TechnicalOf ==
    ASSUME TablesSound, NEW s \in Symbols
    PROVE  GetTechnical(s, {}) =
             IF companies[s] = NoCompany THEN Err("ErrNotFound")
             ELSE IF rows["prices"][s] = {} THEN Err("ErrInsufficientData")
             ELSE Ok(<<[symbol |-> s, lastDate |-> Last(Days(s)).date,
                        values |-> Technical(Days(s))]>>)
<1> DEFINE p == rows["prices"][s]
           c == wrapNotFound(GetCompany(s, {}))
           prices == GetPriceHistory(s, 0, {})
           made == [symbol |-> s, lastDate |-> Last(prices.out).date,
                    values |-> Technical(prices.out)]
<1>1. GetTechnical(s, {}) = AllOf(<<c, insufficientErr(prices)>>, made)
  BY DEF GetTechnical
<1>2. prices = IF p = {} THEN Err("ErrNoRows") ELSE Ok(Days(s))
  BY Reads DEF Days
<1>3. c = IF companies[s] = NoCompany THEN Err("ErrNotFound") ELSE Ok(<<companies[s]>>)
  BY Reads, ResultFields DEF wrapNotFound, Becomes
<1> HIDE DEF c, p, prices
<1>4. p # {} => prices.out = Days(s)
  BY <1>2, ResultFields
<1>5. /\ p = {} => insufficientErr(prices) = Err("ErrInsufficientData")
      /\ insufficientErr(prices).err # "nil" <=> p = {}
      /\ c.err # "nil" <=> companies[s] = NoCompany
  BY <1>2, <1>3, ResultFields DEF insufficientErr, Becomes
<1>6. p # {} => made = [symbol |-> s, lastDate |-> Last(Days(s)).date,
                        values |-> Technical(Days(s))]
  BY <1>4
<1> HIDE DEF made
<1>7. GetTechnical(s, {}) = IF c.err # "nil" THEN c
                            ELSE IF insufficientErr(prices).err # "nil" THEN insufficientErr(prices)
                            ELSE Ok(<<made>>)
  BY <1>1, AllOfTwo
<1> QED
  BY <1>3, <1>5, <1>6, <1>7 DEF p

-----------------------------------------------------------------------------
(* The endpoints tell one story.                                            *)

\* The codes of the other errors of the service.
LEMMA MoreCodes == Status("ErrNotFound") = 404 /\ Status("ErrInsufficientData") = 422
<1>1. Status("ErrNotFound") = 404
  BY DEF Status
<1>2. Status("ErrInsufficientData") = 422
  BY DEF Status
<1> QED
  BY <1>1, <1>2

\* The limits the handler admits.
Admitted == 1 .. 1000

\* What becomes of an admitted limit, and of none.
LEMMA Limits ==
    /\ parseLimit(<<>>) = Ok(0)
    /\ \A n \in Admitted : parseLimit(<<n>>) = Ok(n)
<1>1. parseLimit(<<>>) = Ok(0)
  BY Zenon DEF parseLimit
<1>2. ASSUME NEW n \in Admitted PROVE parseLimit(<<n>>) = Ok(n)
  <2>1. <<n>> # <<>> /\ <<n>>[1] = n
    OBVIOUS
  <2> DEFINE v == <<n>>
  <2> HIDE DEF v
  <2>2. v # <<>> /\ v[1] \in Admitted => parseLimit(v) = Ok(v[1])
    BY Zenon DEF parseLimit, Admitted
  <2> QED
    BY <2>1, <2>2 DEF v
<1> QED
  BY <1>1, <1>2

\* A page cut at a limit: the oldest days, and the newest of all only when
\* nothing is cut off.
LEMMA CutPage ==
    ASSUME NEW tab, Dated(tab), tab # {}, NEW n \in Nat \ {0}
    PROVE  LET up == Ascending(tab)
               part == AtMostFirst(n, up)
           IN  /\ part # <<>> /\ IsPrefix(part, up)
               /\ (Last(part) = Last(up)) = (n >= Len(up))
<1> DEFINE up == Ascending(tab)
           part == AtMostFirst(n, up)
           m == Len(up)
<1>1. up \in Seq(tab) /\ m \in Nat \ {0} /\ m = Cardinality(tab) /\ up # <<>>
  BY PageIs, NewestIs
<1>2. \A i, j \in 1 .. m : i < j => up[i] # up[j]
  <2>1. \A i, j \in 1 .. m : i < j => Rank(up[i]) < Rank(up[j])
    BY <1>1, DatedKeyed, AscendingIs
  <2>2. \A i \in 1 .. m : Rank(up[i]) \in Int
    BY <1>1 DEF Dated, Rank
  <2> QED
    BY <2>1, <2>2
<1> HIDE DEF up
<1>3. CASE n < m
  <2>1. part = SubSeq(up, 1, n)
    BY <1>1, <1>3 DEF AtMostFirst
  <2>2. part \in Seq(tab) /\ Len(part) = n /\ \A i \in 1 .. n : part[i] = up[i]
    BY <1>1, <1>3, <2>1
  <2>3. SubSeq(part, 1, Len(part)) = part
    BY <2>2, SubSeqFull
  <2>4. Last(part) # Last(up)
    BY <1>1, <1>2, <1>3, <2>2 DEF Last
  <2>5. IsPrefix(part, up)
    BY <1>1, <1>3, <2>1, <2>2, <2>3 DEF IsPrefix
  <2> QED
    BY <1>1, <1>3, <2>2, <2>4, <2>5 DEF up
<1>4. CASE ~(n < m)
  <2>1. part = up
    BY <1>1, <1>4 DEF AtMostFirst
  <2>2. IsPrefix(part, up)
    BY <1>1, <2>1 DEF IsPrefix
  <2> QED
    BY <1>1, <1>4, <2>1, <2>2 DEF up
<1> QED
  BY <1>3, <1>4

\* What a client gets of a result, and of a page that the store has or has not.
LEMMA Answers ==
    /\ \A x : Respond(Ok(x)).code = 200 /\ Respond(Ok(x)).data = x /\ wrapNotFound(Ok(x)) = Ok(x)
    /\ Respond(Err("ErrNotFound")).code = 404
    /\ Respond(Err("ErrInsufficientData")).code = 422
    /\ wrapNotFound(Err("ErrNoRows")) = Err("ErrNotFound")
<1>1. \A r : Respond(r).code = Status(r.err) /\ Respond(r).data = r.out
  BY DEF Respond
<1>2. /\ \A x : wrapNotFound(Ok(x)) = Ok(x)
      /\ wrapNotFound(Err("ErrNoRows")) = Err("ErrNotFound")
  BY ResultFields DEF wrapNotFound, Becomes
<1>3. \A x : Respond(Ok(x)).code = 200 /\ Respond(Ok(x)).data = x
  BY <1>1, ResultFields, CodeOf
<1>4. Respond(Err("ErrNotFound")).code = 404 /\ Respond(Err("ErrInsufficientData")).code = 422
  BY <1>1, ResultFields, MoreCodes
<1> QED
  BY <1>2, <1>3, <1>4

\* The pages of a symbol in a sound database.
LEMMA Pages ==
    ASSUME TablesSound, NEW s \in Symbols, NEW a \in RawSymbols, Norm[a] = s
    PROVE  /\ company(a, {}).code = IF companies[s] = NoCompany THEN 404 ELSE 200
           /\ s \in listCompanies({}).data <=> companies[s] # NoCompany
           /\ priceHistory(a, <<>>, {}).code = IF rows["prices"][s] = {} THEN 404 ELSE 200
           /\ rows["prices"][s] # {} =>
                 /\ priceHistory(a, <<>>, {}).data = Days(s)
                 /\ \A n \in Admitted :
                       priceHistory(a, <<n>>, {}).data = AtMostFirst(n, Days(s))
<1> DEFINE p == rows["prices"][s]
<1>1. \A x : Normalized(a, x) = x
  BY FiguresAssumption DEF Normalized
<1>2. company(a, {}).code = IF companies[s] = NoCompany THEN 404 ELSE 200
  <2>1. company(a, {}) = Respond(wrapNotFound(GetCompany(s, {})))
    BY <1>1 DEF company
  <2>2. GetCompany(s, {}) = IF companies[s] = NoCompany THEN Err("ErrNoRows")
                            ELSE Ok(<<companies[s]>>)
    BY Reads
  <2> QED
    BY <2>1, <2>2, Answers
<1>3. s \in listCompanies({}).data <=> companies[s] # NoCompany
  <2> DEFINE known == {z \in Symbols : companies[z] # NoCompany}
  <2>1. listCompanies({}) = Respond(Ok(known))
    BY DEF listCompanies
  <2>2. Respond(Ok(known)).data = known
    BY Answers
  <2> QED
    BY <2>1, <2>2
<1>4. priceHistory(a, <<>>, {}) = Respond(wrapNotFound(GetPriceHistory(s, 0, {})))
  BY <1>1, Limits, ResultFields DEF priceHistory
<1>5. ASSUME NEW n \in Admitted
      PROVE  priceHistory(a, <<n>>, {}) = Respond(wrapNotFound(GetPriceHistory(s, n, {})))
  BY <1>1, Limits, ResultFields DEF priceHistory
<1>6. /\ priceHistory(a, <<>>, {}).code = IF p = {} THEN 404 ELSE 200
      /\ p # {} => priceHistory(a, <<>>, {}).data = Days(s)
  <2>1. GetPriceHistory(s, 0, {}) = IF p = {} THEN Err("ErrNoRows") ELSE Ok(Days(s))
    BY Reads DEF Days
  <2> QED
    BY <1>4, <2>1, Answers
<1>7. ASSUME p # {}, NEW n \in Admitted
      PROVE  priceHistory(a, <<n>>, {}).data = AtMostFirst(n, Days(s))
  <2>1. n \in Nat \ {0} /\ Dated(p)
    BY SoundRows DEF Admitted
  <2>2. AtMostFirst(n, Days(s)) # <<>>
    BY <1>7, <2>1, CutPage DEF Days
  <2>3. GetPriceHistory(s, n, {}) = Ok(AtMostFirst(n, Days(s)))
    BY <2>2 DEF GetPriceHistory, Ask, Days
  <2> QED
    BY <1>5, <2>3, Answers
<1> QED
  BY <1>2, <1>3, <1>6, <1>7

\* The rows of a page are the answer.
LEMMA StoredPage ==
    ASSUME NEW page, NEW q, NEW A, NEW x,
           page = Respond(wrapNotFound(q)), q = IF A = {} THEN Err("ErrNoRows") ELSE Ok(x)
    PROVE  /\ A = {} => page.code = 404
           /\ A # {} => page.code = 200 /\ page.data = x
BY Answers

\* Without ?period the statements are the annual ones.
LEMMA Annually == parsePeriod("") = "annual" /\ parsePeriod("annual") = "annual"
<1>1. parsePeriod("") = "annual"
  BY Zenon DEF parsePeriod
<1>2. parsePeriod("annual") = "annual"
  BY Zenon DEF parsePeriod
<1> QED
  BY <1>1, <1>2, Zenon

\* The annual pages.
LEMMA StatementPage ==
    ASSUME TablesSound, NEW s \in Symbols, NEW a \in RawSymbols, Norm[a] = s,
           NEW t \in {"income", "balance"}, NEW v, parsePeriod(v) = "annual"
    PROVE  /\ Annual(rows[t][s]) = {} => statements(t, a, v, {}).code = 404
           /\ Annual(rows[t][s]) # {} =>
                 /\ statements(t, a, v, {}).code = 200
                 /\ statements(t, a, v, {}).data = Descending(Annual(rows[t][s]))
<1> DEFINE A == Annual(rows[t][s])
           q == queryStatements(t, s, "annual", {})
           page == statements(t, a, v, {})
<1>1. t \in Tables \ {"prices"}
  BY DEF Tables
<1>2. page = Respond(wrapNotFound(q))
  BY <1>1, FiguresAssumption DEF statements, Normalized
<1>3. q = IF A = {} THEN Err("ErrNoRows") ELSE Ok(Descending(A))
  BY <1>1, Reads
<1> HIDE DEF A, q, page
<1>4. /\ A = {} => page.code = 404
      /\ A # {} => page.code = 200 /\ page.data = Descending(A)
  BY <1>2, <1>3, StoredPage
<1> QED
  BY <1>4 DEF A, page

\* The two computed pages of a symbol: their codes and what they show.
LEMMA ComputedCodes ==
    ASSUME TablesSound, NEW s \in Symbols, NEW a \in RawSymbols, Norm[a] = s
    PROVE  /\ analytics(a, {}).code =
                IF companies[s] = NoCompany THEN 404
                ELSE IF \/ Annual(rows["income"][s]) = {} \/ Annual(rows["balance"][s]) = {}
                        \/ rows["prices"][s] = {} THEN 422 ELSE 200
           /\ technical(a, {}).code = IF companies[s] = NoCompany THEN 404
                                      ELSE IF rows["prices"][s] = {} THEN 422 ELSE 200
           /\ analytics(a, {}).data = GetAnalytics(s, {}).out
           /\ technical(a, {}).data = GetTechnical(s, {}).out
<1> DEFINE i == Annual(rows["income"][s])
           b == Annual(rows["balance"][s])
           p == rows["prices"][s]
<1>1. analytics(a, {}) = Respond(GetAnalytics(s, {})) /\ technical(a, {}) = Respond(GetTechnical(s, {}))
  BY FiguresAssumption DEF analytics, technical, Normalized
<1>2. PICK out : GetAnalytics(s, {}) =
         IF companies[s] = NoCompany THEN Err("ErrNotFound")
         ELSE IF i = {} \/ b = {} \/ p = {} THEN Err("ErrInsufficientData") ELSE Ok(<<out>>)
  BY AnalyticsOf
<1>3. PICK tech : GetTechnical(s, {}) =
         IF companies[s] = NoCompany THEN Err("ErrNotFound")
         ELSE IF p = {} THEN Err("ErrInsufficientData") ELSE Ok(<<tech>>)
  BY TechnicalOf
<1> HIDE DEF i, b, p
<1>4. analytics(a, {}).code = IF companies[s] = NoCompany THEN 404
                              ELSE IF i = {} \/ b = {} \/ p = {} THEN 422 ELSE 200
  BY <1>1, <1>2, Answers
<1>5. technical(a, {}).code = IF companies[s] = NoCompany THEN 404
                              ELSE IF p = {} THEN 422 ELSE 200
  BY <1>1, <1>3, Answers
<1>6. /\ analytics(a, {}).data = GetAnalytics(s, {}).out
      /\ technical(a, {}).data = GetTechnical(s, {}).out
  BY <1>1 DEF Respond
<1> QED
  BY <1>4, <1>5, <1>6 DEF i, b, p

\* The answer of /analytics.
LEMMA AnalyticsPage ==
    ASSUME TablesSound, NEW s \in Symbols, NEW a \in RawSymbols, Norm[a] = s,
           analytics(a, {}).code = 200
    PROVE  LET close == Descending(rows["prices"][s])[1].close
           IN  analytics(a, {}).data =
                 <<[symbol |-> s, price |-> close,
                    metrics |-> Metrics(Descending(Annual(rows["income"][s])),
                                        Descending(Annual(rows["balance"][s]))[1], close)]>>
<1> DEFINE i == Annual(rows["income"][s])
           b == Annual(rows["balance"][s])
           p == rows["prices"][s]
           close == Descending(p)[1].close
           out == [symbol |-> s, price |-> close,
                   metrics |-> Metrics(Descending(i), Descending(b)[1], close)]
<1>1. ~(companies[s] = NoCompany) /\ ~(i = {} \/ b = {} \/ p = {})
  BY ComputedCodes
<1>2. GetAnalytics(s, {}) =
         IF companies[s] = NoCompany THEN Err("ErrNotFound")
         ELSE IF i = {} \/ b = {} \/ p = {} THEN Err("ErrInsufficientData") ELSE Ok(<<out>>)
  BY AnalyticsOf
<1> HIDE DEF out, i, b, p
<1>3. analytics(a, {}).data = <<out>>
  BY <1>1, <1>2, ComputedCodes, ResultFields
<1> QED
  BY <1>3 DEF out, i, b, p

\* The answer of /technical.
LEMMA TechnicalPage ==
    ASSUME TablesSound, NEW s \in Symbols, NEW a \in RawSymbols, Norm[a] = s,
           technical(a, {}).code = 200
    PROVE  technical(a, {}).data =
             <<[symbol |-> s, lastDate |-> Last(Days(s)).date, values |-> Technical(Days(s))]>>
<1> DEFINE tech == [symbol |-> s, lastDate |-> Last(Days(s)).date,
                    values |-> Technical(Days(s))]
<1>1. ~(companies[s] = NoCompany) /\ rows["prices"][s] # {}
  BY ComputedCodes
<1>2. GetTechnical(s, {}) =
         IF companies[s] = NoCompany THEN Err("ErrNotFound")
         ELSE IF rows["prices"][s] = {} THEN Err("ErrInsufficientData") ELSE Ok(<<tech>>)
  BY TechnicalOf
<1> HIDE DEF tech
<1>3. technical(a, {}).data = <<tech>>
  BY <1>1, <1>2, ComputedCodes, ResultFields
<1> QED
  BY <1>3 DEF tech

\* In sound tables the endpoints agree.
LEMMA PagesTellOneStory == TablesSound => PagesAgree
<1> SUFFICES ASSUME TablesSound, NEW a \in RawSymbols, Norm[a] # Invalid
             PROVE  /\ (Norm[a] \in listCompanies({}).data) = (company(a, {}).code = 200)
                    /\ company(a, {}).code = 404
                         => {priceHistory(a, <<>>, {}).code, statements("income", a, "", {}).code,
                             analytics(a, {}).code, technical(a, {}).code} = {404}
                    /\ company(a, {}).code = 200
                         => /\ technical(a, {}).code =
                                 IF priceHistory(a, <<>>, {}).code = 200 THEN 200 ELSE 422
                            /\ analytics(a, {}).code =
                                 IF {priceHistory(a, <<>>, {}).code, statements("income", a, "", {}).code,
                                     statements("balance", a, "annual", {}).code} = {200}
                                 THEN 200 ELSE 422
                    /\ technical(a, {}).code = 200 =>
                         technical(a, {}).data[1].lastDate = Last(priceHistory(a, <<>>, {}).data).date
                    /\ analytics(a, {}).code = 200 =>
                         analytics(a, {}).data[1].price = Last(priceHistory(a, <<>>, {}).data).close
                    /\ priceHistory(a, <<>>, {}).code = 200 =>
                         \A n \in (1 .. Len(priceHistory(a, <<>>, {}).data) + 1) \cap Admitted :
                            LET part == priceHistory(a, <<n>>, {}).data
                            IN  /\ IsPrefix(part, priceHistory(a, <<>>, {}).data)
                                /\ (Last(part) = Last(priceHistory(a, <<>>, {}).data)) =
                                     (n >= Len(priceHistory(a, <<>>, {}).data))
  BY Zenon DEF PagesAgree, Admitted
<1>1. PICK s \in Symbols : Norm[a] = s
  BY FiguresAssumption
<1> DEFINE p == rows["prices"][s]
           i == Annual(rows["income"][s])
           b == Annual(rows["balance"][s])
           page == priceHistory(a, <<>>, {})
           blank == ""
           income == statements("income", a, blank, {})
           balance == statements("balance", a, "annual", {})
<1>2. companies[s] = NoCompany => i = {} /\ p = {}
  <2>1. rows["income"][s] = {} => i = {}
    BY DEF Annual
  <2>2. companies[s] = NoCompany => rows["income"][s] = {} /\ p = {}
    BY DEF TablesSound, Tables
  <2> QED
    BY <2>1, <2>2
<1>3. /\ company(a, {}).code = IF companies[s] = NoCompany THEN 404 ELSE 200
      /\ s \in listCompanies({}).data <=> companies[s] # NoCompany
  BY <1>1, Pages
<1>4. page.code = IF p = {} THEN 404 ELSE 200
  BY <1>1, Pages
<1>5. p # {} => /\ page.data = Days(s)
                 /\ \A n \in Admitted : priceHistory(a, <<n>>, {}).data = AtMostFirst(n, Days(s))
  BY <1>1, Pages
<1>6. parsePeriod(blank) = "annual" /\ parsePeriod("annual") = "annual"
  BY Annually, Zenon
<1> HIDE DEF blank
<1>7. (i = {} => income.code = 404) /\ (i # {} => income.code = 200)
  <2>1. "income" \in {"income", "balance"}
    OBVIOUS
  <2> QED
    BY <1>1, <2>1, <1>6, StatementPage
<1>8. (b = {} => balance.code = 404) /\ (b # {} => balance.code = 200)
  <2>1. "balance" \in {"income", "balance"}
    OBVIOUS
  <2> QED
    BY <1>1, <2>1, <1>6, StatementPage
<1>9. analytics(a, {}).code = IF companies[s] = NoCompany THEN 404
                              ELSE IF i = {} \/ b = {} \/ p = {} THEN 422 ELSE 200
  BY <1>1, ComputedCodes
<1>10. technical(a, {}).code = IF companies[s] = NoCompany THEN 404
                               ELSE IF p = {} THEN 422 ELSE 200
  BY <1>1, ComputedCodes
<1>11. analytics(a, {}).code = 200 => analytics(a, {}).data[1].price = Descending(p)[1].close
  <2> DEFINE m == Metrics(Descending(i), Descending(b)[1], Descending(p)[1].close)
  <2>1. analytics(a, {}).code = 200 =>
          analytics(a, {}).data =
            <<[symbol |-> s, price |-> Descending(p)[1].close, metrics |-> m]>>
    BY <1>1, AnalyticsPage
  <2> HIDE DEF m
  <2> QED
    BY <2>1
<1>12. technical(a, {}).code = 200 => technical(a, {}).data[1].lastDate = Last(Days(s)).date
  <2>1. technical(a, {}).code = 200 =>
          technical(a, {}).data =
            <<[symbol |-> s, lastDate |-> Last(Days(s)).date, values |-> Technical(Days(s))]>>
    BY <1>1, TechnicalPage
  <2> QED
    BY <2>1
<1>13. Dated(p)
  BY SoundRows
<1>14. p # {} => Last(Days(s)) = Descending(p)[1]
  BY <1>13, NewestIs, PageIs DEF Days, Last
<1>15. ASSUME p # {}, NEW n \in (1 .. Len(page.data) + 1) \cap Admitted
      PROVE  LET part == priceHistory(a, <<n>>, {}).data
             IN  /\ IsPrefix(part, page.data)
                 /\ (Last(part) = Last(page.data)) = (n >= Len(page.data))
  <2>1. n \in Nat \ {0} /\ n \in Admitted
    BY DEF Admitted
  <2>2. /\ IsPrefix(AtMostFirst(n, Days(s)), Days(s))
        /\ (Last(AtMostFirst(n, Days(s))) = Last(Days(s))) = (n >= Len(Days(s)))
    BY <1>13, <1>15, <2>1, CutPage DEF Days
  <2>3. page.data = Days(s) /\ priceHistory(a, <<n>>, {}).data = AtMostFirst(n, Days(s))
    BY <1>5, <1>15, <2>1
  <2> QED
    BY <2>2, <2>3
<1> HIDE DEF i, b, p, page, income, balance
<1>16. p # {} <=> page.code = 200
  BY <1>4
<1>17. /\ (Norm[a] \in listCompanies({}).data) = (company(a, {}).code = 200)
       /\ company(a, {}).code = 404
            => {page.code, income.code,
                analytics(a, {}).code, technical(a, {}).code} = {404}
  BY <1>1, <1>2, <1>3, <1>4, <1>7, <1>9, <1>10
<1>18. company(a, {}).code = 200
         => /\ technical(a, {}).code = IF page.code = 200 THEN 200 ELSE 422
            /\ analytics(a, {}).code =
                  IF {page.code, income.code,
                      balance.code} = {200}
                  THEN 200 ELSE 422
  BY <1>3, <1>4, <1>7, <1>8, <1>9, <1>10
<1>19. technical(a, {}).code = 200 => technical(a, {}).data[1].lastDate = Last(page.data).date
  BY <1>5, <1>10, <1>12
<1>20. analytics(a, {}).code = 200 => analytics(a, {}).data[1].price = Last(page.data).close
  BY <1>5, <1>9, <1>11, <1>14
<1> QED
  BY <1>15, <1>16, <1>17, <1>18, <1>19, <1>20, Zenon DEF page, income, balance, blank

\* For every history and spelling: the list and the pages of companies, prices
\* and statements, /technical and /analytics are consistent about what is known
\* of a symbol, and a page with a limit has the current price only when it has
\* everything.
THEOREM PagesTogether == Spec => []PagesAgree
BY TablesStaySound, PagesTellOneStory, PTL

-----------------------------------------------------------------------------
(* /analytics depends on the newest rows only.                              *)

The(set) == CHOOSE x \in set : TRUE

\* Metrics as a function of the newest rows; second holds the income statement
\* before the newest, if there is one.
MetricsFrom(cur, second, b, price) ==
    LET grown(f) == IF second = {} THEN Null ELSE last(growth(The(second)[f], cur[f]))
    IN  [pe |-> last(PERatio(price, cur.eps)),
         pb |-> last(PriceToBook(price, b.equity, b.shares)),
         roe |-> last(ROE(cur.netIncome, b.equity)),
         roa |-> last(ROA(cur.netIncome, b.assets)),
         netMargin |-> last(NetMargin(cur.netIncome, cur.revenue)),
         currentRatio |-> last(CurrentRatio(b.currentAssets, b.currentLiabilities)),
         debtToEquity |-> last(DebtToEquity(b.debt, b.equity)),
         revenueGrowth |-> grown("revenue"),
         earningsGrowth |-> grown("netIncome")]

AnalyticsFrom(s, in) ==
    IF in[1] THEN Err("ErrNotFound")
    ELSE IF in[2] = {} \/ in[4] = {} \/ in[5] = {} THEN Err("ErrInsufficientData")
    ELSE Ok(<<[symbol |-> s, price |-> The(in[5]).close,
               metrics |-> MetricsFrom(The(in[2]), in[3], The(in[4]), The(in[5]).close)]>>)

\* What the newest rows of a set are, if it has any.
LEMMA TheNewest ==
    ASSUME NEW tab, Dated(tab)
    PROVE  /\ Newest(tab) = {} <=> tab = {}
           /\ tab # {} => The(Newest(tab)) = Descending(tab)[1] /\ Descending(tab)[1] \in tab
           /\ tab # {} => Len(Descending(tab)) \in Nat \ {0}
           /\ tab # {} => (Len(Descending(tab)) = 1 <=> SecondNewest(tab) = {})
           /\ tab # {} /\ SecondNewest(tab) # {} =>
                 The(SecondNewest(tab)) = Descending(tab)[2] /\ Descending(tab)[2] \in tab
<1>1. tab = {} => Newest(tab) = {}
  BY DEF Newest
<1>2. \A x : The({x}) = x
  BY DEF The
<1>3. ASSUME tab # {}
      PROVE  /\ Newest(tab) = {Descending(tab)[1]}
             /\ Len(Descending(tab)) = Cardinality(tab) /\ Cardinality(tab) \in Nat \ {0}
             /\ Cardinality(tab) = 1 => SecondNewest(tab) = {}
             /\ Cardinality(tab) # 1 => SecondNewest(tab) = {Descending(tab)[2]}
             /\ Descending(tab) \in Seq(tab)
  BY <1>3, NewestIs, PageIs
<1>4. ASSUME tab # {}
      PROVE  /\ Descending(tab)[1] \in tab
             /\ Cardinality(tab) # 1 => Descending(tab)[2] \in tab
  BY <1>3, <1>4
<1> QED
  BY <1>1, <1>2, <1>3, <1>4

\* The ratios computed from a page are those of its first two rows.
LEMMA MetricsIs ==
    ASSUME NEW i, Dated(i), i # {}, NEW b, NEW price
    PROVE  Metrics(Descending(i), b, price) =
             MetricsFrom(The(Newest(i)), SecondNewest(i), b, price)
<1> DEFINE s == Descending(i)
           second == SecondNewest(i)
<1>1. /\ The(Newest(i)) = s[1]
      /\ Len(s) = 1 <=> second = {}
      /\ second # {} => The(second) = s[2]
  BY TheNewest
<1> HIDE DEF s, second
<1>2. ASSUME NEW f
      PROVE  (IF Len(s) = 1 THEN Null ELSE last(growth(s[2][f], s[1][f]))) =
             (IF second = {} THEN Null ELSE last(growth(The(second)[f], s[1][f])))
  BY <1>1
<1>3. Metrics(s, b, price) = MetricsFrom(s[1], second, b, price)
  BY <1>2, Zenon DEF Metrics, MetricsFrom
<1> QED
  BY <1>1, <1>3 DEF s, second

\* In a sound database the answer is a function of its inputs.
AnalyticsDepends == \A s \in Symbols : GetAnalytics(s, {}) = AnalyticsFrom(s, InputsOfAnalytics(s))

\* It does in sound tables.
LEMMA AnalyticsDependsOnNewest == TablesSound => AnalyticsDepends
<1> SUFFICES ASSUME TablesSound, NEW s \in Symbols
             PROVE  GetAnalytics(s, {}) = AnalyticsFrom(s, InputsOfAnalytics(s))
  BY DEF AnalyticsDepends
<1> DEFINE i == Annual(rows["income"][s])
           b == Annual(rows["balance"][s])
           p == rows["prices"][s]
           in == InputsOfAnalytics(s)
           close == Descending(p)[1].close
<1>1. Dated(i) /\ Dated(b) /\ Dated(p)
  <2>1. "income" \in Tables \ {"prices"} /\ "balance" \in Tables \ {"prices"}
    BY DEF Tables
  <2> QED
    BY <2>1, SoundRows
<1>2. /\ in[1] = (companies[s] = NoCompany) /\ in[2] = Newest(i) /\ in[3] = SecondNewest(i)
      /\ in[4] = Newest(b) /\ in[5] = Newest(p)
  BY DEF InputsOfAnalytics
<1>3. GetAnalytics(s, {}) =
        IF companies[s] = NoCompany THEN Err("ErrNotFound")
        ELSE IF i = {} \/ b = {} \/ p = {} THEN Err("ErrInsufficientData")
        ELSE Ok(<<[symbol |-> s, price |-> close,
                   metrics |-> Metrics(Descending(i), Descending(b)[1], close)]>>)
  BY AnalyticsOf
<1> HIDE DEF i, b, p, in
<1>4. /\ in[2] = {} <=> i = {}
      /\ in[4] = {} <=> b = {}
      /\ in[5] = {} <=> p = {}
  BY <1>1, <1>2, TheNewest
<1>5. /\ b # {} => The(in[4]) = Descending(b)[1]
      /\ p # {} => The(in[5]) = Descending(p)[1]
  BY <1>1, <1>2, TheNewest
<1>6. i # {} => Metrics(Descending(i), Descending(b)[1], close) =
                  MetricsFrom(The(in[2]), in[3], Descending(b)[1], close)
  BY <1>1, <1>2, MetricsIs
<1>7. AnalyticsFrom(s, in) =
        IF companies[s] = NoCompany THEN Err("ErrNotFound")
        ELSE IF i = {} \/ b = {} \/ p = {} THEN Err("ErrInsufficientData")
        ELSE Ok(<<[symbol |-> s, price |-> The(in[5]).close,
                   metrics |-> MetricsFrom(The(in[2]), in[3], The(in[4]), The(in[5]).close)]>>)
  BY <1>2, <1>4 DEF AnalyticsFrom
<1>8. GetAnalytics(s, {}) = AnalyticsFrom(s, in)
  BY <1>3, <1>5, <1>6, <1>7
<1> QED
  BY <1>8 DEF in

\* Older years, quarters and days that arrive later never change what
\* /analytics answers.
THEOREM OlderRowsAreIgnored == Spec => AnalyticsOfNewestOnly
<1>1. ASSUME AnalyticsDepends, AnalyticsDepends'
      PROVE  \A s \in Symbols :
               rows' # rows /\ InputsOfAnalytics(s)' = InputsOfAnalytics(s)
                  => GetAnalytics(s, {})' = GetAnalytics(s, {})
  <2> SUFFICES ASSUME NEW s \in Symbols, InputsOfAnalytics(s)' = InputsOfAnalytics(s)
               PROVE  GetAnalytics(s, {})' = GetAnalytics(s, {})
    OBVIOUS
  <2>1. GetAnalytics(s, {}) = AnalyticsFrom(s, InputsOfAnalytics(s))
    BY <1>1 DEF AnalyticsDepends
  <2>2. GetAnalytics(s, {})' = AnalyticsFrom(s, InputsOfAnalytics(s)')
    BY <1>1 DEF AnalyticsDepends, AnalyticsFrom
  <2> QED
    BY <2>1, <2>2
<1> QED
  BY <1>1, TablesStaySound, AnalyticsDependsOnNewest, PTL DEF AnalyticsOfNewestOnly

-----------------------------------------------------------------------------
(* /screener and /analytics.                                                *)

\* What becomes of a computed value.
LEMMA LastIs ==
    /\ \A e : e # "nil" => last(Err(e)) = Null
    /\ \A x : last(Ok(<<x>>)) = x
<1>1. ASSUME NEW x PROVE <<x>> # <<>> /\ Last(<<x>>) = x
  BY DEF Last
<1> QED
  BY <1>1, ResultFields DEF last

\* The ratios the two endpoints share, as the SQL writes them.
LEMMA RatioIs ==
    ASSUME NEW num \in Int, NEW den \in Int
    PROVE  /\ last(ROE(num, den)) = IF den > 0 THEN Q(num, den) ELSE Null
           /\ last(growth(den, num)) = IF den > 0 THEN Q(num - den, den) ELSE Null
           /\ den >= 0 /\ num > 0 =>
                 last(PERatio(num, den)) = IF den > 0 THEN Q(num, den) ELSE Null
<1>1. /\ ROE(num, den) = IF den > 0 THEN Ok(<<Q(num, den)>>) ELSE Err("ErrUndefined")
      /\ growth(den, num) = IF den > 0 THEN Ok(<<Q(num - den, den)>>) ELSE Err("ErrUndefined")
      /\ den >= 0 /\ num > 0 =>
            PERatio(num, den) = IF den > 0 THEN Ok(<<Q(num, den)>>) ELSE Err("ErrUndefined")
  BY DEF ROE, ratio, growth, PERatio
<1> QED
  BY <1>1, LastIs

\* A row of the screener holds what /analytics shows, but for the P/E of a loss or
\* of a close of zero.
LEMMA BaseIs ==
    ASSUME TablesSound, NEW s \in Symbols,
           Annual(rows["income"][s]) # {}, Annual(rows["balance"][s]) # {},
           rows["prices"][s] # {}
    PROVE  LET incomes == Descending(Annual(rows["income"][s]))
               close == Descending(rows["prices"][s])[1].close
               m == Metrics(incomes, Descending(Annual(rows["balance"][s]))[1], close)
           IN  /\ Base(s).symbol = s /\ Base(s).sector = companies[s].sector
               /\ Base(s).roe = m.roe /\ Base(s).revenueGrowth = m.revenueGrowth
               /\ incomes[1].eps >= 0 /\ close > 0 => Base(s).pe = m.pe
<1> DEFINE i == Annual(rows["income"][s])
           b == Annual(rows["balance"][s])
           p == rows["prices"][s]
           cur == Descending(i)[1]
           prev == The(SecondNewest(i))
           bal == Descending(b)[1]
           close == Descending(p)[1].close
           m == Metrics(Descending(i), bal, close)
<1>1. Dated(i) /\ Dated(b) /\ Dated(p)
  <2>1. "income" \in Tables \ {"prices"} /\ "balance" \in Tables \ {"prices"}
    BY DEF Tables
  <2> QED
    BY <2>1, SoundRows
<1>2. /\ \A r \in i : r.revenue \in Int /\ r.netIncome \in Int /\ r.eps \in Int
      /\ \A r \in b : r.equity \in Int
      /\ \A r \in p : r.close \in Nat
  BY SoundRows DEF Annual
<1>3. i # {} /\ b # {} /\ p # {}
  OBVIOUS
<1>4. Base(s) =
        [symbol |-> s, sector |-> companies[s].sector,
         roe |-> IF Newest(b) # {} /\ The(Newest(b)).equity > 0
                 THEN Q(The(Newest(i)).netIncome, The(Newest(b)).equity) ELSE Null,
         pe |-> IF Newest(p) # {} /\ The(Newest(i)).eps > 0
                THEN Q(The(Newest(p)).close, The(Newest(i)).eps) ELSE Null,
         revenueGrowth |-> IF SecondNewest(i) # {} /\ prev.revenue > 0
                           THEN Q(The(Newest(i)).revenue - prev.revenue, prev.revenue)
                           ELSE Null]
  BY Zenon DEF Base, The
<1> HIDE DEF i, b, p
<1>5. /\ Newest(b) # {} /\ The(Newest(b)) = bal /\ bal \in b
      /\ Newest(p) # {} /\ The(Newest(p)).close = close /\ close \in Nat
      /\ The(Newest(i)) = cur /\ cur \in i
      /\ SecondNewest(i) # {} => prev \in i
  BY <1>1, <1>2, <1>3, TheNewest
<1>6. m = MetricsFrom(cur, SecondNewest(i), bal, close)
  BY <1>1, <1>3, <1>5, MetricsIs
<1> HIDE DEF cur, prev, bal, close, m
<1>7. /\ m.roe = last(ROE(cur.netIncome, bal.equity))
      /\ m.pe = last(PERatio(close, cur.eps))
      /\ m.revenueGrowth = IF SecondNewest(i) = {} THEN Null
                           ELSE last(growth(prev.revenue, cur.revenue))
  BY <1>6 DEF MetricsFrom, prev
<1>8. m.roe = IF bal.equity > 0 THEN Q(cur.netIncome, bal.equity) ELSE Null
  BY <1>2, <1>5, <1>7, RatioIs
<1>9. m.revenueGrowth = IF SecondNewest(i) # {} /\ prev.revenue > 0
                        THEN Q(cur.revenue - prev.revenue, prev.revenue) ELSE Null
  BY <1>2, <1>5, <1>7, RatioIs
<1>10. cur.eps >= 0 /\ close > 0 =>
         m.pe = IF cur.eps > 0 THEN Q(close, cur.eps) ELSE Null
  BY <1>2, <1>5, <1>7, RatioIs
<1>11. /\ Base(s).symbol = s /\ Base(s).sector = companies[s].sector
       /\ Base(s).roe = m.roe /\ Base(s).revenueGrowth = m.revenueGrowth
       /\ Base(s).pe = IF cur.eps > 0 THEN Q(close, cur.eps) ELSE Null
  BY <1>4, <1>5, <1>8, <1>9
<1>12. cur.eps >= 0 /\ close > 0 => Base(s).pe = m.pe
  BY <1>10, <1>11
<1> QED
  BY <1>11, <1>12 DEF i, b, p, cur, bal, close, m

\* The companies the screener's SQL starts from.
Screened == {s \in Symbols : companies[s] # NoCompany /\ Annual(rows["income"][s]) # {}}

\* The four filters of the SQL.
Passes(x, f) ==
    /\ f.sector \in {"", x.sector}
    /\ Above(x.roe, f.minROE) /\ Below(x.pe, f.maxPE)
    /\ Above(x.revenueGrowth, f.minRevenueGrowth)

\* A criterion the handler refuses.
BadCriterion(f) == \E c \in {f.minROE, f.maxPE, f.minRevenueGrowth} : c # Null /\ c[2] = 0

\* The answer of /screener.
LEMMA ScreenerPage ==
    ASSUME NEW f
    PROVE  /\ BadCriterion(f) => screener(f, {}).code = 400
           /\ ~BadCriterion(f) =>
                 screener(f, {}).data = {x \in {Base(s) : s \in Screened} : Passes(x, f)}
<1>1. BadRequest.code = 400
  BY DEF BadRequest
<1>2. screener(f, {}) = IF BadCriterion(f) THEN BadRequest ELSE Respond(Ok(Screener(f)))
  BY DEF screener, BadCriterion
<1>3. Screener(f) = {x \in {Base(s) : s \in Screened} : Passes(x, f)}
  BY Zenon DEF Screener, Screened, Passes
<1> QED
  BY <1>1, <1>2, <1>3, Answers

\* One company in the screener's answer.
LEMMA ScreenedRow ==
    ASSUME NEW s \in Screened, NEW f, ~BadCriterion(f)
    PROVE  /\ \A x \in screener(f, {}).data : x.symbol = s => x = Base(s)
           /\ Base(s) \in screener(f, {}).data <=> Passes(Base(s), f)
<1>1. \A z : Base(z).symbol = z
  BY DEF Base
<1> QED
  BY <1>1, ScreenerPage

\* An answer with 200 is about a valid symbol.
LEMMA ValidSpelling ==
    ASSUME NEW a \in RawSymbols, NEW broken, analytics(a, broken).code = 200
    PROVE  Norm[a] \in Symbols
<1>1. Norm[a] # Invalid
  <2> SUFFICES ASSUME Norm[a] = Invalid PROVE FALSE
    OBVIOUS
  <2>1. analytics(a, broken) = Respond(Err("ErrInvalidSymbol"))
    BY DEF analytics, Normalized
  <2>2. Respond(Err("ErrInvalidSymbol")).code = Status("ErrInvalidSymbol")
    BY ResultFields DEF Respond
  <2>3. Status("ErrInvalidSymbol") = 400
    BY DEF Status
  <2> QED
    BY <2>1, <2>2, <2>3
<1> QED
  BY <1>1, FiguresAssumption

\* /screener and /analytics agree in every sound database.
LEMMA ScreenerAgrees == TablesSound => ScreenerMatchesAnalytics
<1> SUFFICES ASSUME TablesSound, NEW a \in RawSymbols, analytics(a, {}).code = 200,
                    NEW f \in Filters
             PROVE  LET r == analytics(a, {}).data[1]
                        eps == statements("income", a, "", {}).data[1].eps
                    IN  ScreensAs(r, f, eps >= 0 /\ r.price > 0)
  BY Zenon DEF ScreenerMatchesAnalytics
<1> DEFINE r == analytics(a, {}).data[1]
           blank == ""
           eps == statements("income", a, blank, {}).data[1].eps
           same == eps >= 0 /\ r.price > 0
<1>1. PICK s \in Symbols : Norm[a] = s
  BY ValidSpelling
<1>2. parsePeriod(blank) = "annual"
  BY Annually
<1> HIDE DEF blank
<1> DEFINE i == Annual(rows["income"][s])
           b == Annual(rows["balance"][s])
           p == rows["prices"][s]
           close == Descending(p)[1].close
           m == Metrics(Descending(i), Descending(b)[1], close)
           base == Base(s)
<1>3. companies[s] # NoCompany /\ i # {} /\ b # {} /\ p # {}
  BY <1>1, ComputedCodes
<1>4. r.symbol = s /\ r.price = close /\ r.metrics = m
  <2>1. analytics(a, {}).data = <<[symbol |-> s, price |-> close, metrics |-> m]>>
    BY <1>1, AnalyticsPage
  <2> HIDE DEF close, m
  <2> QED
    BY <2>1
<1>5. eps = Descending(i)[1].eps
  BY <1>1, <1>2, <1>3, StatementPage
<1>6. /\ base.symbol = s /\ base.sector = companies[s].sector
      /\ base.roe = m.roe /\ base.revenueGrowth = m.revenueGrowth
      /\ Descending(i)[1].eps >= 0 /\ close > 0 => base.pe = m.pe
  BY <1>3, BaseIs
<1>7. s \in Screened
  BY <1>3 DEF Screened
<1> HIDE DEF r, eps, i, b, p, close, m
<1>8. /\ base.symbol = r.symbol /\ base.sector = companies[r.symbol].sector
      /\ base.roe = r.metrics.roe /\ base.revenueGrowth = r.metrics.revenueGrowth
      /\ same => base.pe = r.metrics.pe
  BY <1>4, <1>5, <1>6
<1> HIDE DEF same
<1>9. BadCriterion(f) => screener(f, {}).code = 400
  BY ScreenerPage
<1> DEFINE found == {x \in screener(f, {}).data : x.symbol = r.symbol}
<1>10. ASSUME ~BadCriterion(f)
       PROVE  /\ \A x \in found : x = base
              /\ found # {} <=> Passes(base, f)
  <2>1. /\ \A x \in screener(f, {}).data : x.symbol = s => x = base
        /\ base \in screener(f, {}).data <=> Passes(base, f)
    BY <1>7, <1>10, ScreenedRow
  <2> HIDE DEF base
  <2> QED
    BY <1>4, <1>8, <2>1
<1> HIDE DEF base, found
<1>11. ASSUME same \/ f.maxPE = Null
       PROVE  Passes(base, f) <=> Meets(r, f)
  <2>1. Passes(base, f) <=>
          /\ f.sector \in {blank, base.sector}
          /\ Above(base.roe, f.minROE) /\ Below(base.pe, f.maxPE)
          /\ Above(base.revenueGrowth, f.minRevenueGrowth)
    BY Zenon DEF Passes, blank
  <2>2. Meets(r, f) <=>
          /\ f.sector \in {blank, base.sector}
          /\ Above(base.roe, f.minROE) /\ Below(r.metrics.pe, f.maxPE)
          /\ Above(base.revenueGrowth, f.minRevenueGrowth)
    BY <1>8, Zenon DEF Meets, Above, Below, blank
  <2>3. Below(base.pe, f.maxPE) <=> Below(r.metrics.pe, f.maxPE)
    BY <1>8, <1>11, Zenon DEF Below
  <2> QED
    BY <2>1, <2>2, <2>3, Zenon
<1>12. IF BadCriterion(f) THEN screener(f, {}).code = 400
       ELSE /\ \A x \in found :
                  /\ x.sector = companies[r.symbol].sector
                  /\ x.roe = r.metrics.roe
                  /\ x.revenueGrowth = r.metrics.revenueGrowth
                  /\ same => x.pe = r.metrics.pe
            /\ same \/ f.maxPE = Null => (found # {} <=> Meets(r, f))
  <2>1. ~BadCriterion(f) => \A x \in found :
                  /\ x.sector = companies[r.symbol].sector
                  /\ x.roe = r.metrics.roe
                  /\ x.revenueGrowth = r.metrics.revenueGrowth
                  /\ same => x.pe = r.metrics.pe
    BY <1>8, <1>10, Zenon
  <2>2. ~BadCriterion(f) => (same \/ f.maxPE = Null => (found # {} <=> Meets(r, f)))
    BY <1>10, <1>11, Zenon
  <2> QED
    BY <1>9, <2>1, <2>2, Zenon
<1>13. ScreensAs(r, f, same)
  BY <1>12, Zenon DEF ScreensAs, BadCriterion, found
<1> QED
  BY <1>13, Zenon DEF r, eps, same, blank

\* For every database that can be filled and any criteria, the screener's SQL and
\* the Go code of /analytics compute the same figures of a company, the P/E of a
\* year without a loss and of a close above zero included, and these decide
\* whether the company is listed.
THEOREM ScreenerFollowsAnalytics == Spec => []ScreenerMatchesAnalytics
BY TablesStaySound, ScreenerAgrees, PTL

-----------------------------------------------------------------------------
(* Exponential averages in closed form.                                     *)

\* The function in Pow.
Powers(x, n) ==
    LET pow[i \in 0 .. n] == IF i = 0 THEN Whole(1) ELSE Times(pow[i - 1], x)
    IN  pow

\* The powers by their recursion.
LEMMA PowersIs ==
    ASSUME NEW x \in Rat, NEW n \in Nat
    PROVE  /\ Powers(x, n)[0] = Whole(1)
           /\ \A i \in 1 .. n : Powers(x, n)[i] = Times(Powers(x, n)[i - 1], x)
           /\ \A i \in 0 .. n : Powers(x, n)[i] \in Rat
<1> DEFINE one == Whole(1)
           step == [p \in (0 .. n) \X Rat |-> Times(p[2], x)]
           s == Powers(x, n)
<1>1. one \in Rat /\ 0 \in Int /\ n \in Int /\ 0 <= n
  BY WholeRat
<1>2. /\ step \in [(0 .. n) \X Rat -> Rat]
      /\ \A i \in 0 .. n, a \in Rat : step[<<i, a>>] = Times(a, x)
  BY Closed
<1> HIDE DEF step, one
<1>3. PICK f \in [0 .. n -> Rat] : Computes(f, 0, n, one, step)
  BY <1>1, <1>2, Recursion
<1>4. ASSUME NEW i \in 0 .. n PROVE f[i] = IF i = 0 THEN one ELSE Times(f[i - 1], x)
  <2>1. f[i] = IF i = 0 THEN one ELSE step[<<i, f[i - 1]>>]
    BY <1>3 DEF Computes
  <2>2. i # 0 => i - 1 \in 0 .. n
    BY <1>1
  <2>3. i # 0 => f[i - 1] \in Rat
    BY <2>2
  <2> QED
    BY <1>2, <2>1, <2>3
<1>5. \E g : g = [i \in 0 .. n |-> IF i = 0 THEN Whole(1) ELSE Times(g[i - 1], x)]
  <2>1. f = [i \in 0 .. n |-> IF i = 0 THEN Whole(1) ELSE Times(f[i - 1], x)]
    BY <1>4 DEF one
  <2> QED
    BY <2>1
<1>6. s = [i \in 0 .. n |-> IF i = 0 THEN Whole(1) ELSE Times(s[i - 1], x)]
  BY <1>5 DEF Powers
<1> HIDE DEF s
<1>7. s[0] = one /\ \A i \in 0 .. n : i # 0 => s[i] = Times(s[i - 1], x)
  <2>1. 0 \in 0 .. n
    BY <1>1
  <2> QED
    BY <1>6, <2>1 DEF one
<1> DEFINE T == {i \in Int : s[i] \in Rat}
<1>8. 0 \in T
  BY <1>1, <1>7
<1>9. ASSUME NEW i \in 0 .. n, i # 0, i - 1 \in T PROVE i \in T
  <2>1. s[i] = Times(s[i - 1], x) /\ s[i - 1] \in Rat
    BY <1>7, <1>9
  <2>2. s[i] \in Rat
    BY <2>1, Closed
  <2> QED
    BY <2>2
<1> HIDE DEF T
<1>10. \A i \in 0 .. n : i \in T
  BY <1>1, <1>8, <1>9, Along
<1>11. \A i \in 1 .. n : i \in 0 .. n /\ i # 0
  BY <1>1
<1> QED
  BY <1>7, <1>10, <1>11 DEF T, s, one

\* ... and a single one.
LEMMA PowIs ==
    ASSUME NEW x \in Rat
    PROVE  /\ Pow(x, 0) = Whole(1)
           /\ \A n \in Nat : Pow(x, n) \in Rat
           /\ \A n \in Nat : n # 0 => Pow(x, n) = Times(Pow(x, n - 1), x)
<1>1. \A n : Pow(x, n) = Powers(x, n)[n]
  BY Zenon DEF Pow, Powers
<1>2. Pow(x, 0) = Whole(1)
  BY <1>1, PowersIs
<1>3. ASSUME NEW n \in Nat PROVE Pow(x, n) \in Rat
  <2>1. n \in 0 .. n
    OBVIOUS
  <2> QED
    BY <1>1, <2>1, PowersIs
<1>4. ASSUME NEW n \in Nat, n # 0 PROVE Pow(x, n) = Times(Pow(x, n - 1), x)
  <2> DEFINE s == Powers(x, n)
             t == Powers(x, n - 1)
             T == {i \in Int : s[i] = t[i]}
  <2>1. n - 1 \in Nat /\ n - 1 \in Int /\ 0 \in Int /\ n \in 1 .. n /\ n - 1 \in 0 .. n - 1
    BY <1>4
  <2>2. /\ s[0] = Whole(1) /\ \A i \in 1 .. n : s[i] = Times(s[i - 1], x)
        /\ t[0] = Whole(1) /\ \A i \in 1 .. n - 1 : t[i] = Times(t[i - 1], x)
    BY <2>1, PowersIs
  <2> HIDE DEF s, t
  <2>3. 0 \in T
    BY <2>1, <2>2
  <2>4. ASSUME NEW i \in 0 .. n - 1, i # 0, i - 1 \in T PROVE i \in T
    <3>1. i \in 1 .. n /\ i \in 1 .. n - 1 /\ s[i - 1] = t[i - 1]
      BY <2>1, <2>4
    <3>2. s[i] = t[i]
      BY <2>2, <3>1
    <3> QED
      BY <3>2
  <2> HIDE DEF T
  <2>5. \A i \in 0 .. n - 1 : i \in T
    BY <2>1, <2>3, <2>4, Along
  <2>6. s[n - 1] = t[n - 1]
    BY <2>1, <2>5 DEF T
  <2>7. s[n] = Times(s[n - 1], x)
    BY <2>1, <2>2
  <2> QED
    BY <1>1, <2>6, <2>7 DEF s, t
<1> QED
  BY <1>2, <1>3, <1>4

\* The values that entered since the start, decayed by keep a day, after j days.
Entered(v, n, alpha, keep, j) ==
    [i \in 1 .. j |-> Times(Whole(v[n + i]), Times(alpha, Pow(keep, j - i)))]

\* They are rationals, and so is their sum.
LEMMA EnteredIs ==
    ASSUME NEW alpha \in Rat, NEW keep \in Rat, NEW n, NEW v, NEW j \in Nat,
           \A i \in 1 .. j : v[n + i] \in Int
    PROVE  /\ Entered(v, n, alpha, keep, j) \in [1 .. j -> Rat]
           /\ Entered(v, n, alpha, keep, j) \in Seq(Rat)
           /\ Len(Entered(v, n, alpha, keep, j)) = j
           /\ Total(Entered(v, n, alpha, keep, j)) = Totals(Entered(v, n, alpha, keep, j))[j]
           /\ Total(Entered(v, n, alpha, keep, j)) \in Rat
<1> DEFINE e == Entered(v, n, alpha, keep, j)
<1>1. ASSUME NEW i \in 1 .. j
      PROVE  Times(Whole(v[n + i]), Times(alpha, Pow(keep, j - i))) \in Rat
  <2>1. j - i \in Nat /\ Whole(v[n + i]) \in Rat
    BY WholeRat
  <2>2. Pow(keep, j - i) \in Rat
    BY <2>1, PowIs
  <2>3. Times(alpha, Pow(keep, j - i)) \in Rat
    BY <2>2, Closed
  <2> QED
    BY <2>1, <2>3, Closed
<1>2. e \in [1 .. j -> Rat]
  BY <1>1 DEF Entered
<1> HIDE DEF e
<1>3. e \in Seq(Rat) /\ Len(e) = j
  BY <1>2, ListIs
<1>4. Total(e) = Totals(e)[j]
  BY <1>3 DEF Total
<1>5. Total(e) \in Rat
  BY <1>2, TotalRat
<1> QED
  BY <1>2, <1>3, <1>4, <1>5 DEF e

\* A day later they have all decayed once more, and a value has entered.
LEMMA EnteredStep ==
    ASSUME NEW alpha \in Rat, NEW keep \in Rat, NEW n, NEW v, NEW j \in Nat, j # 0,
           \A i \in 1 .. j : v[n + i] \in Int
    PROVE  Total(Entered(v, n, alpha, keep, j)) =
             Add(Times(Total(Entered(v, n, alpha, keep, j - 1)), keep),
                 Times(Whole(v[n + j]), alpha))
<1> DEFINE k == j - 1
           ys == Entered(v, n, alpha, keep, j)
           xs == Entered(v, n, alpha, keep, k)
<1>1. k \in Nat /\ k <= j /\ j \in 1 .. j /\ \A i \in 1 .. k : i \in 1 .. j
  OBVIOUS
<1>2. \A i \in 1 .. k : v[n + i] \in Int
  BY <1>1
<1>3. ys \in Seq(Rat) /\ Len(ys) = j /\ Total(ys) = Totals(ys)[j]
  BY EnteredIs
<1>4. xs \in Seq(Rat) /\ Len(xs) = k /\ Total(xs) = Totals(xs)[k]
  BY <1>1, <1>2, EnteredIs
<1>5. ASSUME NEW i \in 1 .. k PROVE ys[i] = Times(xs[i], keep)
  <2> DEFINE u == Whole(v[n + i])
             p == Pow(keep, k - i)
  <2>1. j - i \in Nat /\ j - i # 0 /\ (j - i) - 1 = k - i /\ k - i \in Nat /\ i \in 1 .. j
    BY <1>1
  <2>2. Pow(keep, j - i) = Times(p, keep) /\ p \in Rat
    BY <2>1, PowIs
  <2>3. u \in Rat
    BY <1>2, WholeRat
  <2>4. ys[i] = Times(u, Times(alpha, Times(p, keep))) /\ xs[i] = Times(u, Times(alpha, p))
    BY <2>1, <2>2 DEF Entered
  <2> HIDE DEF u, p
  <2>5. Times(alpha, Times(p, keep)) = Times(Times(alpha, p), keep) /\ Times(alpha, p) \in Rat
    BY <2>2, TimesAssoc, Closed
  <2>6. Times(u, Times(Times(alpha, p), keep)) = Times(Times(u, Times(alpha, p)), keep)
    BY <2>3, <2>5, TimesAssoc
  <2> QED
    BY <2>4, <2>5, <2>6
<1>6. ys[j] = Times(Whole(v[n + j]), alpha)
  <2>1. j - j = 0
    OBVIOUS
  <2>2. ys[j] = Times(Whole(v[n + j]), Times(alpha, Pow(keep, 0)))
    BY <1>1, <2>1 DEF Entered
  <2> QED
    BY <2>2, PowIs, TimesOne
<1> HIDE DEF xs, ys, k
<1>7. Totals(ys)[k] = Times(Totals(xs)[k], keep)
  BY <1>1, <1>3, <1>4, <1>5, TotalsScale
<1>8. Totals(ys)[j] = Add(Totals(ys)[j - 1], ys[j])
  <2>1. Len(ys) \in Nat /\ \A i \in 1 .. Len(ys) : ys[i] \in Rat
    BY <1>3
  <2> QED
    BY <1>1, <1>3, <2>1, TotalsIs
<1> QED
  BY <1>3, <1>4, <1>6, <1>7, <1>8 DEF xs, ys, k

\* What is left of the start after j days, and what entered since.
Faded(v, n, alpha, base, j) ==
    LET keep == Minus(Whole(1), alpha)
    IN  Add(Times(base, Pow(keep, j)), Total(Entered(v, n, alpha, keep, j)))

\* An exponential average is that sum: by induction along the days.
LEMMA Fading ==
    ASSUME NEW lo \in Int, NEW hi \in Int, lo <= hi, NEW base \in Rat, NEW alpha \in Rat,
           NEW x, NEW f, Averages(f, lo, hi, base, x, alpha), NEW v, NEW n,
           \A j \in 1 .. hi - lo : x[lo + j] = v[n + j] /\ v[n + j] \in Int
    PROVE  f[hi] = Faded(v, n, alpha, base, hi - lo)
<1> DEFINE m == hi - lo
           keep == Minus(Whole(1), alpha)
           E(j) == Total(Entered(v, n, alpha, keep, j))
           T == {j \in Int : f[lo + j] = Add(Times(base, Pow(keep, j)), E(j))}
<1>1. m \in Nat /\ m \in Int /\ 0 \in Int /\ lo + m = hi /\ m \in 0 .. m
  OBVIOUS
<1>2. keep \in Rat
  BY WholeRat, Closed
<1>3. \A j \in 1 .. m : x[lo + j] = v[n + j] /\ v[n + j] \in Int
  OBVIOUS
<1> HIDE DEF keep, m
<1>4. \A j \in 0 .. m : \A i \in 1 .. j : v[n + i] \in Int
  BY <1>1, <1>3
<1>5. \A j \in 0 .. m : j \in Nat /\ E(j) \in Rat /\ Pow(keep, j) \in Rat
  BY <1>1, <1>2, <1>4, EnteredIs, PowIs
<1>6. 0 \in T
  <2>1. lo + 0 = lo /\ lo \in lo .. hi /\ 0 \in 0 .. m
    BY <1>1
  <2>2. f[lo] = base
    BY <2>1 DEF Averages
  <2>3. Times(base, Pow(keep, 0)) = base
    BY <1>2, PowIs, TimesOne
  <2>4. E(0) = Whole(0)
    <3> DEFINE e == Entered(v, n, alpha, keep, 0)
    <3>1. \A i \in 1 .. 0 : v[n + i] \in Int
      OBVIOUS
    <3>2. e \in Seq(Rat) /\ Len(e) = 0 /\ Total(e) = Totals(e)[0]
      BY <1>2, <3>1, EnteredIs
    <3> HIDE DEF e
    <3>3. Len(e) \in Nat /\ \A i \in 1 .. Len(e) : e[i] \in Rat
      BY <3>2
    <3>4. Total(e) = Whole(0)
      BY <3>2, <3>3, TotalsIs
    <3> QED
      BY <3>4 DEF e
  <2>5. Add(base, Whole(0)) = base
    BY AddZero
  <2> HIDE DEF E
  <2> QED
    BY <2>1, <2>2, <2>3, <2>4, <2>5
<1>7. ASSUME NEW j \in 0 .. m, j # 0, j - 1 \in T PROVE j \in T
  <2> DEFINE c == E(j - 1)
             p == Pow(keep, j - 1)
             b == Times(base, p)
             u == Times(Whole(v[n + j]), alpha)
  <2>1. /\ j \in Nat /\ j - 1 \in 0 .. m /\ j \in 1 .. m
        /\ lo + j \in lo .. hi /\ lo + j # lo /\ lo + (j - 1) = (lo + j) - 1
    BY <1>1, <1>7
  <2>2. f[(lo + j) - 1] = Add(b, c)
    BY <1>7, <2>1
  <2>3. f[lo + j] = Averaged(v[n + j], Add(b, c), alpha)
    BY <1>3, <2>1, <2>2 DEF Averages
  <2>4. E(j) = Add(Times(c, keep), u)
    BY <1>2, <1>4, <1>7, <2>1, EnteredStep
  <2>5. Pow(keep, j) = Times(p, keep)
    BY <1>2, <1>7, <2>1, PowIs
  <2>6. c \in Rat /\ p \in Rat
    BY <1>5, <2>1
  <2>7. u \in Rat
    BY <1>3, <2>1, WholeRat, Closed
  <2>8. f[lo + j] = Add(u, Times(Add(b, c), keep))
    BY <2>3 DEF Averaged, keep
  <2> HIDE DEF c, p, u, E
  <2>9. b \in Rat /\ Times(base, Times(p, keep)) = Times(b, keep)
    BY <1>2, <2>6, Closed, TimesAssoc
  <2> HIDE DEF b
  <2> DEFINE bk == Times(b, keep)
             ck == Times(c, keep)
  <2>10. Times(Add(b, c), keep) = Add(bk, ck)
    BY <1>2, <2>6, <2>9, Distribute
  <2>11. bk \in Rat /\ ck \in Rat
    BY <1>2, <2>6, <2>9, Closed
  <2> HIDE DEF bk, ck
  <2>12. Add(u, Add(bk, ck)) = Add(bk, Add(ck, u))
    <3>1. Add(bk, ck) \in Rat
      BY <2>11, Closed
    <3>2. Add(u, Add(bk, ck)) = Add(Add(bk, ck), u)
      BY <2>7, <3>1, AddComm
    <3> QED
      BY <2>7, <2>11, <3>2, AddAssoc
  <2>13. f[lo + j] = Add(Times(base, Pow(keep, j)), E(j))
    BY <2>4, <2>5, <2>8, <2>9, <2>10, <2>12 DEF bk, ck
  <2> QED
    BY <2>1, <2>13
<1> HIDE DEF T
<1>8. \A j \in 0 .. m : j \in T
  BY <1>1, <1>6, <1>7, Along
<1>9. f[hi] = Add(Times(base, Pow(keep, m)), E(m))
  BY <1>1, <1>8 DEF T
<1> QED
  BY <1>9 DEF Faded, m, keep

-----------------------------------------------------------------------------
(* The indicators by their definitions.                                     *)

\* A figure is shown exactly when it is defined, and then has this value.
Shows(x, defined, value) == ((x # Null) = defined) /\ (x # Null => x = value)

\* A value is not the missing one.
LEMMA RatNotNull == \A x \in Rat : x # Null
<1> SUFFICES ASSUME NEW x \in Rat PROVE x # Null
  OBVIOUS
<1>1. PICK n \in Int, d \in Int : d # 0 /\ x = Q(n, d)
  BY RatIs
<1>2. Q(n, d) # <<>>
  BY <1>1, QValue
<1> QED
  BY <1>1, <1>2 DEF Null

\* The last element of a series.
LEMMA LastOfList ==
    ASSUME NEW k \in Nat, k # 0, NEW S, NEW f \in [1 .. k -> S]
    PROVE  f # <<>> /\ Last(f) = f[k] /\ f[k] \in S
<1>1. Len(f) = k /\ f # <<>>
  BY ListIs
<1>2. k \in 1 .. k
  OBVIOUS
<1> QED
  BY <1>1, <1>2 DEF Last

\* What the guards leave of a series.
LEMMA GuardedShows ==
    ASSUME NEW v \in Seq(Int), NEW window \in Nat, window # 0, NEW needed \in Nat,
           NEW out, NEW k \in Nat, NEW value,
           Len(v) >= needed /\ checkPositive(v) =>
              k # 0 /\ out \in [1 .. k -> Rat] /\ out[k] = value
    PROVE  Shows(last(Guarded(v, window, needed, out)),
                 Len(v) >= needed /\ checkPositive(v), value)
<1> DEFINE defined == Len(v) >= needed /\ checkPositive(v)
           g == Guarded(v, window, needed, out)
<1>1. Len(v) \in Nat /\ ~(window < 1)
  OBVIOUS
<1>2. CASE defined
  <2>1. g = Ok(out)
    BY <1>1, <1>2 DEF Guarded
  <2>2. out # <<>> /\ Last(out) = value /\ value \in Rat
    BY <1>2, LastOfList
  <2>3. last(g) = value
    BY <2>1, <2>2, ResultFields DEF last
  <2>4. value # Null
    BY <2>2, RatNotNull
  <2> QED
    BY <1>2, <2>3, <2>4 DEF Shows
<1>3. CASE ~defined
  <2>1. g = Err("ErrInsufficientData") \/ g = Err("ErrInvalidInput")
    BY <1>1, <1>3 DEF Guarded
  <2>2. last(g) = Null
    BY <2>1, LastIs
  <2> QED
    BY <1>3, <2>2 DEF Shows
<1> QED
  BY <1>2, <1>3

\* The last days of a series.
LEMMA LastMean ==
    ASSUME NEW v \in Seq(Int), NEW w \in Nat, w # 0, w <= Len(v)
    PROVE  /\ Moving(v, w) \in [1 .. Len(v) - w + 1 -> Rat]
           /\ Moving(v, w)[Len(v) - w + 1] = Mean(LastOf(v, w))
<1> DEFINE k == Len(v) - w + 1
<1>1. k \in 1 .. k /\ k \in 1 .. Len(v) /\ Len(v) \in k .. Len(v) /\ k + w - 1 = Len(v)
  OBVIOUS
<1>2. Moving(v, w) \in [1 .. k -> Rat] /\ Moving(v, w)[k] = Q(Sum(SubSeq(v, k, k + w - 1)), w)
  BY <1>1, MovingIs
<1>3. LastOf(v, w) = SubSeq(v, k, Len(v))
  BY DEF LastOf
<1>4. Len(LastOf(v, w)) = w
  <2>1. Len(SubSeq(v, k, Len(v))) = Len(v) - k + 1
    BY <1>1, PartSum
  <2> QED
    BY <1>3, <2>1
<1> QED
  BY <1>1, <1>2, <1>3, <1>4 DEF Mean

\* SMA and AverageVolume show the mean of the last days.
LEMMA MeanShown ==
    ASSUME NEW v \in Seq(Int), NEW w \in Nat, w # 0
    PROVE  /\ Shows(last(SMA(v, w)), Len(v) >= w /\ checkPositive(v), Mean(LastOf(v, w)))
           /\ Shows(last(AverageVolume(v, w)), Len(v) >= w /\ checkPositive(v),
                    Mean(LastOf(v, w)))
<1> DEFINE k == IF w <= Len(v) THEN Len(v) - w + 1 ELSE 0
           out == Moving(v, w)
           value == Mean(LastOf(v, w))
<1>1. k \in Nat
  OBVIOUS
<1>2. Len(v) >= w /\ checkPositive(v) => k # 0 /\ out \in [1 .. k -> Rat] /\ out[k] = value
  BY LastMean
<1> HIDE DEF k, out, value
<1>3. Shows(last(Guarded(v, w, w, out)), Len(v) >= w /\ checkPositive(v), value)
  BY <1>1, <1>2, GuardedShows
<1> QED
  BY <1>3 DEF SMA, AverageVolume, out, value

\* DailyReturn shows the relative change of the last day.
LEMMA ReturnShown ==
    ASSUME NEW c \in Seq(Int)
    PROVE  Shows(last(DailyReturn(c)), Len(c) >= 2 /\ checkPositive(c),
                 Q(Last(c) - c[Len(c) - 1], c[Len(c) - 1]))
<1> DEFINE k == IF Len(c) >= 2 THEN Len(c) - 1 ELSE 0
           out == Returns(c)
           value == Q(Last(c) - c[Len(c) - 1], c[Len(c) - 1])
<1>1. k \in Nat
  OBVIOUS
<1>2. ASSUME Len(c) >= 2 /\ checkPositive(c)
      PROVE  k # 0 /\ out \in [1 .. k -> Rat] /\ out[k] = value
  <2>1. k = Len(c) - 1 /\ k # 0 /\ k \in 1 .. k /\ k + 1 = Len(c) /\ Len(c) >= 1
    BY <1>2
  <2>2. out \in [1 .. k -> Rat] /\ out[k] = Q(c[k + 1] - c[k], c[k])
    BY <1>2, <2>1, ReturnsIs
  <2>3. Last(c) = c[Len(c)]
    BY DEF Last
  <2> QED
    BY <2>1, <2>2, <2>3
<1> HIDE DEF k, out, value
<1>3. 1 \in Nat /\ 1 # 0 /\ 2 \in Nat
  OBVIOUS
<1>4. Shows(last(Guarded(c, 1, 2, out)), Len(c) >= 2 /\ checkPositive(c), value)
  BY <1>1, <1>2, <1>3, GuardedShows
<1> QED
  BY <1>4 DEF DailyReturn, out, value

\* Volatility shows the sample variance of the last returns.
LEMMA VolatilityShown ==
    ASSUME NEW c \in Seq(Int), NEW w \in Nat, w >= 2
    PROVE  Shows(last(volatilitySeries(c, w)), Len(c) >= w + 1 /\ checkPositive(c),
                 Variance(LastOf(Returns(c), w)))
<1> DEFINE k == IF Len(c) >= w + 1 THEN Len(c) - w ELSE 0
           ret == Returns(c)
           out == [i \in 1 .. Len(c) - w |-> SampleVariance(SubSeq(ret, i, i + w - 1), w)]
           value == Variance(LastOf(ret, w))
<1>1. k \in Nat /\ w # 0 /\ w + 1 \in Nat
  OBVIOUS
<1>2. ASSUME Len(c) >= w + 1 /\ checkPositive(c)
      PROVE  k # 0 /\ out \in [1 .. k -> Rat] /\ out[k] = value
  <2> DEFINE m == Len(c) - 1
  <2>1. /\ k = Len(c) - w /\ k \in Nat /\ k # 0 /\ k \in 1 .. k
        /\ m \in Nat /\ Len(c) >= 1 /\ w <= m /\ m - w + 1 = k /\ m = k + w - 1
    BY <1>2
  <2>2. ret \in [1 .. m -> Rat]
    BY <1>2, <2>1, ReturnsIs
  <2> HIDE DEF ret, m, k
  <2>3. ret \in Seq(Rat) /\ Len(ret) = m
    BY <2>1, <2>2, ListIs
  <2>4. ASSUME NEW i \in 1 .. k
        PROVE  /\ SubSeq(ret, i, i + w - 1) \in [1 .. w -> Rat]
               /\ Len(SubSeq(ret, i, i + w - 1)) = w
               /\ SampleVariance(SubSeq(ret, i, i + w - 1), w) \in Rat
               /\ SampleVariance(SubSeq(ret, i, i + w - 1), w) = Variance(SubSeq(ret, i, i + w - 1))
    <3> DEFINE r == SubSeq(ret, i, i + w - 1)
    <3>1. i \in 1 .. m /\ i + w - 1 \in 1 .. m /\ (i + w - 1) - i + 1 = w
      BY <2>1
    <3>2. r \in Seq(Rat) /\ Len(r) = w
      <4>1. i \in Int /\ i + w - 1 \in Int /\ i <= i + w - 1
        BY <2>1
      <4>2. ASSUME NEW j \in i .. i + w - 1 PROVE ret[j] \in Rat
        <5>1. j \in 1 .. m
          BY <2>1, <3>1
        <5> QED
          BY <2>2, <5>1
      <4> QED
        BY <3>1, <4>1, <4>2, SubSeqProperties
    <3> HIDE DEF r
    <3>3. r \in [1 .. w -> Rat]
      BY <3>2
    <3>4. SampleVariance(r, w) \in Rat /\ SampleVariance(r, w) = Variance(r)
      BY <3>2, <3>3, VarianceIs DEF Variance
    <3> QED
      BY <3>2, <3>3, <3>4 DEF r
  <2>5. out \in [1 .. k -> Rat]
    BY <2>1, <2>4
  <2>6. LastOf(ret, w) = SubSeq(ret, k, k + w - 1)
    BY <2>1, <2>3 DEF LastOf
  <2> QED
    BY <2>1, <2>4, <2>5, <2>6
<1>3. volatilitySeries(c, w) = Guarded(c, w, w + 1, out)
  BY VolatilityIs
<1> HIDE DEF k, out, value
<1>4. Shows(last(Guarded(c, w, w + 1, out)), Len(c) >= w + 1 /\ checkPositive(c), value)
  BY <1>1, <1>2, GuardedShows
<1> QED
  BY <1>3, <1>4 DEF value

\* The closed form is what is left of the first mean and what entered since.
LEMMA DecayedIs ==
    ASSUME NEW v, NEW n, NEW alpha
    PROVE  Decayed(v, n, alpha) = Faded(v, n, alpha, Mean(SubSeq(v, 1, n)), Len(v) - n)
BY Zenon DEF Decayed, Faded, Entered

\* The mean of the first values of a series.
LEMMA FirstMean ==
    ASSUME NEW v \in Seq(Int), NEW n \in Nat, n # 0, n <= Len(v)
    PROVE  /\ Mean(SubSeq(v, 1, n)) = Q(Sum(SubSeq(v, 1, n)), n)
           /\ Sum(SubSeq(v, 1, n)) \in Int
           /\ Mean(SubSeq(v, 1, n)) \in Rat
<1>1. 1 \in 1 .. Len(v) /\ n \in 1 .. Len(v) /\ Len(v) \in Nat /\ n \in Int
  OBVIOUS
<1>2. Len(SubSeq(v, 1, n)) = n /\ Sum(SubSeq(v, 1, n)) = Sums(v)[n] - Sums(v)[1 - 1]
  <2>1. Len(SubSeq(v, 1, n)) = n - 1 + 1
    BY <1>1, PartSum
  <2>2. Sum(SubSeq(v, 1, n)) = Sums(v)[n] - Sums(v)[1 - 1]
    BY <1>1, PartSum
  <2> QED
    BY <2>1, <2>2
<1>3. Sums(v) \in [0 .. Len(v) -> Int] /\ 1 - 1 \in 0 .. Len(v) /\ n \in 0 .. Len(v)
  BY <1>1, SumsIs
<1>4. Sum(SubSeq(v, 1, n)) \in Int
  BY <1>2, <1>3
<1> QED
  BY <1>1, <1>2, <1>4, QRat DEF Mean

\* EMA shows the closed form.
LEMMA ExponentialShown ==
    ASSUME NEW c \in Seq(Int), NEW w \in Nat, w # 0
    PROVE  Shows(last(EMA(c, w)), Len(c) >= w /\ checkPositive(c), Decayed(c, w, Q(2, w + 1)))
<1> DEFINE n == Len(c)
           k == n - w + 1
           e == Exponential(c, w)
           alpha == Q(2, w + 1)
           base == Mean(SubSeq(c, 1, w))
           x == [i \in 1 .. k |-> c[i + w - 1]]
<1>1. n \in Nat /\ ~(w < 1)
  OBVIOUS
<1>2. CASE n >= w /\ checkPositive(c)
  <2>1. /\ EMA(c, w) = Ok(e)
        /\ e \in [1 .. k -> Rat]
        /\ e[1] = Q(Sum(SubSeq(c, 1, w)), w)
        /\ \A i \in 2 .. k : e[i] = Averaged(c[i + w - 1], e[i - 1], alpha)
    BY <1>1, <1>2, ExponentialIs
  <2>2. e[1] = base /\ base \in Rat
    BY <1>1, <1>2, <2>1, FirstMean
  <2>3. alpha \in Rat
    BY QRat
  <2>4. /\ k \in Nat /\ k # 0 /\ k \in Int /\ 1 \in Int /\ 1 <= k /\ k - 1 = n - w
        /\ \A i \in 1 .. k : i # 1 => i \in 2 .. k
    BY <1>1, <1>2
  <2>5. \A i \in 1 .. k : x[i] = c[i + w - 1]
    OBVIOUS
  <2>6. \A j \in 1 .. k - 1 : x[1 + j] = c[w + j] /\ c[w + j] \in Int
    <3> SUFFICES ASSUME NEW j \in 1 .. k - 1 PROVE x[1 + j] = c[w + j] /\ c[w + j] \in Int
      OBVIOUS
    <3>1. 1 + j \in 1 .. k /\ (1 + j) + w - 1 = w + j /\ w + j \in 1 .. n
      BY <1>1, <1>2
    <3>2. x[1 + j] = c[(1 + j) + w - 1]
      BY <3>1
    <3>3. c[w + j] \in Int
      BY <3>1
    <3> HIDE DEF x, n, k
    <3> QED
      BY <3>1, <3>2, <3>3
  <2> HIDE DEF x, e, alpha, base, n, k
  <2>7. Averages(e, 1, k, base, x, alpha)
    BY <2>1, <2>2, <2>4, <2>5 DEF Averages
  <2>8. e[k] = Faded(c, w, alpha, base, k - 1)
    BY <2>2, <2>3, <2>4, <2>6, <2>7, Fading
  <2>9. e[k] = Decayed(c, w, alpha)
    BY <2>4, <2>8, DecayedIs DEF base, n
  <2>10. e # <<>> /\ Last(e) = e[k] /\ e[k] \in Rat
    BY <2>1, <2>4, LastOfList
  <2>11. last(EMA(c, w)) = e[k]
    BY <2>1, <2>10, ResultFields DEF last
  <2>12. e[k] # Null
    BY <2>10, RatNotNull
  <2> QED
    BY <1>2, <2>9, <2>11, <2>12 DEF Shows, alpha, n
<1>3. CASE ~(n >= w /\ checkPositive(c))
  <2> DEFINE sma == SMA(c, w)
  <2>1. sma = Err("ErrInsufficientData") \/ sma = Err("ErrInvalidInput")
    BY <1>1, <1>3 DEF SMA, Guarded
  <2>2. sma.err # "nil"
    BY <2>1, ResultFields DEF Err
  <2>3. EMA(c, w) = IF sma.err # "nil" THEN sma ELSE Ok(e)
    BY Zenon DEF EMA, Exponential
  <2>4. last(EMA(c, w)) = Null
    BY <2>1, <2>2, <2>3, LastIs
  <2> QED
    BY <1>3, <2>4 DEF Shows
<1> QED
  BY <1>2, <1>3

-----------------------------------------------------------------------------
(* The RSI.                                                                 *)

\* The gains and losses of a history.
LEMMA MovesAre ==
    ASSUME NEW c \in Seq(Int), Len(c) >= 1
    PROVE  /\ Gains(c) \in [1 .. Len(c) - 1 -> Nat] /\ Losses(c) \in [1 .. Len(c) - 1 -> Nat]
           /\ Gains(c) \in Seq(Int) /\ Len(Gains(c)) = Len(c) - 1
           /\ Losses(c) \in Seq(Int) /\ Len(Losses(c)) = Len(c) - 1
<1> DEFINE m == Len(c) - 1
<1>1. m \in Nat
  OBVIOUS
<1>2. \A i \in 1 .. m : c[i] \in Int /\ c[i + 1] \in Int
  OBVIOUS
<1>3. Gains(c) \in [1 .. m -> Nat] /\ Losses(c) \in [1 .. m -> Nat]
  <2>1. ASSUME NEW i \in 1 .. m
        PROVE  /\ (IF c[i + 1] > c[i] THEN c[i + 1] - c[i] ELSE 0) \in Nat
               /\ (IF c[i + 1] > c[i] THEN 0 ELSE c[i] - c[i + 1]) \in Nat
    <3> DEFINE p == c[i]
               q == c[i + 1]
    <3>1. p \in Int /\ q \in Int
      BY <1>2
    <3> HIDE DEF p, q
    <3>2. (IF q > p THEN q - p ELSE 0) \in Nat /\ (IF q > p THEN 0 ELSE p - q) \in Nat
      BY <3>1
    <3> QED
      BY <3>2 DEF p, q
  <2> QED
    BY <2>1 DEF Gains, Losses
<1> HIDE DEF m
<1>4. Gains(c) \in [1 .. m -> Int] /\ Losses(c) \in [1 .. m -> Int]
  BY <1>3
<1>5. Gains(c) \in Seq(Int) /\ Len(Gains(c)) = m /\ Losses(c) \in Seq(Int) /\ Len(Losses(c)) = m
  BY <1>1, <1>4, ListIs
<1> QED
  BY <1>3, <1>5 DEF m

\* The same for the average of a series over its own days.
LEMMA FadingOwn ==
    ASSUME NEW lo \in Int, NEW hi \in Int, lo <= hi, NEW base \in Rat, NEW alpha \in Rat,
           NEW x, NEW f, Averages(f, lo, hi, base, x, alpha),
           \A j \in 1 .. hi - lo : x[lo + j] \in Int
    PROVE  f[hi] = Faded(x, lo, alpha, base, hi - lo)
BY Fading

\* Wilder's averages: not negative, and the last one in closed form.
LEMMA WilderShown ==
    ASSUME NEW x \in Seq(Int), NEW period \in Nat, period # 0, period <= Len(x),
           \A i \in 1 .. Len(x) : x[i] >= 0
    PROVE  /\ \A i \in period .. Len(x) : /\ Wilder(x, period)[i] \in Rat
                                          /\ AtMost(Whole(0), Wilder(x, period)[i])
           /\ Wilder(x, period)[Len(x)] = Decayed(x, period, Q(1, period))
<1> DEFINE n == Len(x)
           w == Wilder(x, period)
           base == Q(Sum(SubSeq(x, 1, period)), period)
           alpha == Q(1, period)
<1>1. n \in Nat /\ n \in Int /\ period \in Int /\ period <= n /\ period > 0
  OBVIOUS
<1>2. /\ \A i \in period .. n : w[i] \in Rat
      /\ Averages(w, period, n, base, x, alpha)
      /\ w[period] = base
      /\ \A i \in period .. n : i # period => w[i] = Smoothed(w[i - 1], x[i], period)
  BY WilderIs
<1>3. base = Mean(SubSeq(x, 1, period)) /\ base \in Rat /\ Sum(SubSeq(x, 1, period)) \in Int
  BY FirstMean
<1>4. alpha \in Rat
  BY QRat
<1>5. \A i \in 1 .. n : x[i] \in Int /\ x[i] >= 0
  OBVIOUS
<1>6. Sum(SubSeq(x, 1, period)) >= 0
  <2> DEFINE s == Sums(x)
             T == {i \in Int : s[i] >= 0}
  <2>1. s \in [0 .. n -> Int] /\ s[0] = 0 /\ \A i \in 1 .. n : s[i] = s[i - 1] + x[i]
    BY <1>1, <1>5, SumsIs
  <2>2. Sum(SubSeq(x, 1, period)) = s[period] - s[0]
    <3>1. 1 \in 1 .. n /\ period \in 1 .. n /\ 1 - 1 = 0
      BY <1>1
    <3>2. Sum(SubSeq(x, 1, period)) = s[period] - s[1 - 1]
      BY <3>1, PartSum
    <3> QED
      BY <3>1, <3>2
  <2> HIDE DEF s
  <2>3. 0 \in T
    BY <2>1
  <2>4. ASSUME NEW i \in 0 .. n, i # 0, i - 1 \in T PROVE i \in T
    <3>1. i \in 1 .. n /\ i - 1 \in 0 .. n /\ s[i - 1] >= 0
      BY <1>1, <2>4
    <3>2. s[i] = s[i - 1] + x[i] /\ s[i - 1] \in Int /\ x[i] \in Int /\ x[i] >= 0
      BY <1>5, <2>1, <3>1
    <3>3. s[i] >= 0
      BY <3>1, <3>2
    <3> QED
      BY <3>3
  <2> HIDE DEF T
  <2>5. \A i \in 0 .. n : i \in T
    <3>1. 0 \in Int
      OBVIOUS
    <3> HIDE DEF n
    <3> QED
      BY <1>1, <2>3, <2>4, <3>1, Along
  <2>6. period \in 0 .. n /\ s[period] \in Int
    BY <1>1, <2>1
  <2>7. s[period] >= 0
    BY <2>5, <2>6 DEF T
  <2> QED
    BY <2>1, <2>2, <2>6, <2>7
<1>7. AtMost(Whole(0), base)
  BY <1>1, <1>3, <1>6, NonNegativeQ
<1> HIDE DEF w, base, alpha, n
<1> DEFINE U == {i \in Int : AtMost(Whole(0), w[i])}
<1>8. period \in U
  BY <1>1, <1>2, <1>7
<1>9. ASSUME NEW i \in period .. n, i # period, i - 1 \in U PROVE i \in U
  <2>1. i - 1 \in period .. n /\ i \in 1 .. n /\ i \in Int /\ AtMost(Whole(0), w[i - 1])
    BY <1>1, <1>9
  <2>2. w[i - 1] \in Rat /\ w[i] = Smoothed(w[i - 1], x[i], period)
    BY <1>2, <1>9, <2>1
  <2>3. x[i] \in Int /\ x[i] >= 0
    BY <1>5, <2>1
  <2>4. AtMost(Whole(0), w[i])
    BY <2>1, <2>2, <2>3, SmoothedNonNegative
  <2> QED
    BY <2>1, <2>4
<1> HIDE DEF U
<1>10. \A i \in period .. n : i \in U
  BY <1>1, <1>8, <1>9, Along
<1>11. w[n] = Faded(x, period, alpha, base, n - period)
  <2>1. \A j \in 1 .. n - period : x[period + j] \in Int
    BY <1>1, <1>5
  <2>2. Averages(w, period, n, base, x, alpha)
    BY <1>2
  <2>3. base \in Rat /\ alpha \in Rat /\ period \in Int /\ n \in Int /\ period <= n
    BY <1>1, <1>3, <1>4
  <2> QED
    BY <2>1, <2>2, <2>3, FadingOwn
<1> QED
  BY <1>2, <1>3, <1>10, <1>11, DecayedIs DEF U, w, n, alpha

\* The value of the code is the strength of the gains.
LEMMA RsiIsStrength ==
    ASSUME NEW g \in Rat, AtMost(Whole(0), g), NEW l \in Rat, AtMost(Whole(0), l)
    PROVE  rsiValue(g, l) = Strength(g, l) /\ rsiValue(g, l) \in Rat
<1>1. PICK a \in Int, b \in Int : b > 0 /\ b # 0 /\ g = Q(a, b)
  BY RatIs
<1>2. PICK c \in Int, d \in Int : d > 0 /\ d # 0 /\ l = Q(c, d)
  BY RatIs
<1>3. a >= 0 /\ c >= 0
  BY <1>1, <1>2, NonNegativeQ
<1> DEFINE s == a * d + c * b
           e == b * d
           u == 100 * (a * d)
<1>4. s \in Int /\ e \in Int /\ e # 0 /\ u \in Int /\ a * d \in Int
  BY <1>1, <1>2
<1>5. rsiValue(g, l) = IF s = 0 THEN Whole(50) ELSE Q(u, s)
  <2>1. rsiValue(Q(a, b), Q(c, d)) =
          IF a * d + c * b = 0 THEN Whole(50) ELSE Q(100 * (a * d), a * d + c * b)
    <3>1. b > 0 /\ d > 0
      BY <1>1, <1>2
    <3> QED
      BY <1>3, <3>1, RsiQ
  <2> QED
    BY <1>1, <1>2, <2>1
<1>6. Add(g, l) = Q(s, e)
  BY <1>1, <1>2, AddQ
<1>7. Add(g, l) = Whole(0) <=> s = 0
  BY <1>4, <1>6, ZeroQ
<1>8. Times(Whole(100), g) = Q(100 * a, b)
  <2>1. Whole(100) = Q(100, 1) /\ 100 \in Int /\ 1 \in Int /\ 1 # 0
    BY WholeIs
  <2>2. Times(Q(100, 1), g) = Q(100 * a, 1 * b)
    BY <1>1, <2>1, TimesQ
  <2>3. 1 * b = b
    BY <1>1
  <2> QED
    BY <2>1, <2>2, <2>3
<1>9. ASSUME s # 0 PROVE Over(Times(Whole(100), g), Add(g, l)) = Q(u, s)
  <2>1. 100 * a \in Int
    OBVIOUS
  <2>2. Over(Q(100 * a, b), Q(s, e)) = Q((100 * a) * e, b * s)
    <3> HIDE DEF s, e
    <3> QED
      BY <1>1, <1>4, <1>9, <2>1, OverQ
  <2>3. b * s # 0 /\ b * s \in Int /\ (100 * a) * e \in Int
    <3> HIDE DEF s, e
    <3> QED
      BY <1>1, <1>4, <1>9
  <2>4. ((100 * a) * e) * s = u * (b * s)
    BY <1>1, <1>2, <1>4
  <2>5. Q((100 * a) * e, b * s) = Q(u, s)
    <3> HIDE DEF s, e, u
    <3> QED
      BY <1>4, <1>9, <2>3, <2>4, QEqual
  <2> QED
    BY <1>6, <1>8, <2>2, <2>5
<1>10. rsiValue(g, l) \in Rat
  BY <1>4, <1>5, QRat, WholeRat
<1> HIDE DEF s, e, u
<1> QED
  BY <1>5, <1>7, <1>9, <1>10 DEF Strength

\* The averages that the last reading is made of.
LEMMA MovesAveraged ==
    ASSUME NEW c \in Seq(Int), NEW w \in Nat, w # 0, Len(c) >= w + 1
    PROVE  LET gain == Wilder(Gains(c), w)
               loss == Wilder(Losses(c), w)
               m == Len(c) - 1
           IN  /\ \A i \in w .. m : gain[i] \in Rat /\ AtMost(Whole(0), gain[i])
               /\ \A i \in w .. m : loss[i] \in Rat /\ AtMost(Whole(0), loss[i])
               /\ gain[m] = Decayed(Gains(c), w, Q(1, w))
               /\ loss[m] = Decayed(Losses(c), w, Q(1, w))
<1> DEFINE gain == Wilder(Gains(c), w)
           loss == Wilder(Losses(c), w)
           m == Len(c) - 1
<1>1. m \in Nat /\ Len(c) >= 1 /\ w <= m
  OBVIOUS
<1>2. /\ Gains(c) \in [1 .. m -> Nat] /\ Losses(c) \in [1 .. m -> Nat]
      /\ Gains(c) \in Seq(Int) /\ Len(Gains(c)) = m
      /\ Losses(c) \in Seq(Int) /\ Len(Losses(c)) = m
  BY <1>1, MovesAre
<1> HIDE DEF m
<1>3. /\ \A i \in w .. m : gain[i] \in Rat /\ AtMost(Whole(0), gain[i])
      /\ gain[m] = Decayed(Gains(c), w, Q(1, w))
  <2>1. \A i \in 1 .. m : Gains(c)[i] >= 0
    <3>1. \A i \in 1 .. m : Gains(c)[i] \in Nat
      BY <1>2
    <3> QED
      BY <3>1
  <2> QED
    BY <1>1, <1>2, <2>1, WilderShown
<1>4. /\ \A i \in w .. m : loss[i] \in Rat /\ AtMost(Whole(0), loss[i])
      /\ loss[m] = Decayed(Losses(c), w, Q(1, w))
  <2>1. \A i \in 1 .. m : Losses(c)[i] >= 0
    <3>1. \A i \in 1 .. m : Losses(c)[i] \in Nat
      BY <1>2
    <3> QED
      BY <3>1
  <2> QED
    BY <1>1, <1>2, <2>1, WilderShown
<1> QED
  BY <1>3, <1>4 DEF m

\* The reading shown is the one of the last averages.
LEMMA RsiShown ==
    ASSUME NEW c \in Seq(Int), NEW w \in Nat, w # 0
    PROVE  Shows(last(RSI(c, w)), Len(c) >= w + 1 /\ checkPositive(c),
                 rsiValue(Wilder(Gains(c), w)[Len(c) - 1], Wilder(Losses(c), w)[Len(c) - 1]))
<1> DEFINE k == IF Len(c) >= w + 1 THEN Len(c) - w ELSE 0
           gain == Wilder(Gains(c), w)
           loss == Wilder(Losses(c), w)
           out == [i \in 1 .. Len(c) - w |-> rsiValue(gain[i + w - 1], loss[i + w - 1])]
           value == rsiValue(gain[Len(c) - 1], loss[Len(c) - 1])
<1>1. k \in Nat /\ w + 1 \in Nat
  OBVIOUS
<1>2. ASSUME Len(c) >= w + 1 /\ checkPositive(c)
      PROVE  k # 0 /\ out \in [1 .. k -> Rat] /\ out[k] = value
  <2> DEFINE m == Len(c) - 1
  <2>1. /\ k = Len(c) - w /\ k \in Nat /\ k # 0 /\ k \in 1 .. k
        /\ m \in Nat /\ w <= m /\ k + w - 1 = m
    BY <1>2
  <2>2. /\ \A i \in w .. m : gain[i] \in Rat /\ AtMost(Whole(0), gain[i])
        /\ \A i \in w .. m : loss[i] \in Rat /\ AtMost(Whole(0), loss[i])
    BY <1>2, MovesAveraged
  <2> HIDE DEF gain, loss, m, k
  <2>3. ASSUME NEW i \in 1 .. k
        PROVE  rsiValue(gain[i + w - 1], loss[i + w - 1]) \in Rat
    <3>1. i + w - 1 \in w .. m
      BY <2>1
    <3> QED
      BY <2>2, <3>1, RsiIsStrength
  <2>4. out \in [1 .. k -> Rat]
    BY <2>1, <2>3
  <2>5. out[k] = rsiValue(gain[m], loss[m])
    BY <2>1
  <2> QED
    BY <2>1, <2>4, <2>5 DEF m
<1>3. RSI(c, w) = Guarded(c, w, w + 1, out)
  BY Zenon DEF RSI
<1> HIDE DEF k, out, value
<1>4. Shows(last(Guarded(c, w, w + 1, out)), Len(c) >= w + 1 /\ checkPositive(c), value)
  BY <1>1, <1>2, GuardedShows
<1> QED
  BY <1>3, <1>4 DEF value

\* ... which is the strength of the gains among the decayed moves.
LEMMA StrengthShown ==
    ASSUME NEW c \in Seq(Int), NEW w \in Nat, w # 0
    PROVE  Shows(last(RSI(c, w)), Len(c) >= w + 1 /\ checkPositive(c),
                 Strength(Decayed(Gains(c), w, Q(1, w)), Decayed(Losses(c), w, Q(1, w))))
<1> DEFINE m == Len(c) - 1
           gain == Wilder(Gains(c), w)
           loss == Wilder(Losses(c), w)
<1>1. ASSUME Len(c) >= w + 1
      PROVE  rsiValue(gain[m], loss[m]) =
               Strength(Decayed(Gains(c), w, Q(1, w)), Decayed(Losses(c), w, Q(1, w)))
  <2>1. m \in w .. m
    BY <1>1
  <2>2. /\ \A i \in w .. m : gain[i] \in Rat /\ AtMost(Whole(0), gain[i])
        /\ \A i \in w .. m : loss[i] \in Rat /\ AtMost(Whole(0), loss[i])
        /\ gain[m] = Decayed(Gains(c), w, Q(1, w))
        /\ loss[m] = Decayed(Losses(c), w, Q(1, w))
    BY <1>1, MovesAveraged
  <2> HIDE DEF gain, loss, m
  <2> QED
    BY <2>1, <2>2, RsiIsStrength
<1>2. Shows(last(RSI(c, w)), Len(c) >= w + 1 /\ checkPositive(c), rsiValue(gain[m], loss[m]))
  BY RsiShown
<1> HIDE DEF gain, loss, m
<1> QED
  BY <1>1, <1>2 DEF Shows

\* The closes and volumes of a history.
LEMMA HistoryIs ==
    ASSUME TablesSound, NEW s \in Symbols
    PROVE  LET p == rows["prices"][s]
               c == ClosesOf(Days(s))
               v == VolumesOf(Days(s))
           IN  /\ Cardinality(p) \in Nat
               /\ c \in Seq(Int) /\ Len(c) = Cardinality(p)
               /\ v \in Seq(Int) /\ Len(v) = Cardinality(p)
               /\ checkPositive(c) = (\A r \in p : r.close > 0)
               /\ checkPositive(v) = (\A r \in p : r.volume > 0)
<1> DEFINE p == rows["prices"][s]
           n == Cardinality(p)
           d == Days(s)
           c == ClosesOf(d)
           v == VolumesOf(d)
<1>1. Dated(p) /\ \A r \in p : r.close \in Nat /\ r.volume \in Nat
  BY SoundRows
<1>2. n \in Nat
  BY <1>1, PageIs
<1>3. d \in [1 .. n -> p] /\ \A x \in p : \E k \in 1 .. n : d[k] = x
  BY <1>1, DatedKeyed, AscendingIs DEF Days
<1> HIDE DEF d, n, p
<1>4. /\ c \in [1 .. n -> Int] /\ \A i \in 1 .. n : c[i] = d[i].close
      /\ v \in [1 .. n -> Int] /\ \A i \in 1 .. n : v[i] = d[i].volume
  BY <1>1, <1>3 DEF ClosesOf, VolumesOf
<1> HIDE DEF c, v
<1>5. /\ c \in Seq(Int) /\ Len(c) = n /\ DOMAIN c = 1 .. n
      /\ v \in Seq(Int) /\ Len(v) = n /\ DOMAIN v = 1 .. n
  BY <1>2, <1>4, ListIs
<1>6. checkPositive(c) = (\A r \in p : r.close > 0)
  <2>1. ASSUME checkPositive(c), NEW r \in p PROVE r.close > 0
    <3>1. PICK k \in 1 .. n : d[k] = r
      BY <1>3
    <3>2. c[k] > 0
      BY <1>5, <2>1 DEF checkPositive
    <3> QED
      BY <1>4, <3>1, <3>2
  <2>2. ASSUME \A r \in p : r.close > 0, NEW i \in 1 .. n PROVE c[i] > 0
    <3>1. d[i] \in p
      BY <1>3
    <3> QED
      BY <1>4, <2>2, <3>1
  <2>3. checkPositive(c) <=> \A i \in 1 .. n : c[i] > 0
    BY <1>5 DEF checkPositive
  <2>4. checkPositive(c) \in BOOLEAN
    BY DEF checkPositive
  <2> QED
    BY <2>1, <2>2, <2>3, <2>4
<1>7. checkPositive(v) = (\A r \in p : r.volume > 0)
  <2>1. ASSUME checkPositive(v), NEW r \in p PROVE r.volume > 0
    <3>1. PICK k \in 1 .. n : d[k] = r
      BY <1>3
    <3>2. v[k] > 0
      BY <1>5, <2>1 DEF checkPositive
    <3> QED
      BY <1>4, <3>1, <3>2
  <2>2. ASSUME \A r \in p : r.volume > 0, NEW i \in 1 .. n PROVE v[i] > 0
    <3>1. d[i] \in p
      BY <1>3
    <3> QED
      BY <1>4, <2>2, <3>1
  <2>3. checkPositive(v) <=> \A i \in 1 .. n : v[i] > 0
    BY <1>5 DEF checkPositive
  <2>4. checkPositive(v) \in BOOLEAN
    BY DEF checkPositive
  <2> QED
    BY <2>1, <2>2, <2>3, <2>4
<1> QED
  BY <1>2, <1>5, <1>6, <1>7 DEF c, v, d, n, p

\* Everything /technical shows: when, and what.
LEMMA TechnicalShown ==
    ASSUME TablesSound, NEW s \in Symbols
    PROVE  LET n == Cardinality(rows["prices"][s])
               c == ClosesOf(Days(s))
               v == Technical(Days(s))
               priced == \A r \in rows["prices"][s] : r.close > 0
               traded == \A r \in rows["prices"][s] : r.volume > 0
           IN  /\ Shows(v.dailyReturn, n >= 2 /\ priced,
                        Q(Last(c) - c[Len(c) - 1], c[Len(c) - 1]))
               /\ Shows(v.sma20, n >= Short /\ priced, Mean(LastOf(c, Short)))
               /\ Shows(v.sma50, n >= Medium /\ priced, Mean(LastOf(c, Medium)))
               /\ Shows(v.sma200, n >= Long /\ priced, Mean(LastOf(c, Long)))
               /\ Shows(v.ema20, n >= Short /\ priced, Decayed(c, Short, Q(2, Short + 1)))
               /\ Shows(v.rsi14, n >= Period + 1 /\ priced,
                        Strength(Decayed(Gains(c), Period, Q(1, Period)),
                                 Decayed(Losses(c), Period, Q(1, Period))))
               /\ Shows(v.volatility20, n >= Short + 1 /\ priced,
                        Variance(LastOf(Returns(c), Short)))
               /\ Shows(v.averageVolume20, n >= Short /\ traded,
                        Mean(LastOf(VolumesOf(Days(s)), Short)))
<1> DEFINE n == Cardinality(rows["prices"][s])
           d == Days(s)
           c == ClosesOf(d)
           u == VolumesOf(d)
           v == Technical(d)
           priced == \A r \in rows["prices"][s] : r.close > 0
           traded == \A r \in rows["prices"][s] : r.volume > 0
<1>1. /\ c \in Seq(Int) /\ Len(c) = n /\ u \in Seq(Int) /\ Len(u) = n
      /\ checkPositive(c) = priced /\ checkPositive(u) = traded
  BY HistoryIs
<1>2. /\ v.dailyReturn = last(DailyReturn(c))
      /\ v.sma20 = last(SMA(c, Short)) /\ v.sma50 = last(SMA(c, Medium))
      /\ v.sma200 = last(SMA(c, Long)) /\ v.ema20 = last(EMA(c, Short))
      /\ v.rsi14 = last(RSI(c, Period)) /\ v.volatility20 = last(volatilitySeries(c, Short))
      /\ v.averageVolume20 = last(AverageVolume(u, Short))
  BY DEF Technical, ClosesOf, VolumesOf
<1>3. /\ Short \in Nat /\ Short # 0 /\ Short >= 2 /\ Medium \in Nat /\ Medium # 0
      /\ Long \in Nat /\ Long # 0 /\ Period \in Nat /\ Period # 0
  BY FiguresAssumption
<1> HIDE DEF n, d, c, u, v, priced, traded
<1>4. Shows(v.dailyReturn, n >= 2 /\ priced, Q(Last(c) - c[Len(c) - 1], c[Len(c) - 1]))
  BY <1>1, <1>2, ReturnShown
<1>5. /\ Shows(v.sma20, n >= Short /\ priced, Mean(LastOf(c, Short)))
      /\ Shows(v.sma50, n >= Medium /\ priced, Mean(LastOf(c, Medium)))
      /\ Shows(v.sma200, n >= Long /\ priced, Mean(LastOf(c, Long)))
  BY <1>1, <1>2, <1>3, MeanShown
<1>6. Shows(v.ema20, n >= Short /\ priced, Decayed(c, Short, Q(2, Short + 1)))
  BY <1>1, <1>2, <1>3, ExponentialShown
<1>7. Shows(v.rsi14, n >= Period + 1 /\ priced,
            Strength(Decayed(Gains(c), Period, Q(1, Period)),
                     Decayed(Losses(c), Period, Q(1, Period))))
  BY <1>1, <1>2, <1>3, StrengthShown
<1>8. Shows(v.volatility20, n >= Short + 1 /\ priced, Variance(LastOf(Returns(c), Short)))
  BY <1>1, <1>2, <1>3, VolatilityShown
<1>9. Shows(v.averageVolume20, n >= Short /\ traded, Mean(LastOf(u, Short)))
  BY <1>1, <1>2, <1>3, MeanShown
<1> QED
  BY <1>4, <1>5, <1>6, <1>7, <1>8, <1>9 DEF n, d, c, u, v, priced, traded

\* What /technical shows is the textbook value, for every history that can be
\* stored and all windows.
THEOREM IndicatorsAreTextbook == Spec => []IndicatorsMatchDefinition
<1>1. TablesSound => IndicatorsMatchDefinition
  <2> SUFFICES ASSUME TablesSound, NEW s \in Symbols, rows["prices"][s] # {}
               PROVE  IndicatorsMatchDefinition!(s)!2
    BY DEF IndicatorsMatchDefinition
  <2> QED
    BY TechnicalShown DEF Shows
<1> QED
  BY <1>1, TablesStaySound, PTL

\* For every history that can be stored and all windows, an indicator is missing
\* when the history is shorter than its window, and there when it is long enough
\* and every day can be used.
THEOREM NullsAreExplained == Spec => []NullsFollowWindows
<1>1. TablesSound => NullsFollowWindows
  <2> SUFFICES ASSUME TablesSound, NEW s \in Symbols, rows["prices"][s] # {}
               PROVE  NullsFollowWindows!(s)!2
    BY DEF NullsFollowWindows
  <2> QED
    BY TechnicalShown DEF Shows
<1> QED
  BY <1>1, TablesStaySound, PTL

-----------------------------------------------------------------------------
(* The RSI follows the close.                                               *)

\* The place of a row in its history is the number of older rows.
LEMMA PlaceIs ==
    ASSUME NEW tab, Keyed(tab), NEW r \in tab, NEW k \in 1 .. Cardinality(tab)
    PROVE  Ascending(tab)[k] = r <=> Cardinality({x \in tab : Newer(r, x)}) = k - 1
<1> DEFINE n == Cardinality(tab)
           s == Ascending(tab)
           d == [x \in tab |-> Rank(x)]
           older(y) == {x \in tab : Newer(y, x)}
<1>1. s[k] = CHOOSE y \in tab : Cardinality(older(y)) = k - 1
  BY DEF Ascending, OrderBy
<1>2. IsFiniteSet(tab) /\ \A x \in tab : x.date \in Nat
  BY DEF Keyed
<1>3. d \in [tab -> Int] /\ \A x, y \in tab : d[x] = d[y] => x = y
  BY <1>2 DEF Keyed, Rank
<1>4. \A y \in tab : Preceding(tab, d, y) = older(y)
  BY <1>2, NewerRank DEF Preceding
<1> HIDE DEF d, s
<1>5. /\ \A x, y \in tab : Cardinality(Preceding(tab, d, x)) = Cardinality(Preceding(tab, d, y))
                              => x = y
      /\ \E y \in tab : Cardinality(Preceding(tab, d, y)) = k - 1
  BY <1>2, <1>3, PlacesTaken
<1> HIDE DEF older
<1>6. s[k] \in tab /\ Cardinality(older(s[k])) = k - 1
  BY <1>1, <1>4, <1>5
<1>7. s[k] = r <=> Cardinality(older(r)) = k - 1
  BY <1>4, <1>5, <1>6
<1> QED
  BY <1>7 DEF s, older

\* A new last day is appended to the history.
LEMMA DayAppended ==
    ASSUME NEW before, NEW after, NEW day, Dated(before), Dated(after), day \notin before,
           after = before \cup {day}, \A r \in before : r.date < day.date
    PROVE  /\ Cardinality(after) = Cardinality(before) + 1
           /\ Ascending(after)[Cardinality(after)] = day
           /\ \A k \in 1 .. Cardinality(before) : Ascending(after)[k] = Ascending(before)[k]
<1> DEFINE n == Cardinality(before)
           a == Ascending(before)
           b == Ascending(after)
<1>1. Keyed(before) /\ Keyed(after) /\ n \in Nat /\ IsFiniteSet(before)
  BY DatedKeyed, FS_CardinalityType DEF Dated
<1>2. Cardinality(after) = n + 1
  BY <1>1, FS_AddElement
<1>3. /\ a \in [1 .. n -> before] /\ b \in [1 .. n + 1 -> after]
      /\ \A i, j \in 1 .. n + 1 : i < j => Rank(b[i]) < Rank(b[j])
      /\ \A x \in after : \E k \in 1 .. n + 1 : b[k] = x
  BY <1>1, <1>2, AscendingIs
<1>4. \A x \in after : x.date \in Nat /\ Rank(x) \in Int
  BY <1>1 DEF Keyed, Rank
<1>5. \A r \in before : Rank(r) < Rank(day) /\ ~Newer(r, day)
  <2> SUFFICES ASSUME NEW r \in before PROVE Rank(r) < Rank(day) /\ ~Newer(r, day)
    OBVIOUS
  <2>1. r \in after /\ day \in after /\ r.date \in Nat /\ day.date \in Nat /\ r.date < day.date
    BY <1>4
  <2>2. Rank(r) < Rank(day)
    BY <2>1, DatedKeyed
  <2> QED
    BY <1>4, <2>1, <2>2, NewerRank
<1> HIDE DEF a, b, n
<1>6. b[n + 1] = day
  <2>1. PICK k \in 1 .. n + 1 : b[k] = day
    BY <1>3
  <2>2. n + 1 \in 1 .. n + 1 /\ b[n + 1] \in after
    BY <1>1, <1>3
  <2>3. CASE k < n + 1
    <3>1. Rank(day) < Rank(b[n + 1])
      BY <1>3, <2>1, <2>2, <2>3
    <3>2. b[n + 1] \in before => Rank(b[n + 1]) < Rank(day)
      BY <1>5
    <3>3. Rank(day) \in Int /\ Rank(b[n + 1]) \in Int
      BY <1>4, <2>2
    <3> QED
      BY <2>2, <3>1, <3>2, <3>3
  <2>4. CASE k = n + 1
    BY <2>1, <2>4
  <2> QED
    BY <1>1, <2>3, <2>4
<1>7. ASSUME NEW k \in 1 .. n PROVE b[k] = a[k]
  <2> DEFINE r == a[k]
             S == {x \in before : Newer(r, x)}
             T == {x \in after : Newer(r, x)}
  <2>1. r \in before /\ r \in after /\ k \in 1 .. n + 1
    BY <1>1, <1>3
  <2>2. Cardinality(S) = k - 1
    BY <1>1, <2>1, PlaceIs DEF n, a
  <2>3. S = T
    BY <1>5, <2>1
  <2>4. Cardinality(T) = k - 1
    BY <2>2, <2>3
  <2> HIDE DEF r, S
  <2> QED
    BY <1>1, <1>2, <2>1, <2>4, PlaceIs DEF b, r
<1> QED
  BY <1>2, <1>6, <1>7 DEF a, b, n

\* Averages of the same days are the same, whatever comes later.
LEMMA WilderPrefix ==
    ASSUME NEW x \in Seq(Int), NEW y \in Seq(Int), NEW period \in Nat, period # 0,
           period <= Len(x), Len(x) <= Len(y), \A i \in 1 .. Len(x) : y[i] = x[i]
    PROVE  \A i \in period .. Len(x) : Wilder(y, period)[i] = Wilder(x, period)[i]
<1> DEFINE n == Len(x)
           m == Len(y)
           v == Wilder(x, period)
           w == Wilder(y, period)
<1>1. n \in Nat /\ m \in Nat /\ n \in Int /\ period \in Int /\ period <= m
  OBVIOUS
<1>2. SubSeq(x, 1, period) = SubSeq(y, 1, period)
  <2>1. \A i \in 1 .. period : x[i] \in Int /\ y[i] \in Int /\ y[i] = x[i]
    BY <1>1
  <2> QED
    BY <1>1, <2>1
<1> DEFINE base == Q(Sum(SubSeq(x, 1, period)), period)
<1>3. /\ v[period] = base
      /\ \A i \in period .. n : i # period => v[i] = Smoothed(v[i - 1], x[i], period)
  BY WilderIs
<1>4. /\ w[period] = base
      /\ \A i \in period .. m : i # period => w[i] = Smoothed(w[i - 1], y[i], period)
  BY <1>1, <1>2, WilderIs
<1> HIDE DEF v, w, base, n, m
<1> DEFINE T == {i \in Int : w[i] = v[i]}
<1>5. period \in T
  BY <1>1, <1>3, <1>4
<1>6. ASSUME NEW i \in period .. n, i # period, i - 1 \in T PROVE i \in T
  <2>1. i \in period .. m /\ i \in 1 .. n /\ w[i - 1] = v[i - 1] /\ i \in Int
    BY <1>1, <1>6 DEF n, m
  <2>2. y[i] = x[i]
    BY <2>1 DEF n
  <2>3. w[i] = v[i]
    BY <1>3, <1>4, <1>6, <2>1, <2>2
  <2> QED
    BY <2>1, <2>3
<1> HIDE DEF T
<1>7. \A i \in period .. n : i \in T
  BY <1>1, <1>5, <1>6, Along
<1> QED
  BY <1>7 DEF T, v, w, n

\* A reading for gains x and losses y, in the same unit.
Reading(x, y) == IF x + y = 0 THEN Whole(50) ELSE Q(100 * x, x + y)

\* It lies between 0 and 100.
LEMMA ReadingBounds ==
    ASSUME NEW x \in Int, x >= 0, NEW y \in Int, y >= 0
    PROVE  AtMost(Whole(0), Reading(x, y)) /\ AtMost(Reading(x, y), Whole(100))
<1>1. /\ Whole(0) = Q(0, 1) /\ Whole(50) = Q(50, 1) /\ Whole(100) = Q(100, 1)
      /\ 0 \in Int /\ 50 \in Int /\ 100 \in Int /\ 1 \in Int /\ 1 > 0
  BY WholeIs
<1>2. CASE x + y = 0
  <2>1. AtMost(Q(0, 1), Q(50, 1)) /\ AtMost(Q(50, 1), Q(100, 1))
    <3>1. 0 * 1 <= 50 * 1 /\ 50 * 1 <= 100 * 1
      OBVIOUS
    <3> QED
      BY <1>1, <3>1, AtMostQ
  <2> QED
    BY <1>1, <1>2, <2>1 DEF Reading
<1>3. CASE x + y # 0
  <2> DEFINE s == x + y
             u == 100 * x
  <2>1. s \in Int /\ s > 0 /\ u \in Int /\ 0 * s <= u * 1 /\ u * 1 <= 100 * s
    BY <1>3
  <2>2. Reading(x, y) = Q(u, s)
    BY <1>3 DEF Reading
  <2> HIDE DEF s, u
  <2>3. AtMost(Q(0, 1), Q(u, s)) /\ AtMost(Q(u, s), Q(100, 1))
    BY <1>1, <2>1, AtMostQ
  <2> QED
    BY <1>1, <2>2, <2>3
<1> QED
  BY <1>2, <1>3

\* The larger share of gains has the higher reading, also against the neutral 50.
LEMMA ReadingOrder ==
    ASSUME NEW x \in Int, x >= 0, NEW y \in Int, y >= 0,
           NEW u \in Int, u >= 0, NEW v \in Int, v >= 0,
           x * v <= u * y, x + y = 0 => v = 0, u + v = 0 => x = 0
    PROVE  AtMost(Reading(x, y), Reading(u, v))
<1>1. /\ Whole(50) = Q(50, 1) /\ 50 \in Int /\ 1 \in Int /\ 1 > 0
  BY WholeIs
<1>2. CASE x + y = 0 /\ u + v = 0
  <2>1. 50 * 1 <= 50 * 1
    OBVIOUS
  <2>2. AtMost(Q(50, 1), Q(50, 1))
    BY <1>1, <2>1, AtMostQ
  <2> QED
    BY <1>1, <1>2, <2>2 DEF Reading
<1>3. CASE x + y = 0 /\ u + v # 0
  <2>1. u + v \in Int /\ u + v > 0 /\ 100 * u \in Int /\ 50 * (u + v) <= (100 * u) * 1
    BY <1>3
  <2>2. AtMost(Q(50, 1), Q(100 * u, u + v))
    BY <1>1, <2>1, AtMostQ
  <2> QED
    BY <1>1, <1>3, <2>2 DEF Reading
<1>4. CASE x + y # 0 /\ u + v = 0
  <2>1. x + y \in Int /\ x + y > 0 /\ 100 * x \in Int /\ (100 * x) * 1 <= 50 * (x + y)
    BY <1>4
  <2>2. AtMost(Q(100 * x, x + y), Q(50, 1))
    BY <1>1, <2>1, AtMostQ
  <2> QED
    BY <1>1, <1>4, <2>2 DEF Reading
<1>5. CASE x + y # 0 /\ u + v # 0
  <2>1. /\ x + y \in Int /\ x + y > 0 /\ 100 * x \in Int
        /\ u + v \in Int /\ u + v > 0 /\ 100 * u \in Int
    BY <1>5
  <2>2. (100 * x) * (u + v) <= (100 * u) * (x + y)
    <3>1. (100 * x) * (u + v) = 100 * (x * u) + 100 * (x * v)
      OBVIOUS
    <3>2. (100 * u) * (x + y) = 100 * (x * u) + 100 * (u * y)
      OBVIOUS
    <3>3. x * v \in Int /\ u * y \in Int /\ x * u \in Int
      OBVIOUS
    <3> QED
      BY <3>1, <3>2, <3>3
  <2>3. AtMost(Q(100 * x, x + y), Q(100 * u, u + v))
    BY <2>1, <2>2, AtMostQ
  <2> QED
    BY <1>5, <2>3 DEF Reading
<1> QED
  BY <1>2, <1>3, <1>4, <1>5

\* The unit does not matter.
LEMMA ReadingScaled ==
    ASSUME NEW x \in Int, x >= 0, NEW y \in Int, y >= 0, NEW p \in Int, p > 0
    PROVE  Reading(p * x, p * y) = Reading(x, y)
<1> DEFINE s == x + y
           t == p * x + p * y
<1>1. s \in Int /\ t \in Int /\ s >= 0 /\ p * x \in Int /\ 100 * (p * x) \in Int /\ 100 * x \in Int
  OBVIOUS
<1>2. t = p * s
  OBVIOUS
<1>3. (100 * (p * x)) * s = (100 * x) * t
  OBVIOUS
<1> HIDE DEF s, t
<1>4. t = 0 <=> s = 0
  BY <1>1, <1>2
<1>5. s # 0 => Q(100 * (p * x), t) = Q(100 * x, s)
  BY <1>1, <1>3, <1>4, QEqual
<1>6. (IF t = 0 THEN Whole(50) ELSE Q(100 * (p * x), t)) =
        (IF s = 0 THEN Whole(50) ELSE Q(100 * x, s))
  BY <1>4, <1>5
<1> QED
  BY <1>6 DEF Reading, s, t

\* An average and the next one as quotients.
LEMMA SmoothedParts ==
    ASSUME NEW g \in Rat, AtMost(Whole(0), g), NEW period \in Nat, period # 0, NEW u \in Int
    PROVE  \E a, b \in Int :
             /\ b > 0 /\ b # 0 /\ a >= 0 /\ g = Q(a, b)
             /\ Smoothed(g, u, period) = Q(a * (period - 1) + u * b, b * period)
<1>1. PICK a \in Int, b \in Int : b > 0 /\ b # 0 /\ g = Q(a, b)
  BY RatIs
<1>2. a >= 0
  BY <1>1, NonNegativeQ
<1>3. Smoothed(g, u, period) = Q(a * (period - 1) + u * b, b * period)
  BY <1>1, SmoothedQ
<1> QED
  BY <1>1, <1>2, <1>3

\* The next reading after a day with the gain u and the loss v.
LEMMA RsiMoves ==
    ASSUME NEW g \in Rat, AtMost(Whole(0), g), NEW l \in Rat, AtMost(Whole(0), l),
           NEW period \in Nat, period >= 2,
           NEW u \in Int, u >= 0, NEW v \in Int, v >= 0
    PROVE  LET old == rsiValue(g, l)
               new == rsiValue(Smoothed(g, u, period), Smoothed(l, v, period))
           IN  /\ AtMost(Whole(0), new) /\ AtMost(new, Whole(100))
               /\ v = 0 => AtMost(old, new)
               /\ u = 0 => AtMost(new, old)
<1>0. period # 0
  OBVIOUS
<1>1. PICK a, b \in Int :
        /\ b > 0 /\ b # 0 /\ a >= 0 /\ g = Q(a, b)
        /\ Smoothed(g, u, period) = Q(a * (period - 1) + u * b, b * period)
  BY <1>0, SmoothedParts
<1>2. PICK c, d \in Int :
        /\ d > 0 /\ d # 0 /\ c >= 0 /\ l = Q(c, d)
        /\ Smoothed(l, v, period) = Q(c * (period - 1) + v * d, d * period)
  BY <1>0, SmoothedParts
<1>3. a >= 0 /\ c >= 0
  BY <1>1, <1>2
<1> DEFINE m == period - 1
           x == a * d
           y == c * b
           z == b * d
           A == a * m + u * b
           B == b * period
           C == c * m + v * d
           D == d * period
           U == m * x + u * z
           V == m * y + v * z
           new == rsiValue(Smoothed(g, u, period), Smoothed(l, v, period))
<1>4. /\ m \in Int /\ m > 0 /\ period \in Int /\ period > 0 /\ period # 0
      /\ u \in Int /\ u >= 0 /\ v \in Int /\ v >= 0
  OBVIOUS
<1>5. x \in Int /\ x >= 0 /\ y \in Int /\ y >= 0 /\ z \in Int /\ z > 0
  <2>1. x >= 0
    BY <1>2, <1>3
  <2>2. y >= 0
    BY <1>1, <1>3
  <2>3. z > 0
    BY <1>1, <1>2
  <2> QED
    BY <2>1, <2>2, <2>3
<1>6. rsiValue(g, l) = Reading(x, y)
  <2>1. b > 0 /\ d > 0
    BY <1>1, <1>2
  <2>2. rsiValue(Q(a, b), Q(c, d)) =
          IF a * d + c * b = 0 THEN Whole(50) ELSE Q(100 * (a * d), a * d + c * b)
    BY <1>3, <2>1, RsiQ
  <2> QED
    BY <1>1, <1>2, <2>2 DEF Reading
<1>7. /\ Smoothed(g, u, period) = Q(A, B) /\ A \in Int /\ B \in Int
      /\ Smoothed(l, v, period) = Q(C, D) /\ C \in Int /\ D \in Int
  BY <1>1, <1>2, <1>4
<1>8. A >= 0 /\ C >= 0 /\ B > 0 /\ D > 0
  <2> HIDE DEF m
  <2>1. a * m >= 0
    BY <1>3, <1>4
  <2>2. u * b >= 0
    BY <1>1, <1>4
  <2>3. c * m >= 0
    BY <1>3, <1>4
  <2>4. v * d >= 0
    BY <1>2, <1>4
  <2>5. B > 0
    BY <1>1, <1>4
  <2>6. D > 0
    BY <1>2, <1>4
  <2>7. a * m \in Int /\ u * b \in Int /\ c * m \in Int /\ v * d \in Int
    BY <1>4
  <2> QED
    BY <2>1, <2>2, <2>3, <2>4, <2>5, <2>6, <2>7
<1>9. U \in Int /\ U >= 0 /\ V \in Int /\ V >= 0
  <2> HIDE DEF m, x, y, z
  <2>1. m * x >= 0
    BY <1>4, <1>5
  <2>2. u * z >= 0
    BY <1>4, <1>5
  <2>3. m * y >= 0
    BY <1>4, <1>5
  <2>4. v * z >= 0
    BY <1>4, <1>5
  <2>5. m * x \in Int /\ u * z \in Int /\ m * y \in Int /\ v * z \in Int
    BY <1>4, <1>5
  <2> QED
    BY <2>1, <2>2, <2>3, <2>4, <2>5
<1>10. A * D = period * U
  <2> HIDE DEF m
  <2> QED
    BY <1>4
<1>11. C * B = period * V
  <2> HIDE DEF m
  <2> QED
    BY <1>4
<1> HIDE DEF A, B, C, D, U, V, m, x, y, z
<1>12. new = Reading(U, V)
  <2>1. rsiValue(Q(A, B), Q(C, D)) =
          IF A * D + C * B = 0 THEN Whole(50) ELSE Q(100 * (A * D), A * D + C * B)
    <3>1. A \in Int /\ B \in Int /\ C \in Int /\ D \in Int
      BY <1>7
    <3> QED
      BY <1>8, <3>1, RsiQ
  <2>2. rsiValue(Q(A, B), Q(C, D)) = Reading(period * U, period * V)
    BY <1>10, <1>11, <2>1 DEF Reading
  <2>3. Reading(period * U, period * V) = Reading(U, V)
    BY <1>4, <1>9, ReadingScaled
  <2> QED
    BY <1>7, <2>2, <2>3
<1>13. AtMost(Whole(0), new) /\ AtMost(new, Whole(100))
  BY <1>9, <1>12, ReadingBounds
<1>14. ASSUME v = 0 PROVE AtMost(Reading(x, y), Reading(U, V))
  <2>1. V = m * y
    BY <1>4, <1>5, <1>14 DEF V
  <2>2. x * V <= U * y
    <3>1. U * y = x * (m * y) + (u * z) * y
      BY <1>4, <1>5 DEF U
    <3>2. u * z \in Int /\ u * z >= 0
      BY <1>4, <1>5
    <3>3. (u * z) * y \in Int /\ (u * z) * y >= 0
      BY <1>5, <3>2
    <3>4. x * (m * y) \in Int
      BY <1>4, <1>5
    <3> QED
      BY <2>1, <3>1, <3>3, <3>4
  <2>3. x + y = 0 => V = 0
    <3>1. x + y = 0 => y = 0
      BY <1>5
    <3> QED
      BY <1>4, <2>1, <3>1
  <2>4. U + V = 0 => x = 0
    <3>1. U + V = 0 => U = 0
      BY <1>9
    <3>2. u * z \in Int /\ u * z >= 0 /\ m * x \in Int /\ m * x >= 0
      BY <1>4, <1>5
    <3>3. U = 0 => m * x = 0
      BY <3>2 DEF U
    <3>4. m * x = 0 => x = 0
      BY <1>4, <1>5
    <3> QED
      BY <3>1, <3>3, <3>4
  <2> QED
    BY <1>5, <1>9, <2>2, <2>3, <2>4, ReadingOrder
<1>15. ASSUME u = 0 PROVE AtMost(Reading(U, V), Reading(x, y))
  <2>1. U = m * x
    BY <1>4, <1>5, <1>15 DEF U
  <2>2. U * y <= x * V
    <3>1. x * V = (m * x) * y + (v * z) * x
      BY <1>4, <1>5 DEF V
    <3>2. v * z \in Int /\ v * z >= 0
      BY <1>4, <1>5
    <3>3. (v * z) * x \in Int /\ (v * z) * x >= 0
      BY <1>5, <3>2
    <3>4. (m * x) * y \in Int
      BY <1>4, <1>5
    <3> QED
      BY <2>1, <3>1, <3>3, <3>4
  <2>3. U + V = 0 => y = 0
    <3>1. U + V = 0 => V = 0
      BY <1>9
    <3>2. v * z \in Int /\ v * z >= 0 /\ m * y \in Int /\ m * y >= 0
      BY <1>4, <1>5
    <3>3. V = 0 => m * y = 0
      BY <3>2 DEF V
    <3>4. m * y = 0 => y = 0
      BY <1>4, <1>5
    <3> QED
      BY <3>1, <3>3, <3>4
  <2>4. x + y = 0 => U = 0
    <3>1. x + y = 0 => x = 0
      BY <1>5
    <3> QED
      BY <1>4, <2>1, <3>1
  <2> QED
    BY <1>5, <1>9, <2>2, <2>3, <2>4, ReadingOrder
<1> QED
  BY <1>6, <1>12, <1>13, <1>14, <1>15

\* The averages with one day more.
LEMMA DayAveraged ==
    ASSUME NEW x \in Seq(Int), NEW y \in Seq(Int), NEW period \in Nat, period # 0,
           period <= Len(x), Len(y) = Len(x) + 1, \A i \in 1 .. Len(x) : y[i] = x[i]
    PROVE  Wilder(y, period)[Len(y)] = Smoothed(Wilder(x, period)[Len(x)], y[Len(y)], period)
<1> DEFINE n == Len(x)
<1>1. /\ n \in Nat /\ Len(y) = n + 1 /\ n <= n + 1 /\ period <= n + 1 /\ n \in period .. n
      /\ n + 1 \in period .. n + 1 /\ n + 1 # period /\ (n + 1) - 1 = n
  OBVIOUS
<1> HIDE DEF n
<1>2. Wilder(y, period)[n] = Wilder(x, period)[n]
  BY <1>1, WilderPrefix DEF n
<1>3. Wilder(y, period)[n + 1] = Smoothed(Wilder(y, period)[(n + 1) - 1], y[n + 1], period)
  BY <1>1, WilderIs
<1> QED
  BY <1>1, <1>2, <1>3 DEF n

\* The moves with one day more.
LEMMA DayMoved ==
    ASSUME NEW c \in Seq(Int), NEW e \in Seq(Int), Len(c) >= 1, Len(e) = Len(c) + 1,
           \A i \in 1 .. Len(c) : e[i] = c[i]
    PROVE  LET n == Len(c)
           IN  /\ \A i \in 1 .. n - 1 : Gains(e)[i] = Gains(c)[i] /\ Losses(e)[i] = Losses(c)[i]
               /\ Gains(e)[n] = IF e[n + 1] > c[n] THEN e[n + 1] - c[n] ELSE 0
               /\ Losses(e)[n] = IF e[n + 1] > c[n] THEN 0 ELSE c[n] - e[n + 1]
<1> DEFINE n == Len(c)
<1>1. n \in Nat /\ n >= 1 /\ Len(e) - 1 = n /\ n \in 1 .. n
  OBVIOUS
<1>2. \A i \in 1 .. n - 1 : i \in 1 .. n /\ i + 1 \in 1 .. n
  BY <1>1
<1>3. \A i \in 1 .. n : e[i] = c[i]
  OBVIOUS
<1> HIDE DEF n
<1>4. \A i \in 1 .. n - 1 : Gains(e)[i] = Gains(c)[i] /\ Losses(e)[i] = Losses(c)[i]
  BY <1>1, <1>2, <1>3 DEF Gains, Losses, n
<1>5. e[n] = c[n]
  BY <1>1, <1>3
<1>6. /\ Gains(e)[n] = IF e[n + 1] > e[n] THEN e[n + 1] - e[n] ELSE 0
      /\ Losses(e)[n] = IF e[n + 1] > e[n] THEN 0 ELSE e[n] - e[n + 1]
  BY <1>1 DEF Gains, Losses
<1> QED
  BY <1>4, <1>5, <1>6 DEF n

\* The prices of a symbol, as far as the RSI needs them.
Priced(tab) == Dated(tab) /\ \A r \in tab : r.close \in Nat

\* The closes of a set of rows.
LEMMA ClosesIs ==
    ASSUME NEW tab, Priced(tab)
    PROVE  LET c == ClosesOf(Ascending(tab))
           IN  /\ Cardinality(tab) \in Nat /\ c \in Seq(Int) /\ Len(c) = Cardinality(tab)
               /\ \A i \in 1 .. Cardinality(tab) : c[i] = Ascending(tab)[i].close
<1> DEFINE n == Cardinality(tab)
           d == Ascending(tab)
           c == ClosesOf(d)
<1>1. n \in Nat
  BY PageIs DEF Priced
<1>2. d \in [1 .. n -> tab]
  BY DatedKeyed, AscendingIs DEF Priced
<1> HIDE DEF n, d
<1>3. c \in [1 .. n -> Int] /\ \A i \in 1 .. n : c[i] = d[i].close
  BY <1>2 DEF ClosesOf, Priced
<1>4. c \in Seq(Int) /\ Len(c) = n
  BY <1>1, <1>3, ListIs
<1> QED
  BY <1>1, <1>3, <1>4 DEF n, d

\* A new last day moves the reading the way the close went.
LEMMA RsiFollows ==
    ASSUME NEW before, NEW after, NEW day, Priced(before), Priced(after), before # {},
           day \notin before, after = before \cup {day}, \A r \in before : r.date < day.date,
           RSIOf(before) # Null, RSIOf(after) # Null
    PROVE  LET close == Last(Ascending(before)).close
           IN  /\ AtMost(Whole(0), RSIOf(after)) /\ AtMost(RSIOf(after), Whole(100))
               /\ day.close >= close => AtMost(RSIOf(before), RSIOf(after))
               /\ day.close <= close => AtMost(RSIOf(after), RSIOf(before))
<1> DEFINE n == Cardinality(before)
           m == n - 1
           c == ClosesOf(Ascending(before))
           e == ClosesOf(Ascending(after))
           g == Wilder(Gains(c), Period)[m]
           l == Wilder(Losses(c), Period)[m]
           u == Gains(e)[n]
           v == Losses(e)[n]
<1>1. Period \in Nat /\ Period >= 2 /\ Period # 0
  BY FiguresAssumption
<1>2. /\ Cardinality(after) = n + 1
      /\ Ascending(after)[n + 1] = day
      /\ \A k \in 1 .. n : Ascending(after)[k] = Ascending(before)[k]
  BY DayAppended DEF Priced
<1>3. /\ n \in Nat /\ c \in Seq(Int) /\ Len(c) = n
      /\ \A i \in 1 .. n : c[i] = Ascending(before)[i].close
  BY ClosesIs
<1>4. /\ e \in Seq(Int) /\ Len(e) = n + 1
      /\ \A i \in 1 .. n + 1 : e[i] = Ascending(after)[i].close
  <2>1. /\ e \in Seq(Int) /\ Len(e) = Cardinality(after)
        /\ \A i \in 1 .. Cardinality(after) : e[i] = Ascending(after)[i].close
    BY ClosesIs
  <2> QED
    BY <1>2, <2>1
<1>5. n >= 1 /\ Last(Ascending(before)) = Ascending(before)[n]
  <2>1. n # 0 /\ Len(Ascending(before)) = n
    BY PageIs DEF Priced
  <2> QED
    BY <1>3, <2>1 DEF Last
<1>6. Last(Ascending(before)).close = c[n]
  <2>1. n \in 1 .. n
    BY <1>3, <1>5
  <2> QED
    BY <1>3, <1>5, <2>1
<1> HIDE DEF n, c, e
<1>7. ASSUME NEW i \in 1 .. n PROVE e[i] = c[i]
  <2>1. i \in 1 .. n + 1
    BY <1>3
  <2>2. e[i] = Ascending(after)[i].close
    BY <1>4, <2>1
  <2>3. c[i] = Ascending(before)[i].close
    BY <1>3
  <2>4. Ascending(after)[i] = Ascending(before)[i]
    BY <1>2
  <2> QED
    BY <2>2, <2>3, <2>4
<1>8. e[n + 1] = day.close
  <2>1. n + 1 \in 1 .. n + 1
    BY <1>3
  <2> QED
    BY <1>2, <1>4, <2>1
<1>9. n >= Period + 1 /\ RSIOf(before) = rsiValue(g, l)
  <2>1. Shows(last(RSI(c, Period)), Len(c) >= Period + 1 /\ checkPositive(c),
              rsiValue(Wilder(Gains(c), Period)[Len(c) - 1], Wilder(Losses(c), Period)[Len(c) - 1]))
    BY <1>1, <1>3, RsiShown
  <2>2. RSIOf(before) = last(RSI(c, Period))
    BY DEF RSIOf, c
  <2>3. Len(c) >= Period + 1
    BY <2>1, <2>2 DEF Shows
  <2>4. last(RSI(c, Period)) =
          rsiValue(Wilder(Gains(c), Period)[Len(c) - 1], Wilder(Losses(c), Period)[Len(c) - 1])
    BY <2>1, <2>2 DEF Shows
  <2> QED
    BY <1>3, <2>2, <2>3, <2>4
<1>10. RSIOf(after) = rsiValue(Wilder(Gains(e), Period)[n], Wilder(Losses(e), Period)[n])
  <2>1. Shows(last(RSI(e, Period)), Len(e) >= Period + 1 /\ checkPositive(e),
              rsiValue(Wilder(Gains(e), Period)[Len(e) - 1], Wilder(Losses(e), Period)[Len(e) - 1]))
    BY <1>1, <1>4, RsiShown
  <2>2. RSIOf(after) = last(RSI(e, Period))
    BY DEF RSIOf, e
  <2>3. last(RSI(e, Period)) =
          rsiValue(Wilder(Gains(e), Period)[Len(e) - 1], Wilder(Losses(e), Period)[Len(e) - 1])
    BY <2>1, <2>2 DEF Shows
  <2>4. Len(e) - 1 = n
    BY <1>3, <1>4
  <2> QED
    BY <2>2, <2>3, <2>4
<1>11. /\ Gains(c) \in Seq(Int) /\ Losses(c) \in Seq(Int)
       /\ Len(Gains(c)) = m /\ Len(Losses(c)) = m
  BY <1>3, <1>5, MovesAre
<1>12. /\ Gains(e) \in Seq(Int) /\ Losses(e) \in Seq(Int)
       /\ Len(Gains(e)) = n /\ Len(Losses(e)) = n
       /\ u \in Int /\ u >= 0 /\ v \in Int /\ v >= 0
  <2>1. Len(e) >= 1 /\ Len(e) - 1 = n /\ n \in 1 .. n
    BY <1>3, <1>4, <1>5
  <2>2. /\ Gains(e) \in Seq(Int) /\ Losses(e) \in Seq(Int)
        /\ Len(Gains(e)) = n /\ Len(Losses(e)) = n
        /\ Gains(e) \in [1 .. n -> Nat] /\ Losses(e) \in [1 .. n -> Nat]
    BY <1>4, <2>1, MovesAre
  <2>3. u \in Nat /\ v \in Nat
    BY <2>1, <2>2
  <2> QED
    BY <2>2, <2>3
<1>13. /\ \A i \in 1 .. m : Gains(e)[i] = Gains(c)[i] /\ Losses(e)[i] = Losses(c)[i]
       /\ u = IF e[n + 1] > c[n] THEN e[n + 1] - c[n] ELSE 0
       /\ v = IF e[n + 1] > c[n] THEN 0 ELSE c[n] - e[n + 1]
  BY <1>3, <1>4, <1>5, <1>7, DayMoved
<1>14. m \in Nat /\ m \in Period .. m /\ n = m + 1 /\ Period <= m
  BY <1>1, <1>3, <1>9
<1>15. g \in Rat /\ AtMost(Whole(0), g) /\ l \in Rat /\ AtMost(Whole(0), l)
  <2>1. Len(c) >= Period + 1 /\ Len(c) - 1 = m
    BY <1>3, <1>9
  <2>2. /\ \A i \in Period .. Len(c) - 1 : /\ Wilder(Gains(c), Period)[i] \in Rat
                                           /\ AtMost(Whole(0), Wilder(Gains(c), Period)[i])
        /\ \A i \in Period .. Len(c) - 1 : /\ Wilder(Losses(c), Period)[i] \in Rat
                                           /\ AtMost(Whole(0), Wilder(Losses(c), Period)[i])
    BY <1>1, <1>3, <2>1, MovesAveraged
  <2> QED
    BY <1>14, <2>1, <2>2
<1> HIDE DEF m
<1>16. Wilder(Gains(e), Period)[n] = Smoothed(g, u, Period)
  <2> DEFINE x == Gains(c)
             y == Gains(e)
  <2>1. x \in Seq(Int) /\ y \in Seq(Int) /\ Len(x) = m /\ Len(y) = n
    BY <1>11, <1>12
  <2>2. \A i \in 1 .. m : y[i] = x[i]
    BY <1>13
  <2> HIDE DEF x, y
  <2>3. Period <= Len(x) /\ Len(y) = Len(x) + 1 /\ \A i \in 1 .. Len(x) : y[i] = x[i]
    BY <1>14, <2>1, <2>2
  <2>4. Wilder(y, Period)[Len(y)] = Smoothed(Wilder(x, Period)[Len(x)], y[Len(y)], Period)
    BY <1>1, <2>1, <2>3, DayAveraged
  <2> QED
    BY <2>1, <2>4 DEF x, y
<1>17. Wilder(Losses(e), Period)[n] = Smoothed(l, v, Period)
  <2> DEFINE x == Losses(c)
             y == Losses(e)
  <2>1. x \in Seq(Int) /\ y \in Seq(Int) /\ Len(x) = m /\ Len(y) = n
    BY <1>11, <1>12
  <2>2. \A i \in 1 .. m : y[i] = x[i]
    BY <1>13
  <2> HIDE DEF x, y
  <2>3. Period <= Len(x) /\ Len(y) = Len(x) + 1 /\ \A i \in 1 .. Len(x) : y[i] = x[i]
    BY <1>14, <2>1, <2>2
  <2>4. Wilder(y, Period)[Len(y)] = Smoothed(Wilder(x, Period)[Len(x)], y[Len(y)], Period)
    BY <1>1, <2>1, <2>3, DayAveraged
  <2> QED
    BY <2>1, <2>4 DEF x, y
<1>18. c[n] \in Int /\ e[n + 1] \in Int
  <2>1. n \in 1 .. n /\ n + 1 \in 1 .. n + 1
    BY <1>3, <1>5
  <2> QED
    BY <1>3, <1>4, <2>1
<1>19. (e[n + 1] >= c[n] => v = 0) /\ (e[n + 1] <= c[n] => u = 0)
  BY <1>13, <1>18
<1> HIDE DEF g, l, u, v
<1>20. LET old == rsiValue(g, l)
           new == rsiValue(Smoothed(g, u, Period), Smoothed(l, v, Period))
       IN  /\ AtMost(Whole(0), new) /\ AtMost(new, Whole(100))
           /\ v = 0 => AtMost(old, new)
           /\ u = 0 => AtMost(new, old)
  BY <1>1, <1>12, <1>15, RsiMoves
<1> QED
  BY <1>6, <1>8, <1>9, <1>10, <1>16, <1>17, <1>19, <1>20

\* What the tables hold of the prices.
AllPriced == \A s \in Symbols : Priced(rows["prices"][s])

\* The stored prices have days and closes.
LEMMA SoundPrices == TablesSound => AllPriced
BY SoundRows DEF AllPriced, Priced

\* A reading stays within 0..100, and a day appended to any stored history moves
\* it the way the close went, from the neutral 50 and from the extremes too.
THEOREM RSIFollowsTheClose == Spec => RSIFollowsClose
<1>1. AllPriced /\ AllPriced' =>
        \A s \in Symbols :
          LET before == rows["prices"][s]
              after == rows'["prices"][s]
              old == RSIOf(before)
              new == RSIOf(after)
              close == Last(Days(s)).close
          IN  \A day \in after \ before :
                 /\ before # {} /\ after = before \cup {day}
                 /\ \A r \in before : r.date < day.date
                 /\ old # Null /\ new # Null
                 => /\ AtMost(Whole(0), new) /\ AtMost(new, Whole(100))
                    /\ day.close >= close => AtMost(old, new)
                    /\ day.close <= close => AtMost(new, old)
  <2> SUFFICES ASSUME AllPriced, AllPriced', NEW s \in Symbols,
                      NEW day \in rows'["prices"][s] \ rows["prices"][s],
                      rows["prices"][s] # {},
                      rows'["prices"][s] = rows["prices"][s] \cup {day},
                      \A r \in rows["prices"][s] : r.date < day.date,
                      RSIOf(rows["prices"][s]) # Null, RSIOf(rows'["prices"][s]) # Null
               PROVE  LET old == RSIOf(rows["prices"][s])
                          new == RSIOf(rows'["prices"][s])
                          close == Last(Days(s)).close
                      IN  /\ AtMost(Whole(0), new) /\ AtMost(new, Whole(100))
                          /\ day.close >= close => AtMost(old, new)
                          /\ day.close <= close => AtMost(new, old)
    BY Zenon
  <2>1. Priced(rows["prices"][s]) /\ Priced(rows'["prices"][s])
    BY DEF AllPriced
  <2> QED
    BY <2>1, RsiFollows DEF Days
<1>2. Spec => []AllPriced
  BY TablesStaySound, SoundPrices, PTL
<1> QED
  BY <1>1, <1>2, PTL DEF RSIFollowsClose

============================================================================
