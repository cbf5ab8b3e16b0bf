----------------------------- MODULE Indicators -----------------------------
(***************************************************************************)
(* The pure functions of internal/analytics.  A float64 is an exact         *)
(* rational (a pair <<n, d>> in lowest terms, d > 0); binary rounding is    *)
(* left out.  A function returns [err, out] as in Go, with a scalar as a    *)
(* series of one element.  The volatility is kept as its square.            *)
(***************************************************************************)
EXTENDS Integers, Sequences, SequencesExt

-----------------------------------------------------------------------------
(* Rationals.                                                               *)

gcd[p \in Nat \X Nat] == IF p[2] = 0 THEN p[1] ELSE gcd[<<p[2], p[1] % p[2]>>]

Q(n, d) ==
    LET sign == IF d < 0 THEN -1 ELSE 1
        g == gcd[<<IF n < 0 THEN -n ELSE n, sign * d>>]
    IN  <<(sign * n) \div g, (sign * d) \div g>>

Whole(n) == <<n, 1>>
Add(x, y) == Q(x[1] * y[2] + y[1] * x[2], x[2] * y[2])
Minus(x, y) == Q(x[1] * y[2] - y[1] * x[2], x[2] * y[2])
Times(x, y) == Q(x[1] * y[1], x[2] * y[2])
Over(x, y) == Q(x[1] * y[2], x[2] * y[1])
AtMost(x, y) == x[1] * y[2] <= y[1] * x[2]

\* The sums of the first i elements, of rationals and of integers.
Totals(xs) ==
    LET total[i \in 0 .. Len(xs)] == IF i = 0 THEN Whole(0) ELSE Add(total[i - 1], xs[i])
    IN  total

Sums(ns) ==
    LET sum[i \in 0 .. Len(ns)] == IF i = 0 THEN 0 ELSE sum[i - 1] + ns[i]
    IN  sum

Total(xs) == Totals(xs)[Len(xs)]
Sum(ns) == Sums(ns)[Len(ns)]

-----------------------------------------------------------------------------
(* Results.                                                                 *)

Ok(out) == [err |-> "nil", out |-> out]
Err(e) == [err |-> e, out |-> <<>>]

\* A *float64 is a pair or nil.
Null == <<>>

\* The helpers ratio, scalar and last of the query service.
last(r) == IF r.err # "nil" \/ r.out = <<>> THEN Null ELSE Last(r.out)

-----------------------------------------------------------------------------
(* Fundamental ratios.                                                      *)

ratio(num, den, allowNegative) ==
    IF den = 0 \/ (~allowNegative /\ den < 0) THEN Err("ErrUndefined")
                                              ELSE Ok(<<Q(num, den)>>)

PERatio(price, dilutedEPS) ==
    IF price <= 0 THEN Err("ErrInvalidInput") ELSE ratio(price, dilutedEPS, TRUE)

PriceToBook(price, totalEquity, sharesOutstanding) ==
    CASE price <= 0 -> Err("ErrInvalidInput")
      [] price > 0 /\ (sharesOutstanding <= 0 \/ totalEquity <= 0) -> Err("ErrUndefined")
      [] OTHER -> Ok(<<Q(price * sharesOutstanding, totalEquity)>>)

ROE(netIncome, equity) == ratio(netIncome, equity, FALSE)
ROA(netIncome, totalAssets) == ratio(netIncome, totalAssets, FALSE)
NetMargin(netIncome, revenue) == ratio(netIncome, revenue, TRUE)
CurrentRatio(assets, liabilities) == ratio(assets, liabilities, FALSE)
DebtToEquity(totalDebt, equity) == ratio(totalDebt, equity, FALSE)

\* RevenueGrowth and EarningsGrowth.
growth(prev, latest) ==
    IF prev <= 0 THEN Err("ErrUndefined") ELSE Ok(<<Q(latest - prev, prev)>>)

-----------------------------------------------------------------------------
(* Indicators of a price history, oldest day first.                         *)

checkPositive(v) == \A i \in DOMAIN v : v[i] > 0

\* Mutant: a history that is just long enough is refused.
GuardedStrictly(v, window, needed, out) ==
    IF window < 1 THEN Err("ErrInvalidInput")
    ELSE IF Len(v) <= needed THEN Err("ErrInsufficientData")
    ELSE IF ~checkPositive(v) THEN Err("ErrInvalidInput")
    ELSE Ok(out)

\* The guards every indicator starts with.
Guarded(v, window, needed, out) ==
    IF window < 1 THEN Err("ErrInvalidInput")
    ELSE IF Len(v) < needed THEN Err("ErrInsufficientData")
    ELSE IF ~checkPositive(v) THEN Err("ErrInvalidInput")
    ELSE Ok(out)

Returns(p) == [i \in 1 .. Len(p) - 1 |-> Minus(Q(p[i + 1], p[i]), Whole(1))]

DailyReturn(p) == Guarded(p, 1, 2, Returns(p))

\* Mutant: the element that leaves the window is dropped one day late.
MovingLate(v, window) ==
    LET sum[i \in 0 .. Len(v)] ==
            IF i = 0 THEN 0
            ELSE sum[i - 1] + v[i] - (IF i > window + 1 THEN v[i - window] ELSE 0)
    IN  [i \in 1 .. Len(v) - window + 1 |-> Q(sum[i + window - 1], window)]

\* The rolling mean of SMA and AverageVolume: one pass with a running sum.
Moving(v, window) ==
    LET sum[i \in 0 .. Len(v)] ==
            IF i = 0 THEN 0
            ELSE sum[i - 1] + v[i] - (IF i > window THEN v[i - window] ELSE 0)
    IN  [i \in 1 .. Len(v) - window + 1 |-> Q(sum[i + window - 1], window)]

SMA(p, window) == Guarded(p, window, window, Moving(p, window))

EMA(p, window) ==
    LET sma == SMA(p, window)
        alpha == Q(2, window + 1)
        out[i \in 1 .. Len(sma.out)] ==
            IF i = 1 THEN sma.out[1]
            ELSE Add(Times(Whole(p[i + window - 1]), alpha),
                     Times(out[i - 1], Minus(Whole(1), alpha)))
    IN  IF sma.err # "nil" THEN sma ELSE Ok(out)

rsiValue(avgGain, avgLoss) ==
    IF avgLoss = Whole(0)
    THEN IF avgGain = Whole(0) THEN Whole(50) ELSE Whole(100)
    ELSE Minus(Whole(100), Over(Whole(100), Add(Whole(1), Over(avgGain, avgLoss))))

\* Wilder's smoothing of the gains, or of the losses, x of the days.
Wilder(x, period) ==
    LET avg[i \in period .. Len(x)] ==
            IF i = period THEN Q(Sum(SubSeq(x, 1, period)), period)
            ELSE Over(Add(Times(avg[i - 1], Whole(period - 1)), Whole(x[i])), Whole(period))
    IN  avg

Gains(p) == [i \in 1 .. Len(p) - 1 |-> IF p[i + 1] > p[i] THEN p[i + 1] - p[i] ELSE 0]

\* Mutant: a loss is added with its sign.
LossesSigned(p) == [i \in 1 .. Len(p) - 1 |-> IF p[i + 1] > p[i] THEN 0 ELSE p[i + 1] - p[i]]

Losses(p) == [i \in 1 .. Len(p) - 1 |-> IF p[i + 1] > p[i] THEN 0 ELSE p[i] - p[i + 1]]

RSI(p, period) ==
    LET gain == Wilder(Gains(p), period)
        loss == Wilder(Losses(p), period)
    IN  Guarded(p, period, period + 1,
                [i \in 1 .. Len(p) - period |->
                    rsiValue(gain[i + period - 1], loss[i + period - 1])])

\* Volatility: the sample variance of the returns in each window, the last one.
volatilitySeries(p, window) ==
    LET ret == Returns(p)
        variance(r) ==
            LET mean == Over(Total(r), Whole(window))
                sq == [i \in DOMAIN r |-> Times(Minus(r[i], mean), Minus(r[i], mean))]
            IN  Over(Total(sq), Whole(window - 1))
    IN  Guarded(p, window, window + 1,
                [i \in 1 .. Len(p) - window |-> variance(SubSeq(ret, i, i + window - 1))])

AverageVolume(v, window) == Guarded(v, window, window, Moving(v, window))

=============================================================================
