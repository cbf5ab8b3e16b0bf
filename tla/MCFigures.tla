----------------------------- MODULE MCFigures -----------------------------
(* A small instance of Figures for TLC.                                     *)
EXTENDS Figures

Tech == [sector |-> "tech"]
Oil == [sector |-> "energy"]

MCMetas == {Tech, Oil}

Price(d, c, v) ==
    [period |-> "daily", date |-> d, open |-> c, high |-> c, low |-> c, close |-> c,
     volume |-> v]

Income(p, d, rev, ni, eps) ==
    [period |-> p, date |-> d, revenue |-> rev, netIncome |-> ni, eps |-> eps]

Balance(p, d, equity) ==
    [period |-> p, date |-> d, equity |-> equity, assets |-> 8, debt |-> 2, shares |-> 2,
     currentAssets |-> 3, currentLiabilities |-> 0]

\* A snapshot of prices, and one of a statement (nothing is ingested without a
\* price).
Nothing(meta) ==
    [meta |-> meta, prices |-> <<>>, income |-> <<>>, balance |-> <<>>, cashflow |-> <<>>]

Day(meta, p) == [Nothing(meta) EXCEPT !.prices = <<p>>]
With(meta, t, r) == [Day(meta, Price(1, 20, 1)) EXCEPT ![t] = <<r>>]

\* One company, its days in any order: ordinary days, one without trades and
\* one whose price is below the scale of the column.
History ==
    {Day(Tech, Price(d, k[1], k[2])) :
        d \in 1 .. 5, k \in {<<20, 5>>, <<41, 3>>, <<30, 2>>, <<30, 0>>, <<4, 1>>}}

\* Years with a loss and without revenue, an equity of zero, a worthless share,
\* and a quarter that ends with the year.
Quarter ==
    [With(Tech, "income", Income("quarterly", 3, 2, 1, 1))
        EXCEPT !.balance = <<Balance("quarterly", 3, 1)>>]

YearEnd ==
    [With(Tech, "balance", Balance("annual", 2, 4))
        EXCEPT !.cashflow = <<[period |-> "annual", date |-> 2, val |-> 1]>>]

Reports ==
    {Nothing(Tech), Quarter, YearEnd, With(Tech, "balance", Balance("annual", 2, 0))}
    \cup {With(Tech, "income", r) : r \in {Income("annual", 1, 4, 2, 1), Income("annual", 1, 0, 1, 0),
             Income("annual", 2, 6, 3, 2), Income("annual", 2, 3, -1, -1),
             Income("annual", 3, 9, 1, 1)}}
    \cup {Day(Tech, Price(d, c, 1)) : d \in 1 .. 2, c \in {20, 4}}

Other ==
    {Nothing(Oil), With(Oil, "income", Income("annual", 2, 5, 1, 1)),
     With(Oil, "balance", Balance("annual", 2, 2))}

MCFeeds == {[AAPL |-> History, XOM |-> {}], [AAPL |-> Reports, XOM |-> Other]}

MCSnapshots == History \cup Reports \cup Other

MCNorm == [a \in RawSymbols |-> CASE a \in {"AAPL", "aapl"} -> "AAPL"
                                  [] a = "XOM" -> "XOM"
                                  [] OTHER -> Invalid]

MCLists == {<<"AAPL">>, <<"XOM", "aapl">>, <<"aapl", "XOM">>, <<"AAPL", "aapl">>,
            <<"AAPL", "a b">>, <<"a b">>, <<"XOM", "AAPL", "a b">>}

MCCriteria == {Null, Whole(0), Whole(1), <<0, 0>>}

=============================================================================
