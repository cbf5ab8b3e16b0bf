--------------------------- MODULE MCReadThrough ---------------------------
(* Small instances of ReadThrough for TLC.                                  *)
EXTENDS ReadThrough

CONSTANTS p1, r1

Price(d, c) ==
    [period |-> "daily", date |-> d, open |-> c, high |-> c, low |-> c,
     close |-> c, volume |-> 1]

Stmt(p, d, x) == [period |-> p, date |-> d, val |-> x]

\* A full report with a quarter among the years, and a later one that brings a
\* third year, a price that is not a number, and a balance sheet for a quarter
\* only.
FullReport ==
    [meta |-> "m1", prices |-> <<Price(1, 10), Price(2, 20)>>,
     income |-> <<Stmt("annual", 2, 3), Stmt("quarterly", 3, 1), Stmt("annual", 1, 1)>>,
     balance |-> <<Stmt("annual", 2, 1), Stmt("annual", 1, 1)>>, cashflow |-> <<>>]

NextReport ==
    [meta |-> "m1", prices |-> <<Price(3, NaN)>>,
     income |-> <<Stmt("annual", 3, 3)>>,
     balance |-> <<Stmt("quarterly", 3, 1)>>, cashflow |-> <<Stmt("annual", 3, 3)>>]

MCTwoReports == {FullReport, NextReport}

MCNorm == [a \in Args |-> IF a = "msft" THEN "MSFT" ELSE "AAPL"]

MCTwice == {<<"AAPL", "aapl">>}
MCEither == {<<"msft">>, <<"aapl", "AAPL">>}

=============================================================================
