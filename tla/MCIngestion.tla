---------------------------- MODULE MCIngestion ----------------------------
(* Small instances of Ingestion for TLC.                                    *)
EXTENDS Ingestion

CONSTANTS p1

Price(d, o, h, l, c, v) ==
    [period |-> "daily", date |-> d, open |-> o, high |-> h, low |-> l,
     close |-> c, volume |-> v]

Stmt(p, d, x) == [period |-> p, date |-> d, val |-> x]

\* A full report: a row parseNum turned into zeros is dropped, a price below the
\* column's resolution is kept and stored as zero, a restated year and a missing
\* fiscal date occur.
FirstReport ==
    [meta |-> "m1",
     prices |-> <<Price(1, 0, 0, 0, 0, 0), Price(2, 4, 30, 3, 4, 0)>>,
     income |-> <<Stmt("annual", 1, 1), Stmt("annual", 1, 2), Stmt("annual", 0, 1)>>,
     balance |-> <<Stmt("annual", 1, 1)>>,
     cashflow |-> <<>>]

\* A later report: one more price, the last one restated and without a readable
\* high, a new quarter in place of the balance sheets, and cash flows.
SecondReport ==
    [meta |-> "m2",
     prices |-> <<Price(2, 20, NaN, 20, 25, 7), Price(3, 15, 14, 10, 12, 1),
                  Price(3, 12, 14, 10, 12, 1)>>,
     income |-> <<Stmt("quarterly", 2, 1)>>,
     balance |-> <<>>,
     cashflow |-> <<Stmt("annual", 1, 1)>>]

MCSnapshots == {FirstReport, SecondReport}

MCNorm == [a \in Args |-> CASE a = "aapl" -> "AAPL" [] a = " AAPL" -> "AAPL"
                            [] a = "MSFT" -> "MSFT" [] a = " " -> "blank"
                            [] OTHER -> "invalid"]

MCTwoLists == {<<"aapl", " AAPL">>, <<" ", "$!", "aapl">>}
MCOneSymbol == {<<"aapl">>}

=============================================================================
