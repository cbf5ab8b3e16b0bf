----------------------------- MODULE MCProvider -----------------------------
(* A small instance of Provider for TLC.                                    *)
EXTENDS Provider, TLC

CONSTANTS p1, p2

OK(data) == [status |-> "200", says |-> {}, data |-> data]

Failing == {[status |-> "no reply", says |-> {}, data |-> Empty],
            [status |-> "429", says |-> {}, data |-> Empty],
            [status |-> "500", says |-> {}, data |-> Empty]}
           \cup {[status |-> "200", says |-> {m}, data |-> Empty] :
                   m \in {"Note", "Error Message", "Information: premium", "garbled"}}

\* The notice of an exhausted daily quota, which does not say "premium".
Notice == [status |-> "200", says |-> {"Information"}, data |-> Empty]

Quote(d, o, h, l, c, v) ==
    [date |-> d, open |-> o, high |-> h, low |-> l, close |-> c, volume |-> v]

U == Unparsable

\* One share, as a volume.
Share == 100000

\* The machine, amd64: the smallest int64 stands for what does not fit.
MCOutOfInt64 == [x \in {"NaN", "above", "below"} |-> -MaxInt64]

\* Priced days with a readable and an unreadable volume, a day that is all
\* "None", one whose close is missing, one without a date, one whose volume no
\* int64 holds, one without a high but the text "NaN" and one opened above its
\* high.
MCQuotes == {Quote(1, 14, 26, 10, 20, 3 * Share), Quote(2, 20, 30, 20, 30, U),
             Quote(3, U, U, U, U, U), Quote(4, 10, 20, U, U, Share),
             Quote(U, 10, 10, 10, 10, Share), Quote(6, 10, 10, 10, 10, MaxInt64 * Share),
             Quote(7, 10, NaN, 10, 10, Share), Quote(8, 15, 14, 10, 12, Share)}

\* Fractions of a share, a volume of "NaN", and a price below the column's scale.
MCLaterQuotes == {Quote(2, 24, 34, 24, 34, 5 * Share + 1), Quote(5, 4, 4, 4, 4, -1),
                  Quote(6, 10, 10, 10, 10, NaN)}

Report(d, x) == [date |-> d, val |-> x]

\* A report restated in one answer, one without a figure, one without a date and
\* one that does not decode.
MCReports ==
    [annual |-> <<Report(2, 7), Report(2, 8), Report(1, U), Report(U, 5)>>,
     quarterly |-> <<Garbled, Report(2, NaN)>>]

\* An infinite figure after one that could be stored.
MCInfinite == [annual |-> <<Report(3, 7), Report(1, MaxNumeric)>>, quarterly |-> <<>>]

MCAnswers ==
    [OVERVIEW |-> {OK("m1")} \cup Failing,
     TIME_SERIES_DAILY |-> {OK(MCQuotes), OK(MCLaterQuotes), OK(Empty)} \cup Failing,
     INCOME_STATEMENT |-> {OK(MCReports), OK(MCInfinite), Notice} \cup Failing,
     BALANCE_SHEET |-> {OK(MCReports)} \cup Failing,
     CASH_FLOW |-> {OK(MCReports)} \cup Failing]

MCSnapshots ==
    {SnapshotOf(<<a, b, c, d, e>>) : a \in AcceptedBy(1), b \in AcceptedBy(2),
        c \in AcceptedBy(3), d \in AcceptedBy(4), e \in AcceptedBy(5)}

MCLists == {<<"aapl", " ">>, <<"$!", "AAPL">>}

MCNorm == [a \in Args |-> CASE a = "aapl" -> "AAPL" [] a = " " -> "blank"
                            [] a = "$!" -> "invalid" [] OTHER -> a]

MCSymmetry == Permutations({p1, p2})

=============================================================================
