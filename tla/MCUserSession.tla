--------------------------- MODULE MCUserSession ---------------------------
EXTENDS UserSession

Numeral(n) == [value |-> n, rest |-> FALSE, length |-> 2, blanks |-> "none"]
Letters(len, blanks) == [value |-> 0, rest |-> TRUE, length |-> len, blanks |-> blanks]
Empty == [value |-> 0, rest |-> FALSE, length |-> 0, blanks |-> "none"]

\* Numbers at the ends of each range, and past an int and a long on each side.
Numbers == {-2 * LongHalf, -1, 0, MaxAccounts - 1, MaxAccounts, MaxBalance, MaxBalance + 1,
            IntHalf, 2 * IntHalf, 2 * IntHalf + 1, 2 * LongHalf}
WordTexts == {Numeral(n) : n \in Numbers} \cup {Letters(2, "none")}
NumberTexts == WordTexts \cup {Empty}
PasswordTexts == {Letters(n, b) : n \in {MinLength - 1, MinLength, MaxLength, MaxLength + 1},
                               b \in {"none", "some", "all"}}

Base == [account |-> Numeral(1), password |-> Letters(MinLength, "none"),
         delay |-> Numeral(1), operation |-> Numeral(1), length |-> 0, words |-> <<>>]
Arguments(op, len, words) ==
    [Base EXCEPT !.operation = Numeral(op), !.length = len, !.words = words]
One == Numeral(1)
NewPassword == Letters(MaxLength, "none")

MCCommandLines ==
    {[Base EXCEPT !.account = t] : t \in NumberTexts}
    \cup {[Base EXCEPT !.password = t] : t \in PasswordTexts}
    \cup {[Base EXCEPT !.delay = t] : t \in NumberTexts}
    \cup {[Base EXCEPT !.operation = t] : t \in NumberTexts}
    \cup {Arguments(op, len, <<>>) : op \in 0..3, len \in {0, 3}}
    \cup {Arguments(2, 5, <<t, One>>) : t \in WordTexts}
    \cup {Arguments(2, 5, <<One, t>>) : t \in WordTexts}
    \cup {Arguments(0, 9, <<One, t, NewPassword>>) : t \in WordTexts}
    \cup {Arguments(0, 9, <<One, One, Letters(n, "none")>>) : n \in {MinLength - 1, MinLength, MaxLength}}
    \cup {Arguments(op, 9, words) : op \in 0..3,
            words \in {<<One>>, <<One, One>>, <<One, One, One>>,
                       <<One, One, NewPassword, One>>}}
=============================================================================
