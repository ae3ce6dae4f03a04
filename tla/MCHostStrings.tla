---------------------------- MODULE MCHostStrings ----------------------------
(* Strings for the host functions: all short ones over the characters that    *)
(* labels tell apart, and hosts with what may follow them.                    *)
EXTENDS Text

Sequences(pieces, n) ==
    LET sequences[k \in 0 .. n] ==
            IF k = 0 THEN {<< >>}
            ELSE sequences[k - 1] \cup {p \o s : p \in pieces, s \in sequences[k - 1]}
    IN  sequences[n]

Names == Sequences({<< Letter >>, << 1 >>, << Hyphen >>, << Dot >>, << Other >>}, 5)
            \cup Sequences({<< Letter >>, << Dot >>}, 9)

Hosts == {<< >>, << Letter >>, << Letter, Dot >>, << 1, Dot, 2, Dot, 0, Dot, 4 >>,
          << 1, Dot, 2, Dot, 0, Dot >>, << Open, Close >>,
          << Open, Colon, Colon, Close >>, << Open, Colon, Colon >>,
          << Colon, Colon, 1 >>, << Open, Colon, Colon, Percent, Close >>,
          << Open, Colon, Colon, Percent, Letter, Close, Close >>,
          << Open, Letter, Close >>, << Open, 1, Dot, 2, Dot, 0, Dot, 4, Close >>}

Ends == Sequences({<< Colon >>, << 0 >>, << 8 >>, << Close >>, << Letter >>}, 3)
            \cup {<< Colon, 6, 5, 5, 3, 5 >>, << Colon, 6, 5, 5, 3, 6 >>,
                  << Colon, 1, 0, 0, 0, 0, 0 >>, << Colon, 0, 8, 0, 8, 0 >>}

MCStrings == Names \cup {h \o e : h \in Hosts, e \in Ends}
==============================================================================
