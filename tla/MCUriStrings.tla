---------------------------- MODULE MCUriStrings -----------------------------
(* Strings for the URI parser: every sequence of some pieces, alone and after *)
(* the beginning of a URI; hosts; and queries and fragments that go wrong.    *)
EXTENDS Text

Literal == << Open, Colon, Colon, 1, Close >>

Pieces == {<< Letter >>, << 1 >>, << Colon >>, << Slash >>, << Question >>,
           << Hash >>, << AtSign >>, << Percent, 4, 1 >>, << Percent, 8, 0 >>,
           << Percent >>, << Open >>, << Other >>, Literal}

Sequences(n) ==
    LET sequences[k \in 0 .. n] ==
            IF k = 0 THEN {<< >>}
            ELSE sequences[k - 1] \cup {p \o s : p \in Pieces, s \in sequences[k - 1]}
    IN  sequences[n]

Hosts ==
    {<< Open >> \o a \o z \o << Close >> :
        a \in {<< >>, << Colon, Colon >>, << 1 >>,
               << 1, Colon, 2, Colon, 3, Colon, 4, Colon, 5, Colon, 6, Colon, 7,
                  Colon, 10 >>,
               << V >>, << V, 1, Dot >>, << V, 1, Dot, Letter, Colon >>,
               << V, Dot, 1 >>},
        z \in {<< >>, << Percent >>, << Percent, 2, 5 >>,
               << Percent, 2, 5, Letter >>,
               << Percent, 2, 5, Letter, Percent, 12, 3 >>, << Letter >>}}
    \cup {FlattenSeq([k \in DOMAIN b |-> << Percent, b[k] \div 16, b[k] % 16 >>]) :
             b \in [1 .. 2 -> {65, 130, 192, 195}]
                \cup [1 .. 3 -> {130, 224, 226, 237, 160}]
                \cup {<< 240, 144, 128, 128 >>, << 240, 128, 128, 128 >>,
                      << 244, 143, 128, 128 >>, << 244, 144, 128, 128 >>}}

Hosted ==
    {a \o << Slash, Slash >> \o u \o h \o p :
        a \in {<< >>, << Letter, Colon >>}, u \in {<< >>, << Colon, AtSign >>},
        h \in Hosts,
        p \in {<< >>, << Colon >>, << Colon, 8 >>, << Colon, Letter >>, << Slash >>,
               << Letter >>}}

MCStrings ==
    Sequences(4)
        \cup {b \o s : b \in {<< Letter, Colon >>, << V, Plus, 1, Colon >>,
                              << Letter, Colon, Slash, Slash >>},
                       s \in Sequences(3)}
        \cup Hosted

Tails == {<< Letter, Colon >> \o t \o s :
             t \in {<< Question >>, << Hash >>}, s \in Sequences(3)}
Quad == << Colon, Colon, 1, Dot, 2, Dot, 0, Dot, 4 >>
Dotted == {<< Letter, Colon, Slash, Slash, Open >> \o Quad \o << Close >> \o s :
             s \in Sequences(2)}
==============================================================================
