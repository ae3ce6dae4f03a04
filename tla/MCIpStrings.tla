----------------------------- MODULE MCIpStrings -----------------------------
(* Strings for the address parsers: every way to put colons between, before *)
(* and after some groups, and every way a group or a number can be wrong.   *)
EXTENDS Text

C == << Colon >>
CC == << Colon, Colon >>
Group == << 1 >>
Quad == << 1, Dot, 2, Dot, 0, Dot, 4 >>
Slashed(digits) == << Slash >> \o digits

(* k groups, with a double colon after those in `doubles'.                  *)
Groups(k, doubles) ==
    FlattenSeq([i \in 1 .. k |->
        Group \o (IF i = k THEN << >> ELSE IF i \in doubles THEN CC ELSE C)])

Shapes(counts, ends) ==
    {lead \o Groups(k, doubles) \o trail \o end :
        lead \in {<< >>, C, CC, CC \o C}, k \in counts,
        doubles \in {{}, {1}, {4}, {1, 4}}, trail \in {<< >>, C, CC},
        end \in ends}

Ends == {<< >>, Quad, << Percent, 10 >>, << Percent >>, Slashed(<< 9 >>),
         Quad \o Slashed(<< 9, 6 >>), Quad \o << Percent, Other >>}

(* What may be wrong with one number.                                       *)
Lexical ==
    {lead \o group \o end :
        lead \in {CC, << >>},
        group \in {<< 15, 15, 15, 15 >>, << 0, 0, 0, 0, 0 >>, << Other >>,
                   << 10, Dot, 1 >>, << 1, 1, 1, 1, 1, 1, 1 >>, Quad,
                   << 2, 5, 5, Dot, 0, Dot, 0, Dot, 0 >>,
                   << 2, 5, 6, Dot, 0, Dot, 0, Dot, 0 >>,
                   << 0, 1, Dot, 0, Dot, 0, Dot, 0 >>,
                   << 1, Dot, 1, 0, 0, Dot, 1 >>, Quad \o << Dot, 1 >>,
                   << Dot, 1, Dot, 1, Dot, 1, Dot, 1 >>,
                   << 1, 0, 0, 0, Dot, 0, Dot, 0, Dot, 0 >>},
        end \in {<< >>} \cup {Slashed(d) :
            d \in {<< >>, << 0 >>, << 0, 8 >>, << 3, 2 >>, << 3, 3 >>,
                   << 1, 2, 8 >>, << 1, 2, 9 >>, << 1, 2, 8, 0 >>,
                   << 0, 1, 0 >>, << 9, 10 >>}}}

(* One bit set, and a prefix that ends before, at or after it.              *)
Decimals(n) ==
    IF n < 10 THEN << n >>
    ELSE IF n < 100 THEN << n \div 10, n % 10 >>
    ELSE << n \div 100, (n \div 10) % 10, n % 10 >>

OneBit ==
    {address \o Slashed(Decimals(n)) :
        address \in
            {Groups(k, {}) \o CC : k \in {3, 4}}
            \cup {<< 0, Colon, 0, Colon, 0, Colon >> \o g \o C \o h \o CC :
                    g \in {<< 0 >>, << 8, 0, 0, 0 >>},
                    h \in {<< 0 >>, << 8, 0, 0, 0 >>, << 1 >>}}
            \cup {CC \o g : g \in {<< 8, 0, 0, 0 >>, << 1 >>, << >>}}
            \cup {CC \o << 1, 2, 8, Dot, 0, Dot, 0, Dot, 0 >>,
                  CC \o << 0, Dot, 0, Dot, 0, Dot, 1 >>},
        n \in {0, 15, 16, 47, 48, 49, 63, 64, 65, 79, 80, 96, 97, 112, 113,
               127, 128}}
    \cup {quad \o Slashed(Decimals(n)) :
        quad \in {<< 1, 2, 8, Dot, 0, Dot, 0, Dot, 0 >>,
                  << 0, Dot, 0, Dot, 0, Dot, 0 >>,
                  << 0, Dot, 1, Dot, 0, Dot, 0 >>,
                  << 0, Dot, 0, Dot, 0, Dot, 1 >>},
        n \in {0, 1, 7, 15, 16, 17, 31, 32}}

MCStrings == Shapes({0, 1, 2, 5, 6, 7, 8, 9}, Ends) \cup Lexical \cup OneBit
Undotted == Shapes({1, 7}, {<< Percent, 10 >>, Slashed(<< 9 >>)})
Dotted6 == Shapes({1, 6, 7}, {Quad})
ZonedStrings == Shapes({1, 7}, {<< Percent, 10 >>, Quad \o << Percent, 10 >>})
==============================================================================
