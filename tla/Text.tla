--------------------------------- MODULE Text ----------------------------------
(***************************************************************************)
(* Characters and cursors, for the parsers of cel/library.go.  A character *)
(* is a number: the hexadecimal digits are their values, whatever their    *)
(* case, and one number stands for characters no rule tells apart.         *)
(***************************************************************************)
EXTENDS Integers, Sequences, SequencesExt

Digit == 0 .. 9
HexDigit == 0 .. 15
Colon == 16
Dot == 17
Slash == 18
Percent == 19
Other == 20         \* in no class
V == 21
Letter == 22        \* a letter that is neither a digit of base 16 nor a v
Question == 23
Hash == 24
Open == 25          \* [
Close == 26         \* ]
AtSign == 27
Plus == 28
Hyphen == 29
Mark == 30          \* _ or ~
Delim == 31         \* a sub-delim other than +
Char == 0 .. 31

Alpha == 10 .. 15 \cup {V, Letter}
Alphanumeric == Alpha \cup Digit

At(s, i, c) == i < Len(s) /\ s[i + 1] = c

(* How many characters of a class there are from the cursor on.            *)
Run(s, i, class) ==
    CHOOSE n \in 0 .. Len(s) - i :
        /\ \A k \in 1 .. n : s[i + k] \in class
        /\ i + n < Len(s) => s[i + n + 1] \notin class

Number(digits, base) ==
    LET number[n \in 0 .. Len(digits)] ==
            IF n = 0 THEN 0 ELSE base * number[n - 1] + digits[n]
    IN  number[Len(digits)]

(* decOctet and prefixLength: n digits from i on are a number up to max    *)
(* without a leading zero.                                                 *)
Decimal(s, i, n, digits, max) ==
    /\ n \in 1 .. digits
    /\ n = 1 \/ s[i + 1] # 0
    /\ Number(SubSeq(s, i + 1, i + n), 10) <= max

==============================================================================
