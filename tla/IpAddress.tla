------------------------------- MODULE IpAddress -------------------------------
(***************************************************************************)
(* isIP and isIPPrefix (cel/library.go): parsers for IPv4 and IPv6         *)
(* addresses with a cursor into the string, one action per thing that is   *)
(* found.  The IPv6 parser runs the IPv4 parser on dotted notation.        *)
(***************************************************************************)
EXTENDS Text

CONSTANTS
    Strings,    \* the strings a behaviour may be asked about
    Versions    \* the versions it may be asked for

IpAssumption ==
    /\ Strings \subseteq Seq(Char)
    /\ Versions \subseteq Nat

VARIABLES
    str,             \* the string
    version,         \* the version asked for, 0 for either
    prefix,          \* isIPPrefix was called, not isIP
    strict,          \* its argument
    tries,           \* the versions still to be tried
    parser,          \* the version being tried
    pc,              \* in no parser, in one of its loops, after them, finished
    index,           \* how many characters are consumed
    octets,          \* ipv4.octets; of dottedAddr, in the IPv6 parser
    pieces,          \* the 16-bit pieces found
    doubleColonAt,   \* how many there were at the double colon, or -1
    zoneIDFound,
    answer           \* what isIP or isIPPrefix returns

vars == <<str, version, prefix, strict, tries, parser, pc, index, octets,
          pieces, doubleColonAt, zoneIDFound, answer>>
question == <<str, version, prefix, strict>>

-----------------------------------------------------------------------------
(* The prefix length that ends the string, -1 if it is none.               *)
PrefixLength(s, i, digits, max) ==
    LET n == Run(s, i, Digit)
    IN  IF Decimal(s, i, n, digits, max) /\ i + n = Len(s)
        THEN Number(SubSeq(s, i + 1, i + n), 10) ELSE -1

-----------------------------------------------------------------------------
(* Bits are numbered from the left, starting at 0.                         *)

Bits(words, width) ==
    {p \in 0 .. width * Len(words) - 1 :
        (words[p \div width + 1] \div 2 ^ (width - 1 - (p % width))) % 2 = 1}

(* ipv4.isPrefixOnly: nothing is set to the right of the prefix.           *)
Ipv4PrefixOnly(prefixLen) == Bits(octets, 8) \subseteq 0 .. prefixLen - 1

(* The zeros are appended.                                                 *)
GetBitsMutant ==
    LET dotted == IF octets = << >> THEN << >>
                  ELSE << 256 * octets[1] + octets[2],
                          256 * octets[3] + octets[4] >>
        p16 == pieces \o dotted
        zeros == [k \in 1 .. 8 - Len(p16) |-> 0]
        filled == IF doubleColonAt = -1 \/ Len(p16) >= 8 THEN p16
                  ELSE p16 \o zeros
    IN  IF Len(filled) = 8 THEN filled ELSE [k \in 1 .. 8 |-> 0]

(* ipv6.getBits: the dotted notation is two pieces, the double colon stands*)
(* for as many zeros as are missing.                                       *)
GetBits ==
    LET dotted == IF octets = << >> THEN << >>
                  ELSE << 256 * octets[1] + octets[2],
                          256 * octets[3] + octets[4] >>
        p16 == pieces \o dotted
        zeros == [k \in 1 .. 8 - Len(p16) |-> 0]
        filled == IF doubleColonAt = -1 \/ Len(p16) >= 8 THEN p16
                  ELSE SubSeq(p16, 1, doubleColonAt) \o zeros
                           \o SubSeq(p16, doubleColonAt + 1, Len(p16))
    IN  IF Len(filled) = 8 THEN filled ELSE [k \in 1 .. 8 |-> 0]

(* ipv6.isPrefixOnly, on each of two words of 64 bits.                     *)
Ipv6PrefixOnly(prefixLen) ==
    \A idx \in 0 .. 1 :
        LET size == prefixLen - 64 * idx
            p64 == Bits(SubSeq(GetBits, 4 * idx + 1, 4 * idx + 4), 16)
            mask == IF size >= 64 THEN 0 .. 63
                    ELSE IF size < 0 THEN {} ELSE 0 .. size - 1
        IN  p64 \subseteq mask

(* isIP tries version 4 first, isIPPrefix version 6.                       *)
Attempts(v, isPrefix) ==
    IF v = 0 THEN IF isPrefix THEN << 6, 4 >> ELSE << 4, 6 >>
    ELSE IF v \in {4, 6} THEN << v >> ELSE << >>

Init ==
    /\ str \in Strings
    /\ prefix \in BOOLEAN
    /\ strict \in {FALSE, prefix}
    /\ version \in Versions
    /\ tries = Attempts(version, prefix)
    /\ parser = 0
    /\ pc = "try"
    /\ index = 0
    /\ octets = << >>
    /\ pieces = << >>
    /\ doubleColonAt = -1
    /\ zoneIDFound = FALSE
    /\ answer = FALSE

Answer(ok) ==
    /\ pc' = IF ok THEN "done" ELSE "try"
    /\ answer' = ok

NewParser ==
    /\ pc = "try"
    /\ tries # << >>
    /\ parser' = Head(tries)
    /\ tries' = Tail(tries)
    /\ pc' = IF parser' = 4 THEN "octets" ELSE "part"
    /\ index' = 0
    /\ octets' = << >>
    /\ pieces' = << >>
    /\ doubleColonAt' = -1
    /\ zoneIDFound' = FALSE
    /\ UNCHANGED <<question, answer>>

GiveUp ==
    /\ pc = "try"
    /\ tries = << >>
    /\ pc' = "done"
    /\ UNCHANGED <<question, tries, parser, index, octets, pieces,
                   doubleColonAt, zoneIDFound, answer>>

(* ipv4.addressPart: the next octet, after a dot if it is not the first.   *)
DecOctet ==
    /\ pc = "octets"
    /\ Len(octets) < 4
    /\ LET i == IF octets = << >> THEN index ELSE index + 1
           n == Run(str, i, Digit)
       IN  IF /\ octets # << >> => At(str, index, Dot)
              /\ Decimal(str, i, n, 3, 255)
           THEN /\ octets' = Append(octets,
                                   Number(SubSeq(str, i + 1, i + n), 10))
                /\ index' = i + n
                /\ UNCHANGED <<pc, answer>>
           ELSE Answer(FALSE) /\ UNCHANGED <<octets, index>>
    /\ UNCHANGED <<question, tries, parser, pieces, doubleColonAt, zoneIDFound>>

(* The dotted notation in an IPv6 address has to end with the fourth.      *)
EndOctets ==
    /\ pc = "octets"
    /\ Len(octets) = 4
    /\ IF parser = 4 \/ Run(str, index, Digit \cup {Dot}) = 0
       THEN pc' = "end" /\ UNCHANGED answer
       ELSE Answer(FALSE)
    /\ UNCHANGED <<question, tries, parser, index, octets, pieces,
                   doubleColonAt, zoneIDFound>>

(* The loop of ipv6.addressPart.                                           *)
InLoop == pc = "part" /\ index < Len(str)

(* dotted wants at least seven digits and dots, where 32 bits may be left; *)
(* the IPv4 parser then decides.                                           *)
DottedRun ==
    IF doubleColonAt = -1 /\ Len(pieces) # 6 THEN 0
    ELSE LET n == Run(str, index, Digit \cup {Dot})
         IN  IF n >= 7 THEN n ELSE 0

Dotted ==
    /\ InLoop
    /\ DottedRun > 0
    /\ pc' = "octets"
    /\ UNCHANGED <<question, tries, parser, index, octets, pieces,
                   doubleColonAt, zoneIDFound, answer>>

(* As many digits as there are make a piece.                               *)
H16Mutant ==
    /\ InLoop
    /\ DottedRun = 0
    /\ str[index + 1] \in HexDigit
    /\ LET n == Run(str, index, HexDigit)
       IN  /\ pieces' = Append(pieces,
                  Number(SubSeq(str, index + 1, index + n), 16))
           /\ index' = index + n
    /\ UNCHANGED <<question, tries, parser, pc, octets, doubleColonAt,
                   zoneIDFound, answer>>

(* The digit that is too many ends the loop of hexdig.                     *)
H16 ==
    /\ InLoop
    /\ DottedRun = 0
    /\ str[index + 1] \in HexDigit
    /\ LET n == Run(str, index, HexDigit)
       IN  IF n > 4
           THEN /\ Answer(FALSE)
                /\ index' = index + 5
                /\ UNCHANGED pieces
           ELSE /\ pieces' = Append(pieces,
                       Number(SubSeq(str, index + 1, index + n), 16))
                /\ index' = index + n
                /\ UNCHANGED <<pc, answer>>
    /\ UNCHANGED <<question, tries, parser, octets, doubleColonAt, zoneIDFound>>

(* A second double colon is let through.                                   *)
DoubleColonMutant ==
    /\ InLoop
    /\ At(str, index, Colon) /\ At(str, index + 1, Colon)
    /\ doubleColonAt' = Len(pieces)
    /\ IF At(str, index + 2, Colon)
       THEN Answer(FALSE) /\ index' = index + 3
       ELSE index' = index + 2 /\ UNCHANGED <<pc, answer>>
    /\ UNCHANGED <<question, tries, parser, octets, pieces, zoneIDFound>>

DoubleColon ==
    /\ InLoop
    /\ At(str, index, Colon) /\ At(str, index + 1, Colon)
    /\ IF doubleColonAt # -1
       THEN Answer(FALSE) /\ index' = index + 2 /\ UNCHANGED doubleColonAt
       ELSE /\ doubleColonAt' = Len(pieces)
            /\ IF At(str, index + 2, Colon)
               THEN Answer(FALSE) /\ index' = index + 3
               ELSE index' = index + 2 /\ UNCHANGED <<pc, answer>>
    /\ UNCHANGED <<question, tries, parser, octets, pieces, zoneIDFound>>

(* The cursor stays where it is.                                           *)
SingleColonMutant ==
    /\ InLoop
    /\ At(str, index, Colon) /\ ~At(str, index + 1, Colon)
    /\ IF index = 0 \/ index + 1 = Len(str)
       THEN Answer(FALSE) /\ index' = index + 1
       ELSE UNCHANGED <<index, pc, answer>>
    /\ UNCHANGED <<question, tries, parser, octets, pieces, doubleColonAt,
                   zoneIDFound>>

SingleColon ==
    /\ InLoop
    /\ At(str, index, Colon) /\ ~At(str, index + 1, Colon)
    /\ index' = index + 1
    /\ IF index' = 1 \/ index' = Len(str)
       THEN Answer(FALSE)
       ELSE UNCHANGED <<pc, answer>>
    /\ UNCHANGED <<question, tries, parser, octets, pieces, doubleColonAt,
                   zoneIDFound>>

(* After the loop: the number of pieces decides.                           *)
EndLoop ==
    IF IF doubleColonAt # -1 THEN Len(pieces) < 8 ELSE Len(pieces) = 8
    THEN pc' = "end" /\ UNCHANGED answer
    ELSE Answer(FALSE)

(* Any string that is not empty is a zone id.                              *)
ZoneID ==
    /\ InLoop
    /\ At(str, index, Percent)
    /\ IF index + 1 < Len(str)
       THEN /\ index' = Len(str)
            /\ zoneIDFound' = TRUE
            /\ EndLoop
       ELSE Answer(FALSE) /\ UNCHANGED <<index, zoneIDFound>>
    /\ UNCHANGED <<question, tries, parser, octets, pieces, doubleColonAt>>

Break ==
    /\ pc = "part"
    /\ DottedRun = 0
    /\ InLoop => str[index + 1] \notin HexDigit \cup {Colon, Percent}
    /\ EndLoop
    /\ UNCHANGED <<question, tries, parser, index, octets, pieces,
                   doubleColonAt, zoneIDFound>>

(* address and addressPrefix, after addressPart.                           *)
Address ==
    /\ pc = "end"
    /\ ~prefix
    /\ Answer(index = Len(str))
    /\ UNCHANGED <<question, tries, parser, index, octets, pieces,
                   doubleColonAt, zoneIDFound>>

AddressPrefix ==
    /\ pc = "end"
    /\ prefix
    /\ LET prefixLen == IF parser = 4 THEN PrefixLength(str, index + 1, 2, 32)
                        ELSE PrefixLength(str, index + 1, 3, 128)
       IN  Answer(/\ ~zoneIDFound
                  /\ At(str, index, Slash)
                  /\ prefixLen # -1
                  /\ strict => IF parser = 4 THEN Ipv4PrefixOnly(prefixLen)
                               ELSE Ipv6PrefixOnly(prefixLen))
    /\ UNCHANGED <<question, tries, parser, index, octets, pieces,
                   doubleColonAt, zoneIDFound>>

Next ==
    \/ NewParser \/ GiveUp \/ DecOctet \/ EndOctets
    \/ Dotted \/ H16 \/ DoubleColon \/ SingleColon \/ ZoneID \/ Break
    \/ Address \/ AddressPrefix

-----------------------------------------------------------------------------
(* Every variable has its type: the cursor never leaves the string and no  *)
(* piece, octet or place of the double colon is out of range (library.go:  *)
(* 565-638, 689-711, 780-899).                                             *)
TypeOK ==
    /\ str \in Seq(Char)
    /\ version \in Versions
    /\ prefix \in BOOLEAN
    /\ strict \in BOOLEAN
    /\ tries \in Seq({4, 6})
    /\ parser \in {0, 4, 6}
    /\ pc \in {"try", "octets", "part", "end", "done"}
    /\ index \in 0 .. Len(str)
    /\ pieces \in Seq(0 .. 256 * 256 - 1)
    /\ doubleColonAt \in -1 .. Len(pieces)
    /\ octets \in Seq(0 .. 255) /\ Len(octets) <= 4
    /\ zoneIDFound \in BOOLEAN
    /\ answer \in BOOLEAN

==============================================================================
