------------------------------ MODULE IpLanguage -------------------------------
(***************************************************************************)
(* The addresses, by what they consist of and not by how they are parsed:  *)
(* RFC 4291 for IPv6, dotted decimal for IPv4, RFC 4007 for zone ids, as   *)
(* the comments of cel/library.go name them.                               *)
(***************************************************************************)
EXTENDS Text

Before(s, i) == SubSeq(s, 1, i - 1)
After(s, i) == SubSeq(s, i + 1, Len(s))

(* The parts of a string between separators.                               *)
Split(s, c) ==
    LET split[n \in 0 .. Len(s)] ==
            IF n = 0 THEN << << >> >>
            ELSE LET parts == split[n - 1]
                 IN  IF s[n] = c THEN Append(parts, << >>)
                     ELSE [parts EXCEPT ![Len(parts)] = Append(@, s[n])]
    IN  split[Len(s)]

IsDecimal(d, max) ==
    /\ d # << >> /\ Len(d) <= 3 /\ ToSet(d) \subseteq Digit
    /\ d[1] = 0 => Len(d) = 1
    /\ Number(d, 10) <= max

IsHex(d) == Len(d) \in 1 .. 4 /\ ToSet(d) \subseteq HexDigit

(* The octets of a dotted quad, as a set of at most one reading.           *)
Octets(s) ==
    LET parts == Split(s, Dot)
    IN  IF Len(parts) = 4 /\ \A k \in 1 .. 4 : IsDecimal(parts[k], 255)
        THEN {[k \in 1 .. 4 |-> Number(parts[k], 10)]} ELSE {}

(* The words of a list of groups, which a dotted quad may end.             *)
Words(s) ==
    LET parts == Split(s, Colon)
        hex(m) == \A k \in 1 .. m : IsHex(parts[k])
        groups(m) == [k \in 1 .. m |-> Number(parts[k], 16)]
        n == Len(parts) - 1
    IN  IF s = << >> THEN {<< >>}
        ELSE IF hex(n + 1) THEN {groups(n + 1)}
        ELSE {groups(n) \o << 256 * o[1] + o[2], 256 * o[3] + o[4] >> :
              o \in IF hex(n) THEN Octets(Last(parts)) ELSE {}}

HexWords(s) == IF Dot \in ToSet(s) THEN {} ELSE Words(s)

(* Eight words, or fewer with a double colon for one or more that are 0.   *)
Address8(s) ==
    LET doubles == {i \in 1 .. Len(s) - 1 : s[i] = Colon /\ s[i + 1] = Colon}
        halves == UNION {HexWords(Before(s, i)) \X Words(After(s, i + 1)) :
                            i \in doubles}
        missing(h) == 8 - Len(h[1]) - Len(h[2])
    IN  {w \in Words(s) : Len(w) = 8}
        \cup {h[1] \o [k \in 1 .. missing(h) |-> 0] \o h[2] :
                 h \in {g \in halves : missing(g) >= 1}}

IsZoned(s) ==
    \E i \in DOMAIN s : s[i] = Percent /\ i < Len(s) /\ Address8(Before(s, i)) # {}

==============================================================================
