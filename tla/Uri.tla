---------------------------------- MODULE Uri ----------------------------------
(***************************************************************************)
(* isURI and isURIRef (cel/library.go): a recursive descent parser of RFC  *)
(* 3986.  A rule is an operator that gives the cursor after what it takes, *)
(* or Fail where the code returns false and puts the cursor back.  uri()   *)
(* does not always put it back, and uriReference goes on from there, so    *)
(* the two are actions with the cursor between them.                       *)
(***************************************************************************)
EXTENDS IpLanguage

CONSTANT Strings    \* the strings a behaviour may be asked about

UriAssumption == Strings \subseteq Seq(Char)

VARIABLES
    str,        \* uri.str
    reference,  \* isURIRef was called, not isURI
    pc,         \* in uri(), in relativeRef(), finished
    index,      \* uri.index, where uri() left it
    answer

vars == <<str, reference, pc, index, answer>>

Fail == -1

SubDelim == {Plus, Delim}
Unreserved == Alphanumeric \cup {Hyphen, Mark, Dot}
RegChar == Unreserved \cup SubDelim
SegmentNc == RegChar \cup {AtSign}
Pchar == SegmentNc \cup {Colon}
QueryChar == Pchar \cup {Slash, Question}

-----------------------------------------------------------------------------
(* Characters.                                                             *)

PctEncoded(s, i) ==
    /\ At(s, i, Percent)
    /\ i + 2 < Len(s) /\ s[i + 2] \in HexDigit /\ s[i + 3] \in HexDigit

(* Where the loops over a class of characters or pct-encoded end.          *)
Span(s, i, class) ==
    LET span[k \in i .. Len(s)] ==
            IF k < Len(s) /\ s[k + 1] \in class THEN span[k + 1]
            ELSE IF PctEncoded(s, k) THEN span[k + 3] ELSE k
    IN  span[i]

AtEnd(s, i, delimiters) == i = Len(s) \/ s[i + 1] \in delimiters
AuthorityEnd(s, i) == AtEnd(s, i, {Slash, Question, Hash})
PathEnd(s, i) == AtEnd(s, i, {Question, Hash})

OrElse(first, second) == IF first # Fail THEN first ELSE second
Closed(s, i, c) == IF i # Fail /\ At(s, i, c) THEN i + 1 ELSE Fail

(* The bytes of a host; those that are not encoded are ASCII, say 0.       *)
Decoded(s) ==
    LET decoded[k \in 0 .. Len(s)] ==
            IF k = Len(s) THEN << >>
            ELSE IF s[k + 1] = Percent
                 THEN << 16 * s[k + 2] + s[k + 3] >> \o decoded[k + 3]
                 ELSE << 0 >> \o decoded[k + 1]
    IN  decoded[0]

Continuation(lead) ==
    CASE lead = 224 -> 160 .. 191
      [] lead = 237 -> 128 .. 159
      [] lead = 240 -> 144 .. 191
      [] lead = 244 -> 128 .. 143
      [] OTHER -> 128 .. 191

IsRune(b) ==
    /\ b[1] \in CASE Len(b) = 1 -> 0 .. 127
                  [] Len(b) = 2 -> 194 .. 223
                  [] Len(b) = 3 -> 224 .. 239
                  [] Len(b) = 4 -> 240 .. 244
    /\ Len(b) > 1 => b[2] \in Continuation(b[1])
    /\ \A k \in 3 .. Len(b) : b[k] \in 128 .. 191

(* utf8.Valid.                                                             *)
Utf8Valid(bytes) ==
    LET valid[k \in 0 .. Len(bytes)] ==
            \/ k = Len(bytes)
            \/ \E n \in 1 .. 4 :
                  /\ k + n <= Len(bytes)
                  /\ IsRune(SubSeq(bytes, k + 1, k + n))
                  /\ valid[k + n]
    IN  valid[0]

-----------------------------------------------------------------------------
(* The authority.                                                          *)

(* What isIP says of hexadecimal digits and colons; a dot ends the loop.   *)
Ipv6Address(s, i) ==
    LET n == Run(s, i, HexDigit \cup {Colon})
    IN  IF Address8(SubSeq(s, i + 1, i + n)) # {} THEN i + n ELSE Fail

ZoneID(s, a) ==
    LET z == Span(s, a + 3, Unreserved)
    IN  IF /\ a # Fail
           /\ At(s, a, Percent) /\ At(s, a + 1, 2) /\ At(s, a + 2, 5)
           /\ z > a + 3
        THEN z ELSE Fail
Ipv6Addrz(s, i) == ZoneID(s, Ipv6Address(s, i))

IpvFuture(s, i) ==
    LET n == i + 1 + Run(s, i + 1, HexDigit)
        m == n + 1 + Run(s, n + 1, RegChar \cup {Colon})
    IN  IF At(s, i, V) /\ n > i + 1 /\ At(s, n, Dot) /\ m > n + 1
        THEN m ELSE Fail

IpLiteral(s, i) ==
    IF ~At(s, i, Open) THEN Fail
    ELSE OrElse(Closed(s, Ipv6Address(s, i + 1), Close),
         OrElse(Closed(s, Ipv6Addrz(s, i + 1), Close),
                Closed(s, IpvFuture(s, i + 1), Close)))

RegName(s, i) ==
    LET j == Span(s, i, RegChar)
    IN  IF AuthorityEnd(s, j) \/ At(s, j, Colon) THEN j ELSE Fail

(* The bytes of the host are not looked at.                                *)
HostMutant(s, i) == OrElse(IpLiteral(s, i), RegName(s, i))

(* pctEncodedFound only spares the check of a host that is all ASCII.      *)
CheckHostPctEncoded(s, i, j) ==
    IF j # Fail /\ Utf8Valid(Decoded(SubSeq(s, i + 1, j))) THEN j ELSE Fail
Host(s, i) == CheckHostPctEncoded(s, i, OrElse(IpLiteral(s, i), RegName(s, i)))

Userinfo(s, i) ==
    LET u == Span(s, i, RegChar \cup {Colon})
    IN  IF At(s, u, AtSign) THEN u + 1 ELSE i

(* The port, if there is one, and the end of the authority.                *)
Port(s, h) ==
    LET p == IF At(s, h, Colon) THEN h + 1 + Run(s, h + 1, Digit) ELSE h
    IN  IF h # Fail /\ AuthorityEnd(s, p) THEN p ELSE Fail

Authority(s, i) == Port(s, Host(s, Userinfo(s, i)))

-----------------------------------------------------------------------------
(* Paths.                                                                  *)

(* *( "/" segment ), and the end of the path.                              *)
Segments(s, i) ==
    LET j == IF At(s, i, Slash) THEN Span(s, i, Pchar \cup {Slash}) ELSE i
    IN  IF PathEnd(s, j) THEN j ELSE Fail

SegmentNz(s, i, class) ==
    LET j == Span(s, i, class) IN IF j > i THEN Segments(s, j) ELSE Fail

PathAbsolute(s, i) ==
    IF ~At(s, i, Slash) THEN Fail
    ELSE OrElse(SegmentNz(s, i + 1, Pchar),
                IF PathEnd(s, i + 1) THEN i + 1 ELSE Fail)

PathEmpty(s, i) == IF PathEnd(s, i) THEN i ELSE Fail

(* hierPart, and relativePart with the class of the first segment.         *)
PathAbempty(s, a) == IF a # Fail THEN Segments(s, a) ELSE Fail
Part(s, i, first) ==
    OrElse(PathAbempty(s, IF At(s, i, Slash) /\ At(s, i + 1, Slash)
                          THEN Authority(s, i + 2) ELSE Fail),
    OrElse(PathAbsolute(s, i),
    OrElse(SegmentNz(s, i, first), PathEmpty(s, i))))

Scheme(s) ==
    LET n == Run(s, 0, Alphanumeric \cup {Plus, Hyphen, Dot})
    IN  IF n > 0 /\ s[1] \in Alpha /\ At(s, n, Colon) THEN n ELSE Fail

HierPart(s, c) == IF c = Fail THEN Fail ELSE Part(s, c + 1, Pchar)

(* What may follow a path; without it, where the cursor is.                *)
Fragment(s, q) ==
    LET f == IF At(s, q, Hash) THEN Span(s, q + 1, QueryChar) ELSE q
    IN  IF f = Len(s) THEN [ok |-> TRUE, at |-> f]
        ELSE [ok |-> FALSE, at |-> IF At(s, q, Hash) THEN q + 1 ELSE 0]

Query(s, i, q) ==
    IF AtEnd(s, q, {Hash}) THEN Fragment(s, q) ELSE [ok |-> FALSE, at |-> i + 1]

Rest(s, i) ==
    IF i = Fail THEN [ok |-> FALSE, at |-> 0]
    ELSE IF At(s, i, Question) THEN Query(s, i, Span(s, i + 1, QueryChar))
    ELSE Fragment(s, i)

-----------------------------------------------------------------------------
(* The calls.                                                              *)

Init ==
    /\ str \in Strings
    /\ reference \in BOOLEAN
    /\ pc = "uri"
    /\ index = 0
    /\ answer = FALSE

(* uri(): a failed query or fragment returns without `u.index = start'.    *)
ParseURI ==
    /\ pc = "uri"
    /\ \E t \in {Rest(str, HierPart(str, Scheme(str)))} :
           /\ index' = t.at
           /\ IF t.ok \/ ~reference
              THEN pc' = "done" /\ answer' = t.ok
              ELSE pc' = "relative" /\ UNCHANGED answer
    /\ UNCHANGED <<str, reference>>

(* A first segment with a colon is let through.                            *)
ParseRelativeRefMutant ==
    /\ pc = "relative"
    /\ answer' = Rest(str, Part(str, index, Pchar)).ok
    /\ pc' = "done"
    /\ UNCHANGED <<str, reference, index>>

(* The second alternative starts where the first one stopped.              *)
ParseRelativeRef ==
    /\ pc = "relative"
    /\ answer' = Rest(str, Part(str, index, SegmentNc)).ok
    /\ pc' = "done"
    /\ UNCHANGED <<str, reference, index>>

Next == ParseURI \/ ParseRelativeRef

==============================================================================
