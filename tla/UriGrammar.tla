------------------------------ MODULE UriGrammar -------------------------------
(***************************************************************************)
(* The URIs and relative references of RFC 3986, with zone ids (RFC 6874), *)
(* as the strings that can be divided as its rules say, and Uri compared   *)
(* with them.                                                              *)
(***************************************************************************)
EXTENDS Uri

OfClass(s, class) ==
    \A k \in DOMAIN s : s[k] \in class \/ PctEncoded(s, k - 1)

IsSchemeName(s) ==
    /\ s # << >>
    /\ s[1] \in Alpha
    /\ ToSet(s) \subseteq Alphanumeric \cup {Plus, Hyphen, Dot}

IsZonedLiteral(s) ==
    \E i \in 1 .. Len(s) - 3 :
        /\ SubSeq(s, i, i + 2) = << Percent, 2, 5 >>
        /\ Address8(Before(s, i)) # {}
        /\ OfClass(After(s, i + 2), Unreserved)

IsFuture(s) ==
    \E i \in 3 .. Len(s) - 1 :
        /\ s[1] = V /\ s[i] = Dot
        /\ ToSet(SubSeq(s, 2, i - 1)) \subseteq HexDigit
        /\ ToSet(After(s, i)) \subseteq RegChar \cup {Colon}

IsLiteral(s) ==
    /\ Len(s) > 2 /\ s[1] = Open /\ Last(s) = Close
    /\ LET a == SubSeq(s, 2, Len(s) - 1)
       IN  Address8(a) # {} \/ IsZonedLiteral(a) \/ IsFuture(a)

IsHost(s) ==
    (IsLiteral(s) \/ OfClass(s, RegChar)) /\ Utf8Valid(Decoded(s))

IsHostPort(s) ==
    \/ IsHost(s)
    \/ \E i \in DOMAIN s :
          s[i] = Colon /\ IsHost(Before(s, i)) /\ ToSet(After(s, i)) \subseteq Digit

IsAuthority(s) ==
    \/ IsHostPort(s)
    \/ \E i \in DOMAIN s : /\ s[i] = AtSign
                           /\ OfClass(Before(s, i), RegChar \cup {Colon})
                           /\ IsHostPort(After(s, i))

IsPath(s) == OfClass(s, Pchar \cup {Slash})
IsAbempty(s) == s = << >> \/ (s[1] = Slash /\ IsPath(s))
IsAbsolute(s) ==
    s # << >> /\ s[1] = Slash /\ IsPath(s) /\ (Len(s) > 1 => s[2] # Slash)
IsRootless(s) == s # << >> /\ s[1] # Slash /\ IsPath(s)
IsNoscheme(s) == IsRootless(s) /\ OfClass(Split(s, Slash)[1], SegmentNc)

IsNetPath(s) ==
    \E n \in 2 .. Len(s) : /\ s[1] = Slash /\ s[2] = Slash
                           /\ IsAuthority(SubSeq(s, 3, n))
                           /\ IsAbempty(After(s, n))

IsHier(s) == s = << >> \/ IsNetPath(s) \/ IsAbsolute(s) \/ IsRootless(s)
IsRelative(s) == s = << >> \/ IsNetPath(s) \/ IsAbsolute(s) \/ IsNoscheme(s)

IsQuery(s) == OfClass(s, QueryChar)
IsTail(s) ==
    \/ s = << >>
    \/ s[1] = Hash /\ IsQuery(After(s, 1))
    \/ /\ s[1] = Question
       /\ \/ IsQuery(After(s, 1))
          \/ \E i \in DOMAIN s : /\ s[i] = Hash
                                 /\ IsQuery(SubSeq(s, 2, i - 1))
                                 /\ IsQuery(After(s, i))

IsURI(s) ==
    \E i \in DOMAIN s :
        /\ s[i] = Colon /\ IsSchemeName(Before(s, i))
        /\ \E n \in i .. Len(s) :
              IsHier(SubSeq(s, i + 1, n)) /\ IsTail(After(s, n))

IsRelativeRef(s) ==
    \E n \in 0 .. Len(s) : IsRelative(SubSeq(s, 1, n)) /\ IsTail(After(s, n))

(* Where the parser and the RFC part: dotted notation in an IP literal,    *)
(* where no V begins the other kind; a query or fragment that uri() gave   *)
(* up in.                                                                  *)
DottedLiteral ==
    \E o, i, j, k \in DOMAIN str :
        /\ o < i /\ i < j /\ j < k
        /\ str[o] = Open /\ str[o + 1] # V
        /\ str[i] = Colon /\ str[j] = Dot /\ str[k] = Close
Resumed == index \notin {0, Len(str)}

-----------------------------------------------------------------------------
(* Properties.                                                             *)

(* Every variable has its type; the cursor stays in the string.            *)
TypeOK ==
    /\ str \in Seq(Char)
    /\ reference \in BOOLEAN
    /\ pc \in {"uri", "relative", "done"}
    /\ index \in 0 .. Len(str)
    /\ answer \in BOOLEAN

(* isURI accepts the URIs and nothing else, whichever of its alternatives  *)
(* a prefix of the string could be (library.go:1122-1143).                 *)
URIExact ==
    (pc = "done" /\ ~reference /\ ~DottedLiteral) => (answer <=> IsURI(str))

(* isURIRef accepts the URIs and the relative references and nothing else, *)
(* if uri() left nothing behind (library.go:1148-1193).                    *)
ReferenceExact ==
    (pc = "done" /\ reference /\ ~DottedLiteral /\ ~(answer /\ Resumed))
        => (answer <=> (IsURI(str) \/ IsRelativeRef(str)))

(* library.go:1145-1147 says: "uriReference parses the rule: URI-reference *)
(* = URI / relative-ref."                                                  *)
ReferencesOnly ==
    (pc = "done" /\ reference /\ answer) => IsURI(str) \/ IsRelativeRef(str)

(* library.go:1363 says: "IP-literal = "[" ( IPv6address / IPv6addrz /     *)
(* IPvFuture ) "]"", where IPv6address may end in dotted notation.         *)
LiteralsAccepted == (pc = "done" /\ IsURI(str)) => answer

==============================================================================
