------------------------------- MODULE IpGrammar -------------------------------
(***************************************************************************)
(* IpAddress compared with the language it ought to accept.                *)
(***************************************************************************)
EXTENDS IpAddress, IpLanguage

(* An address, a slash and a prefix length; strictly, no bit is set after  *)
(* the prefix.                                                             *)
IsPrefixed(addresses, width, s, i) ==
    /\ s[i] = Slash
    /\ IsDecimal(After(s, i), IF width = 8 THEN 32 ELSE 128)
    /\ \E a \in addresses :
          strict => \A p \in Bits(a, width) : p < Number(After(s, i), 10)

Valid(v) ==
    IF v = 4
    THEN IF prefix
         THEN \E i \in DOMAIN str : IsPrefixed(Octets(Before(str, i)), 8, str, i)
         ELSE Octets(str) # {}
    ELSE IF prefix
         THEN \E i \in DOMAIN str : IsPrefixed(Address8(Before(str, i)), 16, str, i)
         ELSE Address8(str) # {} \/ IsZoned(str)

ValidAnswer ==
    CASE version = 0 -> Valid(4) \/ Valid(6)
      [] version \in {4, 6} -> Valid(version)
      [] OTHER -> FALSE

(* Where the parser and the RFCs part: a colon of its own before the zone  *)
(* id or the slash; a dotted quad and a zone id; a dotted quad after a     *)
(* double colon with six groups or more.                                   *)
StrayColon ==
    \E i \in 1 .. Len(str) - 1 :
        /\ str[i] = Colon /\ str[i + 1] \in {Percent, Slash}
        /\ i > 1 => str[i - 1] # Colon
ZonedQuad == {Dot, Percent} \subseteq ToSet(str)
Crowded == doubleColonAt # -1 /\ octets # << >> /\ Len(pieces) > 5

-----------------------------------------------------------------------------
(* Properties.                                                             *)

(* Elsewhere isIP accepts the addresses, of the versions it is asked for,  *)
(* and nothing else (library.go:954-976).                                  *)
AddressExact ==
    (pc = "done" /\ ~prefix /\ ~(StrayColon \/ ZonedQuad \/ Crowded))
        => answer = ValidAnswer

(* And so does isIPPrefix, with strict for those that have no bit set in   *)
(* their host part (library.go:979-1011).                                  *)
PrefixExact ==
    (pc = "done" /\ prefix /\ ~(StrayColon \/ Crowded))
        => answer = ValidAnswer

(* library.go:741 says: "addressPrefix parses an IPv6 Address Prefix       *)
(* following RFC 4291."                                                    *)
PrefixFollowsRFC ==
    (pc = "done" /\ prefix /\ version = 6 /\ answer) => Valid(6)

(* library.go:736 says: "address parses an IPv6 Address following RFC      *)
(* 4291, with optional zone id following RFC 4007."  What it accepts is    *)
(* one ...                                                                 *)
AddressFollowsRFC ==
    (pc = "done" /\ ~prefix /\ version = 6 /\ answer) => Valid(6)

(* ... and the zone id is optional on every address.                       *)
ZoneIDsAccepted ==
    (pc = "done" /\ ~prefix /\ version = 6 /\ IsZoned(str)) => answer

==============================================================================
