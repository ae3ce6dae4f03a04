-------------------------------- MODULE Library --------------------------------
(***************************************************************************)
(* One call of a function that CEL programs are given: isIP and isIPPrefix *)
(* (IpAddress), isURI and isURIRef (Uri), isHostname and isHostAndPort     *)
(* (HostPort), or one of the operations of a protobuf map (ProtoMap).  The *)
(* functions share nothing; what is said here is said of all of them, and  *)
(* of the rules that the comments of the library cite.                     *)
(***************************************************************************)
EXTENDS Text, FiniteSets

CONSTANTS
    Functions,                              \* the functions that are called
    IpStrings, Versions,                    \* of IpAddress
    UriStrings,                             \* of Uri
    HostStrings, MaxName, MaxLabel, MaxPort, \* of HostPort
    IntMax, Int32Max, Mantissa, Quanta, \* of ProtoMap
    Values, Maps, Compared, Keys, Platforms

VARIABLES
    fn,             \* which function it is
    pc, str, index, answer,
    version, prefix, strict, tries, parser, octets, pieces, doubleColonAt,
    zoneIDFound,    \* of IpAddress
    reference,      \* of Uri
    call, portRequired, \* of HostPort
    platform, m, other, key, todo, found, equal \* of ProtoMap

text == <<str, index, answer>>
ip == <<version, prefix, strict, tries, parser, octets, pieces,
        doubleColonAt, zoneIDFound>>
uri == <<reference>>
host == <<call, portRequired>>
map == <<platform, m, other, key, todo, found, equal>>
vars == <<fn, pc, text, ip, uri, host, map>>

I == INSTANCE IpGrammar WITH Strings <- IpStrings
U == INSTANCE UriGrammar WITH Strings <- UriStrings
H == INSTANCE HostPort WITH Strings <- HostStrings
P == INSTANCE ProtoMap

ASSUME LibraryAssumption ==
    /\ Functions \subseteq {"ip", "uri", "host", "map"}
    /\ I!IpAssumption /\ U!UriAssumption
    /\ H!HostPortAssumption /\ P!ProtoMapAssumption

-----------------------------------------------------------------------------
(* What the variables of the functions that are not called hold.           *)

NoText == str = << >> /\ index = 0 /\ answer = FALSE
NoIp ==
    /\ version = 0 /\ prefix = FALSE /\ strict = FALSE /\ tries = << >>
    /\ parser = 0 /\ octets = << >> /\ pieces = << >>
    /\ doubleColonAt = -1 /\ zoneIDFound = FALSE
NoUri == reference = FALSE
NoHost == call = "isHostname" /\ portRequired = FALSE
NoMap ==
    /\ platform = "saturating" /\ m = << >> /\ other = << >>
    /\ key = << >> /\ todo = {} /\ found = {} /\ equal = FALSE

Init ==
    /\ fn \in Functions
    /\ \/ fn = "ip" /\ I!Init /\ NoUri /\ NoHost /\ NoMap
       \/ fn = "uri" /\ U!Init /\ NoIp /\ NoHost /\ NoMap
       \/ fn = "host" /\ H!Init /\ index = 0 /\ NoIp /\ NoUri /\ NoMap
       \/ fn = "map" /\ P!Init /\ NoText /\ NoIp /\ NoUri /\ NoHost

Next ==
    /\ UNCHANGED fn
    /\ \/ fn = "ip" /\ I!Next /\ UNCHANGED <<uri, host, map>>
       \/ fn = "uri" /\ U!Next /\ UNCHANGED <<ip, host, map>>
       \/ fn = "host" /\ H!Next /\ UNCHANGED <<index, ip, uri, map>>
       \/ fn = "map" /\ P!Next /\ UNCHANGED <<text, ip, uri, host>>

Spec == Init /\ [][Next]_vars

(* A function that is called runs.  The others have a step or two, these   *)
(* have loops of which a turn is a step.                                   *)
Looping == fn \in {"ip", "map"}
FairSpec == Spec /\ WF_vars(Looping /\ Next)

-----------------------------------------------------------------------------
(* Properties.                                                             *)

Returned == pc \in {"done", "found", "compared"}

(* The variables have their types: cursors stay in the string, numbers in  *)
(* their widths, and what is found in a map is a key of it.                *)
TypeOK ==
    CASE fn = "ip" -> I!TypeOK
      [] fn = "uri" -> U!TypeOK
      [] fn = "host" -> pc \in {"call", "done"} /\ answer \in BOOLEAN
      [] fn = "map" -> P!TypeOK

(* The loops end: each turn of addressPart's loop consumes something       *)
(* (cel/library.go:781-818), and each turn of Equal's an entry             *)
(* (map_value.go:112-127).                                                 *)
Terminates == Looping => <>Returned

(* isIP accepts the strings that the grammar of addresses has, for every   *)
(* way the pieces may be arranged (cel/library.go:780-823).                *)
AddressExact == fn = "ip" => I!AddressExact

(* isIPPrefix accepts an address and a length, and if it is strict only    *)
(* one without bits behind it (cel/library.go:689-748).                    *)
PrefixExact == fn = "ip" => I!PrefixExact

(* isURI accepts what the grammar of RFC 3986 has (cel/library.go:1126).   *)
URIExact == fn = "uri" => U!URIExact

(* So does isURIRef, with a second attempt as a relative reference         *)
(* (cel/library.go:1148).                                                  *)
ReferenceExact == fn = "uri" => U!ReferenceExact

(* isHostname accepts labels within the limits, not all of digits at the   *)
(* end (cel/library.go:1022-1055).                                         *)
HostnameExact == fn = "host" => H!HostnameExact

(* isHostAndPort takes as the port what follows the address or the name,   *)
(* colons and brackets notwithstanding (cel/library.go:1070-1092).         *)
HostAndPortExact == fn = "host" => H!HostAndPortExact

(* A key finds the entry whose key is the same number, and no other        *)
(* (map_value.go:178-254, 327-338).                                        *)
FindExact == fn = "map" => P!FindExact

(* Equal says of two maps whether they are the same, in any order of       *)
(* entries and whichever of them is asked (map_value.go:102-128).          *)
EqualSymmetric == fn = "map" => P!EqualSymmetric

(* The rules that comments of the library cite are followed to the letter; *)
(* each part quotes its line in the module it is from.                     *)
FormatsFollowRules ==
    /\ fn = "ip" => /\ I!PrefixFollowsRFC /\ I!AddressFollowsRFC
                    /\ I!ZoneIDsAccepted
    /\ fn = "uri" => U!ReferencesOnly /\ U!LiteralsAccepted
    /\ fn = "host" => H!TrailingDotExcluded

==============================================================================
