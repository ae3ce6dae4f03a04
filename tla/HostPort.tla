------------------------------- MODULE HostPort --------------------------------
(***************************************************************************)
(* isHostname, isHostAndPort and isPort (cel/library.go), compared with    *)
(* what their comments say.  isIP is IpLanguage's: the strings of a model  *)
(* are none of those that the runs of IpAddress show to be judged          *)
(* otherwise.                                                              *)
(***************************************************************************)
EXTENDS IpLanguage

CONSTANTS
    Strings,    \* the strings a behaviour may be asked about
    MaxName,    \* 253
    MaxLabel,   \* 63
    MaxPort     \* 65535

HostPortAssumption ==
    /\ Strings \subseteq Seq(Char)
    /\ {MaxName, MaxLabel, MaxPort} \subseteq Nat \ {0}
    /\ MaxPort < 100000     \* a port has five digits at most

Calls == {"isHostname", "isHostAndPort"}

VARIABLES
    str,
    call,           \* the function that was called
    portRequired,   \* its argument
    pc,             \* called or returned
    answer

vars == <<str, call, portRequired, pc, answer>>

(* strings.LastIndex.                                                      *)
LastIndex(s, c) == SelectLastInSeq(s, LAMBDA d : d = c) - 1

IsIp4(s) == Octets(s) # {}
IsIp6(s) == Address8(s) # {} \/ IsZoned(s)

-----------------------------------------------------------------------------
(* The functions.                                                          *)

(* allDigits is not set anew for each part.                                *)
IsHostnameMutant(val) ==
    LET s == IF val # << >> /\ Last(val) = Dot THEN Front(val) ELSE val
        parts == Split(s, Dot)
    IN  /\ Len(val) <= MaxName
        /\ \A part \in ToSet(parts) :
              /\ Len(part) \in 1 .. MaxLabel
              /\ Hyphen \notin {Head(part), Last(part)}
              /\ ToSet(part) \subseteq Alphanumeric \cup {Hyphen}
        /\ ~(ToSet(s) \subseteq Digit \cup {Dot})

(* The length is that of the whole string, its last dot included.          *)
IsHostname(val) ==
    LET s == IF val # << >> /\ Last(val) = Dot THEN Front(val) ELSE val
        parts == Split(s, Dot)
    IN  /\ Len(val) <= MaxName
        /\ \A part \in ToSet(parts) :
              /\ Len(part) \in 1 .. MaxLabel
              /\ Hyphen \notin {Head(part), Last(part)}
              /\ ToSet(part) \subseteq Alphanumeric \cup {Hyphen}
        /\ ~(ToSet(Last(parts)) \subseteq Digit)

IsPort(s) ==
    /\ s # << >>
    /\ ToSet(s) \subseteq Digit
    /\ Len(s) > 1 => s[1] # 0
    /\ Number(s, 10) <= MaxPort

(* What follows the last bracket is not looked at.                         *)
IsHostAndPortMutant(s, required) ==
    LET splitIdx == LastIndex(s, Colon)
        end == LastIndex(s, Close)
        host == SubSeq(s, 1, splitIdx)
        inner == SubSeq(s, 2, end)
        port == IsPort(After(s, splitIdx + 1))
    IN  IF s = << >> THEN FALSE
        ELSE IF s[1] = Open
        THEN IsIp6(inner) /\ (IF end < splitIdx THEN port ELSE ~required)
        ELSE IF splitIdx < 0
        THEN ~required /\ (IsHostname(s) \/ IsIp4(s))
        ELSE (IsHostname(host) \/ IsIp4(host)) /\ port

(* Brackets are looked for when there is a bracket, else the last colon.   *)
IsHostAndPort(s, required) ==
    LET splitIdx == LastIndex(s, Colon)
        end == LastIndex(s, Close)
        host == SubSeq(s, 1, splitIdx)
        inner == SubSeq(s, 2, end)
        port == IsPort(After(s, splitIdx + 1))
    IN  IF s = << >> THEN FALSE
        ELSE IF s[1] = Open
        THEN CASE end + 1 = Len(s) -> ~required /\ IsIp6(inner)
               [] end + 1 = splitIdx -> IsIp6(inner) /\ port
               [] OTHER -> FALSE
        ELSE IF splitIdx < 0
        THEN ~required /\ (IsHostname(s) \/ IsIp4(s))
        ELSE (IsHostname(host) \/ IsIp4(host)) /\ port

-----------------------------------------------------------------------------
(* The calls.                                                              *)

Init ==
    /\ str \in Strings
    /\ call \in Calls
    /\ portRequired \in IF call = "isHostname" THEN {FALSE} ELSE BOOLEAN
    /\ pc = "call"
    /\ answer = FALSE

Return ==
    /\ pc = "call"
    /\ pc' = "done"
    /\ answer' = IF call = "isHostname" THEN IsHostname(str)
                 ELSE IsHostAndPort(str, portRequired)
    /\ UNCHANGED <<str, call, portRequired>>

Next == Return

-----------------------------------------------------------------------------
(* What the comments say, by the places of dots and hyphens.               *)

IsName(s) ==
    LET last == SelectLastInSeq(s, LAMBDA c : c = Dot)
    IN  /\ Len(s) \in 1 .. MaxName
        /\ ToSet(s) \subseteq Alphanumeric \cup {Hyphen, Dot}
        /\ \A i \in DOMAIN s : s[i] \in {Hyphen, Dot} =>
              /\ i \notin {1, Len(s)}
              /\ Dot \notin {s[i - 1], s[i + 1]}
        /\ \A i \in DOMAIN s : i + MaxLabel <= Len(s) =>
              \E j \in i .. i + MaxLabel : s[j] = Dot
        /\ \E i \in last + 1 .. Len(s) : s[i] \notin Digit

(* The name can have a trailing dot.                                       *)
IsDottedName(s) ==
    IsName(s) \/ (s # << >> /\ Last(s) = Dot /\ IsName(Front(s)))

IsHost(s) ==
    \/ IsDottedName(s) \/ IsIp4(s)
    \/ Len(s) > 2 /\ s[1] = Open /\ Last(s) = Close
          /\ IsIp6(SubSeq(s, 2, Len(s) - 1))

Expected ==
    IF call = "isHostname" THEN IsDottedName(str)
    ELSE \/ ~portRequired /\ IsHost(str)
         \/ \E i \in DOMAIN str :
               /\ str[i] = Colon
               /\ IsHost(Before(str, i))
               /\ Len(str) - i \in 1 .. 5
               /\ ToSet(After(str, i)) \subseteq Digit
               /\ str[i + 1] = 0 => Len(str) = i + 1
               /\ Number(After(str, i), 10) <= MaxPort

(* A name of the greatest length and a dot after it.                       *)
FullWithDot ==
    \E s \in {str} \cup {Before(str, i) : i \in DOMAIN str} :
        Len(s) = MaxName + 1 /\ Last(s) = Dot

-----------------------------------------------------------------------------
(* Properties.                                                             *)

(* isHostname accepts the names, save those that FullWithDot is about      *)
(* (library.go:1022-1055).                                                 *)
HostnameExact ==
    (pc = "done" /\ call = "isHostname" /\ ~FullWithDot)
        => (answer <=> Expected)

(* isHostAndPort accepts a host and a port, or a host where none is        *)
(* required, wherever there are other colons and brackets (library.go:     *)
(* 1070-1115).                                                             *)
HostAndPortExact ==
    (pc = "done" /\ call = "isHostAndPort" /\ ~FullWithDot)
        => (answer <=> Expected)

(* library.go:1021 says: "The name can be 253 characters at most,          *)
(* excluding the optional trailing dot."                                   *)
TrailingDotExcluded == (pc = "done" /\ call = "isHostname") => (answer <=> Expected)

==============================================================================
