CONSTANTS
    Functions = {"ip", "uri", "host", "map"}
    IpStrings <- MCIpStrings
    Versions = {0, 4, 5, 6}
    UriStrings <- MCUriStrings
    HostStrings <- MCHostStrings
    MaxName = 7
    MaxLabel = 3
    MaxPort = 65535
    IntMax = 15
    Int32Max = 3
    Mantissa = 8
    Quanta = {1, 2, 4, 8, 16, 32}
    Values = {1, 2}
    Maps <- MCMaps
    Compared <- MCCompared
    Keys <- MCKeys
    Platforms = {"saturating", "indefinite"}
SPECIFICATION FairSpec
CHECK_DEADLOCK FALSE
INVARIANTS
    TypeOK
    AddressExact
    PrefixExact
    URIExact
    ReferenceExact
    HostnameExact
    HostAndPortExact
    FindExact
    EqualSymmetric
PROPERTY Terminates
