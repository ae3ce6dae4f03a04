CONSTANTS
    Functions = {"ip", "uri", "host"}
    IpStrings <- FewIpStrings
    Versions = {6}
    UriStrings <- FewUriStrings
    HostStrings <- FewHostStrings
    MaxName = 7
    MaxLabel = 3
    MaxPort = 65535
    IntMax = 15
    Int32Max = 3
    Mantissa = 8
    Quanta = {1, 2, 4, 8, 16, 32}
    Values = {1}
    Maps = {}
    Compared = {}
    Keys = {}
    Platforms = {}
SPECIFICATION Spec
CHECK_DEADLOCK FALSE
INVARIANT FormatsFollowRules
