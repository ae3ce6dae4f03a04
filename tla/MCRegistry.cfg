CONSTANTS
    linked = linked
    rules = rules
    version = version
    dynamic = dynamic
    message = message
    string = string
    other = other
    value = value
    pattern = pattern
    Files <- MCFiles
    GlobalFiles <- MCGlobalFiles
    Types <- MCTypes
    FieldNames <- MCFieldNames
    Message <- MCMessage
    FieldsOf <- MCFieldsOf
    Readers = {g1}
    MaxRegistries = 3
SPECIFICATION Spec
CHECK_DEADLOCK FALSE
INVARIANTS
    LookupExact
    KnownRegistered
    OwnTypesSeen
PROPERTIES
    NoWriteShared
