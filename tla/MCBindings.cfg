CONSTANTS
    t1 = t1
    t2 = t2
    a1 = a1
    a2 = a2
    m1 = m1
    m2 = m2
    r1 = r1
    r2 = r2
    rules = rules
    clockFn = clockFn
    fixedFn = fixedFn
    filter1 = filter1
    Threads = {t1, t2}
    Pointers = {a1, a2}
    Values = {m1, m2}
    RuleValues = {rules, r1, r2}
    ProgramSets <- MCProgramSets
    Filters = {filter1}
    NowFuncs = {clockFn, fixedFn}
    Config <- MCConfig
    Calls <- MCCalls
    MaxTime = 1
    Unset = Unset
    NopFilter = NopFilter
SPECIFICATION Spec
INVARIANTS
    PoolClean
    OwnValues
    OneNow
    ResidualsSound
    OwnConfig
