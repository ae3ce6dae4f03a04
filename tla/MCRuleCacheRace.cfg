CONSTANTS
    v1 = v1
    v2 = v2
    f1 = f1
    f2 = f2
    gt = gt
    ext1 = ext1
    ext2 = ext2
    Validators = {v1, v2}
    Fields = {f1}
    Rules = {gt, ext1, ext2}
    Kinds <- OneKind
    Descriptors <- OneUnknown
    Resolvers <- KnownOrMissing
SPECIFICATION Spec
CHECK_DEADLOCK FALSE
INVARIANT NoRuleSilentlyDropped
