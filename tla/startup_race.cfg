SPECIFICATION OperatorFairSpec
CONSTANTS
    l1 = l1
    c1 = c1
    c2 = c2
    c3 = c3
    Absent = Absent
    NoLabels = NoLabels
    Malformed = Malformed
    NoConfigMap = NoConfigMap
    LabelSet = {l1}
    Check = {c1, c2, c3}
    BuiltIn = {c1, c2}
    Metered = {c1, c2}
    Config <- OneConfig
    DefaultConfig <- MCDefault
    ZeroConfig <- MCDefault
    Namespace = {1}
    Ignored = {}
    Object <- MCObject
    KindOf <- MCKindOf
    NamespaceOf <- MCNamespaceOf
    ManifestsOf <- MCManifestsOf
    NumKinds = 1
    MaxVersion = 1
    MaxNsUid = 1
    MaxFaults = 0
    MaxChanges = 0
    MaxForeign = 0
    MaxRestarts = 0
CHECK_DEADLOCK FALSE
PROPERTIES FailureReported
