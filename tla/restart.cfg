SPECIFICATION OperatorFairSpec
CONSTANTS
    l1 = l1
    c1 = c1
    c2 = c2
    c3 = c3
    Absent = Absent
    NoLabels = NoLabels
    Malformed = Malformed
    NoConfigMap = NoConfigMap
    LabelSet = {l1}
    Check = {c1}
    BuiltIn = {c1}
    Metered = {c1}
    Config <- OneConfig
    DefaultConfig <- MCDefault
    ZeroConfig <- MCDefault
    Namespace = {1}
    Ignored = {}
    Object <- MCObject
    KindOf <- MCKindOf
    NamespaceOf <- MCNamespaceOf
    ManifestsOf <- OneManifest
    NumKinds = 1
    MaxVersion = 1
    MaxNsUid = 1
    MaxFaults = 1
    MaxChanges = 0
    MaxForeign = 1
    MaxRestarts = 1
CHECK_DEADLOCK FALSE
PROPERTIES FailureReportedUnlessRaced
