SPECIFICATION OperatorFairSpec
CONSTANTS
    l1 = l1
    c1 = c1
    c2 = c2
    c3 = c3
    Absent = Absent
    NoLabels = NoLabels
    Malformed = Malformed
    NoConfigMap = NoConfigMap
    LabelSet = {l1}
    Check = {c1, c2}
    BuiltIn = {c1}
    Metered = {c1}
    Config <- LiveConfig
    DefaultConfig <- MCDefault
    ZeroConfig <- MCDefault
    Namespace = {1}
    Ignored = {}
    Object <- MCObject
    KindOf <- MCKindOf
    NamespaceOf <- MCNamespaceOf
    ManifestsOf <- NoManifests
    NumKinds = 1
    MaxVersion = 0
    MaxNsUid = 0
    MaxFaults = 0
    MaxChanges = 1
    MaxForeign = 1
    MaxRestarts = 0
CHECK_DEADLOCK FALSE
PROPERTIES ConfigConverges
