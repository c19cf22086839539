SPECIFICATION FairSpec
CONSTANTS
    l1 = l1
    l2 = l2
    c1 = c1
    c2 = c2
    Absent = Absent
    NoLabels = NoLabels
    LabelSet = {l1, l2}
    Check = {c1, c2}
    BuiltIn = {c1, c2}
    Metered = {c1, c2}
    Config <- LiveConfig
    Namespace = {1}
    Ignored = {}
    Object <- LiveObject
    KindOf <- LiveKindOf
    NamespaceOf <- LiveNamespaceOf
    ManifestsOf <- LiveManifestsOf
    NumKinds = 1
    MaxVersion = 2
    MaxNsUid = 1
    MaxFaults = 1
CHECK_DEADLOCK FALSE
PROPERTIES FixedClearedIfNotShared FailureReported DeletedForgotten ShutdownStops
