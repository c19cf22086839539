SPECIFICATION Spec
CONSTANTS
    l1 = l1
    l2 = l2
    c1 = c1
    c2 = c2
    Absent = Absent
    NoLabels = NoLabels
    LabelSet = {l1}
    Check = {c1, c2}
    BuiltIn = {c1}
    Metered = {c1}
    Config <- MCConfig
    Namespace = {1, 2}
    Ignored = {}
    Object <- AbortsObject
    KindOf <- AbortsKindOf
    NamespaceOf <- AbortsNamespaceOf
    ManifestsOf <- AbortsManifestsOf
    NumKinds = 1
    MaxVersion = 2
    MaxNsUid = 3
    MaxFaults = 1
CHECK_DEADLOCK FALSE
INVARIANTS IInv AlarmsHaveCauses
PROPERTIES FreshEntriesKept ImplementsReporting
