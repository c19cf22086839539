SPECIFICATION Spec
CONSTANTS
    l1 = l1
    l2 = l2
    c1 = c1
    c2 = c2
    Absent = Absent
    NoLabels = NoLabels
    LabelSet = {l1, l2}
    Check = {c1, c2}
    BuiltIn = {c1}
    Metered = {c1}
    Config <- MCConfig
    Namespace = {1}
    Ignored = {}
    Object <- GroupsObject
    KindOf <- GroupsKindOf
    NamespaceOf <- GroupsNamespaceOf
    ManifestsOf <- GroupsManifestsOf
    NumKinds = 2
    MaxVersion = 2
    MaxNsUid = 1
    MaxFaults = 0
CHECK_DEADLOCK FALSE
INVARIANTS NoReplicasCleared
