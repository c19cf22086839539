SPECIFICATION Spec
CONSTANTS
    NoField = NoField
    NoLabelSelector = NoLabelSelector
    NoLabels = NoLabels
    Absent = Absent
    Served <- MCServed
    LinterGVK <- MCLinterGVK
    Recognized <- MCRecognized
    Priority <- MCPriority
    Object <- MCObject
    KindOf <- MCKindOf
    LabelSet <- MCLabelSet
    ManifestsOf <- MCManifestsOf
    ListLimit = 1
    MaxEdits = 1
INVARIANTS GroupingTypeOK BestVersionKept GroupsAsSpecified NothingMissed
