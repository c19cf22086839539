SPECIFICATION Spec
CONSTANTS
    default = default
    builtIn = builtIn
    custom = custom
    misspelled = misspelled
    comma = comma
    quote = quote
    escaped = escaped
    Name = {default, builtIn, custom, misspelled, comma, quote}
    Quoted <- MCQuoted
    MaxDepth = 7
    BuiltIn = {default, builtIn}
    Preloaded = {default, builtIn}
    Default = {default}
    Awkward = {comma}
    Lists <- MCLists
    BadSettings <- MCBadSettings
    NoFile = NoFile
    Unreadable = Unreadable
    GetDefaultChecks <- MCDefaultChecks
    MaxUpdates = 1
CHECK_DEADLOCK FALSE
INVARIANTS ProcessTypeOK EnabledAsAsked UnknownNamesIgnored CleanExit ExitHasCause
PROPERTIES NeverHalfAlive SignalEnds ResolutionEnds
