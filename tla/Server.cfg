SPECIFICATION FairServerSpec
CONSTANTS
    f1 = f1
    f2 = f2
    none = none
    Frames = {f1, f2}
    Contexts = {x}
    Workers = {w1, w2}
    None = none
    Protected = {f1}
    Atomic = {f1}
    Unregistered = {f2}
    Failures = {"raise", "kill", "layer"}
    Changes = {"user", "context", "permission"}
    Messages <- MCMessages
    Endpoints <- MCEndpoints
    Core <- MCCore
    QueueOf <- MCQueueOf
    LayerOf <- MCLayerOf
    Settings <- MCSettings
    Offered <- MCOffered
    Variant <- MCVariant
    WellFormed <- MCWellFormed
    Default = "en"
    Joined = {"side_channel"}
    Names <- MCNames
    LanguageOf <- MCLanguageOf
    Scopes <- MCScopes
CHECK_DEADLOCK FALSE
INVARIANTS TypeOK ServerTypeOK RefusedHasNoEffect JobErrorMeansUndone OneOutcome ErrorsNamed LookupsSucceed LanguageNegotiated SpeaksLanguage TraceKept
PROPERTIES WithdrawnNotDone CommandAnswered
