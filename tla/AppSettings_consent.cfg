\* A save sends the analytics switch even when consent was never given (null).
CONSTANTS
    Null = Null
    Absent = Absent
    n1 = n1
    n2 = n2
    Fields = {"analytics"}
    SaaS = FALSE
    ExternalWriters = FALSE
    LostResponses = FALSE
    Trim <- MCTrim
    KeyTrim <- MCTrim
    LanguageLabel <- MCLanguageLabel
    DefaultLanguage = "en"
    DefaultGit <- MCDefaultGit
    DefaultCliInstallUrl = "d"
    ParseBudget <- MCParseBudget
    BudgetText <- MCBudgetText
    SupportedTypes <- MCOneType
    RawTypeName <- MCRawTypeName
    RawTypeLists <- MCOneTypeLists
    NewIds <- MCNewIds
    InputValues <- MCInputValues
    RepoKeys <- MCFormRepoKeys
    ApiKeyValues <- MCNoApiKey
    InitialServers <- ConsentServers
SPECIFICATION Spec
SYMMETRY IdSymmetry
PROPERTY UntouchedFieldsKept
