\* A failed save resets the flags and remounts the inputs.
CONSTANTS
    Null = Null
    Absent = Absent
    n1 = n1
    n2 = n2
    Fields = {"analytics", "host", "cliUrl"}
    SaaS = FALSE
    ExternalWriters = FALSE
    LostResponses = FALSE
    Trim <- MCTrim
    KeyTrim <- MCTrim
    LanguageLabel <- MCLanguageLabel
    DefaultLanguage = "en"
    DefaultGit <- MCDefaultGit
    DefaultCliInstallUrl = "d"
    ParseBudget <- MCParseBudget
    BudgetText <- MCBudgetText
    SupportedTypes <- MCOneType
    RawTypeName <- MCRawTypeName
    RawTypeLists <- MCOneTypeLists
    NewIds <- MCNewIds
    InputValues <- MCInputValues
    RepoKeys <- MCFormRepoKeys
    ApiKeyValues <- MCNoApiKey
    InitialServers <- FormServers
SPECIFICATION Spec
SYMMETRY IdSymmetry
PROPERTY FailedSaveKeepsEdits
