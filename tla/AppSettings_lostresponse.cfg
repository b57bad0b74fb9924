\* A save stored by the backend whose answer is lost; no other client writes.
CONSTANTS
    Null = Null
    Absent = Absent
    n1 = n1
    n2 = n2
    Fields = {"analytics", "host", "cliUrl"}
    SaaS = FALSE
    ExternalWriters = FALSE
    LostResponses = TRUE
    Trim <- MCTrim
    KeyTrim <- MCTrim
    LanguageLabel <- MCLanguageLabel
    DefaultLanguage = "en"
    DefaultGit <- MCDefaultGit
    DefaultCliInstallUrl = "d"
    ParseBudget <- MCParseBudget
    BudgetText <- MCBudgetText
    SupportedTypes <- MCOneType
    RawTypeName <- MCRawTypeName
    RawTypeLists <- MCOneTypeLists
    NewIds <- MCNewIds
    InputValues <- MCInputValues
    RepoKeys <- MCFormRepoKeys
    ApiKeyValues <- MCApiKeyValues
    InitialServers <- FormServers
SPECIFICATION Spec
SYMMETRY IdSymmetry
INVARIANT CleanFormHasNoPendingEdit
