\* Rows built before the repository types arrive: the types that arrive
\* may leave a blank row with no type to choose.
CONSTANTS
    Null = Null
    Absent = Absent
    n1 = n1
    n2 = n2
    Fields = {"analytics"}
    SaaS = FALSE
    ExternalWriters = FALSE
    LostResponses = FALSE
    Trim <- MCTrim
    KeyTrim <- MCTrim
    LanguageLabel <- MCLanguageLabel
    DefaultLanguage = "en"
    DefaultGit <- MCDefaultGit
    DefaultCliInstallUrl = "d"
    ParseBudget <- MCParseBudget
    BudgetText <- MCBudgetText
    SupportedTypes <- MCSupportedTypes
    RawTypeName <- MCRawTypeName
    RawTypeLists <- MCRawTypeLists
    NewIds <- MCNewIds
    InputValues <- MCInputValues
    RepoKeys <- MCRepoKeys
    ApiKeyValues <- MCNoApiKey
    InitialServers <- RowServers
SPECIFICATION Spec
SYMMETRY IdSymmetry
INVARIANT BlankRowCanBeTyped
