\* The Artifactory repository rows: two repository types, keys that need
\* trimming, the types list arriving late, another client writing, and
\* save answers lost after the backend stored the save.
CONSTANTS
    Null = Null
    Absent = Absent
    n1 = n1
    n2 = n2
    Fields = {"analytics"}
    SaaS = FALSE
    ExternalWriters = TRUE
    LostResponses = TRUE
    Trim <- MCTrim
    KeyTrim <- MCTrim
    LanguageLabel <- MCLanguageLabel
    DefaultLanguage = "en"
    DefaultGit <- MCDefaultGit
    DefaultCliInstallUrl = "d"
    ParseBudget <- MCParseBudget
    BudgetText <- MCBudgetText
    SupportedTypes <- MCSupportedTypes
    RawTypeName <- MCRawTypeName
    RawTypeLists <- MCRawTypeLists
    NewIds <- MCNewIds
    InputValues <- MCInputValues
    RepoKeys <- MCRepoKeys
    ApiKeyValues <- MCNoApiKey
    InitialServers <- RowServers
SPECIFICATION Spec
SYMMETRY IdSymmetry
INVARIANT EveryRowSaved
