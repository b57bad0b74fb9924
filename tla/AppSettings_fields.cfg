\* The language, budget, git user name and a switch: each change handler's
\* comparison against what formAction sends for the field.
CONSTANTS
    Null = Null
    Absent = Absent
    n1 = n1
    n2 = n2
    Fields = {"language", "budget", "gitName", "sound"}
    SaaS = FALSE
    ExternalWriters = FALSE
    LostResponses = FALSE
    Trim <- MCTrim
    KeyTrim <- MCTrim
    LanguageLabel <- MCLanguageLabel
    DefaultLanguage = "en"
    DefaultGit <- MCDefaultGit
    DefaultCliInstallUrl = "d"
    ParseBudget <- MCParseBudget
    BudgetText <- MCBudgetText
    SupportedTypes <- MCOneType
    RawTypeName <- MCRawTypeName
    RawTypeLists <- MCOneTypeLists
    NewIds <- MCNewIds
    InputValues <- MCInputValues
    RepoKeys <- MCFormRepoKeys
    ApiKeyValues <- MCNoApiKey
    InitialServers <- FieldsServers
SPECIFICATION Spec
SYMMETRY IdSymmetry
INVARIANT DirtyFlagsFresh
INVARIANT CleanFormHasNoPendingEdit
