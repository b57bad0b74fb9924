\* Typing into the API key input resets the clear request, not the switch.
CONSTANTS
    Null = Null
    Absent = Absent
    n1 = n1
    n2 = n2
    Fields = {"analytics"}
    SaaS = FALSE
    ExternalWriters = FALSE
    LostResponses = FALSE
    Trim <- MCTrim
    KeyTrim <- MCTrim
    LanguageLabel <- MCLanguageLabel
    DefaultLanguage = "en"
    DefaultGit <- MCDefaultGit
    DefaultCliInstallUrl = "d"
    ParseBudget <- MCParseBudget
    BudgetText <- MCBudgetText
    SupportedTypes <- MCOneType
    RawTypeName <- MCRawTypeName
    RawTypeLists <- MCOneTypeLists
    NewIds <- MCNewIds
    InputValues <- MCInputValues
    RepoKeys <- MCFormRepoKeys
    ApiKeyValues <- MCApiKeyValues
    InitialServers <- FormServersKey
SPECIFICATION Spec
SYMMETRY IdSymmetry
INVARIANT ClearSwitchHonoured
