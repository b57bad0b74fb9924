--------------------------- MODULE SettingsFields ---------------------------
(***************************************************************************)
(* The scalar fields of the app settings form (routes/app-settings.tsx).   *)
(* Each field is an uncontrolled input: it is rendered with a default      *)
(* value taken from the fetched settings (Shown), its change handler       *)
(* compares the input's value with the fetched settings and sets the       *)
(* field's XHasChanged flag (Changed), and formAction reads the input from *)
(* the FormData and puts a converted value in the save payload (Sent).     *)
(*                                                                         *)
(* Strings are a small set of TLA+ strings; String.trim, the language      *)
(* table, parseMaxBudgetPerTask and the DEFAULT_SETTINGS constants are     *)
(* tables over that set, given by the MC module.                           *)
(***************************************************************************)
EXTENDS FiniteSets

CONSTANTS
    Null,                 \* JS null and undefined (?? and || treat them alike)
    Fields,               \* the scalar fields a model instance checks
    Trim,                 \* String.prototype.trim, as a table
    LanguageLabel,        \* AvailableLanguages: language code -> label
    DefaultLanguage,      \* DEFAULT_SETTINGS.LANGUAGE
    DefaultGit,           \* DEFAULT_SETTINGS.GIT_USER_NAME / GIT_USER_EMAIL
    DefaultCliInstallUrl, \* DEFAULT_SETTINGS.ARTIFACTORY_CLI_INSTALL_URL
    ParseBudget,          \* parseMaxBudgetPerTask, as a table text -> number|null
    BudgetText,           \* Number.prototype.toString over the modelled budgets
    SaaS                  \* config.APP_MODE = "saas"

SwitchFields == {"analytics", "sound", "proactive", "solvability"}
GitFields    == {"gitName", "gitEmail"}
AllFields    == {"language", "budget", "host", "cliUrl"} \cup SwitchFields \cup GitFields

\* The two switches only rendered in SaaS mode.
SaaSFields == {"proactive", "solvability"}

ASSUME Fields \subseteq AllFields
ASSUME SaaS \in BOOLEAN

\* Whether the field's input is in the DOM at all.
Rendered(f) == f \notin SaaSFields \/ SaaS

\* JS `a || b` and `a ?? b` on the modelled strings.
OrElse(a, b)   == IF a \in {Null, ""} THEN b ELSE a
Coalesce(a, b) == IF a = Null THEN b ELSE a

\* AvailableLanguages.find(({value}) => value === code)?.label
LabelOf(code) == IF code \in DOMAIN LanguageLabel THEN LanguageLabel[code] ELSE Null

\* AvailableLanguages.find(({label}) => label === v)?.label
SelectedLabel(v) ==
    IF \E c \in DOMAIN LanguageLabel : LanguageLabel[c] = v THEN v ELSE Null

\* AvailableLanguages.find(({label}) => label === v)?.value || DEFAULT_SETTINGS.LANGUAGE
LanguageCode(v) ==
    IF \E c \in DOMAIN LanguageLabel : LanguageLabel[c] = v
    THEN CHOOSE c \in DOMAIN LanguageLabel : LanguageLabel[c] = v
    ELSE DefaultLanguage

(***************************************************************************)
(* Shown(f, b): the value the input of field f is mounted with when the    *)
(* fetched settings hold b for it (defaultKey, defaultIsToggled,           *)
(* defaultValue in the JSX).                                               *)
(***************************************************************************)
Shown(f, b) ==
    CASE f = "language"         -> LabelOf(b)
      [] f \in SwitchFields     -> b = TRUE
      [] f = "budget"           -> IF b = Null THEN "" ELSE BudgetText[b]
      [] f \in GitFields        -> OrElse(b, "")
      [] f = "host"             -> OrElse(b, "")
      [] f = "cliUrl"           -> Coalesce(b, DefaultCliInstallUrl)

(***************************************************************************)
(* Changed(f, v, b): what the change handler of field f stores in its      *)
(* XHasChanged flag when the input holds v and the fetched settings b.     *)
(***************************************************************************)
\* Mutant: the selected language compared with the default language.
LanguageChangedVsDefault(v, b) == SelectedLabel(v) # LabelOf(DefaultLanguage)

LanguageChanged(v, b) == SelectedLabel(v) # LabelOf(b)

SwitchChanged(v, b) == v # (b = TRUE)

MaxBudgetPerTaskChanged(v, b) == ParseBudget[v] # b

GitChanged(v, b) == v # b

ArtifactoryHostChanged(v, b) == v # OrElse(b, "")

ArtifactoryCliInstallUrlChanged(v, b) ==
    Trim[v] # Trim[Coalesce(b, DefaultCliInstallUrl)]

Changed(f, v, b) ==
    CASE f = "language"         -> LanguageChanged(v, b)
      [] f \in SwitchFields     -> SwitchChanged(v, b)
      [] f = "budget"           -> MaxBudgetPerTaskChanged(v, b)
      [] f \in GitFields        -> GitChanged(v, b)
      [] f = "host"             -> ArtifactoryHostChanged(v, b)
      [] f = "cliUrl"           -> ArtifactoryCliInstallUrlChanged(v, b)

(***************************************************************************)
(* Sent(f, v): the value formAction puts in the payload for field f when   *)
(* its input holds v. A switch that is not rendered has no FormData entry  *)
(* and is read as off.                                                     *)
(***************************************************************************)
Sent(f, v) ==
    CASE f = "language"         -> LanguageCode(v)
      [] f \in SwitchFields     -> Rendered(f) /\ v
      [] f = "budget"           -> ParseBudget[v]
      [] f \in GitFields        -> OrElse(v, DefaultGit[f])
      [] f = "host"             -> Trim[v]
      [] f = "cliUrl"           -> Trim[v]
=============================================================================
